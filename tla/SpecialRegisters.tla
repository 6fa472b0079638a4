-------------------------- MODULE SpecialRegisters --------------------------
(***************************************************************************)
(* Little64V3SpecialRegisterFile and its trap bank; the files of the basic *)
(* and V2 cores hold the same code.  The register file is a function from  *)
(* selector to word; an operation is one clock edge.                       *)
(***************************************************************************)
EXTENDS L64

\* the read multiplexers; an unknown selector reads zero
SpecialRead(sr, sel) == IF sel \in Selectors THEN sr[sel] ELSE 0

ReadAccessFault(sr, sel)  == UserMode(sr[CPU_CONTROL]) /\ sel # THREAD_POINTER
WriteAccessFault(sr, sel) == UserMode(sr[CPU_CONTROL]) /\ sel # THREAD_POINTER

\* trap_bank: a core write of the five trap registers hides a guest write,
\* and the core keeps a cause that is already there
TrapWrite(sr, oldCause, trap) ==
    [sr EXCEPT ![TRAP_CAUSE] = IF oldCause = 0 THEN trap.cause ELSE oldCause,
               ![TRAP_FAULT_ADDR] = trap.addr, ![TRAP_ACCESS] = trap.access,
               ![TRAP_PC] = trap.pc, ![TRAP_AUX] = trap.aux]

\* The guest write of SSR.  A core write of cpu_control wins over it, and a
\* write of the pending bits keeps the lines that are set in the same cycle.
GuestWrite(sr, w, coreControl, lines) ==
    IF w.sel \notin Selectors \/ (w.sel = CPU_CONTROL /\ coreControl)
    THEN sr
    ELSE [sr EXCEPT ![w.sel] = IF w.sel = INTERRUPT_STATES_HIGH
                               THEN SetBits(w.data, lines) ELSE w.data]

\* One edge.  control: <<>> or <<new cpu_control>>; saved: <<>> or <<control
\* to save>>; entered: <<>> or <<epc, eflags>>; trap: <<>> or <<trap>>;
\* write: <<>> or <<[sel, data]>> already past the access check; lines: the
\* interrupt lines to make pending.
SpecialClock(sr, control, saved, entered, trap, write, lines) ==
    LET s1 == IF control = <<>> THEN sr ELSE [sr EXCEPT ![CPU_CONTROL] = control[1]]
        s2 == IF saved = <<>> THEN s1 ELSE [s1 EXCEPT ![INTERRUPT_CPU_CONTROL] = saved[1]]
        s3 == IF entered = <<>> THEN s2
              ELSE [s2 EXCEPT ![INTERRUPT_EPC] = entered[1], ![INTERRUPT_EFLAGS] = entered[2]]
        s4 == IF write = <<>>
              THEN [s3 EXCEPT ![INTERRUPT_STATES_HIGH] = SetBits(@, lines)]
              ELSE GuestWrite(s3, write[1], control # <<>>, lines)
    IN IF trap = <<>> THEN s4 ELSE TrapWrite(s4, sr[TRAP_CAUSE], trap[1])

\* mutant: only a new root flushes
TlbFlushRootOnly(control, write) == write # <<>> /\ write[1].sel = PAGE_TABLE_ROOT

\* tlb_flush: any write of cpu_control and a guest write of the root
TlbFlush(control, write) ==
    \/ control # <<>>
    \/ write # <<>> /\ write[1].sel \in {CPU_CONTROL, PAGE_TABLE_ROOT}

\* The pending interrupt of lowest number among the lines and the latched
\* bits that the mask lets through; 0 when there is none.
PendingIrq(sr, lines) ==
    LET ready == {i \in 1 .. 4 : /\ Bit(sr[INTERRUPT_MASK_HIGH], i)
                                 /\ i \in lines \/ Bit(sr[INTERRUPT_STATES_HIGH], i)}
    IN IF ready = {} THEN 0 ELSE FIRST_HW_IRQ - 1 + Min(ready)

\* can_preempt_pending_irq
CanPreempt(c, vector) == ~InInterrupt(c) \/ CurInt(c) = 0 \/ CurInt(c) > vector

\* trap_preempt_lockup: an exception inside an exception handler of the
\* same or a higher priority
PreemptLockup(c, cause) ==
    InInterrupt(c) /\ CurInt(c) # 0 /\ CurInt(c) < FIRST_HW_IRQ /\ CurInt(c) <= cause
=============================================================================
