-------------------------------- MODULE Cpu --------------------------------
(***************************************************************************)
(* Little64CPU::cycle() as a trap machine: fetch, dispatch, exceptions,    *)
(* the self-loop detector and IRQ delivery, in the order the code does     *)
(* them.  One action is one whole cycle() of one class of instruction.     *)
(*                                                                         *)
(* The guest is arbitrary: any instruction may come next, and while paging *)
(* is on any translation may fault.  General registers, flags and data     *)
(* memory are left out; what remains of an instruction is what it does to  *)
(* PC and the trap registers.  trap_fault_addr, trap_access and trap_aux   *)
(* are written with trap_cause, interrupt_eflags with interrupt_epc.  A    *)
(* device that raises its line in the middle of an instruction is a step   *)
(* of the device before that instruction: pending bits are read last.      *)
(***************************************************************************)
EXTENDS Integers, FiniteSets

CONSTANTS
    PcSize,      \* addresses are 0 .. PcSize-1; the code has 2^64
    Targets,     \* addresses that jumps, loads into R15 and SSR epc produce
    Handlers,    \* non-zero words found in the vector table
    PageFaults,  \* vectors a translation may fail with
    Irqs,        \* vectors devices use
    FailedLoads, \* what a faulting load returns: ones in 8, 16, 32 or 64 bits
    CtlValues,   \* words software writes to cpu_control and to its saved copy
    MaskValues   \* masks software writes

NoTrap      == 0
Exceptions  == 1 .. 9
IrqVectors  == 65 .. 127
NoMapping   == -1           \* the vector table entry does not translate
Vectors     == 0 .. 127

Pc       == 0 .. (PcSize - 1)

Control  == [ie : BOOLEAN, inInt : BOOLEAN, cur : Vectors,
             paging : BOOLEAN, user : BOOLEAN]

ASSUME CpuAssumption ==
    /\ PcSize \in Nat /\ PcSize > 2 /\ PcSize % 2 = 0
    /\ Targets \subseteq Pc
    /\ Handlers \subseteq Pc \ {0} /\ Handlers # {}
    /\ PageFaults \subseteq 5 .. 8
    /\ Irqs \subseteq IrqVectors
    /\ FailedLoads \subseteq {p \in Pc : p % 2 = 1}
    /\ CtlValues \subseteq Control
    /\ MaskValues \subseteq SUBSET Irqs

VARIABLES
    cpu,    \* the registers this module keeps, and isRunning
    last    \* ghost: what the last cycle() did

vars == <<cpu, last>>

Registers ==
    [pc : Pc, ctl : Control, ictl : Control, epc : Pc, cause : Vectors,
     tpc : Pc, pend : SUBSET Irqs, mask : SUBSET Irqs, run : BOOLEAN]

\* What the last step was: the class of instruction or event, and the
\* exception and the IRQ that _raiseInterrupt was last called for in it.
\* "write_pc" is an instruction that wrote R15 after an access, and
\* "double_fault" one whose two accesses both failed.
Kinds == {"event", "reset", "fetch", "plain", "load_store", "write_pc",
          "push_pop_pcrel", "double_fault", "ll_sc", "trap", "iret", "ssr"}

Cycle == [kind : Kinds, exc : Vectors, irq : Vectors]

TypeOK == cpu \in Registers /\ last \in Cycle

Did(kind, exc, irq) == [kind |-> kind, exc |-> exc, irq |-> irq]

\* registers = {}, with R15 at the entry point
PowerOn(entry) ==
    LET zero == [ie |-> FALSE, inInt |-> FALSE, cur |-> NoTrap,
                 paging |-> FALSE, user |-> FALSE]
    IN  [pc |-> entry, ctl |-> zero, ictl |-> zero, epc |-> 0,
         cause |-> NoTrap, tpc |-> 0, pend |-> {}, mask |-> {}, run |-> TRUE]

Init ==
    /\ \E entry \in Targets : cpu = PowerOn(entry)
    /\ last = Did("reset", NoTrap, NoTrap)

-----------------------------------------------------------------------------
\* (Definitions named after a slip, here and in the other modules, are the
\* mutants that PROJECT.json pairs with the definition below them.)

\* _raiseInterrupt.  h is the word the vector table holds for num: a handler,
\* 0, or NoMapping if the table entry does not translate in supervisor mode.
BlockedStrictly(s, num) == s.ctl.inInt /\ s.ctl.cur # NoTrap /\ s.ctl.cur < num

Blocked(s, num) == s.ctl.inInt /\ s.ctl.cur # NoTrap /\ s.ctl.cur <= num

Entered(s, num) ==
    [s EXCEPT !.ictl = s.ctl,
              !.ctl = [s.ctl EXCEPT !.user = FALSE, !.inInt = TRUE,
                                    !.ie = FALSE, !.cur = num]]

Vector(s, num, epc, h) ==
    IF h = NoMapping THEN [Entered(s, num) EXCEPT !.run = FALSE]
    ELSE IF h = 0 THEN [s EXCEPT !.run = FALSE]
    ELSE [Entered(s, num) EXCEPT !.epc = epc, !.pc = h]

RaiseWithoutLockup(s, num, epc, h) ==
    IF Blocked(s, num) THEN s ELSE Vector(s, num, epc, h)

RaiseException(s, num, epc, h) ==
    IF Blocked(s, num)
    THEN IF s.ctl.cur \in Exceptions THEN [s EXCEPT !.run = FALSE] ELSE s
    ELSE IF h = NoMapping /\ ~s.run THEN s
    ELSE Vector(s, num, epc, h)

RaiseIrq(s, num, h) ==
    IF s.ctl.ie /\ num \in s.mask /\ ~Blocked(s, num)
    THEN Vector(s, num, s.pc, h)
    ELSE s

\* Every raise of an exception is preceded by these two assignments, so the
\* "if trap_cause is not set" of _raiseInterrupt never finds it unset.
Except(s, num, opc, h) ==
    RaiseException([s EXCEPT !.cause = num, !.tpc = opc], num, opc, h)

\* A vector table entry translates whenever paging is off.
Entries(s) == Handlers \cup {0} \cup {n \in {NoMapping} : s.ctl.paging}

\* Outcomes of translating an address: none, or a fault and what the vector
\* table then holds for it.
NoFault == [v |-> NoTrap, h |-> 0]

DataFaults(s) ==
    IF s.ctl.paging THEN {NoFault} \cup [v : PageFaults, h : Entries(s)]
                    ELSE {NoFault}

FetchFaults(s) ==
    IF s.pc % 2 = 1 THEN [v : {1}, h : Entries(s)] ELSE DataFaults(s)

AccessMemory(s, x, opc) ==
    IF x.v = NoTrap THEN s ELSE Except(s, x.v, opc, x.h)

-----------------------------------------------------------------------------
\* The tail of cycle(): the self-loop detector returns early, otherwise at
\* most one IRQ is taken, the pending unmasked one of lowest vector.  A STOP
\* does not keep an IRQ from being taken.
SelfLoop(pc, s) == s.run /\ s.pc = pc /\ ~s.ctl.ie

Deliverable(s) == IF s.ctl.ie THEN s.pend \cap s.mask ELSE {}

SelectedHighest(s) ==
    CHOOSE v \in Deliverable(s) : \A w \in Deliverable(s) : v >= w

Selected(s) == CHOOSE v \in Deliverable(s) : \A w \in Deliverable(s) : v <= w

Tail(s, kind, exc) ==
    \/ /\ SelfLoop(cpu.pc, s)
       /\ cpu' = [s EXCEPT !.run = FALSE]
       /\ last' = Did(kind, exc, NoTrap)
    \/ /\ ~SelfLoop(cpu.pc, s)
       /\ Deliverable(s) = {}
       /\ cpu' = s
       /\ last' = Did(kind, exc, NoTrap)
    \/ /\ ~SelfLoop(cpu.pc, s)
       /\ Deliverable(s) # {}
       /\ \E h \in Entries(s) : cpu' = RaiseIrq(s, Selected(s), h)
       /\ last' = Did(kind, exc, Selected(s))

FetchedUnwrapped == [cpu EXCEPT !.pc = @ + 2]

\* The head of cycle() when the fetch succeeds: PC is advanced first.
Fetched == [cpu EXCEPT !.pc = (@ + 2) % PcSize]

Runs == cpu.run /\ NoFault \in FetchFaults(cpu)

ExecutedAsNop(s) == [s EXCEPT !.pc = (@ + 2) % PcSize]

\* A fetch that faults reads as 0xFFFF, the unconditional jump of -1, which
\* is executed at the handler's address and comes back to it.
JumpBack(s) == [s EXCEPT !.pc = (@ + 2 - 2) % PcSize]

FetchFault ==
    /\ cpu.run
    /\ \E x \in FetchFaults(cpu) \ {NoFault} :
          LET s == AccessMemory(cpu, x, cpu.pc) IN
          \/ ~s.run /\ cpu' = s /\ last' = Did("fetch", x.v, NoTrap)
          \/ s.run /\ Tail(JumpBack(s), "fetch", x.v)

\* Arithmetic, LDI, MOVE, a jump not taken: PC only advances.
Plain == Runs /\ Tail(Fetched, "plain", NoTrap)

\* Any instruction that writes R15 from a register, PC or an immediate.
Jump ==
    /\ Runs
    /\ \E t \in Targets : Tail([Fetched EXCEPT !.pc = t], "plain", NoTrap)

\* A load or a store of one access that writes no R15 after it; d is what a
\* PUSH moves its stack pointer by before the access, if that is R15.
LoadStore ==
    /\ Runs
    /\ \E x \in DataFaults(cpu), d \in {-8, 0} :
          LET s == [Fetched EXCEPT !.pc = (@ + d) % PcSize] IN
          Tail(AccessMemory(s, x, cpu.pc), "load_store", x.v)

\* What a load with that outcome puts in its register.
Loaded(x) == IF x = NoFault THEN Targets ELSE FailedLoads

\* LOAD or POP into R15, POP with R15 as the stack pointer, or both: the
\* register is written after the access, whatever became of it.
LoadPc ==
    /\ Runs
    /\ \E x \in DataFaults(cpu) :
          LET s == AccessMemory(Fetched, x, cpu.pc) IN
          \E t \in Loaded(x) \cup {(p + 8) % PcSize : p \in {s.pc} \cup Loaded(x)} :
              Tail([s EXCEPT !.pc = t], "write_pc", x.v)

\* PC-relative PUSH and POP: a load, then a store whatever became of it; d
\* is what the stack pointer moved by in between if that is R15.
PushPopPcRel ==
    /\ Runs
    /\ \E x \in DataFaults(cpu), y \in DataFaults(cpu), d \in {-8, 0, 8} :
          LET s == AccessMemory(Fetched, x, cpu.pc)
              t == [s EXCEPT !.pc = (@ + d) % PcSize]
              u == AccessMemory(t, y, cpu.pc)
          IN  \/ x = NoFault /\ Tail(u, "push_pop_pcrel", y.v)
              \/ x # NoFault /\ y # NoFault /\ Tail(u, "double_fault", y.v)
              \/ /\ x # NoFault /\ y = NoFault
                 /\ Tail(u, IF d = 0 THEN "push_pop_pcrel" ELSE "write_pc", x.v)

\* LLR and SCR name the already advanced PC as the operation's PC; LLR may
\* write R15.
LoadLinkedStoreConditional ==
    /\ Runs
    /\ \E x \in DataFaults(cpu) :
          LET s == AccessMemory(Fetched, x, Fetched.pc) IN
          \/ Tail(s, "ll_sc", x.v)
          \/ \E t \in Loaded(x) : Tail([s EXCEPT !.pc = t], "write_pc", x.v)

Syscall ==
    /\ Runs
    /\ \E h \in Entries(cpu) :
          LET num == IF cpu.ctl.user THEN 3 ELSE 4 IN
          Tail(Except(Fetched, num, cpu.pc, h), "trap", num)

\* LSR or SSR of a supervisor selector, IRET or STOP in user mode
Privileged ==
    /\ Runs /\ cpu.ctl.user
    /\ \E h \in Entries(cpu) : Tail(Except(Fetched, 2, cpu.pc, h), "trap", 2)

InvalidInstruction ==
    /\ Runs
    /\ \E h \in Entries(cpu) : Tail(Except(Fetched, 9, cpu.pc, h), "trap", 9)

IretUnchecked ==
    /\ Runs
    /\ Tail([Fetched EXCEPT !.pc = cpu.epc, !.ctl = cpu.ictl], "iret", NoTrap)

Iret ==
    /\ Runs /\ ~cpu.ctl.user
    /\ Tail([Fetched EXCEPT !.pc = cpu.epc, !.ctl = cpu.ictl], "iret", NoTrap)

Stop ==
    /\ Runs /\ ~cpu.ctl.user
    /\ Tail([Fetched EXCEPT !.run = FALSE], "plain", NoTrap)

\* SSR of the trap registers; of the values software may put in trap_cause,
\* the one a handler does.
Ssr ==
    /\ Runs /\ ~cpu.ctl.user
    /\ \E s \in {[Fetched EXCEPT !.ctl = c] : c \in CtlValues}
           \cup {[Fetched EXCEPT !.ictl = c] : c \in CtlValues}
           \cup {[Fetched EXCEPT !.epc = t] : t \in Targets}
           \cup {[Fetched EXCEPT !.tpc = t] : t \in Targets}
           \cup {[Fetched EXCEPT !.cause = NoTrap]}
           \cup {[Fetched EXCEPT !.mask = m] : m \in MaskValues}
           \cup {[Fetched EXCEPT !.pend = p] : p \in SUBSET Irqs} :
          Tail(s, "ssr", NoTrap)

\* assertInterrupt and clearInterrupt, called by a device
AssertInterrupt(v) ==
    /\ cpu' = [cpu EXCEPT !.pend = @ \cup {v}]
    /\ last' = Did("event", NoTrap, NoTrap)

ClearInterrupt(v) ==
    /\ cpu' = [cpu EXCEPT !.pend = @ \ {v}]
    /\ last' = Did("event", NoTrap, NoTrap)

Reset ==
    /\ cpu' = PowerOn(0)
    /\ last' = Did("reset", NoTrap, NoTrap)

Next ==
    \/ FetchFault \/ Plain \/ Jump \/ LoadStore \/ LoadPc \/ PushPopPcRel
    \/ LoadLinkedStoreConditional \/ Syscall \/ Privileged
    \/ InvalidInstruction \/ Iret \/ Stop \/ Ssr
    \/ \E v \in Irqs : AssertInterrupt(v) \/ ClearInterrupt(v)
    \/ Reset

Spec == Init /\ [][Next]_vars

-----------------------------------------------------------------------------
\* Cycles whose trap frame is not that of one fault of one instruction: R15
\* is written after an access that failed, a second access failed too, or
\* another PC than the operation's was reported.
Irregular == {"write_pc", "double_fault", "ll_sc"}

\* The handler being entered has preempted, before its first instruction,
\* that of a page fault it outranks: the saved control word is the other's.
Preempted(s) ==
    \E v \in PageFaults : s.ctl.cur < v /\ s.ictl = [s.ctl EXCEPT !.cur = v]

\* No exception goes unnoticed.  After the cycle that raised one the CPU has
\* stopped, or it is at a handler's first instruction, in supervisor mode with
\* IRQs off, as the handler of the exception that was raised last and that
\* trap_cause names; if the instruction's first access had failed too, the
\* second exception outranks the first, which the saved control word still
\* names.  Only an instruction that writes R15 after its failed access (LOAD,
\* POP or LLR into R15) may be elsewhere: it has replaced the handler's address.
ExceptionNotDropped ==
    last.exc # NoTrap /\ cpu.run =>
        /\ cpu.ctl.inInt /\ ~cpu.ctl.user /\ ~cpu.ctl.ie
        /\ cpu.ctl.cur = last.exc /\ cpu.cause = last.exc
        /\ last.kind # "write_pc" => cpu.pc \in Handlers
        /\ last.kind = "double_fault" => Preempted(cpu)

\* No IRQ is overlooked: a cycle that ends with IRQs enabled leaves pending
\* and unmasked only those that the handler being run outranks, although
\* the tail of cycle() looks at a single vector.
NoMissedIrq ==
    [][last'.kind \notin {"event", "reset"} /\ cpu'.run /\ cpu'.ctl.ie =>
          \A v \in cpu'.pend \cap cpu'.mask : Blocked(cpu', v)]_vars

\* Nesting descends: unless software rewrites cpu_control, a handler is left
\* for another one only if that has a strictly lower vector, also when one
\* instruction faults twice or an IRQ follows it.
NestingDescends ==
    [][/\ last'.kind \notin {"ssr", "iret", "event", "reset"}
       /\ cpu'.run /\ cpu.ctl.inInt /\ cpu.ctl.cur # NoTrap
       => \/ last'.exc = NoTrap /\ cpu'.ctl = cpu.ctl
          \/ cpu'.ctl.cur < cpu.ctl.cur]_vars

\* The trap frame is exact: the handler starts at the vector table's word
\* and IRET from it re-executes the faulting instruction under the control
\* word it had.  This includes a fetch fault, whose 0xFFFF is executed as a
\* jump at the handler's address before the handler starts.
TrapFrame ==
    [][last'.exc # NoTrap /\ last'.kind \notin Irregular /\ cpu'.run =>
          /\ cpu'.pc \in Handlers
          /\ cpu'.epc = cpu.pc /\ cpu'.tpc = cpu.pc
          /\ cpu'.ictl = cpu.ctl]_vars

\* User mode is left only through a trap entry: the next instruction is the
\* handler's, with IRQs off, unless a failed access wrote R15 after it.
UserLeftByTrap ==
    [][cpu.ctl.user /\ ~cpu'.ctl.user /\ cpu'.run /\ last'.kind # "reset" =>
          /\ cpu'.ctl.inInt /\ ~cpu'.ctl.ie
          /\ cpu'.ctl.cur \in {last'.exc, last'.irq} \ {NoTrap}
          /\ \/ cpu'.pc \in Handlers
             \/ last'.kind = "write_pc" /\ last'.exc # NoTrap]_vars

-----------------------------------------------------------------------------
\* The documented rule for nesting: an exception that preempts a handler
\* leaves a trap_cause that is already set as it is.
NestedCausePreserved ==
    [][last'.exc # NoTrap /\ cpu.ctl.inInt /\ cpu.cause # NoTrap /\ cpu'.run
          => cpu'.cause = cpu.cause]_vars

\* The documented meaning of trap_pc: the PC of the faulting instruction.
TrapPcIsFaultingPc == [][last'.exc # NoTrap => cpu'.tpc = cpu.pc]_vars
=============================================================================
