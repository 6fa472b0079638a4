------------------------------ MODULE BasicCore ------------------------------
(***************************************************************************)
(* Little64Core, the basic core: a state machine that takes one            *)
(* instruction at a time through fetch, execute, translation and memory.   *)
(* One step is one clock edge; every action is one case of the switch on   *)
(* the state.  The MMU and the TLB are built in; the reset cycle is over.  *)
(*                                                                         *)
(* The core has no bus watchdog: the buses are assumed to answer within    *)
(* BusTimeout cycles.                                                      *)
(***************************************************************************)
EXTENDS V3Stages, HdlTlb, Lsu

CONSTANTS Programs

ASSUME ProgramsAssumption == \A p \in Programs : IsProgram(p)

VARIABLES
    prog,       \* the program in memory
    regs, flags, resv, mem, sr,
    st,         \* CoreState
    halted, locked, commit_valid,
    fetch,      \* [pc, phys]: fetch_pc, fetch_phys_addr
    instr,      \* current_instruction
    pending,    \* <<>> or the memory operation [op, addr, next_pc]
    fault_pc,   \* pending_fault_pc
    first,      \* [data, cycle]: split_first_data, split_first_cycle
    walk,       \* <<>> or the page walk [va, table, level, access, resume, pte]
    entry,      \* <<>> or the interrupt entry [vector, epc, phys]
    tlb,
    wait        \* external: cycles the current bus request has waited

arch == <<regs, flags, resv, mem>>
vars == <<prog, arch, sr, st, halted, locked, commit_valid, fetch, instr, pending, fault_pc,
          first, walk, entry, tlb, wait>>

Init ==
    /\ prog \in Programs
    /\ regs = prog.regs
    /\ flags = <<FALSE, FALSE, FALSE>>
    /\ resv = <<>>
    /\ mem = prog.mem
    /\ sr = prog.sr
    /\ st = "FETCH_TRANSLATE"
    /\ halted = FALSE /\ locked = FALSE /\ commit_valid = FALSE
    /\ fetch = [pc |-> 0, phys |-> 0] /\ instr = Unassigned
    /\ pending = <<>> /\ fault_pc = 0 /\ first = [data |-> NoBytes, cycle |-> FALSE]
    /\ walk = <<>> /\ entry = <<>> /\ tlb = TlbReset /\ wait = 0

-----------------------------------------------------------------------------
Paging == PagingOn(sr[CPU_CONTROL])
User   == UserMode(sr[CPU_CONTROL])

\* The execute state computes what the execute stage of V3 computes.
BasicLdi(i, a, n) == ExecuteLdi(i, a, n)
BasicLs(i, a, b, f, n) == ExecuteLs(i, a, b, f, n)
BasicLsPc(i, a, f, n) == ExecuteLsPc(i, a, f, n)
BasicAlu(i, a, b, n) == ExecuteAlu(i, a, b, n)
BasicAtomic(i, a, b, f, res, n) == ExecuteAtomic(i, a, b, f, res, n)
BasicSystem(i, a, b, s, n) == ExecuteSystem(i, a, b, s, n)

Outputs ==
    LET n == NopOutputs(Plus(fetch.pc, 2))
        a == ReadReg(regs, instr.rd)
        b == ReadReg(regs, instr.rs1)
    IN CASE instr.op = "LDI" -> BasicLdi(instr, a, n)
         [] instr.op = "UJMP" -> [n EXCEPT !.next_pc = Plus(@, instr.imm)]
         [] instr.op = "ALU" -> BasicAlu(instr, a, b, n)
         [] instr.op \in {"LLR", "SCR"} -> BasicAtomic(instr, a, b, flags, resv, n)
         [] instr.op \in {"LOAD", "STORE", "PUSH", "POP", "MOVE", "JUMP"} ->
               IF instr.pcrel THEN BasicLsPc(instr, a, flags, n) ELSE BasicLs(instr, a, b, flags, n)
         [] OTHER -> BasicSystem(instr, a, b, sr, n)

\* The order of the checks in WALK_PROCESS: the reserved bits of a superpage
\* leaf are not looked at.
BasicWalkFault(pte, level, access, user) ==
    IF level > 0 /\ WalkIsLeaf(pte)
    THEN WalkFault([pte EXCEPT !.rsv = FALSE], level, access, user)
    ELSE WalkFault(pte, level, access, user)

\* A translation in one of the three translate states
Translation(va, access) ==
    IF ~Paging THEN "done"
    ELSE IF EntryFault(va, sr) # <<>> THEN "fault"
    ELSE IF TlbHit(tlb, va, access, User) THEN "done" ELSE "walk"
Physical(va) == IF Paging THEN TlbPhys(tlb, va) ELSE va

\* The data beat of a pending operation, in the terms of the LSU
Beat ==
    [st |-> IF st \in {"MEM_LOAD_SPLIT", "MEM_STORE_SPLIT"} THEN "SECOND" ELSE "FIRST",
     first |-> first.data,
     req |-> [kind |-> "data", addr |-> pending[1].addr, width |-> pending[1].op.width,
              write |-> pending[1].op.write, value |-> pending[1].op.value]]

\* mutant: the width of the store is left out of the comparison
AfterStoreNoWidth(res, op) ==
    IF res # <<>> /\ op.addr < res[1] + WordBytes /\ res[1] < op.addr THEN <<>> ELSE res

\* store_overlaps_reservation
AfterStore(res, op) ==
    IF res # <<>> /\ op.addr < res[1] + WordBytes /\ res[1] < op.addr + op.width THEN <<>> ELSE res

-----------------------------------------------------------------------------
\* The special registers; a write of the pending register hides the lines.
BasicSpecialClock(control, saved, entered, trap, write, lines) ==
    SpecialClock(sr, control, saved, entered, trap, write,
                 IF write # <<>> /\ write[1].sel = INTERRUPT_STATES_HIGH THEN {} ELSE lines)

BasicTlbClock(control, write, fill) == TlbClock(tlb, TlbFlush(control, write), fill)

\* The edge of the special registers and of the TLB
Clock(control, saved, entered, trap, write, fill, lines) ==
    /\ sr' = BasicSpecialClock(control, saved, entered, trap, write, lines)
    /\ tlb' = BasicTlbClock(control, write, fill)

Quiet(lines) == Clock(<<>>, <<>>, <<>>, <<>>, <<>>, <<>>, lines)

\* write_reg
WriteReg(r, value) == IF r = 0 THEN regs ELSE [regs EXCEPT ![r] = value]

Goto(state) == st' = state /\ UNCHANGED <<locked, halted>>

\* enter_lockup
EnterLockup == locked' = TRUE /\ st' = "HALTED" /\ UNCHANGED halted

\* begin_interrupt_entry, with the trap registers when there is a trap
BeginInterruptEntry(vector, epc, trap, lines) ==
    /\ Clock(<<EntryControl(sr[CPU_CONTROL], vector)>>, <<sr[CPU_CONTROL]>>, <<>>, trap, <<>>, <<>>, lines)
    /\ entry' = <<[vector |-> vector, epc |-> epc, phys |-> 0]>>
    /\ pending' = <<>> /\ walk' = <<>>
    /\ Goto("INTERRUPT_VECTOR_TRANSLATE")

RaiseSyncTrap(trap, lines) ==
    IF PreemptLockup(sr[CPU_CONTROL], trap.cause)
    THEN Quiet(lines) /\ EnterLockup /\ UNCHANGED <<entry, pending, walk>>
    ELSE BeginInterruptEntry(trap.cause, trap.pc, <<trap>>, lines)

StartWalk(va, access, resume) ==
    /\ walk' = <<[va |-> va, table |-> PageOf(sr[PAGE_TABLE_ROOT]), level |-> 2,
                  access |-> access, resume |-> resume, pte |-> <<>>]>>
    /\ Goto("WALK")

\* a cycle in which the bus does not answer
Waiting(b, lines) ==
    /\ b = "wait" /\ wait' = wait + 1 /\ commit_valid' = FALSE
    /\ Quiet(lines)
    /\ UNCHANGED <<prog, arch, st, halted, locked, fetch, instr, pending, fault_pc, first, walk, entry>>

-----------------------------------------------------------------------------
\* mutant: interrupts are looked at only where the address needs no translation
IrqTakenUnpaged(vector) ==
    vector # 0 /\ IntEnable(sr[CPU_CONTROL]) /\ CanPreempt(sr[CPU_CONTROL], vector) /\ ~Paging

IrqTaken(vector) ==
    vector # 0 /\ IntEnable(sr[CPU_CONTROL]) /\ CanPreempt(sr[CPU_CONTROL], vector)

\* FETCH_TRANSLATE: alignment, a pending interrupt, then the translation
FetchTranslate(lines) ==
    LET pc == regs[15]
        vector == PendingIrq(sr, lines)
        xl == Translation(pc, "X")
        fault == IF pc % 2 = 1 THEN <<EXEC_ALIGN, EncodeAux(0, 0)>> ELSE EntryFault(pc, sr)
        irq == IrqTaken(vector)
    IN /\ st = "FETCH_TRANSLATE"
       /\ commit_valid' = FALSE
       /\ UNCHANGED <<prog, arch, instr, first, wait>>
       /\ IF pc % 2 = 1 \/ (~irq /\ xl = "fault")
          THEN /\ RaiseSyncTrap(TrapInfo(fault[1], pc, AccessCode("X"), pc, fault[2]), lines)
               /\ UNCHANGED <<fetch, fault_pc>>
          ELSE IF irq
          THEN BeginInterruptEntry(vector, pc, <<>>, lines) /\ UNCHANGED <<fetch, fault_pc>>
          ELSE /\ Quiet(lines) /\ UNCHANGED <<pending, entry>>
               /\ IF xl = "done"
                  THEN /\ fetch' = [fetch EXCEPT !.phys = Physical(pc)]
                       /\ Goto("FETCH") /\ UNCHANGED <<walk, fault_pc>>
                  ELSE /\ StartWalk(pc, "X", "FETCH") /\ fault_pc' = pc /\ UNCHANGED fetch

\* FETCH: the instruction bus
FetchWord(b, lines) ==
    /\ st = "FETCH" /\ b # "wait"
    /\ Quiet(lines) /\ commit_valid' = FALSE /\ wait' = 0
    /\ IF b = "err" THEN EnterLockup /\ UNCHANGED <<fetch, instr>>
       ELSE /\ fetch' = [fetch EXCEPT !.pc = regs[15]]
            /\ instr' = Fetch(prog.code, fetch.phys)
            /\ Goto("EXECUTE")
    /\ UNCHANGED <<prog, arch, pending, fault_pc, first, walk, entry>>

\* EXECUTE: an instruction that ends here
ExecuteRegister(o, lines) ==
    /\ st = "EXECUTE" /\ o.trap = 0 /\ o.memory = <<>>
    /\ regs' = WriteBack(regs, o.writes, o.next_pc)
    /\ flags' = IF o.flags = <<>> THEN flags ELSE o.flags[1]
    /\ resv' = IF o.clear_reservation THEN <<>> ELSE resv
    /\ Clock(o.control, <<>>, <<>>, <<>>, o.special, <<>>, lines)
    /\ commit_valid' = TRUE
    /\ halted' = o.halt
    /\ st' = IF o.halt THEN "HALTED" ELSE "FETCH_TRANSLATE"
    /\ UNCHANGED <<prog, mem, locked, fetch, instr, pending, fault_pc, first, walk, entry, wait>>

ExecuteTrap(o, lines) ==
    /\ st = "EXECUTE" /\ o.trap # 0
    /\ RaiseSyncTrap(TrapInfo(o.trap, 0, 0, fetch.pc, 0), lines)
    /\ commit_valid' = FALSE
    /\ UNCHANGED <<prog, arch, fetch, instr, fault_pc, first, wait>>

\* EXECUTE: a memory operation is latched.  PUSH moves its pointer and SCR
\* sets its flag and gives the reservation up before the store is tried.
ExecuteMemory(o, lines) ==
    LET op == o.memory[1]
        moved == op.write /\ op.post # <<>>
    IN /\ st = "EXECUTE" /\ o.trap = 0
       /\ regs' = IF moved THEN WriteReg(op.post[1].index, op.post[1].value) ELSE regs
       /\ flags' = IF op.flags = <<>> THEN flags ELSE op.flags[1]
       /\ resv' = IF op.flags = <<>> THEN resv ELSE <<>>
       /\ pending' = <<[op |-> IF moved THEN [op EXCEPT !.post = <<>>] ELSE op,
                        addr |-> op.addr, next_pc |-> o.next_pc]>>
       /\ fault_pc' = fetch.pc
       /\ Quiet(lines) /\ commit_valid' = FALSE /\ Goto("MEM_TRANSLATE")
       /\ UNCHANGED <<prog, mem, fetch, instr, first, walk, entry, wait>>

MemTranslate(lines) ==
    LET op == pending[1].op
        access == IF op.write THEN "W" ELSE "R"
        after == IF op.write THEN "MEM_STORE" ELSE "MEM_LOAD"
        xl == Translation(op.addr, access)
        fault == EntryFault(op.addr, sr)
    IN /\ st = "MEM_TRANSLATE"
       /\ commit_valid' = FALSE
       /\ UNCHANGED <<prog, arch, fetch, instr, fault_pc, first, wait>>
       /\ CASE xl = "fault" ->
                 RaiseSyncTrap(TrapInfo(fault[1], op.addr, AccessCode(access), fault_pc, fault[2]), lines)
            [] xl = "done" ->
                 /\ pending' = <<[pending[1] EXCEPT !.addr = Physical(op.addr)]>>
                 /\ Quiet(lines) /\ Goto(after) /\ UNCHANGED <<walk, entry>>
            [] xl = "walk" ->
                 Quiet(lines) /\ StartWalk(op.addr, access, after) /\ UNCHANGED <<pending, entry>>

\* A load is complete: its registers, its reservation, the chained store.
LoadDone(op, loaded) ==
    /\ resv' = IF op.reserve THEN <<op.addr>> ELSE resv
    /\ IF op.chain # <<>>
       THEN LET post == op.post[1] IN
            /\ regs' = WriteReg(post.index, post.value)
            /\ pending' = <<[pending[1] EXCEPT !.op = MemoryOp(op.chain[1], WordBytes, TRUE, loaded),
                                               !.addr = op.chain[1]]>>
            /\ commit_valid' = FALSE /\ Goto("MEM_TRANSLATE")
       ELSE /\ regs' = WriteBack(regs, MemoryWrites(op, loaded),
                                 MemoryNextPc(op, loaded, pending[1].next_pc))
            /\ pending' = <<>>
            /\ commit_valid' = TRUE /\ Goto("FETCH_TRANSLATE")

\* MEM_LOAD and MEM_LOAD_SPLIT; the second beat starts with an idle cycle
MemLoad(b, lines) ==
    LET split == st = "MEM_LOAD" /\ SplitNeeded(Beat.req) IN
    /\ st \in {"MEM_LOAD", "MEM_LOAD_SPLIT"} /\ b # "wait" /\ ~first.cycle
    /\ Quiet(lines) /\ wait' = 0
    /\ IF b = "err"
       THEN EnterLockup /\ commit_valid' = FALSE /\ UNCHANGED <<regs, resv, pending, first>>
       ELSE IF split
       THEN /\ first' = [data |-> BusWord(mem, pending[1].addr), cycle |-> TRUE]
            /\ commit_valid' = FALSE /\ Goto("MEM_LOAD_SPLIT")
            /\ UNCHANGED <<regs, resv, pending>>
       ELSE LoadDone(pending[1].op, LsuLoad(Beat, mem)) /\ UNCHANGED first
    /\ UNCHANGED <<prog, flags, mem, fetch, instr, fault_pc, walk, entry>>

\* MEM_STORE and MEM_STORE_SPLIT
MemStore(b, lines) ==
    LET op == pending[1].op
        split == st = "MEM_STORE" /\ SplitNeeded(Beat.req)
    IN /\ st \in {"MEM_STORE", "MEM_STORE_SPLIT"} /\ b # "wait" /\ ~first.cycle
       /\ Quiet(lines) /\ wait' = 0
       /\ IF b = "err"
          THEN EnterLockup /\ commit_valid' = FALSE /\ UNCHANGED <<regs, resv, mem, pending, first>>
          ELSE /\ mem' = StoreBytes(mem, pending[1].addr, BeatLanes(Beat), op.value)
               /\ IF split
                  THEN /\ first' = [first EXCEPT !.cycle = TRUE]
                       /\ commit_valid' = FALSE /\ Goto("MEM_STORE_SPLIT")
                       /\ UNCHANGED <<regs, resv, pending>>
                  ELSE /\ resv' = AfterStore(resv, op)
                       /\ regs' = WriteBack(regs, MemoryWrites(op, 0), pending[1].next_pc)
                       /\ pending' = <<>>
                       /\ commit_valid' = TRUE /\ Goto("FETCH_TRANSLATE") /\ UNCHANGED first
       /\ UNCHANGED <<prog, flags, fetch, instr, fault_pc, walk, entry>>

\* mutant: the idle cycle between two beats does not end
SplitCycleStays(lines) ==
    /\ first.cycle /\ Quiet(lines) /\ commit_valid' = FALSE
    /\ UNCHANGED <<prog, arch, st, halted, locked, fetch, instr, pending, fault_pc, first, walk, entry, wait>>

\* the idle cycle between two beats
SplitCycle(lines) ==
    /\ first.cycle /\ first' = [first EXCEPT !.cycle = FALSE]
    /\ Quiet(lines) /\ commit_valid' = FALSE
    /\ UNCHANGED <<prog, arch, st, halted, locked, fetch, instr, pending, fault_pc, walk, entry, wait>>

InterruptVectorTranslate(lines) ==
    LET va == Plus(sr[INTERRUPT_TABLE_BASE], entry[1].vector)
        xl == Translation(va, "R")
    IN /\ st = "INTERRUPT_VECTOR_TRANSLATE"
       /\ Quiet(lines) /\ commit_valid' = FALSE
       /\ CASE xl = "fault" -> EnterLockup /\ UNCHANGED <<entry, walk>>
            [] xl = "done" -> /\ entry' = <<[entry[1] EXCEPT !.phys = Physical(va)]>>
                              /\ Goto("INTERRUPT_VECTOR_LOAD") /\ UNCHANGED walk
            [] xl = "walk" -> StartWalk(va, "R", "INTERRUPT_VECTOR_LOAD") /\ UNCHANGED entry
       /\ UNCHANGED <<prog, arch, fetch, instr, pending, fault_pc, first, wait>>

InterruptVectorLoad(b, lines) ==
    LET handler == HandlerAt(entry[1].phys) IN
    /\ st = "INTERRUPT_VECTOR_LOAD" /\ b # "wait" /\ wait' = 0
    /\ commit_valid' = FALSE
    /\ IF b = "err" \/ handler = 0
       THEN Quiet(lines) /\ EnterLockup /\ UNCHANGED <<regs, entry>>
       ELSE /\ Clock(<<>>, <<>>, <<entry[1].epc, FlagsWord(flags)>>, <<>>, <<>>, <<>>, lines)
            /\ regs' = [regs EXCEPT ![15] = handler]
            /\ entry' = <<>> /\ Goto("FETCH_TRANSLATE")
    /\ UNCHANGED <<prog, flags, resv, mem, fetch, instr, pending, fault_pc, first, walk>>

Walk(b, lines) ==
    /\ st = "WALK" /\ b # "wait" /\ wait' = 0
    /\ Quiet(lines) /\ commit_valid' = FALSE
    /\ IF b = "err" THEN EnterLockup /\ UNCHANGED walk
       ELSE /\ walk' = <<[walk[1] EXCEPT !.pte = WalkEntry(walk[1].table, walk[1].level, PageOf(walk[1].va))]>>
            /\ Goto("WALK_PROCESS")
    /\ UNCHANGED <<prog, arch, fetch, instr, pending, fault_pc, first, entry>>

WalkProcess(lines) ==
    LET w == walk[1]
        fault == BasicWalkFault(w.pte, w.level, w.access, User)
        phys == WalkPhys(w.pte, w.level, w.va)
    IN /\ st = "WALK_PROCESS"
       /\ commit_valid' = FALSE
       /\ IF fault # <<>>
          THEN /\ IF w.resume = "INTERRUPT_VECTOR_LOAD"
                  THEN Quiet(lines) /\ EnterLockup /\ UNCHANGED <<entry, pending, walk>>
                  ELSE RaiseSyncTrap(TrapInfo(fault[1], w.va, AccessCode(w.access), fault_pc, fault[2]), lines)
               /\ UNCHANGED fetch
          ELSE IF WalkIsLeaf(w.pte)
          THEN /\ Clock(<<>>, <<>>, <<>>, <<>>, <<>>, WalkFill(w), lines)
               /\ fetch' = IF w.resume = "FETCH" THEN [fetch EXCEPT !.phys = phys] ELSE fetch
               /\ entry' = IF w.resume = "INTERRUPT_VECTOR_LOAD"
                           THEN <<[entry[1] EXCEPT !.phys = phys]>> ELSE entry
               /\ pending' = IF w.resume \in {"MEM_LOAD", "MEM_STORE"}
                             THEN <<[pending[1] EXCEPT !.addr = phys]>> ELSE pending
               /\ walk' = <<>> /\ Goto(w.resume)
          ELSE /\ Quiet(lines)
               /\ walk' = <<[w EXCEPT !.table = w.pte.ppn, !.level = @ - 1, !.pte = <<>>]>>
               /\ Goto("WALK") /\ UNCHANGED <<fetch, entry, pending>>
       /\ UNCHANGED <<prog, arch, instr, fault_pc, first, wait>>

\* HALTED, for STOP and for a lockup
Halt(lines) ==
    /\ st = "HALTED"
    /\ halted' = (halted \/ ~locked)
    /\ Quiet(lines) /\ commit_valid' = FALSE
    /\ UNCHANGED <<prog, arch, st, locked, fetch, instr, pending, fault_pc, first, walk, entry, wait>>

-----------------------------------------------------------------------------
\* External: the bus of the current state answers or makes the core wait.
Requesting ==
    /\ st \in {"FETCH", "MEM_LOAD", "MEM_LOAD_SPLIT", "MEM_STORE", "MEM_STORE_SPLIT",
               "WALK", "INTERRUPT_VECTOR_LOAD"}
    /\ ~first.cycle
Answers ==
    IF ~Requesting THEN {"none"}
    ELSE {"ack"} \cup (IF prog.faulty THEN {"err"} ELSE {})
                 \cup (IF wait + 1 < BusTimeout THEN {"wait"} ELSE {})

Next ==
    \E b \in Answers, lines \in SUBSET prog.lines :
        \/ Waiting(b, lines)
        \/ FetchTranslate(lines) \/ FetchWord(b, lines)
        \/ /\ st = "EXECUTE"
           /\ \E o \in {Outputs} :
                 \/ ExecuteRegister(o, lines) \/ ExecuteTrap(o, lines)
                 \/ o.memory # <<>> /\ ExecuteMemory(o, lines)
        \/ MemTranslate(lines) \/ MemLoad(b, lines) \/ MemStore(b, lines) \/ SplitCycle(lines)
        \/ InterruptVectorTranslate(lines) \/ InterruptVectorLoad(b, lines)
        \/ Walk(b, lines) \/ WalkProcess(lines)
        \/ Halt(lines)

\* The clock never stops.
Spec == Init /\ [][Next]_vars /\ WF_vars(Next)

-----------------------------------------------------------------------------
\* The state a program sees.  PUSH, SCR and the chained stores change a
\* register or a flag before their store; they count as done from then on.
Early == pending # <<>> /\ pending[1].op.write /\ instr.op # "STORE"
Target == Translate(pending[1].op.addr, "W", sr).phys
DoneRegs == IF Early THEN [regs EXCEPT ![15] = pending[1].next_pc] ELSE regs
DoneMemory ==
    IF Early THEN StoreBytes(mem, Target, 0 .. (pending[1].op.width - 1), pending[1].op.value) ELSE mem
DoneReservation == IF Early THEN AfterStore(resv, pending[1].op) ELSE resv
DoneSpecial ==
    IF entry # <<>>
    THEN [sr EXCEPT ![INTERRUPT_EPC] = entry[1].epc, ![INTERRUPT_EFLAGS] = FlagsWord(flags)]
    ELSE sr
Mode == IF locked THEN "locked" ELSE IF st = "HALTED" THEN "halted"
        ELSE IF entry # <<>> THEN "entry" ELSE "run"

Arch == INSTANCE Isa WITH regs <- DoneRegs, mem <- DoneMemory, resv <- DoneReservation,
                          sr <- DoneSpecial, mode <- Mode

\* The core implements the program's machine: an instruction takes effect
\* once, as a whole, whatever walks, splits and waits it needs, unless a PUSH
\* moves the stack pointer before its store faults (FaultingPush in MCBasic).
ImplementsIsa == Arch!Spec

\* No translation outlives its address space: the edge that changes the
\* control word (paging, privilege, a trap entry or its return) or the root
\* leaves no entry that can answer, also when a walk fills one or the
\* generation counter wraps in the same cycle.
SwitchFlushes ==
    [][\/ sr'[CPU_CONTROL] # sr[CPU_CONTROL]
       \/ sr'[PAGE_TABLE_ROOT] # sr[PAGE_TABLE_ROOT]
       => Live(tlb') = {}]_vars

\* The core keeps committing until it halts or locks up.
KeepsCommitting == []<>(commit_valid \/ st = "HALTED")

\* An interrupt that is pending, unmasked, enabled and of higher priority is
\* not left waiting forever.
Deliverable ==
    LET vector == PendingIrq(sr, {}) IN
    /\ st # "HALTED"
    /\ vector # 0 /\ IntEnable(sr[CPU_CONTROL]) /\ CanPreempt(sr[CPU_CONTROL], vector)
InterruptsTaken == Deliverable ~> ~Deliverable
=============================================================================
