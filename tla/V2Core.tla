------------------------------- MODULE V2Core -------------------------------
(***************************************************************************)
(* Little64V2Core: a state machine of one instruction at a time in front   *)
(* of a fetch frontend, an LSU and a data cache that run on their own.     *)
(* One step is one clock edge; every action is one case of the switch on   *)
(* the state.  The MMU and the TLB are built in; the reset cycle is over.  *)
(*                                                                         *)
(* The translate registers hold, in each translate state, the address that *)
(* state is about: R15, the memory operation's, the interrupt table's.     *)
(***************************************************************************)
EXTENDS V3Stages, HdlTlb, LineCache, Lsu, Frontend

CONSTANTS Programs

ASSUME ProgramsAssumption == \A p \in Programs : IsProgram(p)

\* A bus watchdog of one cycle would fail every access: the LSU looks at the
\* answer in the second cycle of a beat.
ASSUME V2Assumption ==
    BusTimeout \in Nat /\ BusTimeout >= 2 /\ FetchTimeout \in Nat \ {0}

VARIABLES
    prog,       \* the program in memory
    regs, flags, resv, mem, sr,
    st,         \* V2PipelineState
    locked,
    fetch_phys, \* fetch_phys_addr
    cur,        \* current_instruction
    exe,        \* <<>> or the execute latch [i, pc, a, b]
    wb,         \* <<>> or the execute_complete or writeback latch [writes, flags, next_pc]
    mo,         \* <<>> or the memory operation [op, addr, next_pc]
    fault_pc,   \* mem_fault_pc
    walk,       \* <<>> or the page walk [va, table, level, access, kind, pte]
    entry,      \* <<>> or the interrupt entry [vector, epc, phys]
    started,    \* lsu_started
    fe, lsu, dcache, tlb

arch == <<regs, flags, resv>>
vars == <<prog, arch, mem, sr, st, locked, fetch_phys, cur, exe, wb, mo, fault_pc, walk, entry,
          started, fe, lsu, dcache, tlb>>

Init ==
    /\ prog \in Programs
    /\ regs = prog.regs
    /\ flags = <<FALSE, FALSE, FALSE>>
    /\ resv = <<>>
    /\ mem = prog.mem
    /\ sr = prog.sr
    /\ st = "FETCH_TRANSLATE" /\ locked = FALSE
    /\ fetch_phys = regs[15] /\ cur = Unassigned
    /\ exe = <<>> /\ wb = <<>> /\ mo = <<>> /\ fault_pc = 0 /\ walk = <<>> /\ entry = <<>>
    /\ started = FALSE
    /\ fe = FrontendReset /\ lsu = LsuReset /\ dcache = CacheReset /\ tlb = TlbReset

-----------------------------------------------------------------------------
Paging == PagingOn(sr[CPU_CONTROL])
User   == UserMode(sr[CPU_CONTROL])

\* The units of the core repeat the logic of the V3 units.
V2LsuClock(l, d, request, m) == LsuClock(l, d, request, m)
\* mutant: a store does not update the line
V2CacheClockStale(c, flush, invalidate, update, fill) == CacheClock(c, flush, invalidate, <<>>, fill)
V2CacheClock(c, flush, invalidate, update, fill) == CacheClock(c, flush, invalidate, update, fill)
V2FrontendClock(f, i, line) == FrontendClock(f, i, line, FALSE)
V2TlbClock(t, flush, fill) == TlbClock(t, flush, fill)
V2SpecialClock(s, control, saved, entered, trap, write, lines) ==
    SpecialClock(s, control, saved, entered, trap, write, lines)

\* The execute state computes what the execute stage of V3 computes, but a
\* store-conditional that fails keeps the reservation.
V2Ldi(i, a, n) == ExecuteLdi(i, a, n)
V2Ls(i, a, b, f, n) == ExecuteLs(i, a, b, f, n)
V2LsPc(i, a, f, n) == ExecuteLsPc(i, a, f, n)
V2Alu(i, a, b, n) == ExecuteAlu(i, a, b, n)
V2Atomic(i, a, b, f, res, n) ==
    [ExecuteAtomic(i, a, b, f, res, n) EXCEPT !.clear_reservation = FALSE]
V2System(i, a, b, s, n) == ExecuteSystem(i, a, b, s, n)

Outputs ==
    LET i == exe[1].i
        a == exe[1].a
        b == exe[1].b
        n == NopOutputs(Plus(exe[1].pc, 2))
    IN CASE i.op = "LDI" -> V2Ldi(i, a, n)
         [] i.op = "UJMP" -> [n EXCEPT !.next_pc = Plus(@, i.imm)]
         [] i.op = "ALU" -> V2Alu(i, a, b, n)
         [] i.op \in {"LLR", "SCR"} -> V2Atomic(i, a, b, flags, resv, n)
         [] i.op \in {"LOAD", "STORE", "PUSH", "POP", "MOVE", "JUMP"} ->
               IF i.pcrel THEN V2LsPc(i, a, flags, n) ELSE V2Ls(i, a, b, flags, n)
         [] OTHER -> V2System(i, a, b, sr, n)

\* A translation in one of the three translate states
Translation(va, access) ==
    IF ~Paging THEN "done"
    ELSE IF EntryFault(va, sr) # <<>> THEN "fault"
    ELSE IF TlbHit(tlb, va, access, User) THEN "done" ELSE "walk"
Physical(va) == IF Paging THEN TlbPhys(tlb, va) ELSE va

\* mem_single_line_access, and a load the data cache answers
SingleLine == (mo[1].addr % WordBytes) + mo[1].op.width <= WordBytes
Cached == ~mo[1].op.write /\ SingleLine /\ CacheHit(dcache, mo[1].addr) /\ ~started

\* lsu_request_valid and its operands: asked for in the first cycle of the
\* state whether or not the cache answers and whether or not the LSU listens
Requesting == st \in {"MEMORY", "WALK", "INTERRUPT_VECTOR_LOAD"}
Request ==
    CASE st = "WALK" ->
           [NoRequest EXCEPT !.kind = "pte",
                             !.addr = WalkPteAddr(walk[1].table, walk[1].level, PageOf(walk[1].va))]
      [] st = "INTERRUPT_VECTOR_LOAD" -> [NoRequest EXCEPT !.kind = "vec", !.addr = entry[1].phys]
      [] st = "MEMORY" ->
           [kind |-> "data", addr |-> mo[1].addr, width |-> mo[1].op.width,
            write |-> mo[1].op.write, value |-> mo[1].op.value]
LsuRequest == IF Requesting /\ ~started THEN <<Request>> ELSE <<>>

-----------------------------------------------------------------------------
\* What every state clocks: the frontend, the LSU and the memory behind it
Units(i, d) ==
    /\ fe' = V2FrontendClock(fe, i, LineOf(fetch_phys))
    /\ lsu' = V2LsuClock(lsu, d, LsuRequest, mem)
    /\ mem' = LsuMemory(lsu, d, mem)
    /\ started' = (Requesting /\ st' = st)
    /\ UNCHANGED prog

\* the special registers and the TLB
Clock(control, saved, entered, trap, write, fill, lines) ==
    LET set == IF write # <<>> /\ write[1].sel = INTERRUPT_STATES_HIGH THEN {} ELSE lines IN
    /\ sr' = V2SpecialClock(sr, control, saved, entered, trap, write, set)
    /\ tlb' = V2TlbClock(tlb, TlbFlush(control, write), fill)

Quiet(lines) == Clock(<<>>, <<>>, <<>>, <<>>, <<>>, <<>>, lines)

Goto(state) == st' = state /\ UNCHANGED locked

\* enter_lockup
EnterLockup == locked' = TRUE /\ st' = "STALLED"

\* begin_interrupt_entry, with the trap registers when there is a trap
BeginInterruptEntry(vector, epc, trap, lines) ==
    /\ Clock(<<EntryControl(sr[CPU_CONTROL], vector)>>, <<sr[CPU_CONTROL]>>, <<>>, trap, <<>>, <<>>, lines)
    /\ entry' = <<[vector |-> vector, epc |-> epc, phys |-> 0]>>
    /\ mo' = <<>> /\ walk' = <<>>
    /\ Goto("INTERRUPT_VECTOR_TRANSLATE")

RaiseSyncTrap(trap, lines) ==
    IF PreemptLockup(sr[CPU_CONTROL], trap.cause)
    THEN Quiet(lines) /\ EnterLockup /\ UNCHANGED <<entry, mo, walk>>
    ELSE BeginInterruptEntry(trap.cause, trap.pc, <<trap>>, lines)

StartWalk(va, access, kind) ==
    /\ walk' = <<[va |-> va, table |-> PageOf(sr[PAGE_TABLE_ROOT]), level |-> 2,
                  access |-> access, kind |-> kind, pte |-> <<>>]>>
    /\ Goto("WALK")

-----------------------------------------------------------------------------
\* mutant: interrupts are looked at only where the address needs no translation
IrqTakenUnpaged(vector) ==
    vector # 0 /\ IntEnable(sr[CPU_CONTROL]) /\ CanPreempt(sr[CPU_CONTROL], vector) /\ ~Paging

IrqTaken(vector) ==
    vector # 0 /\ IntEnable(sr[CPU_CONTROL]) /\ CanPreempt(sr[CPU_CONTROL], vector)

\* FETCH_TRANSLATE: alignment, a pending interrupt, then the translation
FetchTranslate(lines) ==
    LET pc == regs[15]
        vector == PendingIrq(sr, lines)
        xl == Translation(pc, "X")
        fault == IF pc % 2 = 1 THEN <<EXEC_ALIGN, EncodeAux(0, 0)>> ELSE EntryFault(pc, sr)
        irq == IrqTaken(vector)
    IN /\ st = "FETCH_TRANSLATE"
       /\ UNCHANGED <<arch, cur, exe, wb, dcache>>
       /\ IF pc % 2 = 1 \/ (~irq /\ xl = "fault")
          THEN /\ RaiseSyncTrap(TrapInfo(fault[1], pc, AccessCode("X"), pc, fault[2]), lines)
               /\ UNCHANGED <<fetch_phys, fault_pc>>
          ELSE IF irq
          THEN BeginInterruptEntry(vector, pc, <<>>, lines) /\ UNCHANGED <<fetch_phys, fault_pc>>
          ELSE /\ Quiet(lines) /\ UNCHANGED <<mo, entry>>
               /\ IF xl = "done"
                  THEN /\ fetch_phys' = Physical(pc)
                       /\ Goto("FETCH_REQUEST") /\ UNCHANGED <<walk, fault_pc>>
                  ELSE StartWalk(pc, "X", "fetch") /\ fault_pc' = pc /\ UNCHANGED fetch_phys

\* FETCH_REQUEST: the frontend has the line, has failed, or has neither yet
FetchRequest(i, lines) ==
    /\ st = "FETCH_REQUEST"
    /\ Quiet(lines)
    /\ IF FetchError(fe, i) THEN EnterLockup /\ UNCHANGED cur
       ELSE IF LineHit(fe, LineOf(fetch_phys))
       THEN cur' = Fetch(prog.code, fetch_phys) /\ Goto("DECODE")
       ELSE UNCHANGED <<st, locked, cur>>
    /\ UNCHANGED <<arch, fetch_phys, exe, wb, mo, fault_pc, walk, entry, dcache>>

Decode(lines) ==
    /\ st = "DECODE"
    /\ exe' = <<[i |-> cur, pc |-> regs[15], a |-> ReadReg(regs, cur.rd),
                 b |-> ReadReg(regs, cur.rs1)]>>
    /\ Quiet(lines) /\ Goto("EXECUTE")
    /\ UNCHANGED <<arch, fetch_phys, cur, wb, mo, fault_pc, walk, entry, dcache>>

\* EXECUTE: the result goes to the writeback latch, an ALU result through
\* EXECUTE_COMPLETE; IRET and STOP write their own state.
ExecuteRegister(o, lines) ==
    /\ o.trap = 0 /\ o.memory = <<>>
    /\ Clock(o.control, <<>>, <<>>, <<>>, o.special, <<>>, lines)
    /\ IF o.halt \/ o.control # <<>>
       THEN /\ regs' = [regs EXCEPT ![15] = o.next_pc]
            /\ flags' = IF o.flags = <<>> THEN flags ELSE o.flags[1]
            /\ wb' = <<>>
            /\ Goto(IF o.halt THEN "HALTED" ELSE "FETCH_TRANSLATE")
       ELSE /\ wb' = <<[writes |-> o.writes, flags |-> o.flags, next_pc |-> o.next_pc]>>
            /\ Goto(IF exe[1].i.op = "ALU" THEN "EXECUTE_COMPLETE" ELSE "WRITEBACK")
            /\ UNCHANGED <<regs, flags>>
    /\ resv' = IF o.clear_reservation THEN <<>> ELSE resv
    /\ mo' = <<>> /\ UNCHANGED <<fetch_phys, cur, exe, fault_pc, walk, entry, dcache>>

ExecuteTrap(o, lines) ==
    /\ o.trap # 0
    /\ RaiseSyncTrap(TrapInfo(o.trap, 0, 0, exe[1].pc, 0), lines)
    /\ UNCHANGED <<arch, fetch_phys, cur, exe, wb, fault_pc, dcache>>

ExecuteMemory(o, lines) ==
    /\ o.trap = 0 /\ o.memory # <<>>
    /\ mo' = <<[op |-> o.memory[1], addr |-> o.memory[1].addr, next_pc |-> o.next_pc]>>
    /\ fault_pc' = exe[1].pc
    /\ Quiet(lines) /\ Goto("MEM_TRANSLATE")
    /\ UNCHANGED <<arch, fetch_phys, cur, exe, wb, walk, entry, dcache>>

\* EXECUTE_COMPLETE only moves its latch on.
ExecuteComplete(lines) ==
    /\ st = "EXECUTE_COMPLETE"
    /\ Quiet(lines) /\ Goto("WRITEBACK")
    /\ UNCHANGED <<arch, fetch_phys, cur, exe, wb, mo, fault_pc, walk, entry, dcache>>

Writeback(lines) ==
    /\ st = "WRITEBACK"
    /\ regs' = WriteBack(regs, wb[1].writes, wb[1].next_pc)
    /\ flags' = IF wb[1].flags = <<>> THEN flags ELSE wb[1].flags[1]
    /\ wb' = <<>>
    /\ Quiet(lines) /\ Goto("FETCH_TRANSLATE")
    /\ UNCHANGED <<resv, fetch_phys, cur, exe, mo, fault_pc, walk, entry, dcache>>

MemTranslate(lines) ==
    LET op == mo[1].op
        access == IF op.write THEN "W" ELSE "R"
        xl == Translation(op.addr, access)
        fault == EntryFault(op.addr, sr)
    IN /\ st = "MEM_TRANSLATE"
       /\ UNCHANGED <<arch, fetch_phys, cur, exe, wb, fault_pc, dcache>>
       /\ CASE xl = "fault" ->
                 RaiseSyncTrap(TrapInfo(fault[1], op.addr, AccessCode(access), fault_pc, fault[2]), lines)
            [] xl = "done" -> /\ mo' = <<[mo[1] EXCEPT !.addr = Physical(op.addr)]>>
                              /\ Quiet(lines) /\ Goto("MEMORY") /\ UNCHANGED <<walk, entry>>
            [] xl = "walk" ->
                 Quiet(lines) /\ StartWalk(op.addr, access, "memory") /\ UNCHANGED <<mo, entry>>

\* The writeback latch of a finished access.  The cached path takes it
\* without looking for a chained store.
MemoryResult(op, loaded) ==
    [writes |-> MemoryWrites(op, loaded), flags |-> op.flags,
     next_pc |-> MemoryNextPc(op, loaded, mo[1].next_pc)]

\* store_overlaps_reservation
AfterStore(res, op) ==
    IF op.write /\ res # <<>> /\ op.addr < res[1] + WordBytes /\ res[1] < op.addr + op.width
    THEN <<>> ELSE res
\* mutant: a store leaves the reservation alone
ReservedKept(op) == IF op.reserve THEN <<op.addr>> ELSE resv
Reserved(op) == IF op.reserve THEN <<op.addr>> ELSE AfterStore(resv, op)

\* the store a load is chained to
ChainedStore(op, loaded) ==
    [MemoryOp(op.chain[1], WordBytes, TRUE, loaded) EXCEPT !.post = op.post]

\* MEMORY with an answer of the LSU: fill, update or flush the cache, then
\* the chained store or the writeback
MemoryAnswer(op, loaded) ==
    /\ dcache' = V2CacheClock(dcache, op.write /\ ~SingleLine, <<>>,
                              IF op.write THEN <<mo[1].addr, op.width, op.value>> ELSE <<>>,
                              IF ~op.write /\ op.width = WordBytes /\ mo[1].addr % WordBytes = 0
                              THEN <<mo[1].addr, LsuLoad(lsu, mem)>> ELSE <<>>)
    /\ resv' = Reserved(op)
    /\ IF op.chain # <<>>
       THEN /\ mo' = <<[mo[1] EXCEPT !.op = ChainedStore(op, LsuLoad(lsu, mem)),
                                      !.addr = op.chain[1]]>>
            /\ Goto("MEM_TRANSLATE") /\ UNCHANGED wb
       ELSE wb' = <<MemoryResult(op, loaded)>> /\ mo' = <<>> /\ Goto("WRITEBACK")

Memory(d, lines) ==
    LET op == mo[1].op
        cached == CacheLoad(dcache, mo[1].addr, op.width)
    IN /\ st = "MEMORY"
       /\ Quiet(lines)
       /\ IF LsuDone(lsu, d)
          THEN IF LsuError(lsu, d) THEN EnterLockup /\ UNCHANGED <<resv, wb, mo, dcache>>
               ELSE MemoryAnswer(op, IF Cached THEN cached ELSE LsuLoad(lsu, mem))
          ELSE IF Cached
          THEN /\ resv' = IF op.reserve THEN <<op.addr>> ELSE resv
               /\ wb' = <<MemoryResult(op, cached)>> /\ mo' = <<>>
               /\ Goto("WRITEBACK") /\ UNCHANGED dcache
          ELSE UNCHANGED <<st, locked, resv, wb, mo, dcache>>
       /\ UNCHANGED <<regs, flags, fetch_phys, cur, exe, fault_pc, walk, entry>>

Walk(d, lines) ==
    /\ st = "WALK"
    /\ Quiet(lines)
    /\ IF ~LsuDone(lsu, d) THEN UNCHANGED <<st, locked, walk>>
       ELSE IF LsuError(lsu, d) THEN EnterLockup /\ UNCHANGED walk
       ELSE walk' = <<[walk[1] EXCEPT !.pte = LsuLoad(lsu, mem)]>> /\ Goto("WALK_PROCESS")
    /\ UNCHANGED <<arch, fetch_phys, cur, exe, wb, mo, fault_pc, entry, dcache>>

WalkProcess(lines) ==
    LET w == walk[1]
        fault == WalkFault(w.pte, w.level, w.access, User)
        phys == WalkPhys(w.pte, w.level, w.va)
    IN /\ st = "WALK_PROCESS"
       /\ IF fault # <<>>
          THEN /\ IF w.kind = "vector"
                  THEN Quiet(lines) /\ EnterLockup /\ UNCHANGED <<entry, mo, walk>>
                  ELSE RaiseSyncTrap(TrapInfo(fault[1], w.va, AccessCode(w.access), fault_pc, fault[2]), lines)
               /\ UNCHANGED fetch_phys
          ELSE IF WalkIsLeaf(w.pte)
          THEN /\ Clock(<<>>, <<>>, <<>>, <<>>, <<>>, WalkFill(w), lines)
               /\ fetch_phys' = IF w.kind = "fetch" THEN phys ELSE fetch_phys
               /\ entry' = IF w.kind = "vector" THEN <<[entry[1] EXCEPT !.phys = phys]>> ELSE entry
               /\ mo' = IF w.kind = "memory" THEN <<[mo[1] EXCEPT !.addr = phys]>> ELSE mo
               /\ walk' = <<>>
               /\ Goto(CASE w.kind = "fetch" -> "FETCH_REQUEST"
                         [] w.kind = "vector" -> "INTERRUPT_VECTOR_LOAD"
                         [] w.kind = "memory" -> "MEMORY")
          ELSE /\ Quiet(lines)
               /\ walk' = <<[w EXCEPT !.table = w.pte.ppn, !.level = @ - 1, !.pte = <<>>]>>
               /\ Goto("WALK") /\ UNCHANGED <<fetch_phys, entry, mo>>
       /\ UNCHANGED <<arch, cur, exe, wb, fault_pc, dcache>>

InterruptVectorTranslate(lines) ==
    LET va == Plus(sr[INTERRUPT_TABLE_BASE], entry[1].vector)
        xl == Translation(va, "R")
    IN /\ st = "INTERRUPT_VECTOR_TRANSLATE"
       /\ Quiet(lines)
       /\ CASE xl = "fault" -> EnterLockup /\ UNCHANGED <<entry, walk>>
            [] xl = "done" -> /\ entry' = <<[entry[1] EXCEPT !.phys = Physical(va)]>>
                              /\ Goto("INTERRUPT_VECTOR_LOAD") /\ UNCHANGED walk
            [] xl = "walk" -> StartWalk(va, "R", "vector") /\ UNCHANGED entry
       /\ UNCHANGED <<arch, fetch_phys, cur, exe, wb, mo, fault_pc, dcache>>

InterruptVectorLoad(d, lines) ==
    LET handler == LsuLoad(lsu, mem) IN
    /\ st = "INTERRUPT_VECTOR_LOAD"
    /\ IF ~LsuDone(lsu, d)
       THEN Quiet(lines) /\ UNCHANGED <<regs, st, locked, entry>>
       ELSE IF LsuError(lsu, d) \/ handler = 0
       THEN Quiet(lines) /\ EnterLockup /\ UNCHANGED <<regs, entry>>
       ELSE /\ Clock(<<>>, <<>>, <<entry[1].epc, FlagsWord(flags)>>, <<>>, <<>>, <<>>, lines)
            /\ regs' = [regs EXCEPT ![15] = handler]
            /\ entry' = <<>> /\ Goto("FETCH_TRANSLATE")
    /\ UNCHANGED <<flags, resv, fetch_phys, cur, exe, wb, mo, fault_pc, walk, dcache>>

\* STALLED and HALTED
Stopped(lines) ==
    /\ st \in {"STALLED", "HALTED"}
    /\ Quiet(lines)
    /\ UNCHANGED <<arch, st, locked, fetch_phys, cur, exe, wb, mo, fault_pc, walk, entry, dcache>>

-----------------------------------------------------------------------------
\* External: the buses answer a request that is out, or make it wait.  A
\* slave answers no earlier than the cycle after the strobe, and one that
\* does not fail answers before the watchdog.
Answers(out, watchdog) ==
    IF ~out THEN {"wait"}
    ELSE IF prog.faulty THEN {"wait", "ack", "err"}
    ELSE IF watchdog THEN {"ack"} ELSE {"wait", "ack"}
IBus == Answers(fe.req, fe.wd + 1 >= FetchTimeout)
DBus == Answers(LsuActive(lsu) /\ lsu.started, lsu.wd + 1 >= BusTimeout)

Next ==
    \E i \in IBus, d \in DBus, lines \in SUBSET prog.lines :
        /\ \/ FetchTranslate(lines) \/ FetchRequest(i, lines) \/ Decode(lines)
           \/ /\ st = "EXECUTE"
              /\ \E o \in {Outputs} :
                    ExecuteRegister(o, lines) \/ ExecuteTrap(o, lines) \/ ExecuteMemory(o, lines)
           \/ ExecuteComplete(lines) \/ Writeback(lines)
           \/ MemTranslate(lines) \/ Memory(d, lines)
           \/ Walk(d, lines) \/ WalkProcess(lines)
           \/ InterruptVectorTranslate(lines) \/ InterruptVectorLoad(d, lines)
           \/ Stopped(lines)
        /\ Units(i, d)

\* The clock never stops.
Spec == Init /\ [][Next]_vars /\ WF_vars(Next)

-----------------------------------------------------------------------------
\* The state a program sees.  The instruction in the execute_complete or
\* writeback latch is done, and so is a split store whose first beat the
\* memory has performed; an entry has saved what it will save.
Beaten == lsu.st = "SECOND" /\ lsu.req.write
Done == IF Beaten THEN <<MemoryResult(mo[1].op, 0)>> ELSE wb
DoneRegs == IF Done # <<>> THEN WriteBack(regs, Done[1].writes, Done[1].next_pc) ELSE regs
DoneFlags == IF Done # <<>> /\ Done[1].flags # <<>> THEN Done[1].flags[1] ELSE flags
DoneMemory ==
    IF Beaten THEN StoreBytes(mem, mo[1].addr, 0 .. (mo[1].op.width - 1), mo[1].op.value) ELSE mem
DoneReservation == IF Beaten THEN AfterStore(resv, mo[1].op) ELSE resv
DoneSpecial ==
    IF entry # <<>>
    THEN [sr EXCEPT ![INTERRUPT_EPC] = entry[1].epc, ![INTERRUPT_EFLAGS] = FlagsWord(flags)]
    ELSE sr
Mode == IF locked THEN "locked" ELSE IF st = "HALTED" THEN "halted"
        ELSE IF entry # <<>> THEN "entry" ELSE "run"

Arch == INSTANCE Isa WITH regs <- DoneRegs, flags <- DoneFlags, mem <- DoneMemory,
                          resv <- DoneReservation, sr <- DoneSpecial, mode <- Mode

\* The core implements the program's machine: an instruction takes effect
\* once, as a whole, whatever the frontend, the LSU and the cache do, except
\* on the programs MCV2 leaves out: a PUSH answered by the cache, a load whose
\* late answer reaches the next access, SCR to another word than LLR's.
ImplementsIsa == Arch!Spec

\* A line the data cache holds is the memory behind it, whenever no access
\* is between the bus and the cache and no failed access has stopped the
\* core.
CacheAgrees ==
    lsu.st = "IDLE" /\ ~locked =>
        \A e \in {dcache[k] : k \in DOMAIN dcache} :
            e # <<>> => e[1].data = LoadBytes(mem, e[1].tag * WordBytes, WordBytes)

\* While the core is not locked up, a translation the TLB still answers with
\* is the one the page tables give now: no walk has taken the answer of
\* another access for its page-table entry, and none has outlived its root.
TlbAgrees == ~locked => LiveAgree(tlb, PageOf(sr[PAGE_TABLE_ROOT]))

\* A PC-relative PUSH has put the word it loaded on the stack by the time it
\* is written back (translation off).
PushIsStored ==
    wb # <<>> /\ exe[1].i.op = "PUSH" /\ exe[1].i.pcrel /\ ~Paging =>
        LoadBytes(mem, Minus(exe[1].a, WordBytes), WordBytes)
            = LoadBytes(mem, Plus(exe[1].pc, 2 + exe[1].i.imm), WordBytes)

\* No translation outlives its address space: the edge that changes the
\* control word (paging, privilege, a trap entry or its return) or the root
\* leaves no entry that can answer, also when a walk fills one or the
\* generation counter wraps in the same cycle.
SwitchFlushes ==
    [][\/ sr'[CPU_CONTROL] # sr[CPU_CONTROL]
       \/ sr'[PAGE_TABLE_ROOT] # sr[PAGE_TABLE_ROOT]
       => Live(tlb') = {}]_vars

\* The core keeps committing until it halts or locks up.
KeepsCommitting == []<>(st \in {"WRITEBACK", "STALLED", "HALTED"})

\* An interrupt that is pending, unmasked, enabled and of higher priority is
\* not left waiting forever.
Deliverable ==
    LET vector == PendingIrq(sr, {}) IN
    /\ st \notin {"STALLED", "HALTED"}
    /\ vector # 0 /\ IntEnable(sr[CPU_CONTROL]) /\ CanPreempt(sr[CPU_CONTROL], vector)
InterruptsTaken == Deliverable ~> ~Deliverable
=============================================================================
