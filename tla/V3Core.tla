------------------------------- MODULE V3Core -------------------------------
(***************************************************************************)
(* Little64V3Core: fetch, decode, execute, memory and retire over one      *)
(* instruction bus and one data bus.  One step is one clock edge: the      *)
(* combinational wires are Wires, and the first matching branch of the     *)
(* core's if-elif chain is the action.                                     *)
(*                                                                         *)
(* A latch is <<>> when its valid bit is clear and holds one record when   *)
(* it is set.  The MMU is built in; the reset cycle is over.               *)
(***************************************************************************)
EXTENDS V3Stages, HdlTlb, LineCache, Lsu, Frontend

CONSTANTS Programs

ASSUME ProgramsAssumption == \A p \in Programs : DOMAIN p.sr = Selectors

VARIABLES
    prog,       \* the program in memory
    regs, flags, resv, mem, sr,
    halted, locked, commit_valid,
    fetch,      \* [pc, phys, ok]: fetch_pc, fetch_phys_addr, fetch_phys_valid
    xl,         \* [va, access]: translate_virtual_addr, translate_access
    fe,         \* the fetch frontend
    dec,        \* decode latch [i, pc]
    exe,        \* execute latch [i, pc, a, b, f]
    mst,        \* memory latch [op, addr, ok, started, next_pc, pc]
    fin,        \* memory_final latch [writes, flags, next_pc, seq_pc, pc]
    ret,        \* retire latch [writes, flags, control, next_pc, commit, pc, halt, trap]
    vec,        \* vector load [va, addr, ok, started, epc, flags]
    walk,       \* page walk [va, table, level, access, kind, processing, started, pte]
    pend,       \* pending_fault
    tlb, dcache, lsu

arch == <<regs, flags, resv, mem, sr>>
pipe == <<fetch, xl, dec, exe, mst, fin, ret>>
vars == <<prog, arch, halted, locked, commit_valid, pipe, fe, vec, walk, pend, tlb, dcache, lsu>>

Init ==
    /\ prog \in Programs
    /\ regs = prog.regs
    /\ flags = <<FALSE, FALSE, FALSE>>
    /\ resv = <<>>
    /\ mem = prog.mem
    /\ sr = prog.sr
    /\ halted = FALSE /\ locked = FALSE /\ commit_valid = FALSE
    /\ fetch = [pc |-> regs[15], phys |-> 0, ok |-> FALSE]
    /\ xl = [va |-> regs[15], access |-> "X"]
    /\ fe = FrontendReset
    /\ dec = <<>> /\ exe = <<>> /\ mst = <<>> /\ fin = <<>> /\ ret = <<>>
    /\ vec = <<>> /\ walk = <<>> /\ pend = <<>>
    /\ tlb = TlbReset /\ dcache = CacheReset /\ lsu = LsuReset

-----------------------------------------------------------------------------
\* Combinational wires, by the stage that drives them.

Paging == PagingOn(sr[CPU_CONTROL])
User   == UserMode(sr[CPU_CONTROL])

\* the execute stage on the execute latch
ExecuteOut ==
    IF exe = <<>> THEN NopOutputs(0)
    ELSE Execute(exe[1].i, exe[1].pc, exe[1].a, exe[1].b, exe[1].f, sr, resv)

\* The decode stage's inputs: writes it can bypass, youngest first; a memory
\* operation in execute or memory has writes still to come.
Bypass(o) ==
    (IF o.memory = <<>> THEN o.writes ELSE <<>>)
        \o (IF fin # <<>> THEN fin[1].writes ELSE <<>>)
        \o (IF ret # <<>> THEN ret[1].writes ELSE <<>>)
FlagsBypass(o) ==
    IF o.memory = <<>> /\ o.flags # <<>> THEN o.flags[1]
    ELSE IF fin # <<>> /\ fin[1].flags # <<>> THEN fin[1].flags[1]
    ELSE IF ret # <<>> /\ ret[1].flags # <<>> THEN ret[1].flags[1]
    ELSE flags
Unfinished(o) ==
    (IF o.memory # <<>> THEN PendingWrites(o.memory[1]) ELSE {})
        \cup (IF mst # <<>> THEN PendingWrites(mst[1].op) ELSE {})

\* Address translation of one requester: done, a fault, or a walk.  The TLB
\* is looked up with the translate registers, whoever asks.
Translation(va) ==
    IF ~Paging THEN "done"
    ELSE IF EntryFault(va, sr) # <<>> THEN "fault"
    ELSE IF TlbHit(tlb, xl.va, xl.access, User) THEN "done" ELSE "walk"
Physical(va) == IF Paging THEN TlbPhys(tlb, xl.va) ELSE va

VectorXl ==
    IF vec # <<>> /\ ~vec[1].ok /\ walk = <<>> /\ pend = <<>>
    THEN Translation(vec[1].va) ELSE "none"
MemoryXl ==
    IF mst # <<>> /\ ~mst[1].ok /\ walk = <<>> /\ vec = <<>> /\ pend = <<>>
    THEN Translation(mst[1].op.addr) ELSE "none"
FetchXl ==
    IF /\ ~fetch.ok /\ walk = <<>> /\ dec = <<>> /\ exe = <<>> /\ mst = <<>> /\ ret = <<>>
       /\ vec = <<>> /\ pend = <<>>
    THEN IF xl.va % 2 = 1 THEN "fault" ELSE Translation(xl.va)
    ELSE "none"

\* walk_fault and walk_leaf_success on the latched entry
Processing == walk # <<>> /\ walk[1].processing
WalkFaulted == IF Processing THEN WalkFault(walk[1].pte, walk[1].level, walk[1].access, User) ELSE <<>>
WalkLeaf == Processing /\ WalkFaulted = <<>> /\ WalkIsLeaf(walk[1].pte)
WalkResult == WalkPhys(walk[1].pte, walk[1].level, walk[1].va)

\* The data cache answers a load that fits one line before it goes out.
SingleLine(m) == (m.addr % WordBytes) + m.op.width <= WordBytes
Cached ==
    /\ mst # <<>> /\ mst[1].ok /\ ~mst[1].op.write /\ ~mst[1].started
    /\ SingleLine(mst[1]) /\ CacheHit(dcache, mst[1].addr)

\* The wires each stage drives on its own: the execute stage's outputs, the
\* state of the three translations, the walk's fault, the cache's answer
Stages ==
    [o |-> ExecuteOut, vector_xl |-> VectorXl, memory_xl |-> MemoryXl, fetch_xl |-> FetchXl,
     walk_fault |-> WalkFaulted, walk_leaf |-> WalkLeaf, cached |-> Cached]

\* trap_request_next and the values latched with it: <<>> or <<trap>>
TrapNext(s) ==
    IF ret # <<>> /\ ret[1].trap # 0
    THEN <<TrapInfo(ret[1].trap, 0, 0, ret[1].pc, 0)>>
    ELSE IF s.fetch_xl = "fault"
    THEN LET f == IF xl.va % 2 = 1 THEN <<EXEC_ALIGN, EncodeAux(0, 0)>> ELSE EntryFault(xl.va, sr)
         IN <<TrapInfo(f[1], xl.va, AccessCode("X"), xl.va, f[2])>>
    ELSE IF s.memory_xl = "fault"
    THEN LET f == EntryFault(mst[1].op.addr, sr)
         IN <<TrapInfo(f[1], mst[1].op.addr, IF mst[1].op.write THEN 1 ELSE 0, mst[1].pc, f[2])>>
    ELSE IF s.walk_fault # <<>> /\ walk[1].kind # "vector"
    THEN <<TrapInfo(s.walk_fault[1], walk[1].va, AccessCode(walk[1].access),
                    IF walk[1].kind = "memory" THEN mst[1].pc ELSE walk[1].va, s.walk_fault[2])>>
    ELSE <<>>

TrapLockupNow == pend # <<>> /\ PreemptLockup(sr[CPU_CONTROL], pend[1].cause)
TrapStart == pend # <<>> /\ ~TrapLockupNow /\ vec = <<>>

\* mutant: only while the next fetch waits for its translation
IrqStartUntranslated(trap_next, vector) ==
    /\ pend = <<>> /\ trap_next = <<>>
    /\ vec = <<>> /\ walk = <<>> /\ ~fetch.ok
    /\ dec = <<>> /\ exe = <<>> /\ mst = <<>> /\ ret = <<>>
    /\ vector # 0 /\ IntEnable(sr[CPU_CONTROL]) /\ CanPreempt(sr[CPU_CONTROL], vector)

IrqStart(trap_next, vector) ==
    /\ pend = <<>> /\ trap_next = <<>>
    /\ vec = <<>> /\ walk = <<>>
    /\ dec = <<>> /\ exe = <<>> /\ mst = <<>> /\ ret = <<>>
    /\ vector # 0
    /\ IntEnable(sr[CPU_CONTROL])
    /\ CanPreempt(sr[CPU_CONTROL], vector)

\* pending_fault: an entry takes it, and nothing else keeps it for a cycle
NextPending(w) == IF w.entry THEN <<>> ELSE w.trap_next

\* The request multiplexer of the LSU: walk, vector, memory stage
LsuRequest(s) ==
    IF walk # <<>>
    THEN IF walk[1].processing \/ walk[1].started THEN <<>>
         ELSE <<[NoRequest EXCEPT !.kind = "pte",
                                  !.addr = WalkPteAddr(walk[1].table, walk[1].level, PageOf(walk[1].va))]>>
    ELSE IF vec # <<>> /\ vec[1].ok
    THEN IF vec[1].started THEN <<>>
         ELSE <<[NoRequest EXCEPT !.kind = "vec", !.addr = vec[1].addr]>>
    ELSE IF mst # <<>> /\ mst[1].ok /\ ~s.cached /\ ~mst[1].started
    THEN <<[kind |-> "data", addr |-> mst[1].addr, width |-> mst[1].op.width,
            write |-> mst[1].op.write, value |-> mst[1].op.value]>>
    ELSE <<>>

\* The wires between the stages, for instruction bus answer i, data bus
\* answer d, pending vector and trap_next
Wires(s, i, d, vector, trap_next) ==
    LET o == s.o
        complete == mst # <<>> /\ mst[1].ok /\ ~s.cached /\ vec = <<>> /\ walk = <<>> /\ LsuDone(lsu, d)
        memory_redirect == fin # <<>> /\ fin[1].next_pc # fin[1].seq_pc
        execute_redirect == /\ exe # <<>> /\ ~o.halt /\ o.trap = 0 /\ ~memory_redirect
                            /\ o.next_pc # Plus(exe[1].pc, 2)
        flush == exe # <<>> /\ (execute_redirect \/ o.halt \/ o.trap # 0)
        to_memory == exe # <<>> /\ o.memory # <<>> /\ mst = <<>> /\ ~memory_redirect
        to_retire == exe # <<>> /\ o.memory = <<>> /\ mst = <<>> /\ fin = <<>> /\ ~memory_redirect
        advance == /\ dec # <<>> /\ (exe = <<>> \/ to_memory \/ to_retire)
                   /\ ~LoadUseHazard(dec[1].i, Unfinished(o)) /\ ~flush /\ ~memory_redirect
        irq_start == IrqStart(trap_next, vector)
    IN [s |-> s, o |-> o, cached |-> s.cached, trap_next |-> trap_next,
        memory_redirect |-> memory_redirect,
        execute_redirect |-> execute_redirect,
        flush |-> flush,
        fetch_error |-> FetchError(fe, i) /\ ~flush,
        memory_error |-> complete /\ LsuError(lsu, d),
        memory_done |-> s.cached \/ (complete /\ ~LsuError(lsu, d)),
        to_memory |-> to_memory, to_retire |-> to_retire,
        decode_advance |-> advance,
        fetch_accept |-> /\ fetch.ok /\ LineHit(fe, LineOf(fetch.phys))
                         /\ ~flush /\ ~memory_redirect /\ vec = <<>> /\ ~TrapStart
                         /\ dec = <<>> \/ advance,
        entry |-> TrapStart \/ irq_start,
        vector |-> IF TrapStart THEN pend[1].cause ELSE vector,
        vector_done |-> vec # <<>> /\ vec[1].ok /\ LsuDone(lsu, d),
        walk_done |-> walk # <<>> /\ ~walk[1].processing /\ LsuDone(lsu, d),
        request |-> LsuRequest(s),
        invalidate |-> \/ flush \/ memory_redirect \/ TrapStart \/ irq_start \/ ~fetch.ok
                       \/ walk # <<>> /\ walk[1].kind = "fetch"]

\* The if-elif chain of the clocked part
Branch(w) ==
    IF halted \/ locked THEN "stopped"
    ELSE IF w.fetch_error \/ w.memory_error THEN "bus_error"
    ELSE IF w.s.vector_xl = "fault" \/ (w.s.walk_fault # <<>> /\ walk[1].kind = "vector")
         THEN "vector_lockup"
    ELSE IF w.s.vector_xl = "done" THEN "vector_translated"
    ELSE IF w.s.memory_xl = "done" THEN "memory_translated"
    ELSE IF w.s.fetch_xl = "done" THEN "fetch_translated"
    ELSE IF w.s.vector_xl = "walk" THEN "vector_walk"
    ELSE IF w.s.memory_xl = "walk" THEN "memory_walk"
    ELSE IF w.s.fetch_xl = "walk" THEN "fetch_walk"
    ELSE IF TrapLockupNow THEN "trap_lockup"
    ELSE IF w.entry THEN "entry"
    ELSE IF w.walk_done THEN "walk_response"
    ELSE IF w.s.walk_leaf THEN "walk_leaf"
    ELSE IF Processing /\ w.s.walk_fault = <<>> THEN "walk_descend"
    ELSE IF w.vector_done THEN "vector_response"
    ELSE IF ret # <<>> /\ ret[1].halt THEN "halt"
    ELSE "advance"

-----------------------------------------------------------------------------
\* The clocked part.

\* the write-back of the retire latch, in every cycle it is valid
Retired(r) == IF ret # <<>> /\ (ret[1].commit \/ ret[1].halt)
              THEN WriteBack(r, ret[1].writes, ret[1].next_pc) ELSE r
RetiredFlags == IF ret # <<>> /\ ret[1].flags # <<>> THEN ret[1].flags[1] ELSE flags

\* What every branch clocks: the units, the special registers, the TLB, the
\* pending fault and the retire latch's write-back.
Clock(w, i, d, lines) ==
    LET control == IF w.entry THEN <<EntryControl(sr[CPU_CONTROL], w.vector)>>
                   ELSE IF ret # <<>> THEN ret[1].control ELSE <<>>
        saved   == IF w.entry THEN <<sr[CPU_CONTROL]>> ELSE <<>>
        entered == IF w.vector_done /\ ~LsuError(lsu, d) /\ LsuLoad(lsu, mem) # 0
                   THEN <<vec[1].epc, FlagsWord(vec[1].flags)>> ELSE <<>>
        write   == IF w.to_retire THEN w.o.special ELSE <<>>
        set     == IF write # <<>> /\ write[1].sel = INTERRUPT_STATES_HIGH THEN {} ELSE lines
    IN /\ sr' = SpecialClock(sr, control, saved, entered, pend, write, set)
       /\ tlb' = TlbClock(tlb, TlbFlush(control, write),
                          IF w.s.walk_leaf THEN WalkFill(walk[1]) ELSE <<>>)
       /\ fe' = FrontendClock(fe, i, LineOf(fetch.phys), w.invalidate)
       /\ lsu' = LsuClock(lsu, d, w.request, mem)
       /\ mem' = LsuMemory(lsu, d, mem)
       /\ pend' = NextPending(w)
       /\ flags' = RetiredFlags
       /\ halted' = (halted \/ (ret # <<>> /\ ret[1].halt))
       /\ commit_valid' = (ret # <<>> /\ ret[1].commit)
       /\ UNCHANGED prog

\* clear_inflight_sync
ClearInflight == dec' = <<>> /\ exe' = <<>> /\ mst' = <<>> /\ fin' = <<>> /\ ret' = <<>>
KeepPipeline == UNCHANGED <<dec, exe, mst, fin, ret>>

ReservationCleared(w) == IF w.to_retire /\ w.o.clear_reservation THEN <<>> ELSE resv

\* the latches a branch outside the pipeline's own step leaves alone
Aside(w) == regs' = Retired(regs) /\ resv' = ReservationCleared(w) /\ UNCHANGED dcache

\* Under paging the code keeps the old fetch_phys_addr; nothing reads it
\* before fetch_phys_valid, so 0 stands for it.
FetchFrom(pc) ==
    /\ fetch' = [pc |-> pc, phys |-> IF Paging THEN 0 ELSE pc, ok |-> ~Paging]
    /\ xl' = [va |-> pc, access |-> "X"]

Stopped(w) ==
    /\ ClearInflight /\ walk' = <<>>
    /\ Aside(w) /\ UNCHANGED <<fetch, xl, vec, locked>>

\* fetch_error, memory_error
BusError(w) ==
    /\ ClearInflight /\ walk' = <<>> /\ locked' = TRUE
    /\ Aside(w) /\ UNCHANGED <<fetch, xl, vec>>

VectorLockup(w) ==
    /\ ClearInflight /\ walk' = <<>> /\ vec' = <<>> /\ locked' = TRUE
    /\ Aside(w) /\ UNCHANGED <<fetch, xl>>

VectorTranslated(w) ==
    /\ vec' = <<[vec[1] EXCEPT !.addr = Physical(vec[1].va), !.ok = TRUE]>>
    /\ KeepPipeline /\ Aside(w) /\ UNCHANGED <<fetch, xl, walk, locked>>

MemoryTranslated(w) ==
    /\ mst' = <<[mst[1] EXCEPT !.addr = Physical(mst[1].op.addr), !.ok = TRUE]>>
    /\ Aside(w) /\ UNCHANGED <<dec, exe, fin, ret, fetch, xl, vec, walk, locked>>

FetchTranslated(w) ==
    /\ fetch' = [fetch EXCEPT !.phys = Physical(xl.va), !.ok = TRUE]
    /\ KeepPipeline /\ Aside(w) /\ UNCHANGED <<xl, vec, walk, locked>>

StartWalk(w, va, access, kind) ==
    /\ walk' = <<[va |-> va, table |-> PageOf(sr[PAGE_TABLE_ROOT]), level |-> 2, access |-> access,
                  kind |-> kind, processing |-> FALSE, started |-> FALSE, pte |-> <<>>]>>
    /\ KeepPipeline /\ Aside(w) /\ UNCHANGED <<fetch, xl, vec, locked>>

TrapLockup(w) ==
    /\ ClearInflight /\ walk' = <<>> /\ locked' = TRUE
    /\ Aside(w) /\ UNCHANGED <<fetch, xl, vec>>

\* entry_start: the pipeline is emptied and the handler's address requested
EntryStart(w) ==
    LET entry == Plus(sr[INTERRUPT_TABLE_BASE], w.vector) IN
    /\ ClearInflight /\ walk' = <<>>
    /\ vec' = <<[va |-> entry, addr |-> entry, ok |-> ~Paging, started |-> FALSE,
                 epc |-> IF TrapStart THEN pend[1].pc ELSE fetch.pc, flags |-> flags]>>
    /\ xl' = [va |-> entry, access |-> "R"]
    /\ Aside(w) /\ UNCHANGED <<fetch, locked>>

WalkResponse(w, d) ==
    /\ IF LsuError(lsu, d)
       THEN ClearInflight /\ walk' = <<>> /\ locked' = TRUE
       ELSE /\ walk' = <<[walk[1] EXCEPT !.processing = TRUE, !.pte = LsuLoad(lsu, mem)]>>
            /\ KeepPipeline /\ UNCHANGED locked
    /\ Aside(w) /\ UNCHANGED <<fetch, xl, vec>>

\* walk_leaf_success: the physical address goes to whoever asked
WalkLeafFound(w) ==
    /\ walk' = <<>>
    /\ fetch' = IF walk[1].kind = "fetch" THEN [fetch EXCEPT !.phys = WalkResult, !.ok = TRUE] ELSE fetch
    /\ vec' = IF walk[1].kind = "vector" THEN <<[vec[1] EXCEPT !.addr = WalkResult, !.ok = TRUE]>> ELSE vec
    /\ mst' = IF walk[1].kind = "memory" THEN <<[mst[1] EXCEPT !.addr = WalkResult, !.ok = TRUE]>> ELSE mst
    /\ Aside(w) /\ UNCHANGED <<dec, exe, fin, ret, xl, locked>>

WalkDescend(w) ==
    /\ walk' = <<[walk[1] EXCEPT !.processing = FALSE, !.started = FALSE, !.pte = <<>>,
                                 !.table = walk[1].pte.ppn, !.level = @ - 1]>>
    /\ KeepPipeline /\ Aside(w) /\ UNCHANGED <<fetch, xl, vec, locked>>

VectorResponse(w, d) ==
    /\ vec' = <<>>
    /\ IF LsuError(lsu, d) \/ LsuLoad(lsu, mem) = 0
       THEN /\ ClearInflight /\ locked' = TRUE
            /\ regs' = Retired(regs) /\ UNCHANGED <<fetch, xl>>
       ELSE /\ regs' = [Retired(regs) EXCEPT ![15] = LsuLoad(lsu, mem)]
            /\ FetchFrom(LsuLoad(lsu, mem))
            /\ ret' = <<>> /\ UNCHANGED <<dec, exe, mst, fin, locked>>
    /\ resv' = ReservationCleared(w) /\ UNCHANGED <<dcache, walk>>

HaltRequest(w) ==
    ClearInflight /\ Aside(w) /\ UNCHANGED <<fetch, xl, vec, walk, locked>>

-----------------------------------------------------------------------------
\* The pipeline's own step, the last branch, stage by stage.

\* memory_to_retire and memory_chain_continue
Finished(w) == w.memory_done /\ mst[1].op.chain = <<>>
ChainContinue(w) == w.memory_done /\ mst[1].op.chain # <<>>
Loaded(w) == IF w.cached THEN CacheLoad(dcache, mst[1].addr, mst[1].op.width) ELSE LsuLoad(lsu, mem)

\* cache maintenance and the reservation when an access finishes
AdvanceCache(w) ==
    LET m == mst[1]
        through == Finished(w) /\ ~w.cached
    IN dcache' = CacheClock(dcache,
                            through /\ m.op.write /\ ~SingleLine(m),
                            <<>>,
                            IF through /\ m.op.write THEN <<m.addr, m.op.width, m.op.value>> ELSE <<>>,
                            IF through /\ ~m.op.write /\ m.op.width = WordBytes /\ m.addr % WordBytes = 0
                            THEN <<m.addr, Loaded(w)>> ELSE <<>>)
AdvanceReservation(w) ==
    resv' = IF Finished(w) /\ mst[1].op.reserve THEN <<mst[1].op.addr>>
            ELSE IF /\ Finished(w) /\ mst[1].op.write /\ resv # <<>>
                    /\ mst[1].op.addr < resv[1] + WordBytes
                    /\ resv[1] < mst[1].op.addr + mst[1].op.width
            THEN <<>> ELSE ReservationCleared(w)

AdvanceRetire(w) ==
    /\ fin' = IF Finished(w)
              THEN <<[writes |-> MemoryWrites(mst[1].op, Loaded(w)), flags |-> mst[1].op.flags,
                      next_pc |-> MemoryNextPc(mst[1].op, Loaded(w), mst[1].next_pc),
                      seq_pc |-> mst[1].next_pc, pc |-> mst[1].pc]>>
              ELSE <<>>
    /\ ret' = IF fin # <<>>
              THEN <<[writes |-> fin[1].writes, flags |-> fin[1].flags, control |-> <<>>,
                      next_pc |-> fin[1].next_pc, commit |-> TRUE, pc |-> fin[1].pc,
                      halt |-> FALSE, trap |-> 0]>>
              ELSE IF w.to_retire
              THEN <<[writes |-> w.o.writes, flags |-> w.o.flags, control |-> w.o.control,
                      next_pc |-> w.o.next_pc, commit |-> ~w.o.halt /\ w.o.trap = 0,
                      pc |-> exe[1].pc, halt |-> w.o.halt, trap |-> w.o.trap]>>
              ELSE <<>>

\* The memory latch: the chained store, the end of an access, a new access,
\* or its request taken by the LSU.
AdvanceMemory(w) ==
    mst' = IF w.memory_redirect \/ Finished(w) THEN <<>>
           ELSE IF ChainContinue(w)
           THEN <<[mst[1] EXCEPT
                     !.op = [MemoryOp(@.chain[1], WordBytes, TRUE, Loaded(w)) EXCEPT !.post = mst[1].op.post],
                     !.addr = mst[1].op.chain[1], !.ok = ~Paging, !.started = FALSE]>>
           ELSE IF w.to_memory
           THEN <<[op |-> w.o.memory[1], addr |-> w.o.memory[1].addr, ok |-> ~Paging,
                   started |-> FALSE, next_pc |-> w.o.next_pc, pc |-> exe[1].pc]>>
           ELSE IF w.request # <<>> /\ LsuReady(lsu) /\ walk = <<>> /\ vec = <<>>
           THEN <<[mst[1] EXCEPT !.started = TRUE]>>
           ELSE mst

AdvanceDecode(w) ==
    /\ exe' = IF w.decode_advance
              THEN LET i == dec[1].i IN
                   <<[i |-> i, pc |-> dec[1].pc, a |-> Operand(regs, i.rd, Bypass(w.o)),
                      b |-> Operand(regs, i.rs1, Bypass(w.o)), f |-> FlagsBypass(w.o)]>>
              ELSE IF w.to_memory \/ w.to_retire \/ w.memory_redirect THEN <<>> ELSE exe
    /\ dec' = IF w.flush \/ w.memory_redirect THEN <<>>
              ELSE IF w.fetch_accept
              THEN <<[i |-> Fetch(prog.code, fetch.phys), pc |-> fetch.pc]>>
              ELSE IF w.decode_advance THEN <<>> ELSE dec

\* Fetch steering; the translate registers follow the last writer.
AdvanceFetch(w) ==
    IF w.execute_redirect THEN FetchFrom(w.o.next_pc)
    ELSE IF w.fetch_accept THEN FetchFrom(Plus(fetch.pc, 2))
    ELSE /\ fetch' = IF w.memory_redirect
                     THEN [pc |-> fin[1].next_pc, phys |-> IF Paging THEN 0 ELSE fin[1].next_pc,
                           ok |-> ~Paging]
                     ELSE fetch
         /\ xl' = IF ChainContinue(w) THEN [va |-> mst[1].op.chain[1], access |-> "W"]
                  ELSE IF Finished(w) THEN [va |-> fetch.pc, access |-> "X"]
                  ELSE IF w.to_memory
                  THEN [va |-> w.o.memory[1].addr, access |-> IF w.o.memory[1].write THEN "W" ELSE "R"]
                  ELSE IF w.memory_redirect THEN [va |-> fin[1].next_pc, access |-> "X"]
                  ELSE xl

Advance(w) ==
    LET taken == w.request # <<>> /\ LsuReady(lsu) IN
    /\ AdvanceCache(w) /\ AdvanceReservation(w)
    /\ AdvanceRetire(w) /\ AdvanceMemory(w) /\ AdvanceDecode(w) /\ AdvanceFetch(w)
    /\ walk' = IF taken /\ walk # <<>> THEN <<[walk[1] EXCEPT !.started = TRUE]>> ELSE walk
    /\ vec' = IF taken /\ walk = <<>> /\ vec # <<>> THEN <<[vec[1] EXCEPT !.started = TRUE]>> ELSE vec
    /\ regs' = Retired(regs)
    /\ UNCHANGED locked

-----------------------------------------------------------------------------
\* External: the buses answer a request that is out, or make it wait.  A
\* slave answers no earlier than the cycle after the strobe, and one that
\* does not fail answers before the watchdog.
Answers(out, watchdog) ==
    IF ~out THEN {"wait"}
    ELSE IF prog.faulty THEN {"wait", "ack", "err"}
    ELSE IF watchdog THEN {"ack"} ELSE {"wait", "ack"}
IBus == Answers(fe.req, fe.wd + 1 >= FetchTimeout)
DBus == Answers(LsuActive(lsu) /\ lsu.started, lsu.wd + 1 >= BusTimeout)

Next ==
    \E i \in IBus, d \in DBus, lines \in SUBSET prog.lines :
    \E s \in {Stages} :
    \E w \in {Wires(s, i, d, PendingIrq(sr, lines), TrapNext(s))} :
    \E b \in {Branch(w)} :
          /\ Clock(w, i, d, lines)
          /\ \/ b = "stopped" /\ Stopped(w)
             \/ b = "bus_error" /\ BusError(w)
             \/ b = "vector_lockup" /\ VectorLockup(w)
             \/ b = "vector_translated" /\ VectorTranslated(w)
             \/ b = "memory_translated" /\ MemoryTranslated(w)
             \/ b = "fetch_translated" /\ FetchTranslated(w)
             \/ b = "vector_walk" /\ StartWalk(w, vec[1].va, "R", "vector")
             \/ b = "memory_walk" /\ StartWalk(w, mst[1].op.addr,
                                                IF mst[1].op.write THEN "W" ELSE "R", "memory")
             \/ b = "fetch_walk" /\ StartWalk(w, xl.va, "X", "fetch")
             \/ b = "trap_lockup" /\ TrapLockup(w)
             \/ b = "entry" /\ EntryStart(w)
             \/ b = "walk_response" /\ WalkResponse(w, d)
             \/ b = "walk_leaf" /\ WalkLeafFound(w)
             \/ b = "walk_descend" /\ WalkDescend(w)
             \/ b = "vector_response" /\ VectorResponse(w, d)
             \/ b = "halt" /\ HaltRequest(w)
             \/ b = "advance" /\ Advance(w)

\* The clock never stops.
Spec == Init /\ [][Next]_vars /\ WF_vars(Next)

-----------------------------------------------------------------------------
\* The state a program sees: the instructions the retire and memory_final
\* latches hold are done, and an entry has saved what it will save.
DoneRegs == IF fin # <<>> THEN WriteBack(Retired(regs), fin[1].writes, fin[1].next_pc) ELSE Retired(regs)
DoneFlags == IF fin # <<>> /\ fin[1].flags # <<>> THEN fin[1].flags[1] ELSE RetiredFlags
DoneSpecial ==
    IF vec # <<>>
    THEN [sr EXCEPT ![INTERRUPT_EPC] = vec[1].epc, ![INTERRUPT_EFLAGS] = FlagsWord(vec[1].flags)]
    ELSE IF ret # <<>> /\ ret[1].control # <<>> THEN [sr EXCEPT ![CPU_CONTROL] = ret[1].control[1]]
    ELSE sr
Mode == IF halted \/ (ret # <<>> /\ ret[1].halt) THEN "halted"
        ELSE IF locked THEN "locked"
        ELSE IF vec # <<>> THEN "entry" ELSE "run"

Arch == INSTANCE Isa WITH regs <- DoneRegs, flags <- DoneFlags, sr <- DoneSpecial, mode <- Mode

\* The core implements the program's machine: every clock edge commits one
\* instruction, trap or entry in program order, with the operands, flags,
\* translation and memory of that order, or changes nothing a program sees,
\* unless the program is one MCV3 leaves out, on which the core departs from
\* the machine (odd jump targets, a branch behind SCR, an interrupt while an
\* access finishes or under paging, a load into R15 under paging).
ImplementsIsa == Arch!Spec

\* A translation the TLB still answers with is the one the page tables give
\* now: no flush, generation wrap, fill or new root leaves a stale entry.
TlbAgrees == LiveAgree(tlb, PageOf(sr[PAGE_TABLE_ROOT]))

\* The control word of an interrupt's entry is written only by the edge that
\* starts the entry: an interrupt that is delivered reaches its handler.
InterruptStarts ==
    [][\A vector \in FIRST_HW_IRQ .. (FIRST_HW_IRQ + 3) :
          /\ ~InInterrupt(sr[CPU_CONTROL])
          /\ sr'[CPU_CONTROL] = EntryControl(sr[CPU_CONTROL], vector)
          => vec' # <<>>]_vars

\* No translation outlives its address space: the edge that changes the
\* control word (paging, privilege, a trap entry or its return) or the root
\* leaves no entry that can answer, also when a walk fills one or the
\* generation counter wraps in the same cycle.
SwitchFlushes ==
    [][\/ sr'[CPU_CONTROL] # sr[CPU_CONTROL]
       \/ sr'[PAGE_TABLE_ROOT] # sr[PAGE_TABLE_ROOT]
       => Live(tlb') = {}]_vars

\* The core keeps committing until it halts or locks up: no combination of
\* stalls, walks, redirects and answers of the buses stops the pipeline.
KeepsCommitting == []<>(commit_valid \/ halted \/ locked)

\* An interrupt that is pending, unmasked, enabled and of higher priority is
\* not left waiting forever.  (An interrupt that is started and then lost, see
\* InterruptStarts, is not waiting either: IRQs are off.)
Deliverable ==
    LET vector == PendingIrq(sr, {}) IN
    /\ ~halted /\ ~locked
    /\ vector # 0 /\ IntEnable(sr[CPU_CONTROL]) /\ CanPreempt(sr[CPU_CONTROL], vector)
InterruptsTaken == Deliverable ~> ~Deliverable
=============================================================================
