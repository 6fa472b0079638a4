------------------------------- MODULE V4Core -------------------------------
(***************************************************************************)
(* Little64V4Core: the V3 stages as a pipeline with branch prediction, a   *)
(* prefetching fetch cache and a store buffer of two entries.  One step is *)
(* one clock edge.  The code has no chain of branches: every block may     *)
(* assign in every cycle and the last assignment wins, so the next value   *)
(* of each latch is written here from the last block to the first.         *)
(*                                                                         *)
(* A latch is <<>> when its valid bit is clear and holds one record when   *)
(* it is set.  The MMU is built in; the reset cycle is over.               *)
(***************************************************************************)
EXTENDS V3Stages, HdlTlb, LineCache, V4Lsu, V4Frontend

CONSTANTS Programs

ASSUME ProgramsAssumption == \A p \in Programs : DOMAIN p.sr = Selectors

VARIABLES
    prog,       \* the program in memory
    regs, flags, resv, mem, sr,
    halted, locked, commit_valid,
    fetch,      \* [pc, phys, ok]: fetch_pc, fetch_phys_addr, fetch_phys_valid
    xl,         \* [va, access]: translate_virtual_addr, translate_access
    fe,         \* the fetch frontend
    fd,         \* fetch to decode latch [i, pc]
    de,         \* decode to execute latch [i, pc, a, b, f, predicted]
    de_post,    \* de_reg.post_increment_pc, kept when the latch is not valid
    xm,         \* memory latch [op, addr, ok, started, next_pc, pc]
    mr,         \* memory result [writes, flags, next_pc, seq_pc, pc]
    ret,        \* retire latch [writes, flags, control, next_pc, commit, pc, halt, trap]
    sb,         \* store buffer: two entries, each <<>> or <<[addr, width, value, started]>>
    vec,        \* vector load [va, addr, ok, started, epc, flags]
    walk,       \* page walk [va, table, level, access, kind, processing, started, pte]
    pend,       \* pending_fault
    tlb, dcache, lsu

arch == <<regs, flags, resv, mem, sr>>
pipe == <<fetch, xl, fd, de, de_post, xm, mr, ret, sb>>
vars == <<prog, arch, halted, locked, commit_valid, pipe, fe, vec, walk, pend, tlb, dcache, lsu>>

Init ==
    /\ prog \in Programs
    /\ regs = prog.regs
    /\ flags = <<FALSE, FALSE, FALSE>>
    /\ resv = <<>>
    /\ mem = prog.mem
    /\ sr = prog.sr
    /\ halted = FALSE /\ locked = FALSE /\ commit_valid = FALSE
    /\ fetch = [pc |-> regs[15], phys |-> 0, ok |-> FALSE]
    /\ xl = [va |-> regs[15], access |-> "X"]
    /\ fe = V4FrontendReset
    /\ fd = <<>> /\ de = <<>> /\ de_post = 0 /\ xm = <<>> /\ mr = <<>> /\ ret = <<>>
    /\ sb = << <<>>, <<>> >>
    /\ vec = <<>> /\ walk = <<>> /\ pend = <<>>
    /\ tlb = TlbReset /\ dcache = CacheReset /\ lsu = V4LsuReset

-----------------------------------------------------------------------------
\* Combinational wires, by the stage that drives them.

Paging == PagingOn(sr[CPU_CONTROL])
User   == UserMode(sr[CPU_CONTROL])

\* the execute stage on the decode to execute latch
ExecuteOut ==
    IF de = <<>> THEN NopOutputs(de_post)
    ELSE Execute(de[1].i, de[1].pc, de[1].a, de[1].b, de[1].f, sr, resv)

\* Little64V4StaticBackwardTakenPredictor: an unconditional jump and a
\* backward conditional one are predicted taken
PredictedNextPc(i, pc) ==
    IF i.op = "UJMP" \/ (i.op = "JUMP" /\ i.pcrel /\ i.imm >= 128)
    THEN Plus(Plus(pc, 2), i.imm) ELSE Plus(pc, 2)

\* The decode stage's inputs
Bypass(o) ==
    (IF o.memory = <<>> THEN o.writes ELSE <<>>)
        \o (IF mr # <<>> THEN mr[1].writes ELSE <<>>)
        \o (IF ret # <<>> THEN ret[1].writes ELSE <<>>)
FlagsBypass(o) ==
    IF o.memory = <<>> /\ o.flags # <<>> THEN o.flags[1]
    ELSE IF mr # <<>> /\ mr[1].flags # <<>> THEN mr[1].flags[1]
    ELSE IF ret # <<>> /\ ret[1].flags # <<>> THEN ret[1].flags[1]
    ELSE flags
Unfinished(o) ==
    (IF o.memory # <<>> THEN PendingWrites(o.memory[1]) ELSE {})
        \cup (IF xm # <<>> THEN PendingWrites(xm[1].op) ELSE {})

-----------------------------------------------------------------------------
\* The store buffer: entry 1 is the older while both are taken; entry 2
\* drains when entry 1 is free.
StorebufAny == sb # << <<>>, <<>> >>
Draining == IF sb[1] # <<>> THEN 1 ELSE 2

\* mutant: the width is not compared
CoversAnyWidth(e, op) == e # <<>> /\ op.addr = e[1].addr

\* A load may take its value from an entry that starts where it starts and
\* is no narrower; entry 2 is asked first.
Covers(e, op) == e # <<>> /\ op.addr = e[1].addr /\ op.width <= e[1].width
StorebufMatch(op) == \E k \in 1 .. 2 : Covers(sb[k], op)
StorebufLoad(op) ==
    LET k == IF Covers(sb[2], op) THEN 2 ELSE 1 IN sb[k][1].value % 4^op.width

\* execute_to_storebuf and execute_to_storebuf_load
ToStorebuf(o, memory_redirect) ==
    /\ o.memory # <<>>
    /\ LET op == o.memory[1] IN
       op.write /\ op.flags = <<>> /\ op.dest = <<>> /\ op.post = <<>> /\ op.chain = <<>> /\ ~op.reserve
    /\ ~Paging /\ walk = <<>> /\ vec = <<>> /\ sb[2] = <<>>
    /\ xm = <<>> /\ mr = <<>> /\ ~memory_redirect
ToStorebufLoad(o, memory_redirect) ==
    /\ o.memory # <<>>
    /\ LET op == o.memory[1] IN
       ~op.write /\ op.dest # <<>> /\ op.post = <<>> /\ op.chain = <<>> /\ StorebufMatch(op)
    /\ ~Paging /\ xm = <<>> /\ mr = <<>> /\ ~memory_redirect

-----------------------------------------------------------------------------
\* Address translation, as in V3, once the store buffer is empty
Translation(va) ==
    IF ~Paging THEN "done"
    ELSE IF EntryFault(va, sr) # <<>> THEN "fault"
    ELSE IF TlbHit(tlb, xl.va, xl.access, User) THEN "done" ELSE "walk"
Physical(va) == IF Paging THEN TlbPhys(tlb, xl.va) ELSE va

VectorXl ==
    IF vec # <<>> /\ ~vec[1].ok /\ walk = <<>> /\ ~StorebufAny /\ pend = <<>>
    THEN Translation(vec[1].va) ELSE "none"
MemoryXl ==
    IF xm # <<>> /\ ~xm[1].ok /\ walk = <<>> /\ vec = <<>> /\ ~StorebufAny /\ pend = <<>>
    THEN Translation(xm[1].op.addr) ELSE "none"
FetchXl ==
    IF /\ ~fetch.ok /\ walk = <<>> /\ ~StorebufAny
       /\ fd = <<>> /\ de = <<>> /\ xm = <<>> /\ ret = <<>> /\ vec = <<>> /\ pend = <<>>
    THEN IF xl.va % 2 = 1 THEN "fault" ELSE Translation(xl.va)
    ELSE "none"

Processing == walk # <<>> /\ walk[1].processing
WalkFaulted == IF Processing THEN WalkFault(walk[1].pte, walk[1].level, walk[1].access, User) ELSE <<>>
WalkLeaf == Processing /\ WalkFaulted = <<>> /\ WalkIsLeaf(walk[1].pte)
WalkResult == WalkPhys(walk[1].pte, walk[1].level, walk[1].va)

SingleLine(m) == (m.addr % WordBytes) + m.op.width <= WordBytes
Cached ==
    /\ xm # <<>> /\ xm[1].ok /\ ~xm[1].op.write /\ ~xm[1].started
    /\ SingleLine(xm[1]) /\ CacheHit(dcache, xm[1].addr)

Stages ==
    [o |-> ExecuteOut, vector_xl |-> VectorXl, memory_xl |-> MemoryXl, fetch_xl |-> FetchXl,
     walk_fault |-> WalkFaulted, walk_leaf |-> WalkLeaf, cached |-> Cached]

\* trap_request_next and the values latched with it
TrapNext(s) ==
    IF ret # <<>> /\ ret[1].trap # 0
    THEN <<TrapInfo(ret[1].trap, 0, 0, ret[1].pc, 0)>>
    ELSE IF s.fetch_xl = "fault"
    THEN LET f == IF xl.va % 2 = 1 THEN <<EXEC_ALIGN, EncodeAux(0, 0)>> ELSE EntryFault(xl.va, sr)
         IN <<TrapInfo(f[1], xl.va, AccessCode("X"), xl.va, f[2])>>
    ELSE IF s.memory_xl = "fault"
    THEN LET f == EntryFault(xm[1].op.addr, sr)
         IN <<TrapInfo(f[1], xm[1].op.addr, IF xm[1].op.write THEN 1 ELSE 0, xm[1].pc, f[2])>>
    ELSE IF s.walk_fault # <<>> /\ walk[1].kind # "vector"
    THEN <<TrapInfo(s.walk_fault[1], walk[1].va, AccessCode(walk[1].access),
                    IF walk[1].kind = "memory" THEN xm[1].pc ELSE walk[1].va, s.walk_fault[2])>>
    ELSE <<>>

TrapLockupNow == pend # <<>> /\ PreemptLockup(sr[CPU_CONTROL], pend[1].cause)
TrapStart == pend # <<>> /\ ~TrapLockupNow /\ vec = <<>>

\* mutant: only while the next fetch waits for its translation
IrqStartUntranslated(trap_next, vector) ==
    /\ pend = <<>> /\ trap_next = <<>>
    /\ vec = <<>> /\ walk = <<>> /\ ~StorebufAny /\ ~fetch.ok
    /\ fd = <<>> /\ de = <<>> /\ xm = <<>> /\ mr = <<>> /\ ret = <<>>
    /\ vector # 0 /\ IntEnable(sr[CPU_CONTROL]) /\ CanPreempt(sr[CPU_CONTROL], vector)

\* irq_start: the whole pipeline and the store buffer are empty
IrqStart(trap_next, vector) ==
    /\ pend = <<>> /\ trap_next = <<>>
    /\ vec = <<>> /\ walk = <<>> /\ ~StorebufAny
    /\ fd = <<>> /\ de = <<>> /\ xm = <<>> /\ mr = <<>> /\ ret = <<>>
    /\ vector # 0
    /\ IntEnable(sr[CPU_CONTROL])
    /\ CanPreempt(sr[CPU_CONTROL], vector)

NextPending(w) == IF w.entry THEN <<>> ELSE w.trap_next

\* locked_up is set by any of these
LockupNow(s, vector_failed, walk_failed, bus_error) ==
    \/ vector_failed \/ walk_failed \/ bus_error \/ TrapLockupNow
    \/ s.vector_xl = "fault"
    \/ s.walk_fault # <<>> /\ walk[1].kind = "vector"
\* the last block of the edge empties the latches
ClearNow(irq_start, lockup) ==
    \/ TrapStart \/ irq_start \/ lockup \/ halted \/ locked
    \/ ret # <<>> /\ ret[1].halt

\* The request multiplexer of the LSU: walk, vector, store buffer, memory
LsuRequest(s) ==
    IF walk # <<>>
    THEN IF walk[1].processing \/ walk[1].started THEN <<>>
         ELSE <<[NoRequest EXCEPT !.kind = "pte",
                                  !.addr = WalkPteAddr(walk[1].table, walk[1].level, PageOf(walk[1].va))]>>
    ELSE IF vec # <<>> /\ vec[1].ok
    THEN IF vec[1].started THEN <<>>
         ELSE <<[NoRequest EXCEPT !.kind = "vec", !.addr = vec[1].addr]>>
    ELSE IF StorebufAny
    THEN LET e == sb[Draining][1] IN
         IF e.started \/ vec # <<>> THEN <<>>
         ELSE <<[kind |-> "data", addr |-> e.addr, width |-> e.width, write |-> TRUE, value |-> e.value]>>
    ELSE IF xm # <<>> /\ xm[1].ok /\ ~s.cached /\ ~xm[1].started
    THEN <<[kind |-> "data", addr |-> xm[1].addr, width |-> xm[1].op.width,
            write |-> xm[1].op.write, value |-> xm[1].op.value]>>
    ELSE <<>>

\* The wires between the stages, for instruction bus answer i, data bus
\* answer d, pending vector and trap_next
Wires(s, i, d, vector, trap_next) ==
    LET o == s.o
        done == V4LsuDone(lsu, d)
        error == V4LsuError(lsu, d)
        complete == xm # <<>> /\ xm[1].ok /\ ~s.cached /\ vec = <<>> /\ walk = <<>> /\ ~StorebufAny /\ done
        memory_redirect == mr # <<>> /\ mr[1].next_pc # mr[1].seq_pc
        mispredict == /\ de # <<>> /\ ~o.halt /\ o.trap = 0 /\ ~memory_redirect
                      /\ o.next_pc # de[1].predicted
        flush == de # <<>> /\ (mispredict \/ o.halt \/ o.trap # 0)
        to_storebuf == ToStorebuf(o, memory_redirect)
        to_storebuf_load == ToStorebufLoad(o, memory_redirect)
        to_memory == /\ o.memory # <<>> /\ ~to_storebuf /\ ~to_storebuf_load
                     /\ ~StorebufAny /\ xm = <<>> /\ ~memory_redirect
        to_retire == de # <<>> /\ o.memory = <<>> /\ xm = <<>> /\ mr = <<>> /\ ~memory_redirect
        leaves == to_memory \/ to_storebuf \/ to_storebuf_load \/ to_retire
        advance == /\ fd # <<>> /\ (de = <<>> \/ leaves)
                   /\ ~LoadUseHazard(fd[1].i, Unfinished(o)) /\ ~flush /\ ~memory_redirect
        predict == advance /\ PredictedNextPc(fd[1].i, fd[1].pc) # Plus(fd[1].pc, 2)
        irq_start == IrqStart(trap_next, vector)
        vector_done == vec # <<>> /\ vec[1].ok /\ done
        handler == IF vector_done /\ ~error THEN LsuLoad(lsu, mem) ELSE 0
        walk_done == walk # <<>> /\ ~walk[1].processing /\ done
        storebuf_done == StorebufAny /\ sb[Draining][1].started /\ done
        bus_error == \/ V4FetchError(fe, i) /\ ~flush
                     \/ complete /\ error
                     \/ storebuf_done /\ error
        lockup == LockupNow(s, vector_done /\ handler = 0, walk_done /\ error, bus_error)
    IN [s |-> s, o |-> o, cached |-> s.cached, trap_next |-> trap_next,
        memory_redirect |-> memory_redirect, mispredict |-> mispredict, flush |-> flush,
        memory_error |-> complete /\ error,
        memory_done |-> s.cached \/ (complete /\ ~error),
        to_storebuf |-> to_storebuf, to_storebuf_load |-> to_storebuf_load,
        to_memory |-> to_memory, to_retire |-> to_retire, leaves |-> leaves,
        decode_advance |-> advance, predict |-> predict,
        fetch_accept |-> /\ fetch.ok /\ V4LineHit(fe, LineOf(fetch.phys))
                         /\ ~flush /\ ~memory_redirect /\ vec = <<>> /\ ~TrapStart /\ ~predict
                         /\ fd = <<>> \/ advance,
        entry |-> TrapStart \/ irq_start,
        vector |-> IF TrapStart THEN pend[1].cause ELSE vector,
        vector_done |-> vector_done, handler |-> handler,
        walk_done |-> walk_done, walk_error |-> walk_done /\ error,
        storebuf_done |-> storebuf_done, bus_error |-> bus_error, lockup |-> lockup,
        clear |-> ClearNow(irq_start, lockup),
        request |-> LsuRequest(s),
        invalidate |-> \/ flush \/ memory_redirect \/ TrapStart \/ irq_start \/ ~fetch.ok
                       \/ walk # <<>> /\ walk[1].kind = "fetch"]

-----------------------------------------------------------------------------
\* The clocked part, block by block.

\* 1. Retire write-back, in every cycle
Retired(r) == IF ret # <<>> /\ (ret[1].commit \/ ret[1].halt)
              THEN WriteBack(r, ret[1].writes, ret[1].next_pc) ELSE r
RetiredFlags == IF ret # <<>> /\ ret[1].flags # <<>> THEN ret[1].flags[1] ELSE flags

ClockRegisters(w, lines) ==
    LET control == IF w.entry THEN <<EntryControl(sr[CPU_CONTROL], w.vector)>>
                   ELSE IF ret # <<>> THEN ret[1].control ELSE <<>>
        saved   == IF w.entry THEN <<sr[CPU_CONTROL]>> ELSE <<>>
        entered == IF w.handler # 0 THEN <<vec[1].epc, FlagsWord(vec[1].flags)>> ELSE <<>>
        write   == IF w.to_retire THEN w.o.special ELSE <<>>
        set     == IF write # <<>> /\ write[1].sel = INTERRUPT_STATES_HIGH THEN {} ELSE lines
    IN /\ sr' = SpecialClock(sr, control, saved, entered, pend, write, set)
       /\ tlb' = TlbClock(tlb, TlbFlush(control, write),
                          IF w.s.walk_leaf THEN WalkFill(walk[1]) ELSE <<>>)
       /\ regs' = IF w.handler # 0 THEN [Retired(regs) EXCEPT ![15] = w.handler] ELSE Retired(regs)
       /\ flags' = RetiredFlags
       /\ pend' = NextPending(w)
       /\ halted' = (halted \/ (ret # <<>> /\ ret[1].halt))
       /\ locked' = (locked \/ w.lockup)
       /\ commit_valid' = (ret # <<>> /\ ret[1].commit)

ClockUnits(w, i, d) ==
    /\ fe' = V4FrontendClock(fe, i, fetch.phys, w.invalidate)
    /\ lsu' = V4LsuClock(lsu, d, w.request, mem)
    /\ mem' = LsuMemory(lsu, d, mem)

\* 2. Pipeline advancement

\* memory_to_retire and memory_chain_continue
Finished(w) == w.memory_done /\ xm[1].op.chain = <<>>
ChainContinue(w) == w.memory_done /\ xm[1].op.chain # <<>>
Loaded(w) == IF w.cached THEN CacheLoad(dcache, xm[1].addr, xm[1].op.width) ELSE LsuLoad(lsu, mem)

\* cache maintenance and the reservation when the memory latch finishes; a
\* store that went through the store buffer does neither
ClockCache(w) ==
    LET m == xm[1]
        through == Finished(w) /\ ~w.cached
    IN dcache' = CacheClock(dcache,
                            through /\ m.op.write /\ ~SingleLine(m),
                            <<>>,
                            IF through /\ m.op.write THEN <<m.addr, m.op.width, m.op.value>> ELSE <<>>,
                            IF through /\ ~m.op.write /\ m.op.width = WordBytes /\ m.addr % WordBytes = 0
                            THEN <<m.addr, Loaded(w)>> ELSE <<>>)
ClockReservation(w) ==
    resv' = IF Finished(w) /\ xm[1].op.reserve THEN <<xm[1].op.addr>>
            ELSE IF /\ Finished(w) /\ xm[1].op.write /\ resv # <<>>
                    /\ xm[1].op.addr < resv[1] + WordBytes
                    /\ resv[1] < xm[1].op.addr + xm[1].op.width
            THEN <<>>
            ELSE IF w.to_retire /\ w.o.clear_reservation THEN <<>> ELSE resv

ClockResult(w) ==
    mr' = IF w.clear \/ ~Finished(w) THEN <<>>
          ELSE <<[writes |-> MemoryWrites(xm[1].op, Loaded(w)), flags |-> xm[1].op.flags,
                  next_pc |-> MemoryNextPc(xm[1].op, Loaded(w), xm[1].next_pc),
                  seq_pc |-> xm[1].next_pc, pc |-> xm[1].pc]>>

\* the retire latch: a store that enters the store buffer and a load that is
\* answered by it are done
Plain(writes, next_pc, pc) ==
    [writes |-> writes, flags |-> <<>>, control |-> <<>>, next_pc |-> next_pc, commit |-> TRUE,
     pc |-> pc, halt |-> FALSE, trap |-> 0]
ClockRetire(w) ==
    ret' = IF w.clear \/ w.handler # 0 THEN <<>>
           ELSE IF w.to_storebuf THEN <<Plain(<<>>, w.o.next_pc, de[1].pc)>>
           ELSE IF w.to_storebuf_load
           THEN <<Plain(<<<<w.o.memory[1].dest[1], StorebufLoad(w.o.memory[1])>>>>, w.o.next_pc, de[1].pc)>>
           ELSE IF w.to_retire
           THEN <<[writes |-> w.o.writes, flags |-> w.o.flags, control |-> w.o.control,
                   next_pc |-> w.o.next_pc, commit |-> ~w.o.halt /\ w.o.trap = 0,
                   pc |-> de[1].pc, halt |-> w.o.halt, trap |-> w.o.trap]>>
           ELSE IF mr # <<>>
           THEN <<[Plain(mr[1].writes, mr[1].next_pc, mr[1].pc) EXCEPT !.flags = mr[1].flags]>>
           ELSE <<>>


\* the store buffer: a new store, the request of the draining entry, its end
ClockStorebuf(w) ==
    LET entry == LET op == w.o.memory[1] IN
                 <<[addr |-> op.addr, width |-> op.width, value |-> op.value, started |-> FALSE]>>
        put == IF ~w.to_storebuf THEN sb
               ELSE IF sb[1] = <<>> THEN [sb EXCEPT ![1] = entry] ELSE [sb EXCEPT ![2] = entry]
        taken == StorebufAny /\ walk = <<>> /\ vec = <<>> /\ w.request # <<>> /\ LsuReady(lsu)
    IN sb' = IF w.bus_error THEN << <<>>, <<>> >>
             ELSE IF w.storebuf_done
             THEN IF sb[1] # <<>> /\ sb[2] # <<>> THEN <<sb[2], <<>> >> ELSE [put EXCEPT ![Draining] = <<>>]
             ELSE IF taken THEN [put EXCEPT ![Draining][1].started = TRUE]
             ELSE put

ClockMemory(w) ==
    LET taken == w.request # <<>> /\ LsuReady(lsu) /\ walk = <<>> /\ vec = <<>> /\ ~StorebufAny
        phys == IF w.s.walk_leaf THEN WalkResult ELSE Physical(xm[1].op.addr)
    IN xm' = IF w.clear \/ w.memory_redirect \/ Finished(w) THEN <<>>
             ELSE IF ChainContinue(w)
             THEN <<[xm[1] EXCEPT
                       !.op = [MemoryOp(@.chain[1], WordBytes, TRUE, Loaded(w)) EXCEPT !.post = xm[1].op.post],
                       !.addr = xm[1].op.chain[1], !.ok = ~Paging, !.started = FALSE]>>
             ELSE IF w.to_memory
             THEN <<[op |-> w.o.memory[1], addr |-> w.o.memory[1].addr, ok |-> ~Paging,
                     started |-> FALSE, next_pc |-> w.o.next_pc, pc |-> de[1].pc]>>
             ELSE IF w.s.memory_xl = "done" \/ (w.s.walk_leaf /\ walk[1].kind = "memory")
             THEN <<[xm[1] EXCEPT !.addr = phys, !.ok = TRUE]>>
             ELSE IF xm # <<>> /\ taken THEN <<[xm[1] EXCEPT !.started = TRUE]>>
             ELSE xm

ClockDecode(w) ==
    /\ de' = IF w.clear THEN <<>>
             ELSE IF w.decode_advance
             THEN LET i == fd[1].i IN
                  <<[i |-> i, pc |-> fd[1].pc, a |-> Operand(regs, i.rd, Bypass(w.o)),
                     b |-> Operand(regs, i.rs1, Bypass(w.o)), f |-> FlagsBypass(w.o),
                     predicted |-> PredictedNextPc(i, fd[1].pc)]>>
             ELSE IF w.leaves \/ w.memory_redirect THEN <<>> ELSE de
    /\ de_post' = IF w.decode_advance THEN Plus(fd[1].pc, 2) ELSE de_post
    /\ fd' = IF w.clear \/ w.flush \/ w.memory_redirect THEN <<>>
             ELSE IF w.fetch_accept
             THEN <<[i |-> Fetch(prog.code, fetch.phys), pc |-> fetch.pc]>>
             ELSE IF w.decode_advance THEN <<>> ELSE fd

\* Fetch steering; then the end of a translation, of a walk and of a vector
\* load, the later over the earlier.  Under paging the code keeps the old
\* fetch_phys_addr; nothing reads it before fetch_phys_valid, so 0 stands
\* for it.
Redirected(pc) == [pc |-> pc, phys |-> IF Paging THEN 0 ELSE pc, ok |-> ~Paging]
Steered(w) ==
    IF w.mispredict \/ w.entry THEN <<w.o.next_pc>>
    ELSE IF w.memory_redirect THEN <<mr[1].next_pc>>
    ELSE IF w.predict THEN <<PredictedNextPc(fd[1].i, fd[1].pc)>>
    ELSE IF w.fetch_accept THEN <<Plus(fetch.pc, 2)>> ELSE <<>>

ClockFetch(w) ==
    LET steered == Steered(w)
        base == IF steered = <<>> THEN fetch ELSE Redirected(steered[1])
        table == Plus(sr[INTERRUPT_TABLE_BASE], w.vector)
    IN /\ fetch' = IF w.handler # 0 THEN Redirected(w.handler)
                   ELSE IF w.s.walk_leaf /\ walk[1].kind = "fetch"
                   THEN [base EXCEPT !.phys = WalkResult, !.ok = TRUE]
                   ELSE IF w.s.fetch_xl = "done"
                   THEN [base EXCEPT !.phys = Physical(xl.va), !.ok = TRUE]
                   ELSE base
       /\ xl' = IF w.entry THEN [va |-> table, access |-> "R"]
                ELSE IF w.handler # 0 THEN [va |-> w.handler, access |-> "X"]
                ELSE IF steered # <<>> THEN [va |-> steered[1], access |-> "X"]
                ELSE IF ChainContinue(w) THEN [va |-> xm[1].op.chain[1], access |-> "W"]
                ELSE IF Finished(w) \/ w.memory_error THEN [va |-> fetch.pc, access |-> "X"]
                ELSE IF w.to_memory
                THEN [va |-> w.o.memory[1].addr, access |-> IF w.o.memory[1].write THEN "W" ELSE "R"]
                ELSE xl

\* 4. The walk: a translation that misses starts it, an answer is processed,
\* a leaf ends it, another entry leads one level down.
WalkStart(va, access, kind) ==
    <<[va |-> va, table |-> PageOf(sr[PAGE_TABLE_ROOT]), level |-> 2, access |-> access,
       kind |-> kind, processing |-> FALSE, started |-> FALSE, pte |-> <<>>]>>
ClockWalk(w) ==
    walk' = IF \/ w.entry \/ w.walk_error \/ TrapLockupNow \/ w.bus_error \/ w.s.walk_leaf
               \/ w.s.vector_xl = "fault"
               \/ w.s.walk_fault # <<>> /\ walk[1].kind = "vector"
            THEN <<>>
            ELSE IF Processing /\ w.s.walk_fault = <<>>
            THEN <<[walk[1] EXCEPT !.processing = FALSE, !.started = FALSE, !.pte = <<>>,
                                   !.table = walk[1].pte.ppn, !.level = @ - 1]>>
            ELSE IF w.walk_done THEN <<[walk[1] EXCEPT !.processing = TRUE, !.pte = LsuLoad(lsu, mem)]>>
            ELSE IF w.s.fetch_xl = "walk" THEN WalkStart(xl.va, "X", "fetch")
            ELSE IF w.s.memory_xl = "walk"
            THEN WalkStart(xm[1].op.addr, IF xm[1].op.write THEN "W" ELSE "R", "memory")
            ELSE IF w.s.vector_xl = "walk" THEN WalkStart(vec[1].va, "R", "vector")
            ELSE IF walk # <<>> /\ w.request # <<>> /\ LsuReady(lsu)
            THEN <<[walk[1] EXCEPT !.started = TRUE]>>
            ELSE walk

\* 5. The vector load: an entry starts it, the handler's address or a fault
\* ends it.
ClockVector(w) ==
    LET table == Plus(sr[INTERRUPT_TABLE_BASE], w.vector)
        phys == IF w.s.walk_leaf THEN WalkResult ELSE Physical(vec[1].va)
    IN vec' = IF \/ w.vector_done
                 \/ w.s.vector_xl = "fault"
                 \/ w.s.walk_fault # <<>> /\ walk[1].kind = "vector"
              THEN <<>>
              ELSE IF w.entry
              THEN <<[va |-> table, addr |-> table, ok |-> ~Paging, started |-> FALSE,
                      epc |-> IF TrapStart THEN pend[1].pc ELSE fetch.pc, flags |-> flags]>>
              ELSE IF w.s.vector_xl = "done" \/ (w.s.walk_leaf /\ walk[1].kind = "vector")
              THEN <<[vec[1] EXCEPT !.addr = phys, !.ok = TRUE]>>
              ELSE IF vec # <<>> /\ vec[1].ok /\ walk = <<>> /\ w.request # <<>> /\ LsuReady(lsu)
              THEN <<[vec[1] EXCEPT !.started = TRUE]>>
              ELSE vec

-----------------------------------------------------------------------------
\* External: the buses answer a request that is out, in its first cycle or
\* later; one that does not fail answers before the watchdog.  A stopped core
\* goes on fetching, and its buses then simply answer.
Answers(out, watchdog) ==
    IF ~out THEN {"wait"}
    ELSE IF halted \/ locked THEN {"ack"}
    ELSE IF prog.faulty THEN {"wait", "ack", "err"}
    ELSE IF watchdog THEN {"ack"} ELSE {"wait", "ack"}
IBus == Answers(fe.req, fe.wd + 1 >= FetchTimeout)
DBus == Answers(LsuActive(lsu), lsu.wd + 1 >= BusTimeout)

Next ==
    \E i \in IBus, d \in DBus, lines \in SUBSET prog.lines :
    \E s \in {Stages} :
    \E w \in {Wires(s, i, d, PendingIrq(sr, lines), TrapNext(s))} :
        /\ ClockRegisters(w, lines)
        /\ ClockUnits(w, i, d)
        /\ ClockCache(w) /\ ClockReservation(w)
        /\ ClockResult(w) /\ ClockRetire(w) /\ ClockStorebuf(w)
        /\ ClockMemory(w) /\ ClockDecode(w) /\ ClockFetch(w)
        /\ ClockWalk(w) /\ ClockVector(w)
        /\ UNCHANGED prog

\* The clock never stops.
Spec == Init /\ [][Next]_vars /\ WF_vars(Next)

-----------------------------------------------------------------------------
\* The state a program sees: the instructions the retire latch and the
\* memory result hold are done, the stores in the store buffer are in
\* memory, and an entry has saved what it will save.
DoneRegs == IF mr # <<>> THEN WriteBack(Retired(regs), mr[1].writes, mr[1].next_pc) ELSE Retired(regs)
DoneFlags == IF mr # <<>> /\ mr[1].flags # <<>> THEN mr[1].flags[1] ELSE RetiredFlags
Stored(m, e) == IF e = <<>> THEN m ELSE StoreBytes(m, e[1].addr, 0 .. (e[1].width - 1), e[1].value)
DoneMemory == Stored(Stored(mem, sb[1]), sb[2])
DoneSpecial ==
    IF vec # <<>>
    THEN [sr EXCEPT ![INTERRUPT_EPC] = vec[1].epc, ![INTERRUPT_EFLAGS] = FlagsWord(vec[1].flags)]
    ELSE IF ret # <<>> /\ ret[1].control # <<>> THEN [sr EXCEPT ![CPU_CONTROL] = ret[1].control[1]]
    ELSE sr
Mode == IF halted \/ (ret # <<>> /\ ret[1].halt) THEN "halted"
        ELSE IF locked THEN "locked"
        ELSE IF vec # <<>> THEN "entry" ELSE "run"

Arch == INSTANCE Isa WITH regs <- DoneRegs, flags <- DoneFlags, mem <- DoneMemory,
                          sr <- DoneSpecial, mode <- Mode

\* The pipeline implements the program's machine: predictions, prefetches,
\* flushes, bypasses and the store buffer are not seen by a program, unless
\* it is one of those MCV4 leaves out, on which the core is known to depart
\* from the machine (an odd jump target with translation off, a branch behind
\* SCR, loads that partly overlap buffered stores, entries that race with a
\* fetch's translation, ...).
ImplementsIsa == Arch!Spec

\* A store that changes a byte of the reserved word ends the reservation
\* (translation off), whichever way it takes to memory.
StoreEndsReservation ==
    [][resv # <<>> /\ resv' = resv /\ ~Paging =>
          LoadBytes(DoneMemory', resv[1], WordBytes) = LoadBytes(DoneMemory, resv[1], WordBytes)]_vars

\* No translation outlives its address space: the edge that changes the
\* control word (paging, privilege, a trap entry or its return) or the root
\* leaves no entry that can answer, also when a walk fills one or the
\* generation counter wraps in the same cycle.
SwitchFlushes ==
    [][\/ sr'[CPU_CONTROL] # sr[CPU_CONTROL]
       \/ sr'[PAGE_TABLE_ROOT] # sr[PAGE_TABLE_ROOT]
       => Live(tlb') = {}]_vars

\* While the core runs, a translation the TLB still answers with is the one
\* the page tables give now, whatever else has used the data bus since the
\* walk began: the pipeline, the store buffer or an entry.  (A locked core
\* may start a walk on the answer of an access it has abandoned.)
TlbAgrees == ~halted /\ ~locked => LiveAgree(tlb, PageOf(sr[PAGE_TABLE_ROOT]))

\* The core keeps committing until it halts or locks up.
KeepsCommitting == []<>(commit_valid \/ halted \/ locked)


\* An interrupt that is pending, unmasked, enabled and of higher priority is
\* taken, if the pipeline is empty again and again.  irq_start waits for the
\* cycle in which the store buffer is empty, no walk runs and no entry or fault
\* is on its way as well: were these to take turns with the empty pipeline it
\* would wait for ever.  The condition is needed: a loop in one fetch line whose
\* jump is predicted (TightLoop) has an instruction in some stage for ever, and
\* an interrupt that becomes deliverable meanwhile is never taken.
Deliverable ==
    LET vector == PendingIrq(sr, {}) IN
    /\ ~halted /\ ~locked
    /\ vector # 0 /\ IntEnable(sr[CPU_CONTROL]) /\ CanPreempt(sr[CPU_CONTROL], vector)
PipelineEmpty == fd = <<>> /\ de = <<>> /\ xm = <<>> /\ mr = <<>> /\ ret = <<>>
=============================================================================
