------------------------------ MODULE V3Proofs ------------------------------
(***************************************************************************)
(* The translations of the V3 core, for every program, page table, size of *)
(* the TLB, number of generations and behaviour of the buses: the edge     *)
(* that switches the address space flushes, and an entry that can answer   *)
(* is what the page tables say now.                                        *)
(*                                                                         *)
(* A fill is right only if the walk read its own entries with the root it  *)
(* started from, so the invariant says who owns the one data bus and which *)
(* latches can be valid together.                                          *)
(***************************************************************************)
EXTENDS V3Core, HdlTlbProofs

WalkFields == {"va", "table", "level", "access", "kind", "processing", "started", "pte"}

\* the latches are records, whose fields an edge overwrites one by one
Latches ==
    /\ walk # <<>> => /\ DOMAIN walk[1] = WalkFields
                      /\ walk[1].level \in 0 .. 2
                      /\ walk[1].kind \in {"fetch", "memory", "vector"}
    /\ vec # <<>> => DOMAIN vec[1] = {"va", "addr", "ok", "started", "epc", "flags"}
    /\ mst # <<>> => DOMAIN mst[1] = {"op", "addr", "ok", "started", "next_pc", "pc"}
    /\ DOMAIN fetch = {"pc", "phys", "ok"}
    /\ DOMAIN lsu = {"st", "started", "req", "first", "wd"}

\* A finished access has left the memory latch.
FinalAlone == fin # <<>> => mst = <<>>

\* An entry is alone in the core.
VectorAlone ==
    vec # <<>> => dec = <<>> /\ exe = <<>> /\ mst = <<>> /\ fin = <<>> /\ ret = <<>> /\ pend = <<>>

\* A walk has one requester, which waits, and nothing can write the root.
WalkAlone ==
    walk # <<>> =>
        /\ walk[1].kind = "fetch" =>
              /\ dec = <<>> /\ exe = <<>> /\ mst = <<>> /\ vec = <<>>
              /\ ~fetch.ok /\ Paging
              /\ ret # <<>> => ret[1].control = <<>>
        /\ walk[1].kind = "memory" => mst # <<>> /\ ~mst[1].ok /\ vec = <<>> /\ fin = <<>>
        /\ walk[1].kind = "vector" => vec # <<>> /\ ~vec[1].ok

\* Nothing follows a trap or a halt down the pipeline, and a fault that
\* waits for its entry has no access on its way to the bus.
TrapAlone ==
    ret # <<>> /\ (ret[1].trap # 0 \/ ret[1].halt) =>
        exe = <<>> /\ mst = <<>> /\ walk = <<>> /\ vec = <<>>
FaultQuiet ==
    pend # <<>> => /\ walk # <<>> => walk[1].processing
                   /\ mst # <<>> => ~mst[1].ok

\* While the core runs, the access on the bus is that of the walk, of the
\* vector load or of the memory latch, and its owner knows it has started.
WalkRequest == [NoRequest EXCEPT !.kind = "pte",
                                 !.addr = WalkPteAddr(walk[1].table, walk[1].level, PageOf(walk[1].va))]
BusOwned ==
    LsuActive(lsu) /\ ~halted /\ ~locked =>
        \/ walk # <<>> /\ ~walk[1].processing /\ walk[1].started /\ lsu.req = WalkRequest
        \/ walk = <<>> /\ vec # <<>> /\ vec[1].ok /\ vec[1].started
        \/ walk = <<>> /\ vec = <<>> /\ mst # <<>> /\ mst[1].ok /\ mst[1].started

\* The rest of the walk from its table is the walk from the root, and the
\* entry it holds is the one of its table.
WalkAgrees ==
    walk # <<>> =>
        /\ \A access, user :
              WalkFrom2(PageOf(sr[PAGE_TABLE_ROOT]), PageOf(walk[1].va), access, user)
                  = WalkRest(walk[1].table, walk[1].level, PageOf(walk[1].va), access, user)
        /\ walk[1].processing =>
              walk[1].pte = WalkEntry(walk[1].table, walk[1].level, PageOf(walk[1].va))

Structure ==
    /\ Latches /\ FinalAlone /\ VectorAlone /\ WalkAlone /\ TrapAlone /\ FaultQuiet /\ BusOwned

Inv ==
    /\ IsFile(sr) /\ GenerationsPast(tlb) /\ Structure /\ WalkAgrees
    /\ Agrees(tlb, PageOf(sr[PAGE_TABLE_ROOT]))

-----------------------------------------------------------------------------
\* What the combinational wires of one cycle say about the latches

StageFacts(s) ==
    /\ s.vector_xl # "none" => vec # <<>> /\ ~vec[1].ok /\ walk = <<>> /\ pend = <<>>
    /\ s.memory_xl # "none" => mst # <<>> /\ ~mst[1].ok /\ walk = <<>> /\ vec = <<>> /\ pend = <<>>
    /\ s.fetch_xl # "none" => /\ ~fetch.ok /\ walk = <<>> /\ dec = <<>> /\ exe = <<>> /\ mst = <<>>
                              /\ ret = <<>> /\ vec = <<>> /\ pend = <<>>
    /\ s.fetch_xl = "walk" => Paging
    /\ s.cached => mst # <<>> /\ mst[1].ok /\ ~mst[1].started
    /\ s.walk_fault # <<>> => Processing
    /\ s.walk_leaf => Processing /\ s.walk_fault = <<>> /\ WalkIsLeaf(walk[1].pte)
    /\ Processing /\ s.walk_fault = <<>> /\ WalkIsLeaf(walk[1].pte) => s.walk_leaf
    /\ Processing => s.walk_fault = WalkFault(walk[1].pte, walk[1].level, walk[1].access, User)

\* The stages ask for a translation only where one is due.
LEMMA StagesSay == StageFacts(Stages)
  <1> DEFINE s == Stages
  <1>1. /\ s.vector_xl = VectorXl /\ s.memory_xl = MemoryXl /\ s.fetch_xl = FetchXl
        /\ s.cached = Cached /\ s.walk_fault = WalkFaulted /\ s.walk_leaf = WalkLeaf
    BY DEF Stages
  <1> HIDE DEF s
  <1>2. s.fetch_xl = "walk" => Paging
    BY <1>1 DEF FetchXl, Translation
  <1>3. StageFacts(s)
    BY <1>1, <1>2 DEF StageFacts, VectorXl, MemoryXl, FetchXl, Cached, WalkFaulted, WalkLeaf
  <1> QED BY <1>3 DEF s

\* Where a trap comes from
TrapFacts(s, t) ==
    t # <<>> => \/ ret # <<>> /\ ret[1].trap # 0
                \/ s.fetch_xl = "fault"
                \/ s.memory_xl = "fault"
                \/ s.walk_fault # <<>> /\ walk[1].kind # "vector"

\* A trap comes from one of four places.
LEMMA TrapSays == ASSUME NEW s PROVE TrapFacts(s, TrapNext(s))
  BY DEF TrapFacts, TrapNext

WireFacts(s, w, d, vector) ==
    /\ w.s = s /\ w.cached = s.cached
    /\ w.memory_redirect => fin # <<>>
    /\ w.execute_redirect => exe # <<>>
    /\ w.flush => exe # <<>>
    /\ exe # <<>> /\ (w.o.halt \/ w.o.trap # 0) => w.flush
    /\ w.decode_advance => dec # <<>> /\ ~w.flush
    /\ w.to_memory => exe # <<>> /\ mst = <<>>
    /\ w.to_retire => exe # <<>> /\ mst = <<>> /\ fin = <<>> /\ ~w.to_memory
    /\ w.fetch_accept => fetch.ok /\ vec = <<>>
    /\ w.memory_done => \/ s.cached
                        \/ mst # <<>> /\ mst[1].ok /\ vec = <<>> /\ walk = <<>> /\ LsuDone(lsu, d)
    /\ mst # <<>> /\ mst[1].ok /\ vec = <<>> /\ walk = <<>> /\ ~s.cached /\ LsuDone(lsu, d)
          => w.memory_done \/ w.memory_error
    /\ w.entry <=> TrapStart \/ IrqStart(w.trap_next, vector)
    /\ w.vector = IF TrapStart THEN pend[1].cause ELSE vector
    /\ w.vector_done <=> vec # <<>> /\ vec[1].ok /\ LsuDone(lsu, d)
    /\ w.walk_done <=> walk # <<>> /\ ~walk[1].processing /\ LsuDone(lsu, d)
    /\ w.request = LsuRequest(s)

\* The wires between the stages are what their names say.
LEMMA WiresSay ==
  ASSUME NEW s, NEW i, NEW d, NEW vector, NEW t
  PROVE  LET w == Wires(s, i, d, vector, t) IN
         WireFacts(s, w, d, vector) /\ w.trap_next = t
  <1> DEFINE w == Wires(s, i, d, vector, t)
  <1>1. /\ w.s = s /\ w.cached = s.cached /\ w.o = s.o
        /\ w.request = LsuRequest(s) /\ w.trap_next = t
        /\ w.vector = IF TrapStart THEN pend[1].cause ELSE vector
    BY DEF Wires
  <1>2. /\ w.memory_redirect => fin # <<>>
        /\ w.execute_redirect => exe # <<>>
        /\ w.flush => exe # <<>>
        /\ exe # <<>> /\ (s.o.halt \/ s.o.trap # 0) => w.flush
        /\ w.decode_advance => dec # <<>> /\ ~w.flush
    BY DEF Wires
  <1>3. /\ w.to_memory => exe # <<>> /\ mst = <<>>
        /\ w.to_retire => exe # <<>> /\ mst = <<>> /\ fin = <<>> /\ ~w.to_memory
        /\ w.fetch_accept => fetch.ok /\ vec = <<>>
    BY DEF Wires
  <1>4. /\ w.memory_done => \/ s.cached
                            \/ mst # <<>> /\ mst[1].ok /\ vec = <<>> /\ walk = <<>> /\ LsuDone(lsu, d)
        /\ mst # <<>> /\ mst[1].ok /\ vec = <<>> /\ walk = <<>> /\ ~s.cached /\ LsuDone(lsu, d)
              => w.memory_done \/ w.memory_error
    BY DEF Wires
  <1>5. /\ w.entry <=> TrapStart \/ IrqStart(t, vector)
        /\ w.vector_done <=> vec # <<>> /\ vec[1].ok /\ LsuDone(lsu, d)
        /\ w.walk_done <=> walk # <<>> /\ ~walk[1].processing /\ LsuDone(lsu, d)
    BY DEF Wires
  <1> HIDE DEF w
  <1>6. WireFacts(s, w, d, vector) /\ w.trap_next = t
    BY <1>1, <1>2, <1>3, <1>4, <1>5 DEF WireFacts
  <1> QED BY <1>6 DEF w

\* The branches of the clocked part, each with what the chain has excluded
\* by the time it is reached
NoTranslation(s) ==
    /\ s.vector_xl # "done" /\ s.memory_xl # "done" /\ s.fetch_xl # "done"
    /\ s.vector_xl # "walk" /\ s.memory_xl # "walk" /\ s.fetch_xl # "walk"
BranchFacts(s, w, b) ==
    /\ b = "stopped" => halted \/ locked
    /\ b # "stopped" => ~halted /\ ~locked
    /\ b \notin {"stopped", "bus_error"} => ~w.memory_error
    /\ b = "vector_translated" => s.vector_xl = "done"
    /\ b = "memory_translated" => s.memory_xl = "done"
    /\ b = "fetch_translated" => s.fetch_xl = "done"
    /\ b = "vector_walk" => s.vector_xl = "walk"
    /\ b = "memory_walk" => s.memory_xl = "walk"
    /\ b = "fetch_walk" => s.fetch_xl = "walk"
    /\ b = "entry" => w.entry /\ NoTranslation(s)
    /\ b \in {"walk_response", "walk_leaf", "walk_descend", "vector_response", "halt", "advance"} =>
          ~TrapLockupNow /\ ~w.entry /\ NoTranslation(s)
    /\ b = "walk_response" => w.walk_done
    /\ b = "walk_leaf" => s.walk_leaf
    /\ b = "walk_descend" => Processing /\ s.walk_fault = <<>> /\ ~s.walk_leaf
    /\ b = "vector_response" => w.vector_done
    /\ b = "halt" => ret # <<>> /\ ret[1].halt
    /\ b = "advance" => /\ ~w.walk_done /\ ~w.vector_done
                        /\ Processing => s.walk_fault # <<>>

\* The if-elif chain takes a branch only when its condition holds.
LEMMA BranchSays ==
  ASSUME NEW s, NEW w, w.s = s
  PROVE  BranchFacts(s, w, Branch(w))
  <1> DEFINE b == Branch(w)
  <1>1. /\ b = "stopped" => halted \/ locked
        /\ b # "stopped" => ~halted /\ ~locked
        /\ b \notin {"stopped", "bus_error"} => ~w.memory_error
    BY DEF Branch
  <1>2. /\ b = "vector_translated" => s.vector_xl = "done"
        /\ b = "memory_translated" => s.memory_xl = "done"
        /\ b = "fetch_translated" => s.fetch_xl = "done"
        /\ b = "vector_walk" => s.vector_xl = "walk"
        /\ b = "memory_walk" => s.memory_xl = "walk"
        /\ b = "fetch_walk" => s.fetch_xl = "walk"
    BY DEF Branch
  <1>3. /\ b = "entry" => w.entry /\ NoTranslation(s)
        /\ b \in {"walk_response", "walk_leaf", "walk_descend", "vector_response", "halt", "advance"} =>
              ~TrapLockupNow /\ ~w.entry /\ NoTranslation(s)
    BY DEF Branch, NoTranslation
  <1>4. /\ b = "walk_response" => w.walk_done
        /\ b = "walk_leaf" => s.walk_leaf
        /\ b = "walk_descend" => Processing /\ s.walk_fault = <<>> /\ ~s.walk_leaf
        /\ b = "vector_response" => w.vector_done
        /\ b = "halt" => ret # <<>> /\ ret[1].halt
        /\ b = "advance" => /\ ~w.walk_done /\ ~w.vector_done
                            /\ Processing => s.walk_fault # <<>>
    BY DEF Branch
  <1> HIDE DEF b
  <1>5. BranchFacts(s, w, b)
    BY <1>1, <1>2, <1>3, <1>4 DEF BranchFacts
  <1> QED BY <1>5 DEF b

-----------------------------------------------------------------------------
\* One cycle: its wires, its branch, and what every branch clocks
Cycle(s, w, i, d, lines, b) ==
    /\ StageFacts(s) /\ TrapFacts(s, w.trap_next) /\ WireFacts(s, w, d, PendingIrq(sr, lines))
    /\ BranchFacts(s, w, b)
    /\ Clock(w, i, d, lines)

\* The latches that every branch clocks: the pending fault and the LSU
LEMMA CommonEdge ==
  ASSUME Latches, NEW s, NEW w, NEW i, NEW d, NEW lines, NEW b, Cycle(s, w, i, d, lines, b)
  PROVE  /\ pend' = IF w.entry THEN <<>> ELSE w.trap_next
         /\ DOMAIN lsu' = {"st", "started", "req", "first", "wd"}
         /\ LsuActive(lsu') => \/ LsuActive(lsu) /\ ~LsuDone(lsu, d) /\ lsu'.req = lsu.req
                               \/ ~LsuActive(lsu) /\ LsuRequest(s) # <<>> /\ lsu'.req = LsuRequest(s)[1]
         /\ LsuDone(lsu, d) => LsuActive(lsu)
         /\ halted => halted'
         /\ ret # <<>> /\ ret[1].halt => halted'
         /\ ~TrapStart /\ ~IrqStart(w.trap_next, PendingIrq(sr, lines)) <=> ~w.entry
  <1>1. lsu' = LsuClock(lsu, d, w.request, mem) /\ w.request = LsuRequest(s)
    BY DEF Cycle, Clock, WireFacts
  <1>2. pend' = IF w.entry THEN <<>> ELSE w.trap_next
    BY DEF Cycle, Clock, NextPending
  <1>3. halted' = (halted \/ (ret # <<>> /\ ret[1].halt))
    BY DEF Cycle, Clock
  <1>4. DOMAIN lsu = {"st", "started", "req", "first", "wd"}
    BY DEF Latches
  <1>5. w.entry <=> TrapStart \/ IrqStart(w.trap_next, PendingIrq(sr, lines))
    BY DEF Cycle, WireFacts
  <1>6. /\ DOMAIN lsu' = {"st", "started", "req", "first", "wd"}
        /\ LsuActive(lsu') => \/ LsuActive(lsu) /\ ~LsuDone(lsu, d) /\ lsu'.req = lsu.req
                              \/ LsuReady(lsu) /\ w.request # <<>> /\ lsu'.req = w.request[1]
        /\ LsuDone(lsu, d) => LsuActive(lsu)
    BY <1>1, <1>4, LsuEdge
  <1>7. LsuReady(lsu) => ~LsuActive(lsu)
    BY DEF LsuReady, LsuActive
  <1> QED BY <1>1, <1>2, <1>3, <1>5, <1>6, <1>7

\* The request of the walk is for the entry of its table.
LEMMA RequestOf ==
  ASSUME NEW s, LsuRequest(s) # <<>>
  PROVE  \/ walk # <<>> /\ ~walk[1].processing /\ ~walk[1].started /\ LsuRequest(s)[1] = WalkRequest
         \/ walk = <<>> /\ vec # <<>> /\ vec[1].ok /\ ~vec[1].started
         \/ walk = <<>> /\ ~(vec # <<>> /\ vec[1].ok) /\ mst # <<>> /\ mst[1].ok /\ ~s.cached
              /\ ~mst[1].started
  BY DEF LsuRequest, WalkRequest

\* The pipeline's own step
LEMMA AdvanceStructure ==
  ASSUME Structure, NEW s, NEW w, NEW i, NEW d, NEW lines, Cycle(s, w, i, d, lines, "advance"),
         Advance(w), Paging' = Paging \/ walk = <<>> \/ walk[1].kind # "fetch"
  PROVE  Structure'
  <1> USE DEF Structure
  <1>1. pend = <<>> /\ pend' = w.trap_next
    BY CommonEdge, ZenonT(40) DEF Cycle, BranchFacts, TrapLockupNow, TrapStart, VectorAlone
  <1>2. /\ ~halted /\ ~locked /\ ~w.walk_done /\ ~w.vector_done /\ ~w.memory_error
        /\ Processing => s.walk_fault # <<>>
        /\ NoTranslation(s)
    BY DEF Cycle, BranchFacts
  <1>3. /\ w.memory_redirect => fin # <<>>
        /\ w.to_memory => exe # <<>> /\ mst = <<>>
        /\ w.to_retire => exe # <<>> /\ mst = <<>> /\ fin = <<>> /\ ~w.to_memory
        /\ w.fetch_accept => fetch.ok /\ vec = <<>>
        /\ w.decode_advance => dec # <<>> /\ ~w.flush
        /\ w.execute_redirect => exe # <<>>
    BY DEF Cycle, WireFacts
  <1>4. w.memory_done => /\ mst # <<>> /\ mst[1].ok /\ vec = <<>> /\ walk = <<>>
                         /\ ~LsuActive(lsu) \/ LsuDone(lsu, d)
    BY <1>2 DEF Cycle, WireFacts, StageFacts, VectorAlone, WalkAlone, Latches, BusOwned
  <1>5. walk # <<>> => /\ walk' # <<>>
                       /\ DOMAIN walk'[1] = WalkFields
                       /\ walk'[1].va = walk[1].va /\ walk'[1].table = walk[1].table
                       /\ walk'[1].level = walk[1].level /\ walk'[1].kind = walk[1].kind
                       /\ walk'[1].processing = walk[1].processing
                       /\ walk'[1].pte = walk[1].pte
    BY DEF Advance, Latches, WalkFields
  <1>6. walk = <<>> => walk' = <<>>
    BY DEF Advance
  <1>7. /\ exe' # <<>> => exe # <<>> \/ dec # <<>>
        /\ dec' # <<>> => dec # <<>> \/ (fetch.ok /\ vec = <<>>)
    BY <1>3 DEF Advance, AdvanceDecode
  <1>8. /\ vec = <<>> => vec' = <<>>
        /\ vec # <<>> => /\ vec' # <<>>
                         /\ DOMAIN vec'[1] = {"va", "addr", "ok", "started", "epc", "flags"}
                         /\ vec'[1].ok = vec[1].ok
                         /\ vec[1].started => vec'[1].started
    BY DEF Advance, Latches
  <1>9. fin' # <<>> => w.memory_done /\ mst' = <<>>
    BY DEF Advance, AdvanceRetire, AdvanceMemory, Finished
  <1>10. w.request = LsuRequest(s)
    BY DEF Cycle, WireFacts
  <1>11. w.request # <<>> /\ walk = <<>> /\ vec = <<>> => mst # <<>> /\ mst[1].ok
    BY <1>10, RequestOf
  <1>12. \/ mst' = <<>> /\ (w.memory_redirect \/ w.memory_done)
         \/ w.memory_done /\ \E op, addr :
               mst' = <<[mst[1] EXCEPT !.op = op, !.addr = addr, !.ok = ~Paging, !.started = FALSE]>>
         \/ w.to_memory /\ \E op, addr, next_pc, pc :
               mst' = <<[op |-> op, addr |-> addr, ok |-> ~Paging, started |-> FALSE,
                         next_pc |-> next_pc, pc |-> pc]>>
         \/ /\ w.request # <<>> /\ LsuReady(lsu) /\ walk = <<>> /\ vec = <<>>
            /\ mst' = <<[mst[1] EXCEPT !.started = TRUE]>>
         \/ /\ ~(w.request # <<>> /\ LsuReady(lsu) /\ walk = <<>> /\ vec = <<>>)
            /\ ~w.memory_done /\ mst' = mst
    BY DEF Advance, AdvanceMemory, Finished, ChainContinue
  <1>13. /\ mst = <<>> /\ exe = <<>> => mst' = <<>>
         /\ mst # <<>> /\ ~mst[1].ok /\ fin = <<>> => mst' = mst
    BY <1>3, <1>4, <1>11, <1>12
  <1>14. mst' # <<>> => DOMAIN mst'[1] = {"op", "addr", "ok", "started", "next_pc", "pc"}
    <2> DEFINE F == {"op", "addr", "ok", "started", "next_pc", "pc"}
    <2>1. mst # <<>> => DOMAIN mst[1] = F
      BY DEF Latches
    <2>2. ASSUME w.memory_done, NEW op, NEW addr,
                 mst' = <<[mst[1] EXCEPT !.op = op, !.addr = addr, !.ok = ~Paging, !.started = FALSE]>>
          PROVE  DOMAIN mst'[1] = F
      BY <1>4, <2>1, <2>2
    <2>3. ASSUME NEW op, NEW addr, NEW next_pc, NEW pc,
                 mst' = <<[op |-> op, addr |-> addr, ok |-> ~Paging, started |-> FALSE,
                           next_pc |-> next_pc, pc |-> pc]>>
          PROVE  DOMAIN mst'[1] = F
      BY <2>3
    <2>4. ASSUME w.request # <<>>, walk = <<>>, vec = <<>>, mst' = <<[mst[1] EXCEPT !.started = TRUE]>>
          PROVE  DOMAIN mst'[1] = F
      BY <1>11, <2>1, <2>4
    <2> HIDE DEF F
    <2>5. mst' # <<>> => DOMAIN mst'[1] = F
      BY <1>12, <2>1, <2>2, <2>3, <2>4
    <2> QED BY <2>5 DEF F
  <1>15. ret' # <<>> =>
           /\ fin # <<>> => ret'[1].control = <<>> /\ ret'[1].trap = 0 /\ ~ret'[1].halt
           /\ fin = <<>> => /\ w.to_retire
                            /\ ret'[1].trap = w.o.trap /\ ret'[1].halt = w.o.halt
    BY DEF Advance, AdvanceRetire
  <1>16. Latches'
    <2>1. DOMAIN fetch' = {"pc", "phys", "ok"}
      BY DEF Advance, AdvanceFetch, FetchFrom, Latches
    <2> QED BY <1>5, <1>6, <1>8, <1>14, <2>1, CommonEdge DEF Latches, WalkFields
  <1>17. FinalAlone'
    BY <1>9 DEF FinalAlone
  <1>18. VectorAlone'
    <2>1. w.trap_next # <<>> => vec = <<>>
      BY DEF Cycle, TrapFacts, StageFacts, VectorAlone, WalkAlone, Latches, Processing
    <2>2. vec # <<>> => dec' = <<>> /\ exe' = <<>> /\ mst' = <<>> /\ fin' = <<>> /\ ret' = <<>>
      BY <1>3, <1>4, <1>7, <1>9, <1>13, <1>15 DEF VectorAlone
    <2> QED BY <1>1, <1>8, <2>1, <2>2 DEF VectorAlone
  <1>19. WalkAlone'
    <2>1. walk' # <<>> => walk # <<>> /\ walk'[1].kind = walk[1].kind
      BY <1>5, <1>6 DEF WalkFields
    <2>2. ASSUME walk # <<>>, walk[1].kind = "fetch"
          PROVE  /\ dec' = <<>> /\ exe' = <<>> /\ mst' = <<>> /\ vec' = <<>>
                 /\ ~fetch'.ok /\ Paging'
                 /\ ret' # <<>> => ret'[1].control = <<>>
      <3>1. dec' = <<>> /\ exe' = <<>> /\ mst' = <<>> /\ vec' = <<>>
        BY <1>7, <1>8, <1>13, <2>2 DEF WalkAlone
      <3>2. ~fetch'.ok
        <4>1. ~w.execute_redirect /\ ~w.fetch_accept
          BY <1>3, <2>2 DEF WalkAlone
        <4>2. fetch' = fetch \/ fetch'.ok = ~Paging
          BY <4>1 DEF Advance, AdvanceFetch
        <4> QED BY <2>2, <4>2 DEF WalkAlone
      <3>3. ret' # <<>> => ret'[1].control = <<>>
        BY <1>3, <1>15, <2>2 DEF WalkAlone
      <3>4. Paging'
        BY <2>2 DEF WalkAlone
      <3> QED BY <3>1, <3>2, <3>3, <3>4
    <2>3. ASSUME walk # <<>>, walk[1].kind = "memory"
          PROVE  mst' # <<>> /\ ~mst'[1].ok /\ vec' = <<>> /\ fin' = <<>>
      BY <1>4, <1>8, <1>9, <1>13, <2>3 DEF WalkAlone
    <2>4. ASSUME walk # <<>>, walk[1].kind = "vector"
          PROVE  vec' # <<>> /\ ~vec'[1].ok
      BY <1>8, <2>4 DEF WalkAlone
    <2> QED BY <2>1, <2>2, <2>3, <2>4 DEF WalkAlone
  <1>20. TrapAlone'
    <2> SUFFICES ASSUME ret' # <<>>, ret'[1].trap # 0 \/ ret'[1].halt
                 PROVE  exe' = <<>> /\ mst' = <<>> /\ walk' = <<>> /\ vec' = <<>>
      BY DEF TrapAlone
    <2>1. w.to_retire /\ w.flush /\ fin = <<>>
      <3>1. fin = <<>> /\ w.to_retire /\ (w.o.trap # 0 \/ w.o.halt)
        BY <1>15
      <3> QED BY <1>3, <3>1 DEF Cycle, WireFacts
    <2>2. walk = <<>> /\ vec = <<>>
      BY <1>3, <2>1 DEF WalkAlone, VectorAlone, Latches
    <2>3. exe' = <<>>
      BY <1>3, <2>1 DEF Advance, AdvanceDecode
    <2>4. mst' = <<>>
      BY <1>3, <1>4, <1>11, <1>12, <2>1, <2>2
    <2> QED BY <1>6, <1>8, <2>2, <2>3, <2>4
  <1>21. FaultQuiet'
    <2> SUFFICES ASSUME w.trap_next # <<>>
                 PROVE  /\ walk' # <<>> => walk'[1].processing
                        /\ mst' # <<>> => ~mst'[1].ok
      BY <1>1 DEF FaultQuiet
    <2>1. CASE ret # <<>> /\ ret[1].trap # 0
      BY <2>1, <1>6, <1>13 DEF TrapAlone
    <2>2. CASE s.fetch_xl = "fault"
      BY <2>2, <1>6, <1>13 DEF Cycle, StageFacts
    <2>3. CASE s.memory_xl = "fault"
      BY <2>3, <1>6, <1>13 DEF Cycle, StageFacts, FinalAlone
    <2>4. CASE s.walk_fault # <<>> /\ walk[1].kind # "vector"
      BY <2>4, <1>5, <1>13 DEF Cycle, StageFacts, Processing, WalkAlone, Latches, WalkFields
    <2> QED BY <2>1, <2>2, <2>3, <2>4 DEF Cycle, TrapFacts
  <1>22. BusOwned'
    <2> SUFFICES ASSUME LsuActive(lsu')
                 PROVE  \/ walk' # <<>> /\ ~walk'[1].processing /\ walk'[1].started /\ lsu'.req = WalkRequest'
                        \/ walk' = <<>> /\ vec' # <<>> /\ vec'[1].ok /\ vec'[1].started
                        \/ walk' = <<>> /\ vec' = <<>> /\ mst' # <<>> /\ mst'[1].ok /\ mst'[1].started
      BY DEF BusOwned
    <2>0. walk # <<>> => WalkRequest' = WalkRequest
      BY <1>5 DEF WalkRequest, WalkFields
    <2>1. CASE LsuActive(lsu) /\ ~LsuDone(lsu, d) /\ lsu'.req = lsu.req
      <3>1. CASE walk # <<>> /\ ~walk[1].processing /\ walk[1].started /\ lsu.req = WalkRequest
        <4>1. walk'[1].started
          BY <3>1 DEF Advance, Latches, WalkFields
        <4> QED BY <1>5, <2>0, <2>1, <3>1, <4>1 DEF WalkFields
      <3>2. CASE walk = <<>> /\ vec # <<>> /\ vec[1].ok /\ vec[1].started
        BY <1>6, <1>8, <3>2
      <3>3. CASE walk = <<>> /\ vec = <<>> /\ mst # <<>> /\ mst[1].ok /\ mst[1].started
        <4>1. ~w.memory_done
          BY <1>4, <2>1
        <4>2. ~w.memory_redirect /\ ~w.to_memory
          BY <1>3, <3>3 DEF FinalAlone
        <4>3. w.request = <<>>
          BY <1>10, <3>3 DEF LsuRequest
        <4> QED BY <1>6, <1>8, <1>12, <3>3, <4>1, <4>2, <4>3
      <3> QED BY <1>2, <2>1, <3>1, <3>2, <3>3 DEF BusOwned
    <2>2. CASE ~LsuActive(lsu) /\ LsuRequest(s) # <<>> /\ lsu'.req = LsuRequest(s)[1]
      <3>0. w.request # <<>> /\ LsuReady(lsu)
        BY <1>10, <2>2 DEF LsuActive, LsuReady
      <3>1. CASE walk # <<>> /\ ~walk[1].processing /\ ~walk[1].started /\ LsuRequest(s)[1] = WalkRequest
        <4>1. walk'[1].started
          BY <3>0, <3>1 DEF Advance, Latches, WalkFields
        <4> QED BY <1>5, <2>0, <2>2, <3>1, <4>1 DEF WalkFields
      <3>2. CASE walk = <<>> /\ vec # <<>> /\ vec[1].ok /\ ~vec[1].started
        <4>1. vec'[1].started
          BY <3>0, <3>2 DEF Advance, Latches
        <4> QED BY <1>6, <1>8, <3>2, <4>1
      <3>3. CASE walk = <<>> /\ ~(vec # <<>> /\ vec[1].ok) /\ mst # <<>> /\ mst[1].ok /\ ~s.cached
                 /\ ~mst[1].started
        <4>1. vec = <<>>
          BY <3>3 DEF VectorAlone
        <4>2. ~w.memory_done
          BY <3>3, <2>2, CommonEdge DEF Cycle, WireFacts
        <4>3. ~w.memory_redirect /\ ~w.to_memory
          BY <1>3, <3>3 DEF FinalAlone
        <4>4. mst' = <<[mst[1] EXCEPT !.started = TRUE]>>
          BY <1>12, <3>0, <3>3, <4>1, <4>2, <4>3
        <4> QED BY <1>6, <1>8, <3>3, <4>1, <4>4 DEF Latches
      <3> QED BY <2>2, <3>1, <3>2, <3>3, RequestOf
    <2> QED BY <2>1, <2>2, CommonEdge
  <1> QED BY <1>16, <1>17, <1>18, <1>19, <1>20, <1>21, <1>22

\* A branch that stops the core empties it.
LEMMA StopStructure ==
  ASSUME Structure, NEW s, NEW w, NEW i, NEW d, NEW lines, NEW b, Cycle(s, w, i, d, lines, b),
         ClearInflight, walk' = <<>>, vec' \in {vec, <<>>}, fetch' = fetch, halted' \/ locked'
  PROVE  Structure'
  <1> USE DEF Structure, ClearInflight
  <1>1. vec # <<>> => pend' = <<>>
    <2>1. vec # <<>> => w.trap_next = <<>>
      BY DEF Cycle, TrapFacts, StageFacts, VectorAlone, WalkAlone, Latches, Processing
    <2> QED BY <2>1, CommonEdge
  <1>2. Latches'
    BY CommonEdge DEF Latches
  <1>3. FinalAlone' /\ WalkAlone' /\ TrapAlone' /\ FaultQuiet' /\ BusOwned'
    BY DEF FinalAlone, WalkAlone, TrapAlone, FaultQuiet, BusOwned
  <1>4. VectorAlone'
    BY <1>1 DEF VectorAlone
  <1> QED BY <1>2, <1>3, <1>4

\* Nothing is on the bus, or on its way there, unless one of the three who
\* can ask for it has its physical address.
LEMMA BusIdle ==
  ASSUME Structure, NEW s, NEW w, NEW i, NEW d, NEW lines, NEW b, Cycle(s, w, i, d, lines, b),
         ~halted, ~locked,
         walk # <<>> => walk[1].processing, vec # <<>> => ~vec[1].ok, mst # <<>> => ~mst[1].ok
  PROVE  ~LsuActive(lsu')
  <1>1. ~LsuActive(lsu)
    BY DEF Structure, BusOwned
  <1>2. LsuRequest(s) = <<>>
    BY RequestOf
  <1> QED BY <1>1, <1>2, CommonEdge DEF Structure

\* An access that is answered leaves the bus idle.
LEMMA BusDone ==
  ASSUME Structure, NEW s, NEW w, NEW i, NEW d, NEW lines, NEW b, Cycle(s, w, i, d, lines, b),
         LsuDone(lsu, d)
  PROVE  ~LsuActive(lsu')
  BY CommonEdge DEF Structure

\* The entry of a trap or of an interrupt
LEMMA EntryStructure ==
  ASSUME Structure, NEW s, NEW w, NEW i, NEW d, NEW lines, Cycle(s, w, i, d, lines, "entry"),
         EntryStart(w)
  PROVE  Structure'
  <1> USE DEF Structure
  <1>1. w.entry /\ ~halted /\ ~locked
    BY DEF Cycle, BranchFacts
  <1>2. pend' = <<>>
    BY <1>1, CommonEdge
  <1>3. /\ dec' = <<>> /\ exe' = <<>> /\ mst' = <<>> /\ fin' = <<>> /\ ret' = <<>> /\ walk' = <<>>
        /\ vec' # <<>> /\ DOMAIN vec'[1] = {"va", "addr", "ok", "started", "epc", "flags"}
        /\ fetch' = fetch
    BY DEF EntryStart, ClearInflight
  <1>4. ~LsuActive(lsu')
    <2>1. TrapStart \/ IrqStart(w.trap_next, PendingIrq(sr, lines))
      BY <1>1, CommonEdge
    <2>2. /\ walk # <<>> => walk[1].processing
          /\ vec # <<>> => ~vec[1].ok
          /\ mst # <<>> => ~mst[1].ok
      BY <2>1 DEF TrapStart, IrqStart, FaultQuiet
    <2> QED BY <1>1, <2>2, BusIdle
  <1>5. Latches'
    BY <1>3, CommonEdge DEF Latches
  <1>6. FinalAlone' /\ WalkAlone' /\ TrapAlone' /\ FaultQuiet' /\ BusOwned' /\ VectorAlone'
    BY <1>2, <1>3, <1>4 DEF FinalAlone, WalkAlone, TrapAlone, FaultQuiet, BusOwned, VectorAlone
  <1> QED BY <1>5, <1>6

\* An address that needs no walk
LEMMA TranslatedStructure ==
  ASSUME Structure, NEW s, NEW w, NEW i, NEW d, NEW lines, NEW b, Cycle(s, w, i, d, lines, b),
         \/ b = "vector_translated" /\ VectorTranslated(w)
         \/ b = "memory_translated" /\ MemoryTranslated(w)
         \/ b = "fetch_translated" /\ FetchTranslated(w)
  PROVE  Structure'
  <1> USE DEF Structure
  <1>1. ~halted /\ ~locked /\ walk = <<>>
    BY DEF Cycle, BranchFacts, StageFacts
  <1>2. CASE b = "vector_translated" /\ VectorTranslated(w)
    <2>1. vec # <<>> /\ ~vec[1].ok
      BY <1>2 DEF Cycle, BranchFacts, StageFacts
    <2>2. mst = <<>> /\ ret = <<>> /\ fin = <<>> /\ dec = <<>> /\ exe = <<>>
      BY <2>1 DEF VectorAlone
    <2>3. pend' = <<>>
      <3>1. w.trap_next = <<>>
        BY <1>1, <2>1, <2>2 DEF Cycle, TrapFacts, StageFacts, Processing
      <3> QED BY <3>1, CommonEdge
    <2>4. ~LsuActive(lsu')
      BY <1>1, <2>1, <2>2, BusIdle
    <2>5. /\ dec' = <<>> /\ exe' = <<>> /\ mst' = <<>> /\ fin' = <<>> /\ ret' = <<>> /\ walk' = <<>>
          /\ fetch' = fetch
          /\ vec' # <<>> /\ DOMAIN vec'[1] = {"va", "addr", "ok", "started", "epc", "flags"}
      BY <1>1, <1>2, <2>1, <2>2 DEF VectorTranslated, KeepPipeline, Latches
    <2>6. Latches'
      BY <2>5, CommonEdge DEF Latches
    <2> QED BY <2>3, <2>4, <2>5, <2>6
            DEF FinalAlone, WalkAlone, TrapAlone, FaultQuiet, BusOwned, VectorAlone
  <1>3. CASE b = "memory_translated" /\ MemoryTranslated(w)
    <2>1. mst # <<>> /\ ~mst[1].ok /\ vec = <<>> /\ fin = <<>>
      BY <1>3 DEF Cycle, BranchFacts, StageFacts, FinalAlone
    <2>2. pend' = <<>>
      <3>1. w.trap_next = <<>>
        BY <1>1, <1>3, <2>1 DEF Cycle, TrapFacts, BranchFacts, StageFacts, Processing, TrapAlone
      <3> QED BY <3>1, CommonEdge
    <2>3. ~LsuActive(lsu')
      BY <1>1, <2>1, BusIdle
    <2>4. /\ walk' = <<>> /\ vec' = <<>> /\ fin' = <<>> /\ ret' = ret /\ fetch' = fetch
          /\ mst' # <<>> /\ DOMAIN mst'[1] = {"op", "addr", "ok", "started", "next_pc", "pc"}
      BY <1>1, <1>3, <2>1 DEF MemoryTranslated, Latches
    <2>5. ret # <<>> => ~(ret[1].trap # 0 \/ ret[1].halt)
      BY <2>1 DEF TrapAlone
    <2>6. Latches'
      BY <2>4, CommonEdge DEF Latches
    <2> QED BY <2>2, <2>3, <2>4, <2>5, <2>6
            DEF FinalAlone, WalkAlone, TrapAlone, FaultQuiet, BusOwned, VectorAlone
  <1>4. CASE b = "fetch_translated" /\ FetchTranslated(w)
    <2>1. dec = <<>> /\ exe = <<>> /\ mst = <<>> /\ ret = <<>> /\ vec = <<>>
      BY <1>4 DEF Cycle, BranchFacts, StageFacts
    <2>2. pend' = <<>>
      <3>1. w.trap_next = <<>>
        BY <1>1, <1>4, <2>1 DEF Cycle, TrapFacts, BranchFacts, StageFacts, Processing
      <3> QED BY <3>1, CommonEdge
    <2>3. ~LsuActive(lsu')
      BY <1>1, <2>1, BusIdle
    <2>4. /\ walk' = <<>> /\ vec' = <<>> /\ ret' = <<>> /\ mst' = <<>>
          /\ DOMAIN fetch' = {"pc", "phys", "ok"}
      BY <1>1, <1>4, <2>1 DEF FetchTranslated, KeepPipeline, Latches
    <2>5. Latches'
      BY <2>4, CommonEdge DEF Latches
    <2> QED BY <2>2, <2>3, <2>4, <2>5
            DEF FinalAlone, WalkAlone, TrapAlone, FaultQuiet, BusOwned, VectorAlone
  <1> QED BY <1>2, <1>3, <1>4

\* While nothing writes the special registers but an interrupt's entry, the
\* paging bit stays.
LEMMA PagingStays ==
  ASSUME IsFile(sr), NEW s, NEW w, NEW i, NEW d, NEW lines, NEW b, Cycle(s, w, i, d, lines, b),
         exe = <<>>, ret # <<>> => ret[1].control = <<>>, ~TrapStart
  PROVE  Paging' = Paging
  <1> DEFINE control == IF w.entry THEN <<EntryControl(sr[CPU_CONTROL], w.vector)>>
                        ELSE IF ret # <<>> THEN ret[1].control ELSE <<>>
  <1>1. ~w.to_retire /\ w.vector \in 0 .. 15
    BY PendingIrqRange DEF Cycle, WireFacts
  <1>2. PICK saved, entered, set : sr' = SpecialClock(sr, control, saved, entered, pend, <<>>, set)
    BY <1>1 DEF Cycle, Clock
  <1>3. sr'[CPU_CONTROL] = IF control = <<>> THEN sr[CPU_CONTROL] ELSE control[1]
    BY <1>2, SpecialClockControl
  <1>4. CASE w.entry
    <2>1. sr'[CPU_CONTROL] = EntryControl(sr[CPU_CONTROL], w.vector)
      BY <1>3, <1>4
    <2> QED BY <1>1, <2>1, PagingKept DEF Paging
  <1>5. CASE ~w.entry
    BY <1>3, <1>5 DEF Paging
  <1> QED BY <1>4, <1>5

\* A walk starts for the one requester that waits.
LEMMA StartStructure ==
  ASSUME Structure, IsFile(sr),
         NEW s, NEW w, NEW i, NEW d, NEW lines, NEW b, Cycle(s, w, i, d, lines, b),
         NEW va, NEW access, NEW kind, StartWalk(w, va, access, kind),
         \/ b = "vector_walk" /\ kind = "vector"
         \/ b = "memory_walk" /\ kind = "memory"
         \/ b = "fetch_walk" /\ kind = "fetch"
  PROVE  Structure'
  <1> USE DEF Structure
  <1>1. ~halted /\ ~locked /\ walk = <<>> /\ pend = <<>>
    BY DEF Cycle, BranchFacts, StageFacts
  <1>2. /\ walk' # <<>> /\ DOMAIN walk'[1] = WalkFields
        /\ walk'[1].level = 2 /\ walk'[1].kind = kind /\ ~walk'[1].processing
    BY DEF StartWalk, WalkFields
  <1>3. /\ dec' = dec /\ exe' = exe /\ mst' = mst /\ fin' = fin /\ ret' = ret
        /\ vec' = vec /\ fetch' = fetch
    BY DEF StartWalk, KeepPipeline
  <1>4. Latches'
    BY <1>2, <1>3, CommonEdge DEF Latches
  <1>5. CASE kind = "vector"
    <2>1. vec # <<>> /\ ~vec[1].ok
      BY <1>5 DEF Cycle, BranchFacts, StageFacts
    <2>2. mst = <<>> /\ ret = <<>> /\ fin = <<>> /\ dec = <<>> /\ exe = <<>>
      BY <2>1 DEF VectorAlone
    <2>3. pend' = <<>>
      <3>1. w.trap_next = <<>>
        BY <1>1, <2>1, <2>2 DEF Cycle, TrapFacts, StageFacts, Processing
      <3> QED BY <3>1, CommonEdge
    <2>4. ~LsuActive(lsu')
      BY <1>1, <2>1, <2>2, BusIdle
    <2> QED BY <1>2, <1>3, <1>4, <1>5, <2>1, <2>2, <2>3, <2>4
            DEF FinalAlone, WalkAlone, TrapAlone, FaultQuiet, BusOwned, VectorAlone
  <1>6. CASE kind = "memory"
    <2>1. mst # <<>> /\ ~mst[1].ok /\ vec = <<>> /\ fin = <<>>
      BY <1>6 DEF Cycle, BranchFacts, StageFacts, FinalAlone
    <2>2. pend' = <<>>
      <3>1. w.trap_next = <<>>
        BY <1>1, <1>6, <2>1 DEF Cycle, TrapFacts, BranchFacts, StageFacts, Processing, TrapAlone
      <3> QED BY <3>1, CommonEdge
    <2>3. ~LsuActive(lsu')
      BY <1>1, <2>1, BusIdle
    <2>4. ret # <<>> => ~(ret[1].trap # 0 \/ ret[1].halt)
      BY <2>1 DEF TrapAlone
    <2> QED BY <1>2, <1>3, <1>4, <1>6, <2>1, <2>2, <2>3, <2>4
            DEF FinalAlone, WalkAlone, TrapAlone, FaultQuiet, BusOwned, VectorAlone
  <1>7. CASE kind = "fetch"
    <2>1. ~fetch.ok /\ dec = <<>> /\ exe = <<>> /\ mst = <<>> /\ ret = <<>> /\ vec = <<>> /\ Paging
      BY <1>7 DEF Cycle, BranchFacts, StageFacts
    <2>2. pend' = <<>>
      <3>1. w.trap_next = <<>>
        BY <1>1, <1>7, <2>1 DEF Cycle, TrapFacts, BranchFacts, StageFacts, Processing
      <3> QED BY <3>1, CommonEdge
    <2>3. ~LsuActive(lsu')
      BY <1>1, <2>1, BusIdle
    <2>4. Paging'
      BY <1>1, <2>1, PagingStays DEF TrapStart
    <2> QED BY <1>2, <1>3, <1>4, <1>7, <2>1, <2>2, <2>3, <2>4
            DEF FinalAlone, WalkAlone, TrapAlone, FaultQuiet, BusOwned, VectorAlone
  <1> QED BY <1>5, <1>6, <1>7

\* A walk in progress lets no trap come from elsewhere.
LEMMA WalkNoTrap ==
  ASSUME Structure, NEW s, NEW w, NEW i, NEW d, NEW lines, NEW b, Cycle(s, w, i, d, lines, b),
         walk # <<>>, Processing => s.walk_fault = <<>>
  PROVE  pend' = <<>> /\ (ret # <<>> => ~(ret[1].trap # 0 \/ ret[1].halt))
  <1>1. w.trap_next = <<>>
    BY DEF Structure, Cycle, TrapFacts, StageFacts, TrapAlone
  <1> QED BY <1>1, CommonEdge DEF Structure, TrapAlone

\* The walk takes its entry off the bus, or goes on one level down.
LEMMA WalkStructure ==
  ASSUME Structure, IsFile(sr),
         NEW s, NEW w, NEW i, NEW d, NEW lines, NEW b, Cycle(s, w, i, d, lines, b),
         \/ b = "walk_response" /\ WalkResponse(w, d) /\ ~LsuError(lsu, d)
         \/ b = "walk_descend" /\ WalkDescend(w)
  PROVE  Structure'
  <1> USE DEF Structure
  <1>1. ~halted /\ ~locked /\ walk # <<>> /\ ~w.entry
    BY DEF Cycle, BranchFacts, WireFacts, Processing
  <1>2. pend' = <<>> /\ (ret # <<>> => ~(ret[1].trap # 0 \/ ret[1].halt))
    BY <1>1, WalkNoTrap DEF Cycle, BranchFacts, WireFacts, Processing
  <1>3. /\ dec' = dec /\ exe' = exe /\ mst' = mst /\ fin' = fin /\ ret' = ret
        /\ vec' = vec /\ fetch' = fetch
    BY DEF WalkResponse, WalkDescend, KeepPipeline
  <1>4. /\ walk' # <<>> /\ DOMAIN walk'[1] = WalkFields /\ walk'[1].kind = walk[1].kind
        /\ walk'[1].level \in 0 .. 2
    <2>1. CASE b = "walk_response" /\ WalkResponse(w, d) /\ ~LsuError(lsu, d)
      <3>1. PICK pte : walk' = <<[walk[1] EXCEPT !.processing = TRUE, !.pte = pte]>>
        BY <2>1 DEF WalkResponse
      <3> QED BY <1>1, <3>1 DEF Latches, WalkFields
    <2>2. CASE b = "walk_descend" /\ WalkDescend(w)
      <3>1. walk[1].level # 0
        <4>1. /\ WalkFault(walk[1].pte, walk[1].level, walk[1].access, User) = <<>>
              /\ ~WalkIsLeaf(walk[1].pte)
          BY <2>2 DEF Cycle, BranchFacts, StageFacts
        <4> QED BY <4>1, TableLevel
      <3>2. /\ DOMAIN walk[1] = WalkFields
            /\ walk' = <<[walk[1] EXCEPT !.processing = FALSE, !.started = FALSE, !.pte = <<>>,
                                         !.table = walk[1].pte.ppn, !.level = @ - 1]>>
        BY <1>1, <2>2 DEF WalkDescend, Latches
      <3>3. walk'[1].level = walk[1].level - 1 /\ walk'[1].kind = walk[1].kind
            /\ DOMAIN walk'[1] = WalkFields
        BY <3>2 DEF WalkFields
      <3> QED BY <1>1, <3>1, <3>2, <3>3 DEF Latches
    <2> QED BY <2>1, <2>2
  <1>5. ~LsuActive(lsu')
    <2>1. CASE b = "walk_response"
      BY <2>1, BusDone DEF Cycle, BranchFacts, WireFacts
    <2>2. CASE b = "walk_descend"
      <3>1. Processing
        BY <2>2 DEF Cycle, BranchFacts
      <3>2. ~LsuActive(lsu) /\ LsuRequest(s) = <<>>
        BY <1>1, <3>1 DEF Processing, BusOwned, LsuRequest
      <3> QED BY <3>2, CommonEdge
    <2> QED BY <2>1, <2>2
  <1>6. walk[1].kind = "fetch" => Paging'
    <2>1. walk[1].kind = "fetch" => Paging' = Paging
      BY <1>1, PagingStays, CommonEdge DEF WalkAlone
    <2> QED BY <1>1, <2>1 DEF WalkAlone
  <1>7. Latches'
    BY <1>1, <1>3, <1>4, CommonEdge DEF Latches
  <1> QED BY <1>1, <1>2, <1>3, <1>4, <1>5, <1>6, <1>7
          DEF FinalAlone, WalkAlone, TrapAlone, FaultQuiet, BusOwned, VectorAlone

\* The walk has found its leaf, and its requester its physical address.
LEMMA LeafStructure ==
  ASSUME Structure, NEW s, NEW w, NEW i, NEW d, NEW lines, Cycle(s, w, i, d, lines, "walk_leaf"),
         WalkLeafFound(w)
  PROVE  Structure'
  <1> USE DEF Structure
  <1>1. ~halted /\ ~locked /\ Processing /\ s.walk_fault = <<>> /\ walk # <<>>
    BY DEF Cycle, BranchFacts, StageFacts, Processing
  <1>2. pend' = <<>> /\ (ret # <<>> => ~(ret[1].trap # 0 \/ ret[1].halt))
    BY <1>1, WalkNoTrap
  <1>3. walk' = <<>> /\ dec' = dec /\ exe' = exe /\ fin' = fin /\ ret' = ret
    BY DEF WalkLeafFound
  <1>4. ~LsuActive(lsu')
    <2>1. ~LsuActive(lsu) /\ LsuRequest(s) = <<>>
      BY <1>1 DEF Processing, BusOwned, LsuRequest
    <2> QED BY <2>1, CommonEdge
  <1>5. DOMAIN fetch' = {"pc", "phys", "ok"}
    BY DEF WalkLeafFound, Latches
  <1>6. /\ vec = <<>> => vec' = <<>>
        /\ vec' # <<>> => DOMAIN vec'[1] = {"va", "addr", "ok", "started", "epc", "flags"}
    BY <1>1 DEF WalkLeafFound, Latches, WalkAlone
  <1>7. /\ mst = <<>> => mst' = <<>>
        /\ mst' # <<>> => DOMAIN mst'[1] = {"op", "addr", "ok", "started", "next_pc", "pc"}
    BY <1>1 DEF WalkLeafFound, Latches, WalkAlone
  <1>8. Latches'
    BY <1>3, <1>5, <1>6, <1>7, CommonEdge DEF Latches
  <1> QED BY <1>2, <1>3, <1>4, <1>6, <1>7, <1>8
          DEF FinalAlone, WalkAlone, TrapAlone, FaultQuiet, BusOwned, VectorAlone

\* The handler's address has come.
LEMMA VectorStructure ==
  ASSUME Structure, NEW s, NEW w, NEW i, NEW d, NEW lines,
         Cycle(s, w, i, d, lines, "vector_response"), VectorResponse(w, d)
  PROVE  Structure'
  <1> USE DEF Structure
  <1>1. vec # <<>> /\ vec[1].ok /\ LsuDone(lsu, d)
    BY DEF Cycle, BranchFacts, WireFacts
  <1>2. walk = <<>> /\ walk' = <<>> /\ vec' = <<>>
    BY <1>1 DEF VectorResponse, WalkAlone, Latches
  <1>3. CASE LsuError(lsu, d) \/ LsuLoad(lsu, mem) = 0
    BY <1>2, <1>3, StopStructure DEF VectorResponse
  <1>4. CASE ~(LsuError(lsu, d) \/ LsuLoad(lsu, mem) = 0)
    <2>1. /\ dec = <<>> /\ exe = <<>> /\ mst = <<>> /\ fin = <<>> /\ ret = <<>>
          /\ ret' = <<>> /\ mst' = <<>> /\ fin' = <<>>
      BY <1>1, <1>4 DEF VectorResponse, VectorAlone
    <2>2. DOMAIN fetch' = {"pc", "phys", "ok"}
      BY <1>4 DEF VectorResponse, FetchFrom
    <2>3. pend' = <<>>
      <3>1. w.trap_next = <<>>
        BY <1>1, <1>2, <2>1 DEF Cycle, TrapFacts, StageFacts, Processing
      <3> QED BY <3>1, CommonEdge
    <2>4. ~LsuActive(lsu')
      BY <1>1, BusDone
    <2>5. Latches'
      BY <1>2, <2>1, <2>2, CommonEdge DEF Latches
    <2> QED BY <1>2, <2>1, <2>3, <2>4, <2>5
            DEF FinalAlone, WalkAlone, TrapAlone, FaultQuiet, BusOwned, VectorAlone
  <1> QED BY <1>3, <1>4

-----------------------------------------------------------------------------
\* The branch a cycle takes
Taken(w, d, b) ==
    \/ b = "stopped" /\ Stopped(w)
    \/ b = "bus_error" /\ BusError(w)
    \/ b = "vector_lockup" /\ VectorLockup(w)
    \/ b = "vector_translated" /\ VectorTranslated(w)
    \/ b = "memory_translated" /\ MemoryTranslated(w)
    \/ b = "fetch_translated" /\ FetchTranslated(w)
    \/ b = "vector_walk" /\ StartWalk(w, vec[1].va, "R", "vector")
    \/ b = "memory_walk" /\ StartWalk(w, mst[1].op.addr, IF mst[1].op.write THEN "W" ELSE "R", "memory")
    \/ b = "fetch_walk" /\ StartWalk(w, xl.va, "X", "fetch")
    \/ b = "trap_lockup" /\ TrapLockup(w)
    \/ b = "entry" /\ EntryStart(w)
    \/ b = "walk_response" /\ WalkResponse(w, d)
    \/ b = "walk_leaf" /\ WalkLeafFound(w)
    \/ b = "walk_descend" /\ WalkDescend(w)
    \/ b = "vector_response" /\ VectorResponse(w, d)
    \/ b = "halt" /\ HaltRequest(w)
    \/ b = "advance" /\ Advance(w)

\* Every step is a cycle and its branch.
LEMMA StepCycle ==
  ASSUME Next
  PROVE  \E s, w, i, d, lines, b : Cycle(s, w, i, d, lines, b) /\ Taken(w, d, b)
  <1>1. PICK i \in IBus, d \in DBus, lines \in SUBSET prog.lines, s \in {Stages} :
          \E w \in {Wires(s, i, d, PendingIrq(sr, lines), TrapNext(s))} :
          \E b \in {Branch(w)} : Clock(w, i, d, lines) /\ Taken(w, d, b)
    BY DEF Next, Taken
  <1>2. PICK w : w = Wires(s, i, d, PendingIrq(sr, lines), TrapNext(s)) /\
                 \E b \in {Branch(w)} : Clock(w, i, d, lines) /\ Taken(w, d, b)
    BY <1>1
  <1>3. StageFacts(s)
    BY StagesSay
  <1>4. WireFacts(s, w, d, PendingIrq(sr, lines)) /\ w.trap_next = TrapNext(s)
    BY <1>2, WiresSay
  <1>5. w.s = s
    BY <1>4 DEF WireFacts
  <1>6. TrapFacts(s, w.trap_next) /\ BranchFacts(s, w, Branch(w))
    BY <1>4, <1>5, TrapSays, BranchSays
  <1>7. Cycle(s, w, i, d, lines, Branch(w)) /\ Taken(w, d, Branch(w))
    BY <1>2, <1>3, <1>4, <1>6 DEF Cycle
  <1> QED BY <1>7

\* Every branch keeps the latches in order.
LEMMA StepStructure ==
  ASSUME Structure, IsFile(sr), NEW s, NEW w, NEW i, NEW d, NEW lines, NEW b,
         Cycle(s, w, i, d, lines, b), Taken(w, d, b)
  PROVE  Structure'
  <1>1. CASE b = "stopped" /\ Stopped(w)
    <2>1. halted' \/ locked'
      BY <1>1, CommonEdge DEF Structure, Cycle, BranchFacts, Stopped
    <2> QED BY <1>1, <2>1, StopStructure DEF Stopped
  <1>2. CASE \/ b = "bus_error" /\ BusError(w)
             \/ b = "vector_lockup" /\ VectorLockup(w)
             \/ b = "trap_lockup" /\ TrapLockup(w)
    BY <1>2, StopStructure DEF BusError, VectorLockup, TrapLockup
  <1>3. CASE \/ b = "vector_translated" /\ VectorTranslated(w)
             \/ b = "memory_translated" /\ MemoryTranslated(w)
             \/ b = "fetch_translated" /\ FetchTranslated(w)
    BY <1>3, TranslatedStructure
  <1>4. CASE b = "vector_walk" /\ StartWalk(w, vec[1].va, "R", "vector")
    BY <1>4, StartStructure
  <1>5. CASE b = "memory_walk"
             /\ StartWalk(w, mst[1].op.addr, IF mst[1].op.write THEN "W" ELSE "R", "memory")
    BY <1>5, StartStructure
  <1>6. CASE b = "fetch_walk" /\ StartWalk(w, xl.va, "X", "fetch")
    BY <1>6, StartStructure
  <1>7. CASE b = "entry" /\ EntryStart(w)
    BY <1>7, EntryStructure
  <1>8. CASE b = "walk_response" /\ WalkResponse(w, d)
    <2>1. CASE LsuError(lsu, d)
      BY <1>8, <2>1, StopStructure DEF WalkResponse
    <2>2. CASE ~LsuError(lsu, d)
      BY <1>8, <2>2, WalkStructure
    <2> QED BY <2>1, <2>2
  <1>9. CASE b = "walk_leaf" /\ WalkLeafFound(w)
    BY <1>9, LeafStructure
  <1>10. CASE b = "walk_descend" /\ WalkDescend(w)
    BY <1>10, WalkStructure
  <1>11. CASE b = "vector_response" /\ VectorResponse(w, d)
    BY <1>11, VectorStructure
  <1>12. CASE b = "halt" /\ HaltRequest(w)
    <2>1. ret # <<>> /\ ret[1].halt
      BY <1>12 DEF Cycle, BranchFacts
    <2>2. walk' = <<>> /\ vec' = <<>> /\ halted'
      BY <1>12, <2>1, CommonEdge DEF HaltRequest, Structure, TrapAlone
    <2> QED BY <1>12, <2>2, StopStructure DEF HaltRequest
  <1>13. CASE b = "advance" /\ Advance(w)
    <2>1. ~TrapStart
      BY <1>13, CommonEdge DEF Structure, Cycle, BranchFacts
    <2>2. Paging' = Paging \/ walk = <<>> \/ walk[1].kind # "fetch"
      BY <2>1, PagingStays DEF Structure, WalkAlone
    <2> QED BY <1>13, <2>2, AdvanceStructure
  <1> QED BY <1>1, <1>2, <1>3, <1>4, <1>5, <1>6, <1>7, <1>8, <1>9, <1>10, <1>11, <1>12, <1>13 DEF Taken

\* The special registers and the TLB of one cycle: a switch of the address
\* space flushes, the root is written by an instruction that retires, and
\* only the leaf of the walk is filled.
LEMMA CycleRegisters ==
  ASSUME IsFile(sr), GenerationsPast(tlb), NEW s, NEW w, NEW i, NEW d, NEW lines, NEW b,
         Cycle(s, w, i, d, lines, b)
  PROVE  \E flush \in BOOLEAN :
         /\ tlb' = TlbClock(tlb, flush, IF s.walk_leaf THEN WalkFill(walk[1]) ELSE <<>>)
         /\ GenerationsPast(tlb') /\ IsFile(sr')
         /\ flush => Live(tlb') = {}
         /\ \/ sr'[CPU_CONTROL] # sr[CPU_CONTROL]
            \/ sr'[PAGE_TABLE_ROOT] # sr[PAGE_TABLE_ROOT]
            => flush
         /\ sr'[PAGE_TABLE_ROOT] # sr[PAGE_TABLE_ROOT] => w.to_retire
  <1> DEFINE fill == IF s.walk_leaf THEN WalkFill(walk[1]) ELSE <<>>
  <1>0. w.s = s
    BY DEF Cycle, WireFacts
  <1>1. PICK control, saved, entered, write, set :
          /\ sr' = SpecialClock(sr, control, saved, entered, pend, write, set)
          /\ tlb' = TlbClock(tlb, TlbFlush(control, write), fill)
          /\ write # <<>> => w.to_retire
    BY <1>0 DEF Cycle, Clock
  <1> HIDE DEF fill
  <1> DEFINE flush == TlbFlush(control, write)
  <1>2. flush \in BOOLEAN
    BY DEF TlbFlush
  <1>3. GenerationsPast(tlb') /\ (flush => Live(tlb') = {})
    BY <1>1, <1>2, ClockPast
  <1>4. /\ IsFile(sr')
        /\ \/ sr'[CPU_CONTROL] # sr[CPU_CONTROL]
           \/ sr'[PAGE_TABLE_ROOT] # sr[PAGE_TABLE_ROOT]
           => flush
        /\ sr'[PAGE_TABLE_ROOT] # sr[PAGE_TABLE_ROOT] => w.to_retire
    BY <1>1, SpecialClockFile
  <1> HIDE DEF flush
  <1>5. tlb' = TlbClock(tlb, flush, fill)
    BY <1>1 DEF flush
  <1> QED BY <1>2, <1>3, <1>4, <1>5 DEF fill

\* A walk that goes on still leads where the walk from the root leads, and
\* the entry it reads is its own.
LEMMA StepWalk ==
  ASSUME Structure, WalkAgrees, NEW s, NEW w, NEW i, NEW d, NEW lines, NEW b,
         Cycle(s, w, i, d, lines, b), Taken(w, d, b),
         sr'[PAGE_TABLE_ROOT] # sr[PAGE_TABLE_ROOT] => w.to_retire
  PROVE  WalkAgrees'
  <1> SUFFICES ASSUME walk' # <<>> PROVE WalkAgrees'
    BY DEF WalkAgrees
  <1> USE DEF Structure
  <1>1. w.to_retire => exe # <<>> /\ mst = <<>> /\ fin = <<>>
    BY DEF Cycle, WireFacts
  <1>2. walk # <<>> => sr'[PAGE_TABLE_ROOT] = sr[PAGE_TABLE_ROOT]
    BY <1>1 DEF WalkAlone, VectorAlone, Latches
  <1>3. CASE b \in {"vector_walk", "memory_walk", "fetch_walk"}
    <2>1. sr'[PAGE_TABLE_ROOT] = sr[PAGE_TABLE_ROOT]
      BY <1>1, <1>3 DEF Cycle, BranchFacts, StageFacts, VectorAlone
    <2>2. PICK va, access, kind : StartWalk(w, va, access, kind)
      BY <1>3 DEF Taken
    <2>3. walk'[1].table = PageOf(sr[PAGE_TABLE_ROOT]) /\ walk'[1].level = 2 /\ ~walk'[1].processing
      BY <2>2 DEF StartWalk
    <2> QED BY <2>1, <2>3 DEF WalkAgrees, WalkRest
  <1>4. CASE b = "walk_response" /\ WalkResponse(w, d)
    <2>1. walk # <<>> /\ ~walk[1].processing /\ LsuDone(lsu, d) /\ ~halted /\ ~locked
      BY <1>4 DEF Cycle, BranchFacts, WireFacts
    <2>2. lsu.req = WalkRequest
      BY <2>1, CommonEdge DEF BusOwned
    <2>3. LsuLoad(lsu, mem) = WalkEntry(walk[1].table, walk[1].level, PageOf(walk[1].va))
      BY <2>2 DEF LsuLoad, WalkRequest, NoRequest, WalkEntry
    <2>4. walk' = <<[walk[1] EXCEPT !.processing = TRUE, !.pte = LsuLoad(lsu, mem)]>>
      BY <1>4 DEF WalkResponse
    <2>5. /\ walk'[1].va = walk[1].va /\ walk'[1].table = walk[1].table
          /\ walk'[1].level = walk[1].level /\ walk'[1].pte = LsuLoad(lsu, mem)
      BY <2>1, <2>4 DEF Latches, WalkFields
    <2> QED BY <1>2, <2>1, <2>3, <2>5 DEF WalkAgrees
  <1>5. CASE b = "walk_descend" /\ WalkDescend(w)
    <2> DEFINE t == walk[1]
    <2>1. /\ walk # <<>> /\ t.processing
          /\ WalkFault(t.pte, t.level, t.access, User) = <<>>
          /\ ~WalkIsLeaf(t.pte)
      BY <1>5 DEF Cycle, BranchFacts, StageFacts, Processing
    <2>2. t.level \in 0 .. 2 /\ t.pte = WalkEntry(t.table, t.level, PageOf(t.va))
      BY <2>1 DEF Latches, WalkAgrees
    <2>3. \A access, user : WalkRest(t.table, t.level, PageOf(t.va), access, user)
                              = WalkRest(t.pte.ppn, t.level - 1, PageOf(t.va), access, user)
      BY <2>1, <2>2, DescendRest
    <2>4. /\ walk'[1].va = t.va /\ walk'[1].table = t.pte.ppn
          /\ walk'[1].level = t.level - 1 /\ ~walk'[1].processing
      BY <1>5, <2>1 DEF WalkDescend, Latches, WalkFields
    <2> QED BY <1>2, <2>1, <2>3, <2>4 DEF WalkAgrees
  <1>6. CASE b = "advance" /\ Advance(w)
    <2>1. walk # <<>>
      BY <1>6 DEF Advance
    <2>2. /\ walk'[1].va = walk[1].va /\ walk'[1].table = walk[1].table
          /\ walk'[1].level = walk[1].level /\ walk'[1].processing = walk[1].processing
          /\ walk'[1].pte = walk[1].pte
      BY <1>6, <2>1 DEF Advance, Latches, WalkFields
    <2> QED BY <1>2, <2>1, <2>2 DEF WalkAgrees
  <1>7. b \in {"vector_walk", "memory_walk", "fetch_walk", "walk_response", "walk_descend", "advance"}
    <2>1. CASE b \in {"stopped", "bus_error", "vector_lockup", "trap_lockup", "entry", "walk_leaf"}
      BY <2>1 DEF Taken, Stopped, BusError, VectorLockup, TrapLockup, EntryStart, WalkLeafFound
    <2>2. CASE b \in {"vector_translated", "memory_translated", "fetch_translated"}
      <3>1. walk = <<>>
        BY <2>2 DEF Cycle, BranchFacts, StageFacts
      <3> QED BY <2>2, <3>1 DEF Taken, VectorTranslated, MemoryTranslated, FetchTranslated
    <2>3. CASE b = "vector_response"
      <3>1. vec # <<>> /\ vec[1].ok
        BY <2>3 DEF Cycle, BranchFacts, WireFacts
      <3>2. walk = <<>>
        BY <3>1 DEF WalkAlone, Latches
      <3> QED BY <2>3, <3>2 DEF Taken, VectorResponse
    <2>4. CASE b = "halt"
      <3>1. walk = <<>>
        BY <2>4 DEF Cycle, BranchFacts, TrapAlone
      <3> QED BY <2>4, <3>1 DEF Taken, HaltRequest
    <2> QED BY <2>1, <2>2, <2>3, <2>4 DEF Taken
  <1> QED BY <1>3, <1>4, <1>5, <1>6, <1>7 DEF Taken

\* What the walk fills is the translation of its page.
LEMMA FillIsWalk ==
  ASSUME Structure, WalkAgrees, NEW s, StageFacts(s), s.walk_leaf
  PROVE  LET fill == WalkFill(walk[1]) IN
         \A access, user : WalkAllowed(fill[3], access, user) =>
            WalkFrom2(PageOf(sr[PAGE_TABLE_ROOT]), fill[1], access, user) = Mapped(fill[2])
  <1> DEFINE t == walk[1]
  <1>1. /\ walk # <<>> /\ t.processing
        /\ WalkFault(t.pte, t.level, t.access, User) = <<>>
        /\ WalkIsLeaf(t.pte)
    BY DEF StageFacts, Processing
  <1>2. t.level \in 0 .. 2 /\ t.pte = WalkEntry(t.table, t.level, PageOf(t.va))
    BY <1>1 DEF Structure, Latches, WalkAgrees
  <1> HIDE DEF t
  <1>3. \A access, user : WalkAllowed(t.pte, access, user) =>
          WalkRest(t.table, t.level, PageOf(t.va), access, user)
            = Mapped(WalkPage(t.pte, t.level, PageOf(t.va)))
    BY <1>1, <1>2, LeafRest
  <1>4. \A access, user :
          WalkFrom2(PageOf(sr[PAGE_TABLE_ROOT]), PageOf(t.va), access, user)
            = WalkRest(t.table, t.level, PageOf(t.va), access, user)
    BY <1>1 DEF WalkAgrees, t
  <1> QED BY <1>3, <1>4 DEF WalkFill, t

\* One step keeps the invariant, and one that switches the address space
\* leaves no live entry.
LEMMA StepInv ==
  ASSUME Inv, Next
  PROVE  /\ Inv'
         /\ \/ sr'[CPU_CONTROL] # sr[CPU_CONTROL]
            \/ sr'[PAGE_TABLE_ROOT] # sr[PAGE_TABLE_ROOT]
            => Live(tlb') = {}
  <1> USE DEF Inv
  <1>1. PICK s, w, i, d, lines, b : Cycle(s, w, i, d, lines, b) /\ Taken(w, d, b)
    BY StepCycle
  <1> DEFINE fill == IF s.walk_leaf THEN WalkFill(walk[1]) ELSE <<>>
  <1>2. PICK flush \in BOOLEAN :
         /\ tlb' = TlbClock(tlb, flush, fill)
         /\ GenerationsPast(tlb') /\ IsFile(sr')
         /\ flush => Live(tlb') = {}
         /\ \/ sr'[CPU_CONTROL] # sr[CPU_CONTROL]
            \/ sr'[PAGE_TABLE_ROOT] # sr[PAGE_TABLE_ROOT]
            => flush
         /\ sr'[PAGE_TABLE_ROOT] # sr[PAGE_TABLE_ROOT] => w.to_retire
    BY <1>1, CycleRegisters
  <1>3. Structure'
    BY <1>1, StepStructure
  <1>4. WalkAgrees'
    BY <1>1, <1>2, StepWalk
  <1>5. fill # <<>> => \A access, user : WalkAllowed(fill[3], access, user) =>
                          WalkFrom2(PageOf(sr[PAGE_TABLE_ROOT]), fill[1], access, user)
                            = Mapped(fill[2])
    <2>1. StageFacts(s)
      BY <1>1 DEF Cycle
    <2> QED BY <2>1, FillIsWalk
  <1> HIDE DEF fill
  <1>6. Agrees(tlb', PageOf(sr'[PAGE_TABLE_ROOT]))
    <2>1. flush \/ PageOf(sr'[PAGE_TABLE_ROOT]) = PageOf(sr[PAGE_TABLE_ROOT])
      BY <1>2
    <2> QED BY <1>2, <1>5, <2>1, ClockAgrees
  <1> QED BY <1>2, <1>3, <1>4, <1>6

\* The reset state satisfies the invariant.
LEMMA InitInv == Init => Inv
  <1> SUFFICES ASSUME Init PROVE Inv
    OBVIOUS
  <1>1. IsFile(sr) /\ GenerationsPast(tlb)
    BY ProgramsAssumption, ResetPast DEF Init, IsFile
  <1>2. /\ dec = <<>> /\ exe = <<>> /\ mst = <<>> /\ fin = <<>> /\ ret = <<>>
        /\ vec = <<>> /\ walk = <<>> /\ pend = <<>>
        /\ lsu = LsuReset /\ DOMAIN fetch = {"pc", "phys", "ok"}
    BY DEF Init
  <1>3. DOMAIN lsu = {"st", "started", "req", "first", "wd"} /\ ~LsuActive(lsu)
    BY <1>2 DEF LsuReset, LsuActive
  <1>4. Structure
    BY <1>2, <1>3 DEF Structure, Latches, FinalAlone, VectorAlone, WalkAlone, TrapAlone, FaultQuiet,
                      BusOwned
  <1>5. WalkAgrees
    BY <1>2 DEF WalkAgrees
  <1>6. Agrees(tlb, PageOf(sr[PAGE_TABLE_ROOT]))
    BY ResetPast DEF Init, Agrees, Live
  <1> QED BY <1>1, <1>4, <1>5, <1>6 DEF Inv

\* The invariant holds in every state.
LEMMA AlwaysInv == Spec => []Inv
  <1>1. Inv /\ [Next]_vars => Inv'
    <2>1. ASSUME Inv, UNCHANGED vars PROVE Inv'
      <3>1. /\ sr' = sr /\ tlb' = tlb /\ lsu' = lsu /\ halted' = halted /\ locked' = locked
            /\ dec' = dec /\ exe' = exe /\ mst' = mst /\ fin' = fin /\ ret' = ret
            /\ vec' = vec /\ walk' = walk /\ pend' = pend /\ fetch' = fetch
        BY <2>1 DEF vars, arch, pipe
      <3>2. Structure'
        BY <2>1, <3>1 DEF Inv, Structure, Latches, FinalAlone, VectorAlone, WalkAlone, TrapAlone,
                          FaultQuiet, BusOwned, Paging, WalkRequest
      <3>3. WalkAgrees'
        BY <2>1, <3>1 DEF Inv, WalkAgrees
      <3> QED BY <2>1, <3>1, <3>2, <3>3 DEF Inv
    <2> QED BY <2>1, StepInv
  <1> QED BY <1>1, InitInv, PTL DEF Spec

\* A translation the TLB of the V3 core still answers with is the one the
\* page tables give now: no flush, generation wrap, fill, late answer of the
\* bus, aborted walk or new root leaves a stale entry.
THEOREM V3TlbAgrees == Spec => []TlbAgrees
  <1>1. Inv => TlbAgrees
    BY AgreesLive DEF Inv, TlbAgrees
  <1> QED BY <1>1, AlwaysInv, PTL

\* No translation outlives its address space in the V3 core: the edge that
\* changes the control word or the root empties the TLB.
THEOREM V3Switch == Spec => SwitchFlushes
  <1>1. Inv /\ [Next]_vars =>
          [\/ sr'[CPU_CONTROL] # sr[CPU_CONTROL]
           \/ sr'[PAGE_TABLE_ROOT] # sr[PAGE_TABLE_ROOT]
           => Live(tlb') = {}]_vars
    BY StepInv
  <1> QED BY <1>1, AlwaysInv, PTL DEF Spec, SwitchFlushes
=============================================================================
