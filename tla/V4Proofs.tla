------------------------------ MODULE V4Proofs ------------------------------
(***************************************************************************)
(* The translations of the V4 core, for every program, page table, size of *)
(* the TLB, number of generations and behaviour of the buses: the edge     *)
(* that switches the address space flushes, and, while the core runs, an   *)
(* entry that can answer is what the page tables say now.                  *)
(*                                                                         *)
(* The data bus has four users here: the walk, the vector load, the store  *)
(* buffer and the memory latch.  The invariant says which of them owns it  *)
(* and which latches can be valid together; it speaks of a running core,   *)
(* since a core that stops abandons its accesses where they are.           *)
(***************************************************************************)
EXTENDS V4Core, HdlTlbProofs

Running == ~halted /\ ~locked

WalkFields == {"va", "table", "level", "access", "kind", "processing", "started", "pte"}
VecFields == {"va", "addr", "ok", "started", "epc", "flags"}
MemFields == {"op", "addr", "ok", "started", "next_pc", "pc"}

\* the latches are records, whose fields an edge overwrites one by one
Latches ==
    /\ walk # <<>> => /\ DOMAIN walk[1] = WalkFields
                      /\ walk[1].level \in 0 .. 2
                      /\ walk[1].kind \in {"fetch", "memory", "vector"}
    /\ vec # <<>> => DOMAIN vec[1] = VecFields
    /\ xm # <<>> => DOMAIN xm[1] = MemFields
    /\ DOMAIN fetch = {"pc", "phys", "ok"}
    /\ DOMAIN lsu = {"st", "started", "req", "first", "wd"}

\* The store buffer has two places; an entry is one record.
StoreFields == {"addr", "width", "value", "started"}
TwoPlaces ==
    /\ sb = <<sb[1], sb[2]>>
    /\ sb[1] # <<>> => DOMAIN sb[1] = {1} /\ DOMAIN sb[1][1] = StoreFields
    /\ sb[2] # <<>> => DOMAIN sb[2] = {1} /\ DOMAIN sb[2][1] = StoreFields

\* An access in the memory latch waits neither for the store buffer nor for
\* the result before it.
MemoryAlone == xm # <<>> => mr = <<>> /\ ~StorebufAny

\* An entry is alone in the pipeline.
VectorAlone ==
    vec # <<>> => fd = <<>> /\ de = <<>> /\ xm = <<>> /\ mr = <<>> /\ ret = <<>> /\ pend = <<>>

\* A walk has one requester, which waits; the store buffer is empty and
\* nothing can write the root.
WalkAlone ==
    walk # <<>> =>
        /\ ~StorebufAny
        /\ walk[1].kind = "fetch" =>
              /\ fd = <<>> /\ de = <<>> /\ xm = <<>> /\ vec = <<>>
              /\ ~fetch.ok /\ Paging
              /\ ret # <<>> => ret[1].control = <<>>
        /\ walk[1].kind = "memory" => xm # <<>> /\ ~xm[1].ok /\ vec = <<>>
        /\ walk[1].kind = "vector" => vec # <<>> /\ ~vec[1].ok

\* Nothing follows a trap or a halt down the pipeline, and a fault that
\* waits for its entry has no access on its way to the bus.
TrapAlone ==
    ret # <<>> /\ (ret[1].trap # 0 \/ ret[1].halt) =>
        fd = <<>> /\ de = <<>> /\ xm = <<>> /\ walk = <<>> /\ vec = <<>>
FaultQuiet ==
    pend # <<>> => /\ walk # <<>> => walk[1].processing
                   /\ xm # <<>> => ~xm[1].ok

\* The access on the bus is that of the walk, of the vector load, of the
\* draining store or of the memory latch, and its owner knows it has started.
WalkRequest == [NoRequest EXCEPT !.kind = "pte",
                                 !.addr = WalkPteAddr(walk[1].table, walk[1].level, PageOf(walk[1].va))]
BusOwned ==
    LsuActive(lsu) =>
        \/ walk # <<>> /\ ~walk[1].processing /\ walk[1].started /\ lsu.req = WalkRequest
        \/ walk = <<>> /\ vec # <<>> /\ vec[1].ok /\ vec[1].started
        \/ walk = <<>> /\ StorebufAny /\ sb[Draining][1].started
        \/ walk = <<>> /\ vec = <<>> /\ xm # <<>> /\ xm[1].ok /\ xm[1].started

\* The rest of the walk from its table is the walk from the root, and the
\* entry it holds is the one of its table.
WalkAgrees ==
    walk # <<>> =>
        /\ \A access, user :
              WalkFrom2(PageOf(sr[PAGE_TABLE_ROOT]), PageOf(walk[1].va), access, user)
                  = WalkRest(walk[1].table, walk[1].level, PageOf(walk[1].va), access, user)
        /\ walk[1].processing =>
              walk[1].pte = WalkEntry(walk[1].table, walk[1].level, PageOf(walk[1].va))

Structure ==
    /\ Latches /\ TwoPlaces /\ MemoryAlone /\ VectorAlone /\ WalkAlone /\ TrapAlone
    /\ FaultQuiet /\ BusOwned

Inv ==
    /\ IsFile(sr) /\ GenerationsPast(tlb)
    /\ Running => Structure /\ WalkAgrees /\ Agrees(tlb, PageOf(sr[PAGE_TABLE_ROOT]))

-----------------------------------------------------------------------------
\* What the combinational wires of one cycle say about the latches

StageFacts(s) ==
    /\ s.o.memory # <<>> => de # <<>>
    /\ s.vector_xl # "none" => vec # <<>> /\ ~vec[1].ok /\ walk = <<>> /\ ~StorebufAny /\ pend = <<>>
    /\ s.memory_xl # "none" =>
          xm # <<>> /\ ~xm[1].ok /\ walk = <<>> /\ vec = <<>> /\ ~StorebufAny /\ pend = <<>>
    /\ s.fetch_xl # "none" => /\ ~fetch.ok /\ walk = <<>> /\ ~StorebufAny /\ fd = <<>> /\ de = <<>>
                              /\ xm = <<>> /\ ret = <<>> /\ vec = <<>> /\ pend = <<>>
    /\ s.fetch_xl = "walk" => Paging
    /\ s.cached => xm # <<>> /\ xm[1].ok /\ ~xm[1].started
    /\ s.walk_fault # <<>> => Processing
    /\ s.walk_leaf <=> Processing /\ s.walk_fault = <<>> /\ WalkIsLeaf(walk[1].pte)
    /\ Processing => s.walk_fault = WalkFault(walk[1].pte, walk[1].level, walk[1].access, User)

\* The stages ask for a translation only where one is due, and an empty
\* decode to execute latch asks for no access.
LEMMA StagesSay == StageFacts(Stages)
  <1> DEFINE s == Stages
  <1>1. /\ s.vector_xl = VectorXl /\ s.memory_xl = MemoryXl /\ s.fetch_xl = FetchXl
        /\ s.cached = Cached /\ s.walk_fault = WalkFaulted /\ s.walk_leaf = WalkLeaf
        /\ s.o = ExecuteOut
    BY DEF Stages
  <1> HIDE DEF s
  <1>2. s.fetch_xl = "walk" => Paging
    BY <1>1 DEF FetchXl, Translation
  <1>3. s.o.memory # <<>> => de # <<>>
    BY <1>1 DEF ExecuteOut, NopOutputs
  <1>4. StageFacts(s)
    BY <1>1, <1>2, <1>3 DEF StageFacts, VectorXl, MemoryXl, FetchXl, Cached, WalkFaulted, WalkLeaf
  <1> QED BY <1>4 DEF s

\* Where a trap comes from
TrapFacts(s, t) ==
    t # <<>> => \/ ret # <<>> /\ ret[1].trap # 0
                \/ s.fetch_xl = "fault"
                \/ s.memory_xl = "fault"
                \/ s.walk_fault # <<>> /\ walk[1].kind # "vector"

\* A trap comes from one of four places.
LEMMA TrapSays == ASSUME NEW s PROVE TrapFacts(s, TrapNext(s))
  BY DEF TrapFacts, TrapNext

\* what a running core does not see: the reasons to stop
Stops(s, w) ==
    \/ w.walk_error \/ w.bus_error \/ TrapLockupNow
    \/ s.vector_xl = "fault"
    \/ s.walk_fault # <<>> /\ walk[1].kind = "vector"

WireFacts(s, w, d, vector) ==
    /\ w.s = s /\ w.o = s.o /\ w.cached = s.cached
    /\ w.memory_redirect => mr # <<>>
    /\ w.flush => de # <<>>
    /\ de # <<>> /\ (w.o.halt \/ w.o.trap # 0) => w.flush
    /\ w.to_storebuf => /\ w.o.memory # <<>> /\ walk = <<>> /\ vec = <<>> /\ xm = <<>> /\ mr = <<>>
                        /\ sb[2] = <<>>
    /\ w.to_storebuf_load => w.o.memory # <<>> /\ xm = <<>> /\ mr = <<>>
    /\ w.to_memory => w.o.memory # <<>> /\ xm = <<>> /\ ~StorebufAny /\ ~w.to_storebuf
    /\ w.to_retire => de # <<>> /\ w.o.memory = <<>> /\ xm = <<>> /\ mr = <<>> /\ w.leaves
    /\ w.decode_advance => fd # <<>> /\ ~w.flush
    /\ w.fetch_accept => fetch.ok /\ vec = <<>>
    /\ w.memory_done => \/ s.cached
                        \/ xm # <<>> /\ xm[1].ok /\ walk = <<>> /\ V4LsuDone(lsu, d)
    /\ w.entry <=> TrapStart \/ IrqStart(w.trap_next, vector)
    /\ w.vector = IF TrapStart THEN pend[1].cause ELSE vector
    /\ w.vector_done <=> vec # <<>> /\ vec[1].ok /\ V4LsuDone(lsu, d)
    /\ w.handler # 0 => w.vector_done
    /\ w.walk_done <=> walk # <<>> /\ ~walk[1].processing /\ V4LsuDone(lsu, d)
    /\ w.storebuf_done <=> StorebufAny /\ sb[Draining][1].started /\ V4LsuDone(lsu, d)
    /\ w.walk_error => w.walk_done
    /\ Stops(s, w) => w.lockup
    /\ w.clear <=> w.entry \/ w.lockup \/ halted \/ locked \/ (ret # <<>> /\ ret[1].halt)
    /\ w.request = LsuRequest(s)

\* The wires between the stages are what their names say.
LEMMA WiresSay ==
  ASSUME NEW s, NEW i, NEW d, NEW vector, NEW t
  PROVE  LET w == Wires(s, i, d, vector, t) IN
         WireFacts(s, w, d, vector) /\ w.trap_next = t
  <1> DEFINE w == Wires(s, i, d, vector, t)
  <1>1. /\ w.s = s /\ w.cached = s.cached /\ w.o = s.o
        /\ w.request = LsuRequest(s) /\ w.trap_next = t
        /\ w.vector = IF TrapStart THEN pend[1].cause ELSE vector
    BY ZenonT(40) DEF Wires
  <1>2. /\ w.memory_redirect => mr # <<>>
        /\ w.flush => de # <<>>
        /\ de # <<>> /\ (s.o.halt \/ s.o.trap # 0) => w.flush
        /\ w.decode_advance => fd # <<>> /\ ~w.flush
        /\ w.fetch_accept => fetch.ok /\ vec = <<>>
    BY DEF Wires
  <1>3. w.to_storebuf => /\ s.o.memory # <<>> /\ walk = <<>> /\ vec = <<>> /\ xm = <<>> /\ mr = <<>>
                         /\ sb[2] = <<>>
    BY DEF Wires, ToStorebuf
  <1>4. w.to_storebuf_load => s.o.memory # <<>> /\ xm = <<>> /\ mr = <<>>
    BY SMTT(30) DEF Wires, ToStorebufLoad
  <1>5. /\ w.to_memory => s.o.memory # <<>> /\ xm = <<>> /\ ~StorebufAny /\ ~w.to_storebuf
        /\ w.to_retire => de # <<>> /\ s.o.memory = <<>> /\ xm = <<>> /\ mr = <<>> /\ w.leaves
    BY DEF Wires
  <1>6. w.memory_done => s.cached \/ (xm # <<>> /\ xm[1].ok /\ walk = <<>> /\ V4LsuDone(lsu, d))
    BY ZenonT(40) DEF Wires
  <1>7. /\ w.entry <=> TrapStart \/ IrqStart(t, vector)
        /\ w.vector_done <=> vec # <<>> /\ vec[1].ok /\ V4LsuDone(lsu, d)
        /\ w.walk_done <=> walk # <<>> /\ ~walk[1].processing /\ V4LsuDone(lsu, d)
        /\ w.storebuf_done <=> StorebufAny /\ sb[Draining][1].started /\ V4LsuDone(lsu, d)
        /\ w.walk_error => w.walk_done
        /\ w.handler # 0 => w.vector_done
    BY DEF Wires
  <1>8. /\ Stops(s, w) => w.lockup
        /\ w.clear <=> w.entry \/ w.lockup \/ halted \/ locked \/ (ret # <<>> /\ ret[1].halt)
    BY DEF Wires, LockupNow, ClearNow, Stops
  <1> HIDE DEF w
  <1>9. WireFacts(s, w, d, vector) /\ w.trap_next = t
    BY <1>1, <1>2, <1>3, <1>4, <1>5, <1>6, <1>7, <1>8 DEF WireFacts
  <1> QED BY <1>9 DEF w

\* The LSU of the V4 core after an edge
LEMMA V4LsuEdge ==
  ASSUME NEW l, NEW bus, NEW request, NEW m,
         DOMAIN l = {"st", "started", "req", "first", "wd"}
  PROVE  LET n == V4LsuClock(l, bus, request, m) IN
         /\ DOMAIN n = {"st", "started", "req", "first", "wd"}
         /\ LsuActive(n) => \/ LsuActive(l) /\ ~V4LsuDone(l, bus) /\ n.req = l.req
                            \/ LsuReady(l) /\ request # <<>> /\ n.req = request[1]
         /\ V4LsuDone(l, bus) => LsuActive(l)
  <1> DEFINE k == Started(l)
             c == LsuClock(k, bus, request, m)
             n == Started(c)
  <1>1. /\ DOMAIN k = {"st", "started", "req", "first", "wd"}
        /\ k.st = l.st /\ k.req = l.req
    BY DEF Started
  <1> HIDE DEF k
  <1>2. /\ DOMAIN c = {"st", "started", "req", "first", "wd"}
        /\ LsuActive(c) => \/ LsuActive(k) /\ ~LsuDone(k, bus) /\ c.req = k.req
                           \/ LsuReady(k) /\ request # <<>> /\ c.req = request[1]
        /\ LsuDone(k, bus) => LsuActive(k)
    BY <1>1, LsuEdge
  <1> HIDE DEF c
  <1>3. DOMAIN n = {"st", "started", "req", "first", "wd"} /\ n.st = c.st /\ n.req = c.req
    BY <1>2 DEF Started
  <1>4. V4LsuDone(l, bus) = LsuDone(k, bus) /\ V4LsuClock(l, bus, request, m) = n
    BY DEF V4LsuDone, V4LsuClock, k, c
  <1> HIDE DEF n
  <1> QED BY <1>1, <1>2, <1>3, <1>4 DEF LsuActive, LsuReady

-----------------------------------------------------------------------------
\* One cycle: its wires and what they clock
Edge(s, w, i, d, lines) ==
    /\ StageFacts(s) /\ TrapFacts(s, w.trap_next) /\ WireFacts(s, w, d, PendingIrq(sr, lines))
    /\ ClockRegisters(w, lines) /\ ClockUnits(w, i, d)
    /\ ClockResult(w) /\ ClockRetire(w) /\ ClockStorebuf(w)
    /\ ClockMemory(w) /\ ClockDecode(w) /\ ClockFetch(w)
    /\ ClockWalk(w) /\ ClockVector(w)

\* A core that still runs after an edge ran before it, saw no reason to
\* stop, and empties its latches only for an entry.
LEMMA GoesOn ==
  ASSUME NEW s, NEW w, NEW i, NEW d, NEW lines, Edge(s, w, i, d, lines), Running'
  PROVE  /\ Running /\ ~w.lockup /\ ~Stops(s, w)
         /\ ~(ret # <<>> /\ ret[1].halt)
         /\ w.clear <=> w.entry
         /\ pend' = IF w.entry THEN <<>> ELSE w.trap_next
  <1>1. /\ halted' = (halted \/ (ret # <<>> /\ ret[1].halt))
        /\ locked' = (locked \/ w.lockup)
    BY DEF Edge, ClockRegisters
  <1>2. ~halted /\ ~locked /\ ~w.lockup /\ ~(ret # <<>> /\ ret[1].halt)
    BY <1>1 DEF Running
  <1>3. /\ Stops(s, w) => w.lockup
        /\ w.clear <=> w.entry \/ w.lockup \/ halted \/ locked \/ (ret # <<>> /\ ret[1].halt)
    BY DEF Edge, WireFacts
  <1>4. pend' = IF w.entry THEN <<>> ELSE w.trap_next
    BY DEF Edge, ClockRegisters, NextPending
  <1> QED BY <1>2, <1>3, <1>4 DEF Running

\* A request comes from one of the four users of the bus.
LEMMA RequestOf ==
  ASSUME NEW s, LsuRequest(s) # <<>>
  PROVE  \/ walk # <<>> /\ ~walk[1].processing /\ ~walk[1].started /\ LsuRequest(s)[1] = WalkRequest
         \/ walk = <<>> /\ vec # <<>> /\ vec[1].ok /\ ~vec[1].started
         \/ walk = <<>> /\ vec = <<>> /\ StorebufAny /\ ~sb[Draining][1].started
         \/ /\ walk = <<>> /\ ~(vec # <<>> /\ vec[1].ok) /\ ~StorebufAny
            /\ xm # <<>> /\ xm[1].ok /\ ~s.cached /\ ~xm[1].started
  BY DEF LsuRequest, WalkRequest

\* When an entry starts, no access of the pipeline or of a walk is on the
\* bus or about to be.
LEMMA EntryQuiet ==
  ASSUME Structure, NEW s, NEW w, NEW i, NEW d, NEW lines, Edge(s, w, i, d, lines), w.entry
  PROVE  /\ vec = <<>>
         /\ walk # <<>> => walk[1].processing
         /\ xm # <<>> => ~xm[1].ok
  <1>1. TrapStart \/ IrqStart(w.trap_next, PendingIrq(sr, lines))
    BY DEF Edge, WireFacts
  <1>2. CASE TrapStart
    BY <1>2 DEF TrapStart, Structure, FaultQuiet
  <1>3. CASE IrqStart(w.trap_next, PendingIrq(sr, lines))
    BY <1>3 DEF IrqStart
  <1> QED BY <1>1, <1>2, <1>3

\* A fault waits one cycle for its entry.
LEMMA FaultEnters ==
  ASSUME Structure, NEW s, NEW w, NEW i, NEW d, NEW lines, Edge(s, w, i, d, lines), Running', pend # <<>>
  PROVE  w.entry
  <1>1. ~TrapLockupNow
    BY GoesOn DEF Stops
  <1>2. TrapStart
    BY <1>1 DEF TrapStart, Structure, VectorAlone
  <1> QED BY <1>2 DEF Edge, WireFacts

\* Where the memory latch goes in one edge
MemoryTaken(w) ==
    w.request # <<>> /\ LsuReady(lsu) /\ walk = <<>> /\ vec = <<>> /\ ~StorebufAny

\* The memory latch keeps its access until the LSU has answered it.
LEMMA MemoryEdge ==
  ASSUME Structure, NEW s, NEW w, NEW i, NEW d, NEW lines, Edge(s, w, i, d, lines), Running'
  PROVE  /\ w.entry => xm' = <<>>
         /\ xm' # <<>> => DOMAIN xm'[1] = MemFields /\ mr' = <<>>
         /\ xm = <<>> /\ de = <<>> => xm' = <<>>
         /\ xm = <<>> /\ ~w.to_memory => xm' = <<>>
         /\ /\ xm # <<>> /\ ~xm[1].ok /\ ~w.entry /\ s.memory_xl # "done" /\ ~s.walk_leaf
            => xm' = xm
         /\ /\ xm # <<>> /\ xm[1].ok /\ xm[1].started /\ ~w.entry /\ ~V4LsuDone(lsu, d) /\ walk = <<>>
            => xm' # <<>> /\ xm'[1].ok /\ xm'[1].started
         /\ /\ xm # <<>> /\ xm[1].ok /\ ~s.cached /\ ~w.entry /\ ~V4LsuDone(lsu, d) /\ MemoryTaken(w)
            => xm' # <<>> /\ xm'[1].ok /\ xm'[1].started
  <1> USE DEF Structure
  <1>1. (w.clear <=> w.entry) /\ w.s = s /\ w.cached = s.cached
    BY GoesOn DEF Edge, WireFacts
  <1>2. /\ w.memory_redirect => mr # <<>>
        /\ w.memory_done => xm # <<>> /\ xm[1].ok
        /\ w.to_memory => xm = <<>> /\ de # <<>>
        /\ s.memory_xl # "none" => xm # <<>> /\ ~xm[1].ok
        /\ s.walk_leaf => walk # <<>>
        /\ w.memory_done => s.cached \/ V4LsuDone(lsu, d)
        /\ s.cached => ~xm[1].started
    BY DEF Edge, WireFacts, StageFacts, Processing
  <1>3. s.walk_leaf /\ walk[1].kind = "memory" => xm # <<>> /\ ~xm[1].ok
    BY <1>2 DEF WalkAlone
  <1>4. MemoryTaken(w) => xm # <<>> /\ xm[1].ok
    BY RequestOf, SMTT(30) DEF MemoryTaken, Edge, WireFacts
  <1>5. \/ xm' = <<>> /\ (w.entry \/ w.memory_redirect \/ w.memory_done)
        \/ /\ ~w.entry /\ w.memory_done
           /\ \E op, addr :
                xm' = <<[xm[1] EXCEPT !.op = op, !.addr = addr, !.ok = ~Paging, !.started = FALSE]>>
        \/ /\ ~w.entry /\ w.to_memory
           /\ \E op, addr, next_pc, pc :
                xm' = <<[op |-> op, addr |-> addr, ok |-> ~Paging, started |-> FALSE,
                         next_pc |-> next_pc, pc |-> pc]>>
        \/ /\ ~w.entry /\ (s.memory_xl = "done" \/ (s.walk_leaf /\ walk[1].kind = "memory"))
           /\ \E addr : xm' = <<[xm[1] EXCEPT !.addr = addr, !.ok = TRUE]>>
        \/ ~w.entry /\ MemoryTaken(w) /\ ~w.memory_done /\ xm' = <<[xm[1] EXCEPT !.started = TRUE]>>
        \/ ~w.entry /\ ~(xm # <<>> /\ MemoryTaken(w)) /\ ~w.memory_done /\ xm' = xm
    BY <1>1 DEF Edge, ClockMemory, Finished, ChainContinue, MemoryTaken
  <1>6. xm' # <<>> => mr' = <<>>
    BY <1>1 DEF Edge, ClockMemory, ClockResult
  <1>7. xm # <<>> => DOMAIN xm[1] = MemFields /\ mr = <<>>
    BY DEF Latches, MemoryAlone
  <1>8. xm' # <<>> => DOMAIN xm'[1] = MemFields
    <2>1. ASSUME w.memory_done, NEW op, NEW addr,
                 xm' = <<[xm[1] EXCEPT !.op = op, !.addr = addr, !.ok = ~Paging, !.started = FALSE]>>
          PROVE  DOMAIN xm'[1] = MemFields
      BY <1>2, <1>7, <2>1
    <2>2. ASSUME NEW op, NEW addr, NEW next_pc, NEW pc,
                 xm' = <<[op |-> op, addr |-> addr, ok |-> ~Paging, started |-> FALSE,
                          next_pc |-> next_pc, pc |-> pc]>>
          PROVE  DOMAIN xm'[1] = MemFields
      BY <2>2 DEF MemFields
    <2>3. ASSUME xm # <<>>, NEW addr, xm' = <<[xm[1] EXCEPT !.addr = addr, !.ok = TRUE]>>
          PROVE  DOMAIN xm'[1] = MemFields
      BY <1>7, <2>3
    <2>4. ASSUME xm # <<>>, xm' = <<[xm[1] EXCEPT !.started = TRUE]>>
          PROVE  DOMAIN xm'[1] = MemFields
      BY <1>7, <2>4
    <2> QED BY <1>2, <1>3, <1>4, <1>5, <1>7, <2>1, <2>2, <2>3, <2>4
  <1>9. xm = <<>> /\ ~w.to_memory => xm' = <<>>
    BY <1>2, <1>3, <1>4, <1>5
  <1>10. xm # <<>> /\ ~xm[1].ok /\ ~w.entry /\ s.memory_xl # "done" /\ ~s.walk_leaf => xm' = xm
    BY <1>2, <1>3, <1>4, <1>5, <1>7
  <1>11. ASSUME xm # <<>>, xm[1].ok, ~w.entry, ~w.memory_done
         PROVE  /\ xm' # <<>>
                /\ MemoryTaken(w) => xm'[1].ok /\ xm'[1].started
                /\ xm[1].started => xm'[1].ok /\ xm'[1].started
    <2>1. \/ MemoryTaken(w) /\ xm' = <<[xm[1] EXCEPT !.started = TRUE]>>
          \/ ~MemoryTaken(w) /\ xm' = xm
      BY <1>2, <1>3, <1>5, <1>7, <1>11
    <2>2. ASSUME xm' = <<[xm[1] EXCEPT !.started = TRUE]>>
          PROVE  xm' # <<>> /\ xm'[1].ok /\ xm'[1].started
      BY <1>7, <1>11, <2>2 DEF MemFields
    <2> QED BY <1>11, <2>1, <2>2
  <1>12. w.entry => xm' = <<>>
    BY <1>1 DEF Edge, ClockMemory
  <1> QED BY <1>2, <1>6, <1>8, <1>9, <1>10, <1>11, <1>12

\* Where the store buffer goes in one edge: a draining store stays where it
\* is until its answer, and knows when its access has started.
LEMMA StorebufEdge ==
  ASSUME Structure, NEW s, NEW w, NEW i, NEW d, NEW lines, Edge(s, w, i, d, lines), Running'
  PROVE  /\ TwoPlaces'
         /\ ~StorebufAny /\ ~w.to_storebuf => ~StorebufAny'
         /\ /\ StorebufAny /\ ~V4LsuDone(lsu, d)
            /\ \/ sb[Draining][1].started
               \/ walk = <<>> /\ vec = <<>> /\ w.request # <<>> /\ LsuReady(lsu)
            => StorebufAny' /\ sb'[Draining'][1].started
  <1> DEFINE taken == StorebufAny /\ walk = <<>> /\ vec = <<>> /\ w.request # <<>> /\ LsuReady(lsu)
  <1>1. /\ sb = <<sb[1], sb[2]>>
        /\ sb[1] # <<>> => DOMAIN sb[1] = {1} /\ DOMAIN sb[1][1] = StoreFields
        /\ sb[2] # <<>> => DOMAIN sb[2] = {1} /\ DOMAIN sb[2][1] = StoreFields
    BY DEF Structure, TwoPlaces
  <1>2. ~w.bus_error
    BY GoesOn DEF Stops
  <1>3. /\ w.to_storebuf => sb[2] = <<>>
        /\ w.storebuf_done <=> StorebufAny /\ sb[Draining][1].started /\ V4LsuDone(lsu, d)
    BY DEF Edge, WireFacts
  <1> DEFINE e == <<[addr |-> w.o.memory[1].addr, width |-> w.o.memory[1].width,
                     value |-> w.o.memory[1].value, started |-> FALSE]>>
             put == IF ~w.to_storebuf THEN sb
                    ELSE IF sb[1] = <<>> THEN [sb EXCEPT ![1] = e] ELSE [sb EXCEPT ![2] = e]
  <1>4. /\ DOMAIN e = {1} /\ DOMAIN e[1] = StoreFields
        /\ put = IF ~w.to_storebuf THEN sb
                 ELSE IF sb[1] = <<>> THEN [sb EXCEPT ![1] = e] ELSE [sb EXCEPT ![2] = e]
        /\ sb' = IF w.storebuf_done
                 THEN IF sb[1] # <<>> /\ sb[2] # <<>> THEN <<sb[2], <<>> >>
                      ELSE [put EXCEPT ![Draining] = <<>>]
                 ELSE IF taken THEN [put EXCEPT ![Draining][1].started = TRUE]
                 ELSE put
    <2>1. DOMAIN e = {1} /\ DOMAIN e[1] = StoreFields
      BY DEF StoreFields
    <2> QED BY <1>2, <2>1 DEF Edge, ClockStorebuf
  <1> HIDE DEF e, put
  <1>5. /\ put = <<put[1], put[2]>>
        /\ put[1] # <<>> => DOMAIN put[1] = {1} /\ DOMAIN put[1][1] = StoreFields
        /\ put[2] # <<>> => DOMAIN put[2] = {1} /\ DOMAIN put[2][1] = StoreFields
        /\ sb[1] # <<>> => put[1] = sb[1]
        /\ sb[1] = <<>> /\ sb[2] # <<>> => put = sb
        /\ ~w.to_storebuf => put = sb
    <2>1. CASE ~w.to_storebuf
      BY <1>1, <1>4, <2>1
    <2>2. CASE w.to_storebuf /\ sb[1] = <<>>
      <3>1. put = <<e, sb[2]>>
        BY <1>1, <1>4, <2>2
      <3> QED BY <1>1, <1>3, <1>4, <2>2, <3>1
    <2>3. CASE w.to_storebuf /\ sb[1] # <<>>
      <3>1. put = <<sb[1], e>>
        BY <1>1, <1>4, <2>3
      <3> QED BY <1>1, <1>3, <1>4, <2>3, <3>1
    <2> QED BY <2>1, <2>2, <2>3
  <1>6. StorebufAny <=> sb[1] # <<>> \/ sb[2] # <<>>
    BY <1>1 DEF StorebufAny
  <1>7. /\ StorebufAny => put[Draining] = sb[Draining] /\ sb[Draining] # <<>>
        /\ Draining \in {1, 2}
    BY <1>5, <1>6 DEF Draining
  <1>8. CASE w.storebuf_done
    <2>1. \/ sb' = <<sb[2], <<>> >> \/ sb' = << <<>>, put[2]>> \/ sb' = <<put[1], <<>> >>
      <3>1. CASE sb[1] # <<>> /\ sb[2] # <<>>
        BY <1>4, <1>8, <3>1
      <3>2. CASE ~(sb[1] # <<>> /\ sb[2] # <<>>)
        <4>1. sb' = [put EXCEPT ![Draining] = <<>>]
          BY <1>4, <1>8, <3>2
        <4> QED BY <1>5, <1>7, <4>1
      <3> QED BY <3>1, <3>2
    <2>2. TwoPlaces'
      BY <1>1, <1>5, <2>1 DEF TwoPlaces
    <2> QED BY <1>3, <1>8, <2>2
  <1>9. CASE ~w.storebuf_done /\ taken
    <2>1. put[Draining] # <<>> /\ DOMAIN put[Draining] = {1} /\ DOMAIN put[Draining][1] = StoreFields
      BY <1>5, <1>7, <1>9
    <2> DEFINE f == [put[Draining] EXCEPT ![1].started = TRUE]
    <2>2. DOMAIN f = {1} /\ DOMAIN f[1] = StoreFields /\ f[1].started /\ f # <<>>
      BY <2>1 DEF StoreFields
    <2>3. sb' = [put EXCEPT ![Draining] = f]
      BY <1>4, <1>9
    <2> HIDE DEF f
    <2>4. CASE Draining = 1
      <3>1. sb' = <<f, put[2]>>
        BY <1>5, <2>3, <2>4
      <3>2. TwoPlaces' /\ StorebufAny' /\ Draining' = 1
        BY <1>5, <2>2, <3>1 DEF TwoPlaces, StorebufAny, Draining
      <3> QED BY <1>9, <2>2, <3>1, <3>2
    <2>5. CASE Draining = 2
      <3>1. sb[1] = <<>> /\ put = sb
        BY <1>5, <1>6, <1>9, <2>5 DEF Draining
      <3>2. sb' = << <<>>, f>>
        BY <1>5, <2>3, <2>5, <3>1
      <3>3. TwoPlaces' /\ StorebufAny' /\ Draining' = 2
        BY <2>2, <3>2 DEF TwoPlaces, StorebufAny, Draining
      <3> QED BY <1>9, <2>2, <3>2, <3>3
    <2> QED BY <1>7, <2>4, <2>5
  <1>10. CASE ~w.storebuf_done /\ ~taken
    <2>1. sb' = put
      BY <1>4, <1>10
    <2>2. TwoPlaces'
      BY <1>5, <2>1 DEF TwoPlaces
    <2>3. ~StorebufAny /\ ~w.to_storebuf => ~StorebufAny'
      BY <1>5, <2>1 DEF StorebufAny
    <2>4. StorebufAny => StorebufAny' /\ Draining' = Draining /\ sb'[Draining] = sb[Draining]
      BY <1>5, <1>6, <1>7, <2>1 DEF StorebufAny, Draining
    <2> QED BY <1>10, <2>2, <2>3, <2>4
  <1> QED BY <1>8, <1>9, <1>10

\* Where the walk goes in one edge
LEMMA WalkEdge ==
  ASSUME Structure, NEW s, NEW w, NEW i, NEW d, NEW lines, Edge(s, w, i, d, lines), Running'
  PROVE  \/ walk' = <<>> /\ (walk = <<>> \/ w.entry \/ s.walk_leaf)
         \/ /\ ~w.entry /\ walk # <<>> /\ Processing /\ s.walk_fault = <<>> /\ ~s.walk_leaf
            /\ walk' = <<[walk[1] EXCEPT !.processing = FALSE, !.started = FALSE, !.pte = <<>>,
                                         !.table = walk[1].pte.ppn, !.level = @ - 1]>>
         \/ /\ ~w.entry /\ walk # <<>> /\ ~walk[1].processing /\ V4LsuDone(lsu, d)
            /\ walk' = <<[walk[1] EXCEPT !.processing = TRUE, !.pte = LsuLoad(lsu, mem)]>>
         \/ ~w.entry /\ s.fetch_xl = "walk" /\ walk' = WalkStart(xl.va, "X", "fetch")
         \/ /\ ~w.entry /\ s.memory_xl = "walk"
            /\ walk' = WalkStart(xm[1].op.addr, IF xm[1].op.write THEN "W" ELSE "R", "memory")
         \/ ~w.entry /\ s.vector_xl = "walk" /\ walk' = WalkStart(vec[1].va, "R", "vector")
         \/ /\ ~w.entry /\ walk # <<>> /\ w.request # <<>> /\ LsuReady(lsu)
            /\ walk[1].processing => s.walk_fault # <<>>
            /\ walk[1].processing \/ ~V4LsuDone(lsu, d)
            /\ walk' = <<[walk[1] EXCEPT !.started = TRUE]>>
         \/ /\ ~w.entry /\ walk # <<>> /\ ~(w.request # <<>> /\ LsuReady(lsu))
            /\ walk[1].processing => s.walk_fault # <<>>
            /\ walk[1].processing \/ ~V4LsuDone(lsu, d)
            /\ walk' = walk
  <1>1. /\ ~w.walk_error /\ ~w.bus_error /\ ~TrapLockupNow /\ s.vector_xl # "fault"
        /\ ~(s.walk_fault # <<>> /\ walk[1].kind = "vector")
    BY GoesOn DEF Stops
  <1>2. /\ w.s = s
        /\ w.walk_done <=> walk # <<>> /\ ~walk[1].processing /\ V4LsuDone(lsu, d)
    BY DEF Edge, WireFacts
  <1>3. Processing <=> walk # <<>> /\ walk[1].processing
    BY DEF Processing
  <1>4. walk' = IF w.entry \/ s.walk_leaf THEN <<>>
            ELSE IF Processing /\ s.walk_fault = <<>>
            THEN <<[walk[1] EXCEPT !.processing = FALSE, !.started = FALSE, !.pte = <<>>,
                                   !.table = walk[1].pte.ppn, !.level = @ - 1]>>
            ELSE IF w.walk_done THEN <<[walk[1] EXCEPT !.processing = TRUE, !.pte = LsuLoad(lsu, mem)]>>
            ELSE IF s.fetch_xl = "walk" THEN WalkStart(xl.va, "X", "fetch")
            ELSE IF s.memory_xl = "walk"
            THEN WalkStart(xm[1].op.addr, IF xm[1].op.write THEN "W" ELSE "R", "memory")
            ELSE IF s.vector_xl = "walk" THEN WalkStart(vec[1].va, "R", "vector")
            ELSE IF walk # <<>> /\ w.request # <<>> /\ LsuReady(lsu)
            THEN <<[walk[1] EXCEPT !.started = TRUE]>>
            ELSE walk
    BY <1>1, <1>2 DEF Edge, ClockWalk
  <1> QED BY <1>2, <1>3, <1>4

\* Where the vector load goes in one edge
VectorTaken(w) == walk = <<>> /\ w.request # <<>> /\ LsuReady(lsu)

\* The vector load keeps the bus until its answer.
LEMMA VectorEdge ==
  ASSUME Structure, NEW s, NEW w, NEW i, NEW d, NEW lines, Edge(s, w, i, d, lines), Running'
  PROVE  /\ vec' # <<>> => DOMAIN vec'[1] = VecFields /\ (vec # <<>> \/ w.entry)
         /\ vec # <<>> /\ ~vec[1].ok /\ s.vector_xl # "done" /\ ~s.walk_leaf => vec' = vec
         /\ /\ vec # <<>> /\ vec[1].ok /\ ~V4LsuDone(lsu, d)
            /\ vec[1].started \/ VectorTaken(w)
            => vec' # <<>> /\ vec'[1].ok /\ vec'[1].started
  <1> USE DEF Structure
  <1>1. vec # <<>> => ~w.entry /\ DOMAIN vec[1] = VecFields
    BY EntryQuiet DEF Latches
  <1>2. s.vector_xl # "fault" /\ ~(s.walk_fault # <<>> /\ walk[1].kind = "vector")
    BY GoesOn DEF Stops
  <1>3. /\ w.s = s
        /\ w.vector_done <=> vec # <<>> /\ vec[1].ok /\ V4LsuDone(lsu, d)
        /\ s.vector_xl # "none" => vec # <<>> /\ ~vec[1].ok
        /\ s.walk_leaf => walk # <<>>
    BY DEF Edge, WireFacts, StageFacts, Processing
  <1>4. s.walk_leaf /\ walk[1].kind = "vector" => vec # <<>> /\ ~vec[1].ok
    BY <1>3 DEF WalkAlone
  <1>5. \/ vec' = <<>> /\ w.vector_done
        \/ /\ ~w.vector_done /\ w.entry
           /\ \E va, epc, f : vec' = <<[va |-> va, addr |-> va, ok |-> ~Paging, started |-> FALSE,
                                        epc |-> epc, flags |-> f]>>
        \/ /\ ~w.vector_done /\ ~w.entry
           /\ s.vector_xl = "done" \/ (s.walk_leaf /\ walk[1].kind = "vector")
           /\ \E addr : vec' = <<[vec[1] EXCEPT !.addr = addr, !.ok = TRUE]>>
        \/ /\ ~w.vector_done /\ ~w.entry /\ vec # <<>> /\ vec[1].ok /\ VectorTaken(w)
           /\ vec' = <<[vec[1] EXCEPT !.started = TRUE]>>
        \/ /\ ~w.vector_done /\ ~w.entry /\ ~(vec # <<>> /\ vec[1].ok /\ VectorTaken(w))
           /\ vec' = vec
    BY <1>2, <1>3 DEF Edge, ClockVector, VectorTaken
  <1>6. ASSUME NEW va, NEW epc, NEW f,
               vec' = <<[va |-> va, addr |-> va, ok |-> ~Paging, started |-> FALSE, epc |-> epc, flags |-> f]>>
        PROVE  DOMAIN vec'[1] = VecFields
    BY <1>6 DEF VecFields
  <1>7. ASSUME vec # <<>>, NEW addr, vec' = <<[vec[1] EXCEPT !.addr = addr, !.ok = TRUE]>>
        PROVE  DOMAIN vec'[1] = VecFields
    BY <1>1, <1>7
  <1>8. ASSUME vec # <<>>, vec[1].ok, vec' = <<[vec[1] EXCEPT !.started = TRUE]>>
        PROVE  DOMAIN vec'[1] = VecFields /\ vec' # <<>> /\ vec'[1].ok /\ vec'[1].started
    BY <1>1, <1>8 DEF VecFields
  <1>9. vec' # <<>> => DOMAIN vec'[1] = VecFields /\ (vec # <<>> \/ w.entry)
    BY <1>1, <1>3, <1>4, <1>5, <1>6, <1>7, <1>8
  <1>10. vec # <<>> /\ ~vec[1].ok /\ s.vector_xl # "done" /\ ~s.walk_leaf => vec' = vec
    BY <1>1, <1>3, <1>5
  <1>11. ASSUME vec # <<>>, vec[1].ok, ~V4LsuDone(lsu, d), vec[1].started \/ VectorTaken(w)
         PROVE  vec' # <<>> /\ vec'[1].ok /\ vec'[1].started
    BY <1>1, <1>3, <1>4, <1>5, <1>8, <1>11
  <1> QED BY <1>9, <1>10, <1>11

\* Where the other latches go in one edge: an entry empties them, and an
\* instruction that traps or halts takes nothing with it.
LEMMA PipeEdge ==
  ASSUME NEW s, NEW w, NEW i, NEW d, NEW lines, Edge(s, w, i, d, lines), Running'
  PROVE  /\ w.entry => fd' = <<>> /\ de' = <<>> /\ mr' = <<>> /\ ret' = <<>>
         /\ fd = <<>> /\ (~fetch.ok \/ vec # <<>>) => fd' = <<>>
         /\ fd = <<>> /\ de = <<>> => de' = <<>>
         /\ xm = <<>> => mr' = <<>>
         /\ de = <<>> /\ mr = <<>> => ret' = <<>>
         /\ ret' # <<>> => \/ ret'[1].control = <<>> /\ ret'[1].trap = 0 /\ ~ret'[1].halt
                           \/ /\ w.to_retire
                              /\ ret'[1].trap = w.o.trap /\ ret'[1].halt = w.o.halt
         /\ w.to_retire /\ (w.o.halt \/ w.o.trap # 0) => fd' = <<>> /\ de' = <<>>
  <1>1. w.clear <=> w.entry
    BY GoesOn
  <1>2. /\ w.decode_advance => fd # <<>> /\ ~w.flush
        /\ w.fetch_accept => fetch.ok /\ vec = <<>>
        /\ w.to_retire => de # <<>> /\ w.leaves
        /\ w.to_storebuf => de # <<>>
        /\ w.to_storebuf_load => de # <<>>
        /\ de # <<>> /\ (w.o.halt \/ w.o.trap # 0) => w.flush
    BY DEF Edge, WireFacts, StageFacts
  <1>3. w.entry => fd' = <<>> /\ de' = <<>> /\ mr' = <<>> /\ ret' = <<>>
    BY <1>1 DEF Edge, ClockDecode, ClockResult, ClockRetire
  <1>4. /\ fd = <<>> /\ (~fetch.ok \/ vec # <<>>) => fd' = <<>>
        /\ fd = <<>> /\ de = <<>> => de' = <<>>
        /\ w.to_retire /\ (w.o.halt \/ w.o.trap # 0) => fd' = <<>> /\ de' = <<>>
    BY <1>2 DEF Edge, ClockDecode
  <1>5. xm = <<>> => mr' = <<>>
    <2>1. w.memory_done => xm # <<>>
      BY DEF Edge, WireFacts, StageFacts
    <2> QED BY <2>1 DEF Edge, ClockResult, Finished
  <1>6. de = <<>> /\ mr = <<>> => ret' = <<>>
    BY <1>2 DEF Edge, ClockRetire
  <1>7. ret' # <<>> => \/ ret'[1].control = <<>> /\ ret'[1].trap = 0 /\ ~ret'[1].halt
                       \/ /\ w.to_retire
                          /\ ret'[1].trap = w.o.trap /\ ret'[1].halt = w.o.halt
    BY DEF Edge, ClockRetire, Plain
  <1> QED BY <1>3, <1>4, <1>5, <1>6, <1>7

\* The fetch side: under paging an address is physical only after its
\* translation.
LEMMA FetchEdge ==
  ASSUME Structure, NEW s, NEW w, NEW i, NEW d, NEW lines, Edge(s, w, i, d, lines), Running'
  PROVE  /\ DOMAIN fetch' = {"pc", "phys", "ok"}
         /\ ~fetch.ok /\ Paging /\ ~s.walk_leaf /\ s.fetch_xl # "done" => ~fetch'.ok
  <1>1. w.s = s /\ DOMAIN fetch = {"pc", "phys", "ok"}
    BY DEF Edge, WireFacts, Structure, Latches
  <1> DEFINE base == IF Steered(w) = <<>> THEN fetch ELSE Redirected(Steered(w)[1])
  <1>2. /\ \A pc : DOMAIN Redirected(pc) = {"pc", "phys", "ok"}
        /\ \A pc : Paging => ~Redirected(pc).ok
    BY DEF Redirected
  <1>3. /\ DOMAIN base = {"pc", "phys", "ok"}
        /\ ~fetch.ok /\ Paging => ~base.ok
    BY <1>1, <1>2
  <1>4. fetch' = IF w.handler # 0 THEN Redirected(w.handler)
                 ELSE IF w.s.walk_leaf /\ walk[1].kind = "fetch"
                 THEN [base EXCEPT !.phys = WalkResult, !.ok = TRUE]
                 ELSE IF w.s.fetch_xl = "done"
                 THEN [base EXCEPT !.phys = Physical(xl.va), !.ok = TRUE]
                 ELSE base
    BY DEF Edge, ClockFetch
  <1> HIDE DEF base
  <1> QED BY <1>1, <1>2, <1>3, <1>4

-----------------------------------------------------------------------------
\* The parts of the structure, one by one

\* A walk goes on for the requester it has, or starts for the one that waits.
LEMMA WalkGoes ==
  ASSUME Structure, NEW s, NEW w, NEW i, NEW d, NEW lines, Edge(s, w, i, d, lines), Running',
         walk' # <<>>
  PROVE  /\ ~w.entry /\ ~s.walk_leaf
         /\ DOMAIN walk'[1] = WalkFields /\ walk'[1].level \in 0 .. 2
         /\ \/ walk # <<>> /\ walk'[1].kind = walk[1].kind
            \/ s.fetch_xl = "walk" /\ walk'[1].kind = "fetch"
            \/ s.memory_xl = "walk" /\ walk'[1].kind = "memory"
            \/ s.vector_xl = "walk" /\ walk'[1].kind = "vector"
  <1> USE DEF Structure
  <1>1. walk # <<>> => DOMAIN walk[1] = WalkFields /\ walk[1].level \in 0 .. 2
    BY DEF Latches
  <1>2. /\ s.walk_leaf <=> Processing /\ s.walk_fault = <<>> /\ WalkIsLeaf(walk[1].pte)
        /\ Processing => s.walk_fault = WalkFault(walk[1].pte, walk[1].level, walk[1].access, User)
        /\ Processing <=> walk # <<>> /\ walk[1].processing
        /\ s.fetch_xl = "walk" \/ s.memory_xl = "walk" \/ s.vector_xl = "walk" => walk = <<>>
    BY DEF Edge, StageFacts, Processing
  <1>3. ASSUME walk # <<>>, Processing, s.walk_fault = <<>>, ~s.walk_leaf,
               walk' = <<[walk[1] EXCEPT !.processing = FALSE, !.started = FALSE, !.pte = <<>>,
                                         !.table = walk[1].pte.ppn, !.level = @ - 1]>>
        PROVE  /\ DOMAIN walk'[1] = WalkFields /\ walk'[1].kind = walk[1].kind
               /\ walk'[1].level \in 0 .. 2
    <2>1. walk[1].level # 0
      BY <1>2, <1>3, TableLevel
    <2>2. DOMAIN walk'[1] = WalkFields /\ walk'[1].kind = walk[1].kind
          /\ walk'[1].level = walk[1].level - 1
      BY <1>1, <1>3 DEF WalkFields
    <2> QED BY <1>1, <1>3, <2>1, <2>2
  <1>4. ASSUME walk # <<>>,
               walk' = <<[walk[1] EXCEPT !.processing = TRUE, !.pte = LsuLoad(lsu, mem)]>>
        PROVE  /\ DOMAIN walk'[1] = WalkFields /\ walk'[1].kind = walk[1].kind
               /\ walk'[1].level \in 0 .. 2
    BY <1>1, <1>4 DEF WalkFields
  <1>5. ASSUME walk # <<>>, walk' = <<[walk[1] EXCEPT !.started = TRUE]>>
        PROVE  /\ DOMAIN walk'[1] = WalkFields /\ walk'[1].kind = walk[1].kind
               /\ walk'[1].level \in 0 .. 2
    BY <1>1, <1>5 DEF WalkFields
  <1>6. ASSUME NEW va, NEW access, NEW kind, walk' = WalkStart(va, access, kind)
        PROVE  /\ DOMAIN walk'[1] = WalkFields /\ walk'[1].kind = kind
               /\ walk'[1].level \in 0 .. 2
    BY <1>6 DEF WalkFields, WalkStart
  <1> QED BY <1>1, <1>2, <1>3, <1>4, <1>5, <1>6, WalkEdge

\* The latches keep their fields.
LEMMA LatchesStay ==
  ASSUME Structure, NEW s, NEW w, NEW i, NEW d, NEW lines, Edge(s, w, i, d, lines), Running'
  PROVE  Latches'
  <1>1. DOMAIN lsu' = {"st", "started", "req", "first", "wd"}
    BY V4LsuEdge DEF Edge, ClockUnits, Structure, Latches
  <1>2. walk' # <<>> => /\ DOMAIN walk'[1] = WalkFields
                        /\ walk'[1].level \in 0 .. 2
                        /\ walk'[1].kind \in {"fetch", "memory", "vector"}
    BY WalkGoes DEF Structure, Latches
  <1> QED BY <1>1, <1>2, MemoryEdge, VectorEdge, FetchEdge DEF Latches

\* An access in the memory stage stays alone.
LEMMA MemoryAloneStays ==
  ASSUME Structure, NEW s, NEW w, NEW i, NEW d, NEW lines, Edge(s, w, i, d, lines), Running'
  PROVE  MemoryAlone'
  <1> SUFFICES ASSUME xm' # <<>> PROVE mr' = <<>> /\ ~StorebufAny'
    BY DEF MemoryAlone
  <1>1. ~StorebufAny /\ ~w.to_storebuf
    <2>1. /\ w.to_memory => ~StorebufAny /\ ~w.to_storebuf
          /\ w.to_storebuf => xm = <<>>
      BY DEF Edge, WireFacts
    <2> QED BY <2>1, MemoryEdge DEF Structure, MemoryAlone
  <1> QED BY <1>1, MemoryEdge, StorebufEdge

\* A trap that is recorded comes from outside an entry.
LEMMA TrapOutside ==
  ASSUME Structure, NEW s, NEW w, NEW i, NEW d, NEW lines, Edge(s, w, i, d, lines), w.trap_next # <<>>
  PROVE  /\ vec = <<>>
         /\ xm # <<>> => ~xm[1].ok
         /\ xm = <<>> => de = <<>>
         /\ walk # <<>> => walk[1].processing /\ s.walk_fault # <<>>
         /\ s.memory_xl # "done" /\ ~s.walk_leaf
         /\ s.fetch_xl # "walk" /\ s.memory_xl # "walk" /\ s.vector_xl # "walk"
  <1> USE DEF Structure
  <1>1. \/ ret # <<>> /\ ret[1].trap # 0
        \/ s.fetch_xl = "fault"
        \/ s.memory_xl = "fault"
        \/ s.walk_fault # <<>> /\ walk[1].kind # "vector"
    BY DEF Edge, TrapFacts
  <1>2. StageFacts(s)
    BY DEF Edge
  <1>3. CASE ret # <<>> /\ ret[1].trap # 0
    BY <1>2, <1>3 DEF StageFacts, TrapAlone, Processing
  <1>4. CASE s.fetch_xl = "fault"
    BY <1>2, <1>4 DEF StageFacts, Processing
  <1>5. CASE s.memory_xl = "fault"
    BY <1>2, <1>5 DEF StageFacts, Processing
  <1>6. CASE s.walk_fault # <<>> /\ walk[1].kind # "vector"
    BY <1>2, <1>6 DEF StageFacts, Processing, WalkAlone, Latches
  <1> QED BY <1>1, <1>3, <1>4, <1>5, <1>6

\* A vector load stays alone.
LEMMA VectorAloneStays ==
  ASSUME Structure, NEW s, NEW w, NEW i, NEW d, NEW lines, Edge(s, w, i, d, lines), Running'
  PROVE  VectorAlone'
  <1>1. CASE w.entry
    BY <1>1, PipeEdge, MemoryEdge, GoesOn DEF VectorAlone
  <1>2. CASE ~w.entry /\ vec # <<>>
    <2>1. fd = <<>> /\ de = <<>> /\ xm = <<>> /\ mr = <<>>
      BY <1>2 DEF Structure, VectorAlone
    <2>2. w.trap_next = <<>>
      BY <1>2, TrapOutside
    <2> QED BY <1>2, <2>1, <2>2, PipeEdge, MemoryEdge, GoesOn DEF VectorAlone
  <1>3. CASE ~w.entry /\ vec = <<>>
    BY <1>3, VectorEdge DEF VectorAlone
  <1> QED BY <1>1, <1>2, <1>3

\* A trap or a halt in the retire latch stays alone.
LEMMA TrapAloneStays ==
  ASSUME Structure, NEW s, NEW w, NEW i, NEW d, NEW lines, Edge(s, w, i, d, lines), Running'
  PROVE  TrapAlone'
  <1> USE DEF Structure
  <1> SUFFICES ASSUME ret' # <<>>, ret'[1].trap # 0 \/ ret'[1].halt
               PROVE  fd' = <<>> /\ de' = <<>> /\ xm' = <<>> /\ walk' = <<>> /\ vec' = <<>>
    BY DEF TrapAlone
  <1>1. w.to_retire /\ (w.o.trap # 0 \/ w.o.halt) /\ ~w.entry
    BY PipeEdge
  <1>2. de # <<>> /\ xm = <<>> /\ ~w.to_memory
    BY <1>1 DEF Edge, WireFacts
  <1>3. vec = <<>> /\ walk = <<>>
    BY <1>2 DEF VectorAlone, WalkAlone, Latches
  <1>4. walk' = <<>>
    <2>1. s.fetch_xl # "walk" /\ s.memory_xl # "walk" /\ s.vector_xl # "walk"
      BY <1>2, <1>3 DEF Edge, StageFacts
    <2> QED BY <1>3, <2>1, WalkGoes
  <1> QED BY <1>1, <1>2, <1>3, <1>4, PipeEdge, MemoryEdge, VectorEdge

\* A pending fault keeps the stages behind it quiet.
LEMMA FaultQuietStays ==
  ASSUME Structure, NEW s, NEW w, NEW i, NEW d, NEW lines, Edge(s, w, i, d, lines), Running'
  PROVE  FaultQuiet'
  <1> SUFFICES ASSUME pend' # <<>>
               PROVE  (walk' # <<>> => walk'[1].processing) /\ (xm' # <<>> => ~xm'[1].ok)
    BY DEF FaultQuiet
  <1>1. ~w.entry /\ w.trap_next # <<>>
    BY GoesOn
  <1>2. xm' # <<>> => ~xm'[1].ok
    BY <1>1, TrapOutside, MemoryEdge
  <1>3. walk' # <<>> => walk' = walk
    <2>1. walk # <<>> => walk[1].processing /\ s.walk_fault # <<>>
      BY <1>1, TrapOutside
    <2>2. walk # <<>> => w.request = <<>>
      BY <2>1, RequestOf DEF Edge, WireFacts
    <2> QED BY <1>1, <2>1, <2>2, TrapOutside, WalkEdge
  <1>4. walk' # <<>> => walk # <<>>
    BY <1>1, TrapOutside, WalkGoes
  <1> QED BY <1>1, <1>2, <1>3, <1>4, TrapOutside

\* Nothing writes the control word while the fetch side walks.
LEMMA PagingStays ==
  ASSUME IsFile(sr), NEW s, NEW w, NEW i, NEW d, NEW lines, Edge(s, w, i, d, lines),
         de = <<>>, ret # <<>> => ret[1].control = <<>>, ~w.entry
  PROVE  Paging' = Paging
  <1>1. ~w.to_retire
    BY DEF Edge, WireFacts
  <1>2. PICK saved, entered, set : sr' = SpecialClock(sr, <<>>, saved, entered, pend, <<>>, set)
    BY <1>1 DEF Edge, ClockRegisters
  <1>3. sr'[CPU_CONTROL] = sr[CPU_CONTROL]
    BY <1>2, SpecialClockControl
  <1> QED BY <1>3 DEF Paging

\* A walk stays alone with what asked for it.
LEMMA WalkAloneStays ==
  ASSUME Structure, IsFile(sr), NEW s, NEW w, NEW i, NEW d, NEW lines, Edge(s, w, i, d, lines), Running'
  PROVE  WalkAlone'
  <1> USE DEF Structure
  <1> SUFFICES ASSUME walk' # <<>> PROVE WalkAlone'
    BY DEF WalkAlone
  <1>1. /\ ~w.entry /\ ~s.walk_leaf
        /\ \/ walk # <<>> /\ walk'[1].kind = walk[1].kind
           \/ s.fetch_xl = "walk" /\ walk'[1].kind = "fetch"
           \/ s.memory_xl = "walk" /\ walk'[1].kind = "memory"
           \/ s.vector_xl = "walk" /\ walk'[1].kind = "vector"
    BY WalkGoes
  <1>2. StageFacts(s) /\ WireFacts(s, w, d, PendingIrq(sr, lines))
    BY DEF Edge
  <1>3. ~StorebufAny'
    <2>1. ~StorebufAny /\ ~w.to_storebuf
      BY <1>1, <1>2 DEF StageFacts, WireFacts, WalkAlone, VectorAlone
    <2> QED BY <2>1, StorebufEdge
  <1>4. ASSUME walk'[1].kind = "fetch"
        PROVE  /\ fd' = <<>> /\ de' = <<>> /\ xm' = <<>> /\ vec' = <<>>
               /\ ~fetch'.ok /\ Paging'
               /\ ret' # <<>> => ret'[1].control = <<>>
    <2>1. /\ fd = <<>> /\ de = <<>> /\ xm = <<>> /\ vec = <<>>
          /\ ~fetch.ok /\ Paging /\ s.fetch_xl # "done"
          /\ ret # <<>> => ret[1].control = <<>>
      BY <1>1, <1>2, <1>4 DEF StageFacts, WalkAlone
    <2>2. ~w.to_retire
      BY <1>2, <2>1 DEF WireFacts
    <2> QED BY <1>1, <2>1, <2>2, PipeEdge, MemoryEdge, VectorEdge, FetchEdge, PagingStays
  <1>5. ASSUME walk'[1].kind = "memory" PROVE xm' # <<>> /\ ~xm'[1].ok /\ vec' = <<>>
    <2>1. xm # <<>> /\ ~xm[1].ok /\ vec = <<>> /\ s.memory_xl # "done"
      BY <1>1, <1>2, <1>5 DEF StageFacts, WalkAlone
    <2> QED BY <1>1, <2>1, MemoryEdge, VectorEdge
  <1>6. ASSUME walk'[1].kind = "vector" PROVE vec' # <<>> /\ ~vec'[1].ok
    <2>1. vec # <<>> /\ ~vec[1].ok /\ s.vector_xl # "done"
      BY <1>1, <1>2, <1>6 DEF StageFacts, WalkAlone
    <2> QED BY <1>1, <2>1, VectorEdge
  <1> QED BY <1>3, <1>4, <1>5, <1>6 DEF WalkAlone

\* The owner of an access keeps it until its answer, and a request that the
\* LSU takes makes its user the owner.
LEMMA BusOwnedStays ==
  ASSUME Structure, NEW s, NEW w, NEW i, NEW d, NEW lines, Edge(s, w, i, d, lines), Running'
  PROVE  BusOwned'
  <1> USE DEF Structure
  <1> SUFFICES ASSUME LsuActive(lsu') PROVE BusOwned'
    BY DEF BusOwned
  <1>1. /\ \/ LsuActive(lsu) /\ ~V4LsuDone(lsu, d) /\ lsu'.req = lsu.req
           \/ LsuReady(lsu) /\ w.request # <<>> /\ lsu'.req = w.request[1]
        /\ V4LsuDone(lsu, d) => LsuActive(lsu)
    BY V4LsuEdge DEF Edge, ClockUnits, Latches
  <1>2. ~V4LsuDone(lsu, d)
    BY <1>1 DEF LsuActive, LsuReady
  <1>3. StageFacts(s) /\ w.request = LsuRequest(s)
    BY DEF Edge, WireFacts
  <1>4. ASSUME walk = <<>>, walk' # <<>>
        PROVE  /\ ~StorebufAny
               /\ vec # <<>> => ~vec[1].ok
               /\ xm # <<>> => ~xm[1].ok
    BY <1>3, <1>4, WalkGoes DEF StageFacts, VectorAlone
  <1>5. ASSUME walk # <<>>, ~walk[1].processing, lsu'.req = WalkRequest,
               walk[1].started \/ (w.request # <<>> /\ LsuReady(lsu))
        PROVE  walk' # <<>> /\ ~walk'[1].processing /\ walk'[1].started /\ lsu'.req = WalkRequest'
    <2>1. ~w.entry /\ ~Processing /\ ~s.walk_leaf
      BY <1>3, <1>5, EntryQuiet DEF StageFacts, Processing
    <2>2. s.fetch_xl # "walk" /\ s.memory_xl # "walk" /\ s.vector_xl # "walk"
      BY <1>3, <1>5 DEF StageFacts
    <2>3. \/ w.request # <<>> /\ LsuReady(lsu) /\ walk' = <<[walk[1] EXCEPT !.started = TRUE]>>
          \/ ~(w.request # <<>> /\ LsuReady(lsu)) /\ walk' = walk
      BY <1>2, <1>5, <2>1, <2>2, WalkEdge
    <2>4. DOMAIN walk[1] = WalkFields
      BY <1>5 DEF Latches
    <2>5. /\ walk' # <<>> /\ ~walk'[1].processing /\ walk'[1].started
          /\ walk'[1].va = walk[1].va /\ walk'[1].table = walk[1].table
          /\ walk'[1].level = walk[1].level
      <3>1. ASSUME walk' = <<[walk[1] EXCEPT !.started = TRUE]>>
            PROVE  /\ walk' # <<>> /\ walk'[1].processing = walk[1].processing /\ walk'[1].started
                   /\ walk'[1].va = walk[1].va /\ walk'[1].table = walk[1].table
                   /\ walk'[1].level = walk[1].level
        BY <2>4, <3>1 DEF WalkFields
      <3> QED BY <1>5, <2>3, <3>1
    <2> QED BY <1>5, <2>5 DEF WalkRequest
  <1>6. ASSUME walk = <<>>, vec # <<>>, vec[1].ok, vec[1].started \/ VectorTaken(w)
        PROVE  walk' = <<>> /\ vec' # <<>> /\ vec'[1].ok /\ vec'[1].started
    BY <1>2, <1>4, <1>6, VectorEdge
  <1>7. ASSUME walk = <<>>, StorebufAny,
               \/ sb[Draining][1].started
               \/ vec = <<>> /\ w.request # <<>> /\ LsuReady(lsu)
        PROVE  walk' = <<>> /\ StorebufAny' /\ sb'[Draining'][1].started
    BY <1>2, <1>4, <1>7, StorebufEdge
  <1>8. ASSUME walk = <<>>, vec = <<>>, xm # <<>>, xm[1].ok,
               xm[1].started \/ (MemoryTaken(w) /\ ~s.cached)
        PROVE  walk' = <<>> /\ vec' = <<>> /\ xm' # <<>> /\ xm'[1].ok /\ xm'[1].started
    <2>1. ~w.entry
      BY <1>8, EntryQuiet
    <2> QED BY <1>2, <1>4, <1>8, <2>1, MemoryEdge, VectorEdge
  <1>9. CASE LsuActive(lsu) /\ lsu'.req = lsu.req
    <2>1. \/ walk # <<>> /\ ~walk[1].processing /\ walk[1].started /\ lsu'.req = WalkRequest
          \/ walk = <<>> /\ vec # <<>> /\ vec[1].ok /\ vec[1].started
          \/ walk = <<>> /\ StorebufAny /\ sb[Draining][1].started
          \/ walk = <<>> /\ vec = <<>> /\ xm # <<>> /\ xm[1].ok /\ xm[1].started
      BY <1>9 DEF BusOwned
    <2>2. CASE walk # <<>> /\ ~walk[1].processing /\ walk[1].started /\ lsu'.req = WalkRequest
      <3>1. walk' # <<>> /\ ~walk'[1].processing /\ walk'[1].started /\ lsu'.req = WalkRequest'
        BY <1>5, <2>2
      <3> QED BY <3>1 DEF BusOwned
    <2>3. CASE walk = <<>> /\ vec # <<>> /\ vec[1].ok /\ vec[1].started
      BY <1>6, <2>3 DEF BusOwned
    <2>4. CASE walk = <<>> /\ StorebufAny /\ sb[Draining][1].started
      BY <1>7, <2>4 DEF BusOwned
    <2>5. CASE walk = <<>> /\ vec = <<>> /\ xm # <<>> /\ xm[1].ok /\ xm[1].started
      BY <1>8, <2>5 DEF BusOwned
    <2> QED BY <2>1, <2>2, <2>3, <2>4, <2>5
  <1>10. CASE LsuReady(lsu) /\ w.request # <<>> /\ lsu'.req = w.request[1]
    <2>1. \/ walk # <<>> /\ ~walk[1].processing /\ lsu'.req = WalkRequest
          \/ walk = <<>> /\ vec # <<>> /\ vec[1].ok
          \/ walk = <<>> /\ vec = <<>> /\ StorebufAny
          \/ walk = <<>> /\ vec = <<>> /\ ~StorebufAny /\ xm # <<>> /\ xm[1].ok /\ ~s.cached
      BY <1>3, <1>10, RequestOf DEF VectorAlone
    <2> QED BY <1>5, <1>6, <1>7, <1>8, <1>10, <2>1 DEF BusOwned, VectorTaken, MemoryTaken
  <1> QED BY <1>1, <1>9, <1>10

\* One edge keeps the latches of a running core in order.
LEMMA StepStructure ==
  ASSUME Structure, IsFile(sr), NEW s, NEW w, NEW i, NEW d, NEW lines, Edge(s, w, i, d, lines), Running'
  PROVE  Structure'
  BY LatchesStay, StorebufEdge, MemoryAloneStays, VectorAloneStays, WalkAloneStays, TrapAloneStays,
     FaultQuietStays, BusOwnedStays DEF Structure

-----------------------------------------------------------------------------
\* The special registers and the TLB of one cycle: a switch of the address
\* space flushes, the root is written by an instruction that retires, and
\* only the leaf of the walk is filled.
LEMMA EdgeRegisters ==
  ASSUME IsFile(sr), GenerationsPast(tlb), NEW s, NEW w, NEW i, NEW d, NEW lines,
         Edge(s, w, i, d, lines)
  PROVE  \E flush \in BOOLEAN :
         /\ tlb' = TlbClock(tlb, flush, IF s.walk_leaf THEN WalkFill(walk[1]) ELSE <<>>)
         /\ GenerationsPast(tlb') /\ IsFile(sr')
         /\ flush => Live(tlb') = {}
         /\ \/ sr'[CPU_CONTROL] # sr[CPU_CONTROL]
            \/ sr'[PAGE_TABLE_ROOT] # sr[PAGE_TABLE_ROOT]
            => flush
         /\ sr'[PAGE_TABLE_ROOT] # sr[PAGE_TABLE_ROOT] => w.to_retire
  <1> DEFINE fill == IF s.walk_leaf THEN WalkFill(walk[1]) ELSE <<>>
  <1>0. w.s = s
    BY DEF Edge, WireFacts
  <1>1. PICK control, saved, entered, write, set :
          /\ sr' = SpecialClock(sr, control, saved, entered, pend, write, set)
          /\ tlb' = TlbClock(tlb, TlbFlush(control, write), fill)
          /\ write # <<>> => w.to_retire
    BY <1>0 DEF Edge, ClockRegisters
  <1> HIDE DEF fill
  <1> DEFINE flush == TlbFlush(control, write)
  <1>2. flush \in BOOLEAN
    BY DEF TlbFlush
  <1>3. GenerationsPast(tlb') /\ (flush => Live(tlb') = {})
    BY <1>1, <1>2, ClockPast
  <1>4. /\ IsFile(sr')
        /\ \/ sr'[CPU_CONTROL] # sr[CPU_CONTROL]
           \/ sr'[PAGE_TABLE_ROOT] # sr[PAGE_TABLE_ROOT]
           => flush
        /\ sr'[PAGE_TABLE_ROOT] # sr[PAGE_TABLE_ROOT] => w.to_retire
    BY <1>1, SpecialClockFile
  <1> HIDE DEF flush
  <1>5. tlb' = TlbClock(tlb, flush, fill)
    BY <1>1 DEF flush
  <1> QED BY <1>2, <1>3, <1>4, <1>5 DEF fill

\* A walk that goes on still leads where the walk from the root leads, and
\* the entry it reads is its own.
LEMMA StepWalk ==
  ASSUME Structure, WalkAgrees, NEW s, NEW w, NEW i, NEW d, NEW lines, Edge(s, w, i, d, lines), Running',
         sr'[PAGE_TABLE_ROOT] # sr[PAGE_TABLE_ROOT] => w.to_retire
  PROVE  WalkAgrees'
  <1> SUFFICES ASSUME walk' # <<>> PROVE WalkAgrees'
    BY DEF WalkAgrees
  <1> USE DEF Structure
  <1>1. StageFacts(s) /\ (w.to_retire => de # <<>> /\ xm = <<>> /\ mr = <<>>)
    BY DEF Edge, WireFacts
  <1>2. walk # <<>> => sr'[PAGE_TABLE_ROOT] = sr[PAGE_TABLE_ROOT] /\ DOMAIN walk[1] = WalkFields
    BY <1>1 DEF WalkAlone, VectorAlone, Latches
  <1>3. ASSUME NEW va, NEW access, NEW kind, walk' = WalkStart(va, access, kind),
               s.fetch_xl = "walk" \/ s.memory_xl = "walk" \/ s.vector_xl = "walk"
        PROVE  WalkAgrees'
    <2>1. sr'[PAGE_TABLE_ROOT] = sr[PAGE_TABLE_ROOT]
      BY <1>1, <1>3 DEF StageFacts, VectorAlone
    <2>2. walk'[1].table = PageOf(sr[PAGE_TABLE_ROOT]) /\ walk'[1].level = 2 /\ ~walk'[1].processing
      BY <1>3 DEF WalkStart
    <2> QED BY <2>1, <2>2 DEF WalkAgrees, WalkRest
  <1>4. ASSUME walk # <<>>, ~walk[1].processing, V4LsuDone(lsu, d),
               walk' = <<[walk[1] EXCEPT !.processing = TRUE, !.pte = LsuLoad(lsu, mem)]>>
        PROVE  WalkAgrees'
    <2>1. LsuActive(lsu)
      BY <1>4, V4LsuEdge DEF Latches
    <2>2. lsu.req = WalkRequest
      BY <1>4, <2>1 DEF BusOwned
    <2>3. LsuLoad(lsu, mem) = WalkEntry(walk[1].table, walk[1].level, PageOf(walk[1].va))
      BY <2>2 DEF LsuLoad, WalkRequest, NoRequest, WalkEntry
    <2>4. /\ walk'[1].va = walk[1].va /\ walk'[1].table = walk[1].table
          /\ walk'[1].level = walk[1].level /\ walk'[1].pte = LsuLoad(lsu, mem)
      BY <1>2, <1>4 DEF WalkFields
    <2> QED BY <1>2, <1>4, <2>3, <2>4 DEF WalkAgrees
  <1>5. ASSUME walk # <<>>, Processing, s.walk_fault = <<>>, ~s.walk_leaf,
               walk' = <<[walk[1] EXCEPT !.processing = FALSE, !.started = FALSE, !.pte = <<>>,
                                         !.table = walk[1].pte.ppn, !.level = @ - 1]>>
        PROVE  WalkAgrees'
    <2> DEFINE t == walk[1]
    <2>1. /\ t.processing
          /\ WalkFault(t.pte, t.level, t.access, User) = <<>>
          /\ ~WalkIsLeaf(t.pte)
      BY <1>1, <1>5 DEF StageFacts, Processing
    <2>2. t.level \in 0 .. 2 /\ t.pte = WalkEntry(t.table, t.level, PageOf(t.va))
      BY <1>5, <2>1 DEF Latches, WalkAgrees
    <2>3. \A access, user : WalkRest(t.table, t.level, PageOf(t.va), access, user)
                              = WalkRest(t.pte.ppn, t.level - 1, PageOf(t.va), access, user)
      BY <2>1, <2>2, DescendRest
    <2>4. /\ walk'[1].va = t.va /\ walk'[1].table = t.pte.ppn
          /\ walk'[1].level = t.level - 1 /\ ~walk'[1].processing
      BY <1>2, <1>5 DEF WalkFields
    <2> QED BY <1>2, <1>5, <2>3, <2>4 DEF WalkAgrees
  <1>6. ASSUME walk # <<>>, walk' = <<[walk[1] EXCEPT !.started = TRUE]>> \/ walk' = walk
        PROVE  WalkAgrees'
    <2>1. ASSUME walk' = <<[walk[1] EXCEPT !.started = TRUE]>>
          PROVE  /\ walk'[1].va = walk[1].va /\ walk'[1].table = walk[1].table
                 /\ walk'[1].level = walk[1].level /\ walk'[1].processing = walk[1].processing
                 /\ walk'[1].pte = walk[1].pte
      BY <1>2, <1>6, <2>1 DEF WalkFields
    <2>2. /\ walk'[1].va = walk[1].va /\ walk'[1].table = walk[1].table
          /\ walk'[1].level = walk[1].level /\ walk'[1].processing = walk[1].processing
          /\ walk'[1].pte = walk[1].pte
      BY <1>6, <2>1
    <2> QED BY <1>2, <1>6, <2>2 DEF WalkAgrees
  <1> QED BY <1>3, <1>4, <1>5, <1>6, WalkEdge

\* What the walk fills is the translation of its page.
LEMMA FillIsWalk ==
  ASSUME Structure, WalkAgrees, NEW s, StageFacts(s), s.walk_leaf
  PROVE  LET fill == WalkFill(walk[1]) IN
         \A access, user : WalkAllowed(fill[3], access, user) =>
            WalkFrom2(PageOf(sr[PAGE_TABLE_ROOT]), fill[1], access, user) = Mapped(fill[2])
  <1> DEFINE t == walk[1]
  <1>1. /\ walk # <<>> /\ t.processing
        /\ WalkFault(t.pte, t.level, t.access, User) = <<>>
        /\ WalkIsLeaf(t.pte)
    BY DEF StageFacts, Processing
  <1>2. t.level \in 0 .. 2 /\ t.pte = WalkEntry(t.table, t.level, PageOf(t.va))
    BY <1>1 DEF Structure, Latches, WalkAgrees
  <1> HIDE DEF t
  <1>3. \A access, user : WalkAllowed(t.pte, access, user) =>
          WalkRest(t.table, t.level, PageOf(t.va), access, user)
            = Mapped(WalkPage(t.pte, t.level, PageOf(t.va)))
    BY <1>1, <1>2, LeafRest
  <1>4. \A access, user :
          WalkFrom2(PageOf(sr[PAGE_TABLE_ROOT]), PageOf(t.va), access, user)
            = WalkRest(t.table, t.level, PageOf(t.va), access, user)
    BY <1>1 DEF WalkAgrees, t
  <1> QED BY <1>3, <1>4 DEF WalkFill, t

\* A step is one cycle.
LEMMA StepEdge ==
  ASSUME Next
  PROVE  \E s, w, i, d, lines : Edge(s, w, i, d, lines)
  <1> DEFINE Clocks(w, i, d, lines) ==
               /\ ClockRegisters(w, lines) /\ ClockUnits(w, i, d)
               /\ ClockResult(w) /\ ClockRetire(w) /\ ClockStorebuf(w)
               /\ ClockMemory(w) /\ ClockDecode(w) /\ ClockFetch(w)
               /\ ClockWalk(w) /\ ClockVector(w)
  <1>1. PICK i \in IBus, d \in DBus, lines \in SUBSET prog.lines, s \in {Stages} :
          \E w \in {Wires(s, i, d, PendingIrq(sr, lines), TrapNext(s))} : Clocks(w, i, d, lines)
    BY DEF Next
  <1>2. PICK w : w = Wires(s, i, d, PendingIrq(sr, lines), TrapNext(s)) /\ Clocks(w, i, d, lines)
    BY <1>1
  <1>3. StageFacts(s)
    BY StagesSay
  <1>4. WireFacts(s, w, d, PendingIrq(sr, lines)) /\ w.trap_next = TrapNext(s)
    BY <1>2, WiresSay
  <1>5. TrapFacts(s, w.trap_next)
    BY <1>4, TrapSays
  <1>6. Edge(s, w, i, d, lines)
    BY <1>2, <1>3, <1>4, <1>5 DEF Edge
  <1> QED BY <1>6

\* One step keeps the invariant, and one that switches the address space
\* leaves no live entry.
LEMMA StepInv ==
  ASSUME Inv, Next
  PROVE  /\ Inv'
         /\ \/ sr'[CPU_CONTROL] # sr[CPU_CONTROL]
            \/ sr'[PAGE_TABLE_ROOT] # sr[PAGE_TABLE_ROOT]
            => Live(tlb') = {}
  <1> USE DEF Inv
  <1>1. PICK s, w, i, d, lines : Edge(s, w, i, d, lines)
    BY StepEdge
  <1> DEFINE fill == IF s.walk_leaf THEN WalkFill(walk[1]) ELSE <<>>
  <1>2. PICK flush \in BOOLEAN :
         /\ tlb' = TlbClock(tlb, flush, fill)
         /\ GenerationsPast(tlb') /\ IsFile(sr')
         /\ flush => Live(tlb') = {}
         /\ \/ sr'[CPU_CONTROL] # sr[CPU_CONTROL]
            \/ sr'[PAGE_TABLE_ROOT] # sr[PAGE_TABLE_ROOT]
            => flush
         /\ sr'[PAGE_TABLE_ROOT] # sr[PAGE_TABLE_ROOT] => w.to_retire
    BY <1>1, EdgeRegisters
  <1>3. ASSUME Running'
        PROVE  Structure' /\ WalkAgrees' /\ Agrees(tlb', PageOf(sr'[PAGE_TABLE_ROOT]))
    <2>1. Structure /\ WalkAgrees /\ Agrees(tlb, PageOf(sr[PAGE_TABLE_ROOT]))
      BY <1>1, <1>3, GoesOn
    <2>2. Structure'
      BY <1>1, <1>3, <2>1, StepStructure
    <2>3. WalkAgrees'
      BY <1>1, <1>2, <1>3, <2>1, StepWalk
    <2>4. fill # <<>> => \A access, user : WalkAllowed(fill[3], access, user) =>
                            WalkFrom2(PageOf(sr[PAGE_TABLE_ROOT]), fill[1], access, user)
                              = Mapped(fill[2])
      <3>1. StageFacts(s)
        BY <1>1 DEF Edge
      <3> QED BY <2>1, <3>1, FillIsWalk
    <2> HIDE DEF fill
    <2>5. flush \/ PageOf(sr'[PAGE_TABLE_ROOT]) = PageOf(sr[PAGE_TABLE_ROOT])
      BY <1>2
    <2>6. Agrees(tlb', PageOf(sr'[PAGE_TABLE_ROOT]))
      BY <1>2, <2>1, <2>4, <2>5, ClockAgrees
    <2> QED BY <2>2, <2>3, <2>6
  <1> QED BY <1>2, <1>3

\* The reset state satisfies the invariant.
LEMMA InitInv == Init => Inv
  <1> SUFFICES ASSUME Init PROVE Inv
    OBVIOUS
  <1>1. IsFile(sr) /\ GenerationsPast(tlb)
    BY ProgramsAssumption, ResetPast DEF Init, IsFile
  <1>2. /\ fd = <<>> /\ de = <<>> /\ xm = <<>> /\ mr = <<>> /\ ret = <<>>
        /\ vec = <<>> /\ walk = <<>> /\ pend = <<>> /\ sb = << <<>>, <<>> >>
        /\ lsu = V4LsuReset /\ DOMAIN fetch = {"pc", "phys", "ok"}
    BY DEF Init
  <1>3. DOMAIN lsu = {"st", "started", "req", "first", "wd"} /\ ~LsuActive(lsu)
    BY <1>2 DEF V4LsuReset, Started, LsuReset, LsuActive
  <1>4. Structure
    BY <1>2, <1>3 DEF Structure, Latches, TwoPlaces, MemoryAlone, VectorAlone, WalkAlone, TrapAlone,
                      FaultQuiet, BusOwned, StorebufAny
  <1>5. WalkAgrees
    BY <1>2 DEF WalkAgrees
  <1>6. Agrees(tlb, PageOf(sr[PAGE_TABLE_ROOT]))
    BY ResetPast DEF Init, Agrees, Live
  <1> QED BY <1>1, <1>4, <1>5, <1>6 DEF Inv

\* The invariant holds in every state.
LEMMA AlwaysInv == Spec => []Inv
  <1>1. Inv /\ [Next]_vars => Inv'
    <2>1. ASSUME Inv, UNCHANGED vars PROVE Inv'
      <3>1. /\ sr' = sr /\ tlb' = tlb /\ lsu' = lsu /\ halted' = halted /\ locked' = locked
            /\ fd' = fd /\ de' = de /\ xm' = xm /\ mr' = mr /\ ret' = ret /\ sb' = sb
            /\ vec' = vec /\ walk' = walk /\ pend' = pend /\ fetch' = fetch
        BY <2>1 DEF vars, arch, pipe
      <3>2. Structure => Structure'
        BY <3>1 DEF Structure, Latches, TwoPlaces, MemoryAlone, VectorAlone, WalkAlone, TrapAlone,
                    FaultQuiet, BusOwned, Paging, WalkRequest, StorebufAny, Draining
      <3>3. WalkAgrees => WalkAgrees'
        BY <3>1 DEF WalkAgrees
      <3> QED BY <2>1, <3>1, <3>2, <3>3 DEF Inv, Running
    <2> QED BY <2>1, StepInv
  <1> QED BY <1>1, InitInv, PTL DEF Spec

\* While the V4 core runs, a translation its TLB still answers with is the
\* one the page tables give now: the store buffer's and the pipeline's
\* accesses, a redirect, a trap entry or a new root never leave a walk with
\* another's answer or with an old table.
THEOREM V4TlbAgrees == Spec => []TlbAgrees
  <1>1. Inv => TlbAgrees
    BY AgreesLive DEF Inv, Running, TlbAgrees
  <1> QED BY <1>1, AlwaysInv, PTL

\* No translation outlives its address space in the V4 core: the edge that
\* changes the control word or the root empties the TLB.
THEOREM V4Switch == Spec => SwitchFlushes
  <1>1. Inv /\ [Next]_vars =>
          [\/ sr'[CPU_CONTROL] # sr[CPU_CONTROL]
           \/ sr'[PAGE_TABLE_ROOT] # sr[PAGE_TABLE_ROOT]
           => Live(tlb') = {}]_vars
    BY StepInv
  <1> QED BY <1>1, AlwaysInv, PTL DEF Spec, SwitchFlushes
=============================================================================
