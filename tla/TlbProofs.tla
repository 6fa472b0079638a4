----------------------------- MODULE TlbProofs -----------------------------
(***************************************************************************)
(* For tables, memories and TLBs of any size: the TLB never answers what   *)
(* a walk would not, and the CPU with it implements the CPU without.       *)
(***************************************************************************)
EXTENDS Tlb, TLAPS

-----------------------------------------------------------------------------
(* Facts about the walk. *)

\* Table indices are indices: the shifts and masks of translate stay inside
\* one table.
LEMMA IdxType == \A v \in Nat : Idx0(v) \in Idx /\ Idx1(v) \in Idx /\ Idx2(v) \in Idx
<1> SUFFICES ASSUME NEW v \in Nat
             PROVE  Idx0(v) \in Idx /\ Idx1(v) \in Idx /\ Idx2(v) \in Idx
  OBVIOUS
<1>1. NIdx \in Nat /\ NIdx > 1
  BY PagingAssumption
<1>2. NIdx * NIdx \in Nat /\ NIdx * NIdx > 0
  BY <1>1
<1>3. \A x \in Nat : x % NIdx \in Idx
  BY <1>1 DEF Idx
<1>4. v \div NIdx \in Nat
  BY <1>1
<1>5. v \div (NIdx * NIdx) \in Nat
  BY <1>2
<1>6. QED
  BY <1>3, <1>4, <1>5 DEF Idx0, Idx1, Idx2

\* A read of a table entry, in RAM or on the open bus, is an entry.
LEMMA ReadPteType ==
    ASSUME NEW m \in Memory, NEW f, NEW i \in Idx
    PROVE  ReadPte(m, f, i) \in PTE
<1>1. NPages \in Nat /\ NPages > 0
  BY PagingAssumption DEF NPages
<1>2. OpenBus \in PTE
  BY <1>1 DEF OpenBus, PTE
<1>3. f \in Ram => m[f][i] \in PTE
  BY DEF Memory
<1>4. QED
  BY <1>2, <1>3 DEF ReadPte

\* A leaf resolves to a fault or to a frame; resolveLeaf wraps the superpage
\* base and offset back into the physical address space.
LEMMA ResolveLeafType ==
    ASSUME NEW leaf \in PTE, NEW level \in 0 .. 2, NEW offset \in Nat,
           NEW u \in BOOLEAN, NEW a \in Access
    PROVE  ResolveLeaf(leaf, level, offset, u, a) \in Result
<1>1. NPages \in Nat /\ NPages > 0
  BY PagingAssumption DEF NPages
<1>2. PhysicalFrame(leaf, offset) \in VPages
  <2>1. leaf.ppn + (IF leaf.rsv THEN NPages ELSE 0) + offset \in Nat
    BY <1>1 DEF PTE
  <2>2. \A x \in Nat : x % (2 * NPages) \in VPages
    BY <1>1 DEF VPages
  <2>3. QED
    BY <2>1, <2>2 DEF PhysicalFrame
<1>3. 0 \in VPages
  BY <1>1 DEF VPages
<1>4. QED
  BY <1>2, <1>3 DEF ResolveLeaf, Fault, Mapped, Result, Aux,
        TRAP_PAGE_FAULT_NOT_PRESENT, TRAP_PAGE_FAULT_PERMISSION

\* The walk of one page either faults on the way down, whatever is asked,
\* or reaches one leaf, and only that leaf's bits decide.
Shape(m, r, v) ==
    \/ \E f \in Result : /\ ~f.valid
                         /\ \A u \in BOOLEAN, a \in Access : Walk(m, r, v, u, a) = f
    \/ \E leaf \in PTE, level \in 0 .. 2, offset \in Nat :
          \A u \in BOOLEAN, a \in Access :
              Walk(m, r, v, u, a) = ResolveLeaf(leaf, level, offset, u, a)

\* Every walk, on whatever memory, has that shape.
LEMMA WalkShape ==
    ASSUME NEW m \in Memory, NEW r \in Root, NEW v \in VPages
    PROVE  Shape(m, r, v)
<1>1. NPages \in Nat /\ NPages > 0 /\ NIdx \in Nat /\ NIdx > 1 /\ NIdx * NIdx > 0
  BY PagingAssumption DEF NPages
<1>2. v \in Nat
  BY <1>1 DEF VPages
<1>3. /\ Idx0(v) \in Idx /\ Idx1(v) \in Idx /\ Idx2(v) \in Idx
      /\ Idx0(v) \in Nat /\ v % (NIdx * NIdx) \in Nat
  BY <1>1, <1>2, IdxType DEF Idx
<1>4. \A c \in {5, 7, 8}, s \in {1, 4, 5}, l \in 0 .. 2 :
          Fault(c, s, l) \in Result /\ ~Fault(c, s, l).valid
  BY <1>1 DEF Fault, Result, Aux, VPages
<1> DEFINE p2 == ReadPte(m, r.frame, Idx2(v))
           p1 == ReadPte(m, p2.ppn, Idx1(v))
           p0 == ReadPte(m, p1.ppn, Idx0(v))
<1>5. p2 \in PTE /\ p1 \in PTE /\ p0 \in PTE
  BY <1>3, ReadPteType
<1> USE DEF TRAP_PAGE_FAULT_NOT_PRESENT, TRAP_PAGE_FAULT_RESERVED,
            TRAP_PAGE_FAULT_CANONICAL
<1>a. CASE ~r.aligned
  BY <1>a, <1>4 DEF Shape, Walk
<1>b. CASE r.aligned /\ ~Canonical(v)
  BY <1>b, <1>4 DEF Shape, Walk
<1>c. CASE r.aligned /\ Canonical(v)
  <2>1. \A u \in BOOLEAN, a \in Access :
            Walk(m, r, v, u, a) =
                IF ~p2.V THEN Fault(5, 1, 2)
                ELSE IF p2.perm # {} THEN ResolveLeaf(p2, 2, v % (NIdx * NIdx), u, a)
                ELSE IF p2.rsv THEN Fault(7, 4, 2)
                ELSE IF ~p1.V THEN Fault(5, 1, 1)
                ELSE IF p1.perm # {} THEN ResolveLeaf(p1, 1, Idx0(v), u, a)
                ELSE IF p1.rsv THEN Fault(7, 4, 1)
                ELSE IF ~p0.V THEN Fault(5, 1, 0)
                ELSE IF p0.rsv THEN Fault(7, 4, 0)
                ELSE ResolveLeaf(p0, 0, 0, u, a)
    BY <1>c DEF Walk, WalkL2, WalkL1, WalkL0
  <2> HIDE DEF p2, p1, p0
  <2>a. CASE ~p2.V
    BY <2>a, <2>1, <1>4 DEF Shape
  <2>b. CASE p2.V /\ p2.perm # {}
    BY <2>b, <2>1, <1>3, <1>5 DEF Shape
  <2>c. CASE p2.V /\ p2.perm = {} /\ p2.rsv
    BY <2>c, <2>1, <1>4 DEF Shape
  <2>d. CASE p2.V /\ p2.perm = {} /\ ~p2.rsv
    <3>a. CASE ~p1.V
      BY <2>d, <3>a, <2>1, <1>4 DEF Shape
    <3>b. CASE p1.V /\ p1.perm # {}
      BY <2>d, <3>b, <2>1, <1>3, <1>5 DEF Shape
    <3>c. CASE p1.V /\ p1.perm = {} /\ p1.rsv
      BY <2>d, <3>c, <2>1, <1>4 DEF Shape
    <3>d. CASE p1.V /\ p1.perm = {} /\ ~p1.rsv /\ ~p0.V
      BY <2>d, <3>d, <2>1, <1>4 DEF Shape
    <3>e. CASE p1.V /\ p1.perm = {} /\ ~p1.rsv /\ p0.V /\ p0.rsv
      BY <2>d, <3>e, <2>1, <1>4 DEF Shape
    <3>f. CASE p1.V /\ p1.perm = {} /\ ~p1.rsv /\ p0.V /\ ~p0.rsv
      BY <2>d, <3>f, <2>1, <1>5 DEF Shape
    <3>g. QED
      BY <3>a, <3>b, <3>c, <3>d, <3>e, <3>f
  <2>e. QED
    BY <2>a, <2>b, <2>c, <2>d
<1>6. QED
  BY <1>a, <1>b, <1>c

\* translate returns a fault or a frame for every page, mode and access.
LEMMA WalkType ==
    ASSUME NEW m \in Memory, NEW r \in Root, NEW v \in VPages,
           NEW u \in BOOLEAN, NEW a \in Access
    PROVE  Walk(m, r, v, u, a) \in Result
  BY WalkShape, ResolveLeafType DEF Shape

\* The bits that decide every walk of page v: the permissions P, whether the
\* user may (U), and the frame F.
Decided(m, r, v, P, U, F) ==
    \A c \in Access : \A h :
        /\ Walk(m, r, v, TRUE, c) = Mapped(h) <=> (c \in P /\ U = TRUE /\ h = F)
        /\ Walk(m, r, v, FALSE, c) = Mapped(h) <=> (c \in P /\ h = F)

\* Such bits exist for every page of every memory: they are the leaf's.
LEMMA WalkDecided ==
    ASSUME NEW m \in Memory, NEW r \in Root, NEW v \in VPages
    PROVE  \E P, U, F : Decided(m, r, v, P, U, F)
<1>1. Shape(m, r, v)
  BY WalkShape
<1>2. ASSUME NEW x \in Result, ~x.valid,
             \A w \in BOOLEAN, c \in Access : Walk(m, r, v, w, c) = x
      PROVE  \A w \in BOOLEAN, c \in Access : \A h : Walk(m, r, v, w, c) # Mapped(h)
  <2>1. \A h : Mapped(h).valid
    BY DEF Mapped
  <2>2. QED
    BY <1>2, <2>1
<1>3. ASSUME NEW leaf \in PTE, NEW level \in 0 .. 2, NEW offset \in Nat,
             \A w \in BOOLEAN, c \in Access :
                 Walk(m, r, v, w, c) = ResolveLeaf(leaf, level, offset, w, c)
      PROVE  \A w \in BOOLEAN, c \in Access : \A h :
                 Walk(m, r, v, w, c) = Mapped(h) <=>
                     /\ c \in leaf.perm
                     /\ w => leaf.U
                     /\ h = PhysicalFrame(leaf, offset)
  <2> SUFFICES ASSUME NEW w \in BOOLEAN, NEW c \in Access, NEW h
               PROVE  ResolveLeaf(leaf, level, offset, w, c) = Mapped(h) <=>
                        /\ c \in leaf.perm
                        /\ w => leaf.U
                        /\ h = PhysicalFrame(leaf, offset)
    BY <1>3
  <2>1. \A x, s, l : Fault(x, s, l) # Mapped(h)
    <3>1. \A x, s, l : Fault(x, s, l).valid = FALSE
      BY DEF Fault
    <3>2. Mapped(h).valid = TRUE
      BY DEF Mapped
    <3>3. QED
      BY <3>1, <3>2
  <2>2. \A x : Mapped(x) = Mapped(h) <=> x = h
    <3>1. \A x : Mapped(x).frame = x
      BY DEF Mapped
    <3>2. QED
      BY <3>1
  <2>3. c \in leaf.perm => leaf.perm # {}
    OBVIOUS
  <2>4. CASE c \in leaf.perm /\ (w => leaf.U)
    <3>1. ResolveLeaf(leaf, level, offset, w, c) = Mapped(PhysicalFrame(leaf, offset))
      BY <2>3, <2>4 DEF ResolveLeaf
    <3>2. QED
      BY <3>1, <2>2, <2>4
  <2>5. CASE ~(c \in leaf.perm /\ (w => leaf.U))
    <3>1. \E x, s, l : ResolveLeaf(leaf, level, offset, w, c) = Fault(x, s, l)
      BY <2>5 DEF ResolveLeaf
    <3>2. QED
      BY <3>1, <2>1, <2>5
  <2>6. QED
    BY <2>4, <2>5
<1>4. CASE \E x \in Result : /\ ~x.valid
                         /\ \A w \in BOOLEAN, c \in Access : Walk(m, r, v, w, c) = x
  <2>1. \A w \in BOOLEAN, c \in Access : \A h : Walk(m, r, v, w, c) # Mapped(h)
    BY <1>2, <1>4
  <2>2. \A c \in Access : \A h : /\ Walk(m, r, v, TRUE, c) # Mapped(h)
                             /\ Walk(m, r, v, FALSE, c) # Mapped(h)
    BY <2>1, Zenon
  <2>3. Decided(m, r, v, {}, TRUE, 0)
    BY <2>2 DEF Decided
  <2>4. QED
    BY <2>3
<1>5. CASE \E leaf \in PTE, level \in 0 .. 2, offset \in Nat :
          \A w \in BOOLEAN, c \in Access :
              Walk(m, r, v, w, c) = ResolveLeaf(leaf, level, offset, w, c)
  <2>1. PICK leaf \in PTE, level \in 0 .. 2, offset \in Nat :
          \A w \in BOOLEAN, c \in Access : \A h :
                 Walk(m, r, v, w, c) = Mapped(h) <=>
                     /\ c \in leaf.perm
                     /\ w => leaf.U
                     /\ h = PhysicalFrame(leaf, offset)
    BY <1>3, <1>5
  <2>2. \A c \in Access : \A h :
          /\ Walk(m, r, v, TRUE, c) = Mapped(h) <=>
                c \in leaf.perm /\ leaf.U /\ h = PhysicalFrame(leaf, offset)
          /\ Walk(m, r, v, FALSE, c) = Mapped(h) <=>
                c \in leaf.perm /\ h = PhysicalFrame(leaf, offset)
    BY <2>1, Zenon
  <2>3. leaf.U \in BOOLEAN
    BY DEF PTE
  <2>4. leaf.U <=> (leaf.U = TRUE)
    BY <2>3
  <2>5. Decided(m, r, v, leaf.perm, leaf.U, PhysicalFrame(leaf, offset))
    BY <2>2, <2>4, Zenon DEF Decided
  <2>6. QED
    BY <2>5, Zenon
<1>6. QED
  BY <1>1, <1>4, <1>5 DEF Shape

\* What makes one cached entry serve both modes and several accesses: a page
\* the user may touch the supervisor may touch, ...
LEMMA SupervisorMay ==
    ASSUME NEW m \in Memory, NEW r \in Root, NEW v \in VPages,
           NEW a \in Access, NEW f,
           Walk(m, r, v, TRUE, a) = Mapped(f)
    PROVE  Walk(m, r, v, FALSE, a) = Mapped(f)
<1>1. PICK P, U, F : Decided(m, r, v, P, U, F)
  BY WalkDecided
<1>2. QED
  BY <1>1, Zenon DEF Decided

\* ... and the frame does not depend on who asks for what.
LEMMA OneFrame ==
    ASSUME NEW m \in Memory, NEW r \in Root, NEW v \in VPages,
           NEW a \in Access, NEW b \in Access, NEW f, NEW g,
           Walk(m, r, v, FALSE, a) = Mapped(f),
           Walk(m, r, v, FALSE, b) = Mapped(g)
    PROVE  f = g
<1>1. PICK P, U, F : Decided(m, r, v, P, U, F)
  BY WalkDecided
<1>2. f = F /\ g = F
  BY <1>1, Zenon DEF Decided
<1>3. QED
  BY <1>2

\* A walk that succeeds reports nothing but its frame: no stale cause or aux.
LEMMA WalkValid ==
    ASSUME NEW m \in Memory, NEW r \in Root, NEW v \in VPages,
           NEW u \in BOOLEAN, NEW a \in Access, Walk(m, r, v, u, a).valid
    PROVE  Walk(m, r, v, u, a) = Mapped(Walk(m, r, v, u, a).frame)
<1>1. CASE \E x \in Result : /\ ~x.valid
                         /\ \A w \in BOOLEAN, c \in Access : Walk(m, r, v, w, c) = x
  BY <1>1
<1>2. CASE \E leaf \in PTE, level \in 0 .. 2, offset \in Nat :
          \A w \in BOOLEAN, c \in Access :
              Walk(m, r, v, w, c) = ResolveLeaf(leaf, level, offset, w, c)
  <2>1. PICK leaf \in PTE, level \in 0 .. 2, offset \in Nat :
              Walk(m, r, v, u, a) = ResolveLeaf(leaf, level, offset, u, a)
    BY <1>2
  <2>2. \A x, s, l : ~Fault(x, s, l).valid
    BY DEF Fault
  <2>3. Walk(m, r, v, u, a) = Mapped(PhysicalFrame(leaf, offset))
    BY <2>1, <2>2 DEF ResolveLeaf
  <2>4. Mapped(PhysicalFrame(leaf, offset)).frame = PhysicalFrame(leaf, offset)
    BY DEF Mapped
  <2>5. QED
    BY <2>3, <2>4
<1>3. QED
  BY <1>1, <1>2, WalkShape DEF Shape

-----------------------------------------------------------------------------
(* Types. *)

\* Sizes: no page has the invalid number of an empty entry, and the mask of
\* _mapAddress keeps an index inside the TLB.
LEMMA SizeFacts ==
    /\ NPages \in Nat /\ NPages > 0
    /\ VPages \subseteq Nat
    /\ NoPage \notin VPages
    /\ \A v \in VPages : Slot(v) \in Slots
  BY PagingAssumption, TlbAssumption DEF NPages, VPages, NoPage, Slot, Slots

\* With paging off or a misaligned fetch, too, the result is well formed.
LEMMA TranslateType ==
    ASSUME NEW m \in Memory, NEW r \in Root, NEW p \in BOOLEAN, NEW v \in VPages,
           NEW odd \in BOOLEAN, NEW u \in BOOLEAN, NEW a \in Access
    PROVE  Translate(m, r, p, v, odd, u, a) \in Result
<1>1. Fault(TRAP_EXEC_ALIGN, 0, 0) \in Result
  BY SizeFacts DEF Fault, Result, Aux, TRAP_EXEC_ALIGN, VPages
<1>2. Mapped(v) \in Result
  BY DEF Mapped, Result, Aux
<1>3. Walk(m, r, v, u, a) \in Result
  BY WalkType
<1>4. QED
  BY <1>1, <1>2, <1>3 DEF Translate

\* A store outside RAM is dropped by the bus, so memory stays memory.
LEMMA WriteType ==
    ASSUME NEW f, NEW i \in Idx, NEW pte \in PTE, mem \in Memory
    PROVE  Write(f, i, pte) \in Memory
  BY DEF Write, Memory

\* Cached or walked, _mapAddress hands back a well-formed result.
LEMMA OutcomeType ==
    ASSUME TypeOK, NEW v \in Pages, NEW odd \in BOOLEAN, NEW a \in Access
    PROVE  Outcome(v, odd, a) \in Result
<1>1. v \in VPages /\ Slot(v) \in Slots
  BY SizeFacts, MmuAssumption
<1>2. Translate(mem, root, paging, v, odd, user, a) \in Result
  BY <1>1, TranslateType DEF TypeOK, MmuTypeOK
<1>3. (IF paging THEN tlb[Slot(v)].pbase ELSE v) \in VPages
  BY <1>1 DEF TypeOK, TLBEntry
<1>4. \A f \in VPages : Mapped(f) \in Result
  BY DEF Mapped, Result, Aux
<1>5. QED
  BY <1>2, <1>3, <1>4 DEF Outcome, FastResult

\* _mapAddressSlowPath leaves well-formed entries.
LEMMA RefilledType ==
    ASSUME TypeOK, NEW v \in Pages, NEW odd \in BOOLEAN, NEW a \in Access
    PROVE  Refilled(v, odd, a) \in [Slots -> TLBEntry]
<1>1. v \in VPages /\ Slot(v) \in Slots
  BY SizeFacts, MmuAssumption
<1>2. Outcome(v, odd, a).frame \in VPages
  BY OutcomeType DEF Result
<1>3. \A f \in VPages : Filled(v, a, f) \in [Slots -> TLBEntry]
  BY <1>1 DEF Filled, TypeOK, MmuTypeOK, TLBEntry
<1>4. QED
  BY <1>2, <1>3 DEF Refilled, TypeOK

\* So does _flushTLB.
LEMMA EmptyType == Empty \in [Slots -> TLBEntry]
  BY SizeFacts DEF Empty, NoEntry, TLBEntry, NoPage, VPages

\* The two bits of cpu_control as a word, and back.
LEMMA ControlType ==
    ASSUME NEW p \in BOOLEAN, NEW u \in BOOLEAN
    PROVE  /\ [paging |-> p, user |-> u] \in Control
           /\ \A c \in Control : c.paging \in BOOLEAN /\ c.user \in BOOLEAN
  BY DEF Control

\* Trap entry, completed or refused, keeps the control words well formed.
LEMMA EnterTrapType ==
    ASSUME TypeOK, EnterTrap
    PROVE  user' \in BOOLEAN /\ saved' \in Control /\ run' \in BOOLEAN
<1>1. paging \in BOOLEAN /\ user \in BOOLEAN /\ saved \in Control
  BY DEF TypeOK, MmuTypeOK
<1>2. [paging |-> paging, user |-> user] \in Control
  BY <1>1, ControlType
<1>3. CASE /\ saved' = [paging |-> paging, user |-> user]
           /\ user' = FALSE
           /\ run' \in BOOLEAN
  BY <1>2, <1>3
<1>4. CASE UNCHANGED <<saved, user>> /\ run' \in BOOLEAN
  BY <1>1, <1>4
<1>5. QED
  BY <1>3, <1>4 DEF EnterTrap

\* So does an access, faulting or not.
LEMMA FinishType ==
    ASSUME TypeOK, NEW v \in Pages, NEW a \in Access, NEW r \in Result,
           Finish(v, a, r)
    PROVE  /\ root' \in Root /\ paging' \in BOOLEAN /\ user' \in BOOLEAN
           /\ saved' \in Control /\ run' \in BOOLEAN /\ out' \in Answer
<1>1. root' \in Root /\ paging' \in BOOLEAN /\ out' \in Answer
  BY DEF TypeOK, MmuTypeOK, Finish, Answer
<1>2. CASE r.valid
  BY <1>1, <1>2 DEF TypeOK, MmuTypeOK, Finish
<1>3. CASE ~r.valid
  BY <1>1, <1>3, EnterTrapType DEF Finish
<1>4. QED
  BY <1>2, <1>3

\* Writes keep memory and the set of stale pages well formed.
LEMMA PokeType ==
    ASSUME TypeOK, NEW m \in Memory, Poke(m)
    PROVE  mem' \in Memory /\ stale' \subseteq Pages
  BY DEF TypeOK, MmuTypeOK, Poke, Retranslated

\* the register values of reset()
LEMMA ResetType ==
    /\ [frame |-> 0, aligned |-> TRUE] \in Root
    /\ [paging |-> FALSE, user |-> FALSE] \in Control
<1>1. 0 \in VPages
  BY SizeFacts DEF VPages
<1>2. QED
  BY <1>1, ControlType DEF Root

\* and no answer at all
LEMMA NoAnswerType == NoAnswer \in Answer
<1>1. 0 \in VPages
  BY SizeFacts DEF VPages
<1>2. Mapped(0) \in Result
  BY <1>1 DEF Mapped, Result, Aux
<1>3. QED
  BY <1>2 DEF NoAnswer, Answer, Access

\* The reset state is well formed.
LEMMA InitType == Init => TypeOK
  BY EmptyType, ResetType, NoAnswerType, MmuAssumption DEF Init, MmuInit, TypeOK, MmuTypeOK

\* Every step keeps the state well formed.
LEMMA NextType == TypeOK /\ [Next]_vars => TypeOK'
<1> SUFFICES ASSUME TypeOK, [Next]_vars
             PROVE  TypeOK'
  OBVIOUS
<1>1. ASSUME NEW v \in Pages, NEW odd \in BOOLEAN, NEW a \in Access, Read(v, odd, a)
      PROVE  TypeOK'
  BY <1>1, FinishType, OutcomeType, RefilledType DEF Read, TypeOK, MmuTypeOK
<1>2. ASSUME NEW v \in Pages, NEW i \in Idx, NEW p \in PteChoices, Store(v, i, p)
      PROVE  TypeOK'
  <2> DEFINE r == Outcome(v, FALSE, "W")
             m == IF r.valid THEN Write(r.frame, i, p) ELSE mem
  <2>1. m \in Memory
    BY WriteType, MmuAssumption DEF TypeOK, MmuTypeOK
  <2>2. Finish(v, "W", r) /\ Poke(m) /\ tlb' = Refilled(v, FALSE, "W")
    BY <1>2 DEF Store
  <2>3. Refilled(v, FALSE, "W") \in [Slots -> TLBEntry]
    BY RefilledType DEF Access
  <2>4. "W" \in Access /\ r \in Result
    BY OutcomeType DEF Access
  <2> HIDE DEF r, m
  <2>5. QED
    BY <2>1, <2>2, <2>3, <2>4, FinishType, PokeType DEF TypeOK, MmuTypeOK
<1>3. ASSUME NEW f \in Ram, NEW i \in Idx, NEW p \in PteChoices, TlbDmaWrite(f, i, p)
      PROVE  TypeOK'
  <2>1. Write(f, i, p) \in Memory
    BY WriteType, MmuAssumption DEF TypeOK, MmuTypeOK
  <2>2. mem' \in Memory /\ stale' \subseteq Pages
    BY <1>3, <2>1, PokeType DEF TlbDmaWrite, DmaWrite
  <2>3. QED
    BY <1>3, <2>2, NoAnswerType DEF TlbDmaWrite, DmaWrite, TypeOK, MmuTypeOK, ctlvars
<1>4. CASE TlbTrap
  BY <1>4, EnterTrapType, NoAnswerType DEF TlbTrap, Trap, TypeOK, MmuTypeOK
<1>5. ASSUME NEW c \in Control, TlbSsrCpuControl(c)
      PROVE  TypeOK'
  BY <1>5, EmptyType, NoAnswerType DEF TlbSsrCpuControl, SsrCpuControl, flushTLB, TypeOK, MmuTypeOK, Control
<1>6. ASSUME NEW c \in Control, TlbSsrSaved(c)
      PROVE  TypeOK'
  BY <1>6, NoAnswerType DEF TlbSsrSaved, SsrSaved, TypeOK, MmuTypeOK
<1>7. ASSUME NEW r \in RootChoices, TlbSsrRoot(r)
      PROVE  TypeOK'
  BY <1>7, EmptyType, MmuAssumption, NoAnswerType DEF TlbSsrRoot, SsrRoot, flushTLB, TypeOK, MmuTypeOK
<1>8. CASE TlbIret
  BY <1>8, EmptyType, NoAnswerType DEF TlbIret, Iret, flushTLB, TypeOK, MmuTypeOK, Control
<1>9. CASE TlbReset
  BY <1>9, EmptyType, ResetType, NoAnswerType DEF TlbReset, Reset, flushTLB, TypeOK, MmuTypeOK
<1>10. CASE UNCHANGED vars
  BY <1>10 DEF vars, TypeOK, MmuTypeOK
<1>11. QED
  BY <1>1, <1>2, <1>3, <1>4, <1>5, <1>6, <1>7, <1>8, <1>9, <1>10 DEF Next, Access

\* The machine state keeps its types, the TLB entries theirs.
THEOREM TypeCorrect == Spec => []TypeOK
  BY InitType, NextType, PTL DEF Spec

-----------------------------------------------------------------------------
(* Soundness of the cached entries. *)

\* The heart of the argument: an access adds to the TLB only what a walk of
\* the tables grants, also when a permission joins an entry that the other
\* mode filled.
LEMMA RefilledSound ==
    ASSUME TypeOK, EntriesSound,
           NEW v \in Pages, NEW odd \in BOOLEAN, NEW a \in Access, NEW i \in Slots,
           Refilled(v, odd, a)[i].vpage # NoPage,
           Refilled(v, odd, a)[i].vpage \notin stale
    PROVE  SoundIn(mem, root, Refilled(v, odd, a)[i])
<1>1. v \in VPages /\ Slot(v) \in Slots
  BY SizeFacts, MmuAssumption
<1> DEFINE w == Walk(mem, root, v, user, a)
           e == tlb[Slot(v)]
<1>2. CASE FastPath(v, odd, a) \/ ~paging \/ ~Outcome(v, odd, a).valid
  <2>1. Refilled(v, odd, a) = tlb
    BY <1>2 DEF Refilled
  <2>2. QED
    BY <2>1 DEF EntriesSound
<1>3. CASE ~FastPath(v, odd, a) /\ paging /\ Outcome(v, odd, a).valid
  <2>1. Outcome(v, odd, a) = w /\ w.valid
    <3>1. ~Fault(TRAP_EXEC_ALIGN, 0, 0).valid
      BY DEF Fault
    <3>2. QED
      BY <1>3, <3>1 DEF Outcome, Translate
  <2>2. w = Mapped(w.frame)
    BY <1>1, <2>1, WalkValid DEF TypeOK, MmuTypeOK
  <2>3. Refilled(v, odd, a) = Filled(v, a, w.frame)
    BY <1>3, <2>1 DEF Refilled
  <2>4. Walk(mem, root, v, FALSE, a) = Mapped(w.frame)
    <3>1. mem \in Memory /\ root \in Root /\ user \in BOOLEAN
      BY DEF TypeOK, MmuTypeOK
    <3>2. Walk(mem, root, v, user, a) = Mapped(w.frame)
      BY <2>2
    <3> HIDE DEF w
    <3>3. CASE user = TRUE
      BY <1>1, <3>1, <3>2, <3>3, SupervisorMay
    <3>4. CASE user = FALSE
      BY <3>2, <3>4, Zenon
    <3>5. QED
      BY <3>1, <3>3, <3>4
  <2> HIDE DEF w
  <2>5. CASE i # Slot(v)
    <3>1. Refilled(v, odd, a)[i] = tlb[i]
      BY <2>3, <2>5, <1>1 DEF Filled, TypeOK
    <3>2. QED
      BY <3>1 DEF EntriesSound
  <2>6. CASE i = Slot(v) /\ e.vpage # v
    <3> DEFINE n == [vpage |-> v, pbase |-> w.frame, perms |-> {a},
                     user_accessible |-> user]
    <3>1. Refilled(v, odd, a)[i] = n
      BY <2>3, <2>6, <1>1 DEF Filled, TypeOK
    <3>2. user => Walk(mem, root, v, TRUE, a) = Mapped(w.frame)
      BY <2>2 DEF w, TypeOK, MmuTypeOK
    <3>3. SoundIn(mem, root, n)
      BY <2>4, <3>2 DEF SoundIn
    <3>4. QED
      BY <3>1, <3>3
  <2>7. CASE i = Slot(v) /\ e.vpage = v
    <3> DEFINE n == [e EXCEPT !.perms = @ \cup {a}]
    <3>1. e \in TLBEntry
      BY <1>1 DEF TypeOK
    <3>2. Refilled(v, odd, a)[i] = n
      BY <2>3, <2>7, <1>1 DEF Filled, TypeOK
    <3>3. /\ n.vpage = v /\ n.pbase = e.pbase /\ n.perms = e.perms \cup {a}
          /\ n.user_accessible = e.user_accessible
      BY <2>7, <3>1 DEF TLBEntry
    <3>4. SoundIn(mem, root, e)
      BY <2>7, <3>2, <3>3, <1>1 DEF EntriesSound
    <3>5. PICK b \in e.perms : Walk(mem, root, v, FALSE, b) = Mapped(e.pbase)
      BY <3>4, <2>7 DEF SoundIn
    <3>6. b \in Access
      BY <3>1 DEF TLBEntry
    <3>7. e.pbase = w.frame
      <4>1. mem \in Memory /\ root \in Root
        BY DEF TypeOK, MmuTypeOK
      <4>2. QED
        BY <1>1, <2>4, <3>5, <3>6, <4>1, OneFrame
    <3>8. e.user_accessible => Walk(mem, root, v, TRUE, a) = Mapped(e.pbase)
      <4>1. e.user_accessible => Walk(mem, root, v, TRUE, b) = Mapped(e.pbase)
        BY <3>4, <2>7 DEF SoundIn
      <4>2. Walk(mem, root, v, FALSE, a) = Mapped(e.pbase)
        BY <2>4, <3>7
      <4>3. mem \in Memory /\ root \in Root
        BY DEF TypeOK, MmuTypeOK
      <4>4. ASSUME Walk(mem, root, v, TRUE, b) = Mapped(e.pbase)
            PROVE  Walk(mem, root, v, TRUE, a) = Mapped(e.pbase)
        <5>1. PICK P, U, F : Decided(mem, root, v, P, U, F)
          BY <1>1, <4>3, WalkDecided
        <5>2. QED
          BY <3>6, <4>2, <4>4, <5>1, Zenon DEF Decided
      <4>5. QED
        BY <4>1, <4>4
    <3>9. SoundIn(mem, root, n)
      <4>1. \A c \in n.perms : /\ Walk(mem, root, v, FALSE, c) = Mapped(e.pbase)
                               /\ e.user_accessible =>
                                     Walk(mem, root, v, TRUE, c) = Mapped(e.pbase)
        BY <3>3, <3>4, <3>7, <3>8, <2>4, <2>7 DEF SoundIn
      <4>2. QED
        BY <4>1, <3>3 DEF SoundIn
    <3>10. QED
      BY <3>2, <3>9
  <2>8. QED
    BY <2>5, <2>6, <2>7
<1>4. QED
  BY <1>2, <1>3

\* A write to memory leaves an entry sound unless it changed its page.
LEMMA PokeSound ==
    ASSUME TypeOK, NEW m, Poke(m), root' = root, NEW e \in TLBEntry,
           e.vpage # NoPage, e.vpage \notin stale', SoundIn(mem, root, e)
    PROVE  SoundIn(mem', root', e)
<1>1. e.vpage \in Pages
  BY DEF TLBEntry
<1>2. e.vpage \notin Retranslated(m) /\ mem' = m
  BY DEF Poke
<1>3. \A u \in BOOLEAN, a \in Access :
          Walk(m, root, e.vpage, u, a) = Walk(mem, root, e.vpage, u, a)
  BY <1>1, <1>2 DEF Retranslated
<1>4. \A a \in e.perms : a \in Access
  BY DEF TLBEntry
<1>5. \A a \in Access :
          /\ Walk(m, root, e.vpage, TRUE, a) = Walk(mem, root, e.vpage, TRUE, a)
          /\ Walk(m, root, e.vpage, FALSE, a) = Walk(mem, root, e.vpage, FALSE, a)
  BY <1>3, Zenon
<1>6. \A a \in e.perms :
          /\ Walk(m, root, e.vpage, FALSE, a) = Mapped(e.pbase)
          /\ e.user_accessible => Walk(m, root, e.vpage, TRUE, a) = Mapped(e.pbase)
  BY <1>4, <1>5 DEF SoundIn
<1>7. QED
  BY <1>2, <1>6 DEF SoundIn

\* After a flush there is nothing to be wrong.
LEMMA EmptySound == tlb = Empty => EntriesSound /\ UserSeesUserEntries
  BY DEF Empty, NoEntry, EntriesSound, UserSeesUserEntries

\* Refilling keeps the user's entries the user's.
LEMMA RefilledUser ==
    ASSUME TypeOK, UserSeesUserEntries, user,
           NEW v \in Pages, NEW odd \in BOOLEAN, NEW a \in Access, NEW i \in Slots,
           Refilled(v, odd, a)[i].vpage # NoPage
    PROVE  Refilled(v, odd, a)[i].user_accessible
<1>1. v \in VPages /\ Slot(v) \in Slots /\ v # NoPage
  BY SizeFacts, MmuAssumption
<1>2. CASE Refilled(v, odd, a) = tlb
  BY <1>2 DEF UserSeesUserEntries
<1>3. ASSUME NEW f, Refilled(v, odd, a) = Filled(v, a, f)
      PROVE  Refilled(v, odd, a)[i].user_accessible
  <2>1. CASE i # Slot(v)
    BY <1>1, <1>3, <2>1 DEF Filled, TypeOK, UserSeesUserEntries
  <2>2. CASE i = Slot(v) /\ tlb[i].vpage = v
    <3>1. tlb[i].user_accessible
      BY <1>1, <2>2 DEF UserSeesUserEntries
    <3>2. Refilled(v, odd, a)[i] = [tlb[i] EXCEPT !.perms = @ \cup {a}]
      BY <1>1, <1>3, <2>2 DEF Filled, TypeOK
    <3>3. tlb[i] \in TLBEntry
      BY DEF TypeOK
    <3>4. [tlb[i] EXCEPT !.perms = @ \cup {a}].user_accessible = tlb[i].user_accessible
      BY <3>3 DEF TLBEntry
    <3>5. QED
      BY <3>1, <3>2, <3>4
  <2>3. CASE i = Slot(v) /\ tlb[i].vpage # v
    <3>1. Refilled(v, odd, a)[i] =
              [vpage |-> v, pbase |-> f, perms |-> {a}, user_accessible |-> user]
      BY <1>1, <1>3, <2>3 DEF Filled, TypeOK
    <3>2. QED
      BY <3>1
  <2>4. QED
    BY <2>1, <2>2, <2>3
<1>4. QED
  BY <1>2, <1>3 DEF Refilled

\* An access, with the memory it leaves behind.
LEMMA AccessSound ==
    ASSUME IInv, NEW v \in Pages, NEW odd \in BOOLEAN, NEW a \in Access,
           NEW r, NEW m, Finish(v, a, r), Poke(m), tlb' = Refilled(v, odd, a)
    PROVE  EntriesSound' /\ UserSeesUserEntries'
<1>1. TypeOK /\ EntriesSound /\ UserSeesUserEntries
  BY DEF IInv
<1>2. tlb' \in [Slots -> TLBEntry]
  BY <1>1, RefilledType
<1>3. root' = root /\ (user' => user)
  <2>1. CASE r.valid
    BY <2>1 DEF Finish
  <2>2. CASE ~r.valid
    BY <2>2 DEF Finish, EnterTrap
  <2>3. QED
    BY <2>1, <2>2
<1>4. stale \subseteq stale'
  BY DEF Poke
<1>5. ASSUME NEW i \in Slots, tlb'[i].vpage # NoPage, tlb'[i].vpage \notin stale'
      PROVE  SoundIn(mem', root', tlb'[i])
  <2> DEFINE e == Refilled(v, odd, a)[i]
  <2>1. e = tlb'[i] /\ e.vpage \notin stale /\ e \in TLBEntry
    BY <1>2, <1>4, <1>5
  <2>2. SoundIn(mem, root, e)
    BY <1>1, <1>5, <2>1, RefilledSound
  <2> HIDE DEF e
  <2>3. SoundIn(mem', root', e)
    BY <1>1, <1>3, <1>5, <2>1, <2>2, PokeSound
  <2>4. QED
    BY <2>1, <2>3
<1>6. ASSUME user', NEW i \in Slots, tlb'[i].vpage # NoPage
      PROVE  tlb'[i].user_accessible
  BY <1>1, <1>3, <1>6, RefilledUser
<1>7. QED
  BY <1>5, <1>6 DEF EntriesSound, UserSeesUserEntries

\* Every step keeps the entries sound and the user's entries the user's.
LEMMA NextSound == IInv /\ [Next]_vars => IInv'
<1> SUFFICES ASSUME IInv, [Next]_vars
             PROVE  EntriesSound' /\ UserSeesUserEntries'
  BY NextType DEF IInv
<1>0. TypeOK /\ EntriesSound /\ UserSeesUserEntries
  BY DEF IInv
<1>1. ASSUME NEW v \in Pages, NEW odd \in BOOLEAN, NEW a \in Access, Read(v, odd, a)
      PROVE  EntriesSound' /\ UserSeesUserEntries'
  <2>1. Retranslated(mem) = {}
    BY DEF Retranslated
  <2>2. Poke(mem)
    BY <1>1, <2>1 DEF Read, Poke
  <2>3. QED
    BY <1>1, <2>2, AccessSound DEF Read
<1>2. ASSUME NEW v \in Pages, NEW i \in Idx, NEW p \in PteChoices, Store(v, i, p)
      PROVE  EntriesSound' /\ UserSeesUserEntries'
  <2>1. "W" \in Access /\ FALSE \in BOOLEAN
    BY DEF Access
  <2>2. /\ Finish(v, "W", Outcome(v, FALSE, "W"))
        /\ \E m : Poke(m)
        /\ tlb' = Refilled(v, FALSE, "W")
    BY <1>2 DEF Store
  <2>3. QED
    BY <2>1, <2>2, AccessSound
<1>3. ASSUME NEW f \in Ram, NEW i \in Idx, NEW p \in PteChoices, TlbDmaWrite(f, i, p)
      PROVE  EntriesSound' /\ UserSeesUserEntries'
  <2>1. /\ Poke(Write(f, i, p)) /\ UNCHANGED <<root, user, tlb>>
        /\ stale \subseteq stale'
    BY <1>3 DEF TlbDmaWrite, DmaWrite, ctlvars, Poke
  <2>2. ASSUME NEW j \in Slots, tlb'[j].vpage # NoPage, tlb'[j].vpage \notin stale'
        PROVE  SoundIn(mem', root', tlb'[j])
    <3>1. tlb' = tlb /\ tlb[j] \in TLBEntry
      BY <1>0, <2>1 DEF TypeOK
    <3>2. SoundIn(mem, root, tlb[j])
      BY <1>0, <2>1, <2>2, <3>1 DEF EntriesSound
    <3>3. QED
      BY <1>0, <2>1, <2>2, <3>1, <3>2, PokeSound
  <2>3. UserSeesUserEntries'
    BY <1>0, <2>1 DEF UserSeesUserEntries
  <2>4. QED
    BY <2>2, <2>3 DEF EntriesSound
<1>4. CASE TlbTrap
  <2>1. UNCHANGED <<mem, root, stale, tlb>> /\ (user' => user)
    BY <1>4 DEF TlbTrap, Trap, EnterTrap
  <2>2. QED
    BY <1>0, <2>1 DEF EntriesSound, UserSeesUserEntries
<1>5. CASE tlb' = Empty
  BY <1>5, EmptySound DEF EntriesSound, UserSeesUserEntries, Empty, NoEntry
<1>6. ASSUME NEW c \in Control, TlbSsrSaved(c)
      PROVE  EntriesSound' /\ UserSeesUserEntries'
  BY <1>0, <1>6 DEF TlbSsrSaved, SsrSaved, EntriesSound, UserSeesUserEntries
<1>7. CASE UNCHANGED vars
  BY <1>0, <1>7 DEF vars, EntriesSound, UserSeesUserEntries
<1>8. QED
  BY <1>1, <1>2, <1>3, <1>4, <1>5, <1>6, <1>7
     DEF Next, Access, TlbSsrCpuControl, TlbSsrRoot, TlbIret, TlbReset, flushTLB

\* The inductive invariant holds in every reachable state.
LEMMA Inductive == Spec => []IInv
<1>1. Init => IInv
  BY InitType, EmptySound DEF Init, IInv
<1>2. QED
  BY <1>1, NextSound, PTL DEF Spec

\* No entry the TLB holds differs from a walk of the tables unless its page
\* was changed since the last flush.
THEOREM CacheSound == Spec => []EntriesSound
  BY Inductive, PTL DEF IInv

\* User mode never runs with a supervisor-filled entry in the TLB.
THEOREM UserEntries == Spec => []UserSeesUserEntries
  BY Inductive, PTL DEF IInv

-----------------------------------------------------------------------------
(* The answers of the TLB, and the refinement. *)

\* A sound TLB answers only what the walking CPU may answer.
LEMMA AnswerAllowed ==
    ASSUME IInv, NEW v \in Pages, NEW odd \in BOOLEAN, NEW a \in Access
    PROVE  Outcome(v, odd, a) \in Allowed(v, odd, a)
<1>0. TypeOK /\ EntriesSound /\ user \in BOOLEAN /\ paging \in BOOLEAN
  BY DEF IInv, TypeOK, MmuTypeOK
<1>1. v \in VPages /\ Slot(v) \in Slots /\ v # NoPage
  BY SizeFacts, MmuAssumption
<1>2. CASE ~FastPath(v, odd, a)
  BY <1>2 DEF Outcome, Allowed
<1>3. CASE FastPath(v, odd, a) /\ ~paging
  <2>1. Outcome(v, odd, a) = Mapped(v)
    BY <1>3 DEF Outcome, FastResult
  <2>2. Translate(mem, root, paging, v, odd, user, a) = Mapped(v)
    BY <1>3 DEF Translate, FastPath
  <2>3. QED
    BY <2>1, <2>2 DEF Allowed
<1>4. CASE FastPath(v, odd, a) /\ paging
  <2> DEFINE e == tlb[Slot(v)]
  <2>1. Outcome(v, odd, a) = Mapped(e.pbase)
    BY <1>4 DEF Outcome, FastResult
  <2>2. e.vpage = v /\ a \in e.perms /\ (~user \/ e.user_accessible)
    BY <1>4 DEF FastPath, Hit
  <2>3. e.pbase \in VPages
    BY <1>0, <1>1 DEF TypeOK, TLBEntry
  <2>4. CASE v \in stale
    BY <1>4, <2>1, <2>3, <2>4 DEF Allowed
  <2>5. CASE v \notin stale
    <3>1. SoundIn(mem, root, e)
      BY <1>0, <1>1, <2>2, <2>5 DEF EntriesSound
    <3>2. Walk(mem, root, v, FALSE, a) = Mapped(e.pbase)
      BY <2>2, <3>1 DEF SoundIn
    <3>3. e.user_accessible => Walk(mem, root, v, TRUE, a) = Mapped(e.pbase)
      BY <2>2, <3>1 DEF SoundIn
    <3> HIDE DEF e
    <3>4. CASE user = TRUE
      <4>1. Walk(mem, root, v, TRUE, a) = Mapped(e.pbase)
        BY <2>2, <3>3, <3>4
      <4>2. Walk(mem, root, v, user, a) = Mapped(e.pbase)
        BY <3>4, <4>1, Zenon
      <4>3. QED
        BY <1>4, <2>1, <4>2 DEF Allowed, Translate, FastPath
    <3>5. CASE user = FALSE
      <4>1. Walk(mem, root, v, user, a) = Mapped(e.pbase)
        BY <3>2, <3>5, Zenon
      <4>2. QED
        BY <1>4, <2>1, <4>1 DEF Allowed, Translate, FastPath
    <3>6. QED
      BY <1>0, <3>4, <3>5
  <2>6. QED
    BY <2>4, <2>5
<1>5. QED
  BY <1>2, <1>3, <1>4

\* Whatever _mapAddress is asked, it answers what a walk of the tables would,
\* or the page is stale.
THEOREM Invisible == Spec => []OutcomeAllowed
<1>1. IInv => OutcomeAllowed
  BY AnswerAllowed DEF OutcomeAllowed
<1>2. QED
  BY <1>1, Inductive, PTL

\* Each step of the CPU with the TLB is a step, or a stutter, of the one
\* without.
LEMMA StepSimulates == IInv /\ [Next]_vars => [MmuNext]_mmuvars
<1> SUFFICES ASSUME IInv, [Next]_vars
             PROVE  MmuNext \/ UNCHANGED mmuvars
  OBVIOUS
<1>1. ASSUME NEW v \in Pages, NEW odd \in BOOLEAN, NEW a \in Access, Read(v, odd, a)
      PROVE  MmuRead(v, odd, a)
  BY <1>1, AnswerAllowed DEF Read, MmuRead
<1>2. ASSUME NEW v \in Pages, NEW i \in Idx, NEW p \in PteChoices, Store(v, i, p)
      PROVE  MmuStore(v, i, p)
  <2>1. Outcome(v, FALSE, "W") \in Allowed(v, FALSE, "W")
    BY AnswerAllowed DEF Access
  <2>2. QED
    BY <1>2, <2>1 DEF Store, MmuStore
<1>3. QED
  BY <1>1, <1>2
     DEF Next, MmuNext, Access, TlbDmaWrite, TlbTrap, TlbSsrCpuControl,
         TlbSsrSaved, TlbSsrRoot, TlbIret, TlbReset, vars, mmuvars

\* The CPU with the software TLB implements the CPU that walks the page
\* tables on every access.
THEOREM Implements == Spec => Transparent
<1>1. Init => MmuInit
  BY DEF Init
<1>2. QED
  BY <1>1, Inductive, StepSimulates, PTL DEF Spec, MmuSpec, Transparent
=============================================================================
