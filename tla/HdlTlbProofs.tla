---------------------------- MODULE HdlTlbProofs ----------------------------
(***************************************************************************)
(* What the units the cores share preserve and compute, for every number   *)
(* of entries and generations: the edges of the hardware TLB, the special  *)
(* registers and the load-store unit, the walk of the page tables, the     *)
(* execute stage, and bytes and words in memory.  The proofs about the     *)
(* cores rest on these facts.                                              *)
(***************************************************************************)
EXTENDS V3Stages, HdlTlb, Lsu, TLAPS

\* the special registers are a file of words by selector
IsFile(sr) == DOMAIN sr = Selectors

\* no entry is of a generation still to come
GenerationsPast(t) ==
    /\ t.gen \in 0 .. GenMax
    /\ DOMAIN t.entry = 0 .. (TlbEntries - 1)
    /\ \A k \in 0 .. (TlbEntries - 1) : t.entry[k].gen \in 0 .. t.gen

\* A reset TLB has no live entry and none of a later generation.
LEMMA ResetPast == GenerationsPast(TlbReset) /\ Live(TlbReset) = {}
  BY HdlTlbAssumption DEF GenerationsPast, TlbReset, EmptyEntry, Live

\* A flush leaves no live entry: either every entry is of an older
\* generation, or the counter wrapped and every entry is invalid.
LEMMA FlushedDead ==
  ASSUME NEW t, GenerationsPast(t)
  PROVE  GenerationsPast(TlbFlushed(t)) /\ Live(TlbFlushed(t)) = {}
  <1>1. CASE t.gen = GenMax
    BY <1>1, ResetPast DEF TlbFlushed
  <1>2. CASE t.gen # GenMax
    <2> DEFINE u == [gen |-> t.gen + 1, entry |-> t.entry]
    <2>1. TlbFlushed(t) = u
      BY <1>2 DEF TlbFlushed
    <2>2. u.gen = t.gen + 1 /\ u.entry = t.entry
      OBVIOUS
    <2> HIDE DEF u
    <2>3. GenerationsPast(u)
      BY <1>2, <2>2, HdlTlbAssumption DEF GenerationsPast
    <2>4. ASSUME NEW k \in DOMAIN u.entry PROVE u.entry[k].gen # u.gen
      <3>1. t.entry[k].gen \in 0 .. t.gen /\ t.gen \in Int
        BY <2>2, HdlTlbAssumption DEF GenerationsPast
      <3> QED BY <2>2, <3>1
    <2>5. Live(u) = {}
      BY <2>4 DEF Live
    <2> QED BY <2>1, <2>3, <2>5
  <1> QED BY <1>1, <1>2

\* A fill writes an entry of the current generation.
LEMMA FilledPast ==
  ASSUME NEW t, GenerationsPast(t), NEW vpage, NEW ppage, NEW pte
  PROVE  GenerationsPast(TlbFilled(t, vpage, ppage, pte))
  <1> DEFINE e == [valid |-> TRUE, gen |-> t.gen, tag |-> vpage, page |-> ppage,
                   perm |-> pte.perm, user |-> pte.U]
             en == [t.entry EXCEPT ![vpage % TlbEntries] = e]
             u == TlbFilled(t, vpage, ppage, pte)
  <1>1. u.gen = t.gen /\ u.entry = en
    BY DEF TlbFilled
  <1>2. e.gen = t.gen
    OBVIOUS
  <1> HIDE DEF e, u
  <1>3. /\ DOMAIN en = 0 .. (TlbEntries - 1)
        /\ \A k \in 0 .. (TlbEntries - 1) : en[k].gen \in 0 .. t.gen
    BY <1>2 DEF GenerationsPast
  <1> HIDE DEF en
  <1>4. GenerationsPast(u)
    BY <1>1, <1>3 DEF GenerationsPast
  <1> QED BY <1>4 DEF u

\* One edge of the TLB keeps the generations in order, and one with the
\* flush input up leaves no live entry, whatever is filled with it.
LEMMA ClockPast ==
  ASSUME NEW t, GenerationsPast(t), NEW flush \in BOOLEAN, NEW fill
  PROVE  /\ GenerationsPast(TlbClock(t, flush, fill))
         /\ flush => Live(TlbClock(t, flush, fill)) = {}
  BY FlushedDead, FilledPast DEF TlbClock

-----------------------------------------------------------------------------
\* One edge of the special registers changes the control word or the root
\* only in a cycle in which it also flushes the TLB.
LEMMA SpecialClockFile ==
  ASSUME NEW sr, IsFile(sr), NEW control, NEW saved, NEW entered, NEW trap, NEW write, NEW lines
  PROVE  LET s == SpecialClock(sr, control, saved, entered, trap, write, lines) IN
         /\ IsFile(s)
         /\ \/ s[CPU_CONTROL] # sr[CPU_CONTROL]
            \/ s[PAGE_TABLE_ROOT] # sr[PAGE_TABLE_ROOT]
            => TlbFlush(control, write)
         /\ s[PAGE_TABLE_ROOT] # sr[PAGE_TABLE_ROOT] => write # <<>>
  <1> USE DEF IsFile, Selectors, CPU_CONTROL, PAGE_TABLE_ROOT
  <1> DEFINE s1 == IF control = <<>> THEN sr ELSE [sr EXCEPT ![CPU_CONTROL] = control[1]]
             s2 == IF saved = <<>> THEN s1 ELSE [s1 EXCEPT ![INTERRUPT_CPU_CONTROL] = saved[1]]
             s3 == IF entered = <<>> THEN s2
                   ELSE [s2 EXCEPT ![INTERRUPT_EPC] = entered[1], ![INTERRUPT_EFLAGS] = entered[2]]
             s4 == IF write = <<>>
                   THEN [s3 EXCEPT ![INTERRUPT_STATES_HIGH] = SetBits(@, lines)]
                   ELSE GuestWrite(s3, write[1], control # <<>>, lines)
  <1>1. /\ IsFile(s1)
        /\ control = <<>> => s1[CPU_CONTROL] = sr[CPU_CONTROL]
        /\ s1[PAGE_TABLE_ROOT] = sr[PAGE_TABLE_ROOT]
    OBVIOUS
  <1> HIDE DEF s1
  <1>2. /\ IsFile(s2)
        /\ s2[CPU_CONTROL] = s1[CPU_CONTROL] /\ s2[PAGE_TABLE_ROOT] = s1[PAGE_TABLE_ROOT]
    BY <1>1 DEF INTERRUPT_CPU_CONTROL
  <1> HIDE DEF s2
  <1>3. /\ IsFile(s3)
        /\ s3[CPU_CONTROL] = s2[CPU_CONTROL] /\ s3[PAGE_TABLE_ROOT] = s2[PAGE_TABLE_ROOT]
    BY <1>2 DEF INTERRUPT_EPC, INTERRUPT_EFLAGS
  <1> HIDE DEF s3
  <1>4. /\ IsFile(s4)
        /\ write = <<>> => /\ s4[CPU_CONTROL] = s3[CPU_CONTROL]
                           /\ s4[PAGE_TABLE_ROOT] = s3[PAGE_TABLE_ROOT]
        /\ write # <<>> => /\ write[1].sel # CPU_CONTROL => s4[CPU_CONTROL] = s3[CPU_CONTROL]
                           /\ write[1].sel # PAGE_TABLE_ROOT => s4[PAGE_TABLE_ROOT] = s3[PAGE_TABLE_ROOT]
    BY <1>3 DEF INTERRUPT_STATES_HIGH, GuestWrite
  <1> HIDE DEF s4
  <1> DEFINE s == IF trap = <<>> THEN s4 ELSE TrapWrite(s4, sr[TRAP_CAUSE], trap[1])
  <1>5. /\ IsFile(s)
        /\ s[CPU_CONTROL] = s4[CPU_CONTROL] /\ s[PAGE_TABLE_ROOT] = s4[PAGE_TABLE_ROOT]
    BY <1>4 DEF TrapWrite, TRAP_CAUSE, TRAP_FAULT_ADDR, TRAP_ACCESS, TRAP_PC, TRAP_AUX
  <1>6. SpecialClock(sr, control, saved, entered, trap, write, lines) = s
    BY DEF SpecialClock, s1, s2, s3, s4
  <1> HIDE DEF s
  <1> QED BY <1>1, <1>2, <1>3, <1>4, <1>5, <1>6 DEF TlbFlush

\* An interrupt number fits the four bits of the control word.
LEMMA PendingIrqRange ==
  ASSUME NEW sr, NEW lines
  PROVE  PendingIrq(sr, lines) \in 0 .. 15
  <1> DEFINE ready == {k \in 1 .. 4 : /\ Bit(sr[INTERRUPT_MASK_HIGH], k)
                                      /\ k \in lines \/ Bit(sr[INTERRUPT_STATES_HIGH], k)}
  <1>1. ready \in SUBSET (1 .. 4)
    OBVIOUS
  <1>2. PendingIrq(sr, lines) = IF ready = {} THEN 0 ELSE FIRST_HW_IRQ - 1 + Min(ready)
    BY DEF PendingIrq
  <1> HIDE DEF ready
  <1>3. ASSUME ready # {} PROVE Min(ready) \in 1 .. 4
    <2>1. \E x \in ready : \A y \in ready : x <= y
      <3>1. CASE 1 \in ready
        BY <3>1, <1>1
      <3>2. CASE 1 \notin ready /\ 2 \in ready
        BY <3>2, <1>1
      <3>3. CASE 1 \notin ready /\ 2 \notin ready /\ 3 \in ready
        BY <3>3, <1>1
      <3>4. CASE 1 \notin ready /\ 2 \notin ready /\ 3 \notin ready
        <4>1. \A y \in ready : y = 4
          BY <3>4, <1>1
        <4> QED BY <4>1, <1>3
      <3> QED BY <3>1, <3>2, <3>3, <3>4
    <2> QED BY <2>1, <1>1 DEF Min
  <1> QED BY <1>2, <1>3 DEF FIRST_HW_IRQ

\* The entry of an interrupt keeps the paging bit of the control word.
LEMMA PagingKept ==
  ASSUME NEW c, NEW vector \in 0 .. 15
  PROVE  PagingOn(EntryControl(c, vector)) = PagingOn(c)
  <1>1. 2^6 = 64
    OBVIOUS
  <1> QED BY <1>1 DEF PagingOn, EntryControl, Bit

\* One edge writes the control word only for the core or the guest.
LEMMA SpecialClockControl ==
  ASSUME NEW sr, IsFile(sr), NEW control, NEW saved, NEW entered, NEW trap, NEW lines
  PROVE  LET s == SpecialClock(sr, control, saved, entered, trap, <<>>, lines) IN
         s[CPU_CONTROL] = IF control = <<>> THEN sr[CPU_CONTROL] ELSE control[1]
  <1> USE DEF IsFile, Selectors, CPU_CONTROL
  <1> DEFINE s1 == IF control = <<>> THEN sr ELSE [sr EXCEPT ![CPU_CONTROL] = control[1]]
             s2 == IF saved = <<>> THEN s1 ELSE [s1 EXCEPT ![INTERRUPT_CPU_CONTROL] = saved[1]]
             s3 == IF entered = <<>> THEN s2
                   ELSE [s2 EXCEPT ![INTERRUPT_EPC] = entered[1], ![INTERRUPT_EFLAGS] = entered[2]]
             s4 == [s3 EXCEPT ![INTERRUPT_STATES_HIGH] = SetBits(@, lines)]
             s == IF trap = <<>> THEN s4 ELSE TrapWrite(s4, sr[TRAP_CAUSE], trap[1])
  <1>1. IsFile(s1) /\ s1[CPU_CONTROL] = IF control = <<>> THEN sr[CPU_CONTROL] ELSE control[1]
    OBVIOUS
  <1>6. SpecialClock(sr, control, saved, entered, trap, <<>>, lines) = s
    BY DEF SpecialClock
  <1> HIDE DEF s1
  <1>2. IsFile(s2) /\ s2[CPU_CONTROL] = s1[CPU_CONTROL]
    BY <1>1 DEF INTERRUPT_CPU_CONTROL
  <1> HIDE DEF s2
  <1>3. IsFile(s3) /\ s3[CPU_CONTROL] = s2[CPU_CONTROL]
    BY <1>2 DEF INTERRUPT_EPC, INTERRUPT_EFLAGS
  <1> HIDE DEF s3
  <1>4. IsFile(s4) /\ s4[CPU_CONTROL] = s3[CPU_CONTROL]
    BY <1>3 DEF INTERRUPT_STATES_HIGH
  <1> HIDE DEF s4
  <1>5. s[CPU_CONTROL] = s4[CPU_CONTROL]
    BY <1>4 DEF TrapWrite, TRAP_CAUSE, TRAP_FAULT_ADDR, TRAP_ACCESS, TRAP_PC, TRAP_AUX
  <1> HIDE DEF s
  <1> QED BY <1>1, <1>2, <1>3, <1>4, <1>5, <1>6

-----------------------------------------------------------------------------
\* What is left of a walk that has come to a table of some level
WalkRest(table, level, page, access, user) ==
    CASE level = 2 -> WalkFrom2(table, page, access, user)
      [] level = 1 -> WalkFrom1(table, page, access, user)
      [] level = 0 -> WalkFrom0(table, page, access, user)

\* An entry that is no leaf and no fault is not of the last level.
LEMMA TableLevel ==
  ASSUME NEW pte, NEW level, NEW a, NEW u, WalkFault(pte, level, a, u) = <<>>, ~WalkIsLeaf(pte)
  PROVE  level # 0
  BY DEF WalkFault

\* An entry that points to a table points there for every access: the walk
\* goes on one level down.
LEMMA DescendRest ==
  ASSUME NEW level \in 0 .. 2, NEW table, NEW page, NEW a, NEW u, NEW pte,
         pte = WalkEntry(table, level, page),
         WalkFault(pte, level, a, u) = <<>>, ~WalkIsLeaf(pte)
  PROVE  /\ level - 1 \in 0 .. 2
         /\ \A access, user : WalkRest(table, level, page, access, user)
                              = WalkRest(pte.ppn, level - 1, page, access, user)
  <1>1. pte.V /\ ~pte.rsv /\ level # 0
    BY DEF WalkFault
  <1>2. \A access, user : WalkFault(pte, level, access, user) = <<>>
    BY <1>1 DEF WalkFault
  <1>3. \A access, user : ~WalkStops(pte, level, access, user)
    BY <1>2 DEF WalkStops
  <1>4. CASE level = 2
    BY <1>3, <1>4 DEF WalkRest, WalkFrom2
  <1>5. CASE level = 1
    BY <1>3, <1>5 DEF WalkRest, WalkFrom1
  <1> QED BY <1>1, <1>4, <1>5

\* the end of a walk that maps a page
Mapped(page) == [page |-> page, fault |-> <<>>]

\* A leaf found for one access ends the walk for every access it permits.
LEMMA LeafRest ==
  ASSUME NEW level \in 0 .. 2, NEW table, NEW page, NEW a, NEW u, NEW pte,
         pte = WalkEntry(table, level, page),
         WalkFault(pte, level, a, u) = <<>>, WalkIsLeaf(pte),
         NEW access, NEW user, WalkAllowed(pte, access, user)
  PROVE  WalkRest(table, level, page, access, user) = Mapped(WalkPage(pte, level, page))
  <1>1. pte.V /\ ~pte.rsv
    BY DEF WalkFault
  <1>2. WalkFault(pte, level, access, user) = <<>>
    BY <1>1 DEF WalkFault, WalkAllowed
  <1>3. /\ WalkStops(pte, level, access, user)
        /\ WalkEnd(pte, level, page, access, user) = Mapped(WalkPage(pte, level, page))
    BY <1>2 DEF WalkStops, WalkEnd, Mapped
  <1>4. CASE level = 2
    BY <1>3, <1>4 DEF WalkRest, WalkFrom2
  <1>5. CASE level = 1
    BY <1>3, <1>5 DEF WalkRest, WalkFrom1
  <1>6. CASE level = 0
    BY <1>3, <1>6 DEF WalkRest, WalkFrom0
  <1> QED BY <1>4, <1>5, <1>6

\* Every live entry is the walk from a root.
Agrees(t, root) ==
    \A k \in DOMAIN t.entry :
        t.entry[k].valid /\ t.entry[k].gen = t.gen =>
            \A access, user :
                access \in t.entry[k].perm /\ (~user \/ t.entry[k].user) =>
                WalkFrom2(root, t.entry[k].tag, access, user) = Mapped(t.entry[k].page)

\* One edge keeps every live entry right when what it fills is the walk of
\* its page, and makes every root right when it flushes.
LEMMA ClockAgrees ==
  ASSUME NEW t, GenerationsPast(t), NEW flush \in BOOLEAN, NEW fill, NEW root, NEW new,
         Agrees(t, root), flush \/ new = root,
         fill # <<>> => \A access, user : WalkAllowed(fill[3], access, user) =>
                           WalkFrom2(root, fill[1], access, user) = Mapped(fill[2])
  PROVE  Agrees(TlbClock(t, flush, fill), new)
  <1>1. CASE flush
    BY <1>1, ClockPast DEF Agrees, Live
  <1>2. CASE ~flush /\ fill = <<>>
    BY <1>2 DEF TlbClock
  <1>3. CASE ~flush /\ fill # <<>>
    <2> DEFINE e == [valid |-> TRUE, gen |-> t.gen, tag |-> fill[1], page |-> fill[2],
                     perm |-> fill[3].perm, user |-> fill[3].U]
               en == [t.entry EXCEPT ![fill[1] % TlbEntries] = e]
               u == TlbClock(t, flush, fill)
    <2>1. u.gen = t.gen /\ u.entry = en
      BY <1>3 DEF TlbClock, TlbFilled
    <2>2. e.tag = fill[1] /\ e.page = fill[2] /\ e.perm = fill[3].perm /\ e.user = fill[3].U
      OBVIOUS
    <2> HIDE DEF e, u
    <2>3. DOMAIN en = DOMAIN t.entry /\ \A k \in DOMAIN en : en[k] = e \/ en[k] = t.entry[k]
      OBVIOUS
    <2> HIDE DEF en
    <2>4. ASSUME NEW k \in DOMAIN en, en[k].valid, en[k].gen = t.gen,
                 NEW access \in en[k].perm, NEW user, ~user \/ en[k].user
          PROVE  WalkFrom2(root, en[k].tag, access, user) = Mapped(en[k].page)
      <3>1. CASE en[k] = e
        BY <1>3, <2>2, <2>4, <3>1 DEF WalkAllowed
      <3>2. CASE en[k] = t.entry[k]
        BY <2>3, <2>4, <3>2 DEF Agrees
      <3> QED BY <2>3, <3>1, <3>2
    <2>5. Agrees(u, root)
      BY <2>1, <2>4 DEF Agrees
    <2> QED BY <1>3, <2>5 DEF u
  <1> QED BY <1>1, <1>2, <1>3

\* What a live entry answers is then the walk from that root.
LEMMA AgreesLive ==
  ASSUME NEW t, NEW root, Agrees(t, root)
  PROVE  LiveAgree(t, root)
  <1> SUFFICES ASSUME NEW k \in Live(t), NEW access \in t.entry[k].perm,
                      NEW user \in {FALSE, t.entry[k].user}
               PROVE  WalkFrom2(root, t.entry[k].tag, access, user)
                          = [page |-> t.entry[k].page, fault |-> <<>>]
    BY Zenon DEF LiveAgree
  <1>1. \A u : (~u \/ t.entry[k].user) =>
          WalkFrom2(root, t.entry[k].tag, access, u) = Mapped(t.entry[k].page)
    BY Zenon DEF Agrees, Live
  <1>2. CASE user = FALSE
    BY <1>1, <1>2, Zenon DEF Mapped
  <1>3. CASE user = t.entry[k].user
    <2>1. ~user \/ t.entry[k].user
      BY <1>3, Zenon
    <2> QED BY <1>1, <2>1, Zenon DEF Mapped
  <1> QED BY <1>2, <1>3

-----------------------------------------------------------------------------
\* The LSU after an edge: idle, still on the access it had, or on the one
\* just requested.
LEMMA LsuEdge ==
  ASSUME NEW l, NEW bus, NEW request, NEW m,
         DOMAIN l = {"st", "started", "req", "first", "wd"}
  PROVE  LET n == LsuClock(l, bus, request, m) IN
         /\ DOMAIN n = {"st", "started", "req", "first", "wd"}
         /\ LsuActive(n) => \/ LsuActive(l) /\ ~LsuDone(l, bus) /\ n.req = l.req
                            \/ LsuReady(l) /\ request # <<>> /\ n.req = request[1]
         /\ LsuDone(l, bus) => LsuActive(l)
         /\ LsuError(l, bus) => LsuDone(l, bus)
  <1> DEFINE n == LsuClock(l, bus, request, m)
             wd == IF LsuActive(l) /\ bus = "wait" /\ ~LsuWatchdog(l) THEN l.wd + 1 ELSE 0
  <1>1. /\ LsuDone(l, bus) => LsuActive(l) /\ l.started
        /\ LsuError(l, bus) => LsuDone(l, bus)
    BY DEF LsuDone, LsuError, BeatTaken
  <1>2. CASE LsuReady(l) /\ request = <<>>
    BY <1>1, <1>2 DEF LsuClock, LsuReady, LsuActive
  <1>3. CASE LsuReady(l) /\ request # <<>>
    <2>1. n = [LsuReset EXCEPT !.st = "FIRST", !.req = request[1]]
      BY <1>3 DEF LsuClock
    <2>2. n.req = request[1] /\ DOMAIN n = {"st", "started", "req", "first", "wd"}
      BY <2>1 DEF LsuReset
    <2> QED BY <1>1, <1>3, <2>2 DEF LsuReady, LsuActive
  <1>4. CASE ~LsuReady(l) /\ ~l.started
    <2>1. n = [l EXCEPT !.started = TRUE, !.wd = wd]
      BY <1>4 DEF LsuClock
    <2> HIDE DEF wd, n
    <2>2. n.req = l.req /\ DOMAIN n = {"st", "started", "req", "first", "wd"}
      BY <2>1
    <2> QED BY <1>1, <1>4, <2>2 DEF LsuReady, LsuActive, n
  <1>5. CASE ~LsuReady(l) /\ l.started /\ LsuDone(l, bus)
    BY <1>1, <1>5 DEF LsuClock, LsuReady, LsuActive, LsuReset
  <1>6. CASE ~LsuReady(l) /\ l.started /\ ~LsuDone(l, bus)
    <2>1. \/ n = [l EXCEPT !.st = "SECOND", !.started = FALSE, !.wd = wd,
                           !.first = BusWord(m, l.req.addr)]
          \/ n = [l EXCEPT !.wd = wd]
      BY <1>6 DEF LsuClock
    <2> HIDE DEF wd, n
    <2>2. n.req = l.req /\ DOMAIN n = {"st", "started", "req", "first", "wd"}
      BY <2>1
    <2> QED BY <1>1, <1>6, <2>2 DEF LsuReady, LsuActive, n
  <1> QED BY <1>2, <1>3, <1>4, <1>5, <1>6 DEF n

\* the stores whose instruction writes its pointer before them
MovesStack(i) == i.op = "PUSH" \/ (i.op = "POP" /\ i.pcrel)

\* The sums and differences of addresses and operands are words.
LEMMA PlusWord == \A a, b \in Int : Plus(a, b) \in Word /\ Minus(a, b) \in Word
  BY DEF Plus, Minus, Word

\* Bits set in a word leave a word.
LEMMA SetBitsWord ==
  ASSUME NEW w \in Word, NEW S
  PROVE  SetBits(w, S) \in Word
  <1> DEFINE b(i) == (w \div 2^i) % 2
             new(i) == IF i \in S /\ ~Bit(w, i) THEN 2^i ELSE 0
  <1>1. /\ 2^0 = 1 /\ 2^1 = 2 /\ 2^2 = 4 /\ 2^3 = 8 /\ 2^4 = 16 /\ 2^5 = 32 /\ 2^6 = 64 /\ 2^7 = 128
    OBVIOUS
  <1>2. w = b(0) + 2 * b(1) + 4 * b(2) + 8 * b(3) + 16 * b(4) + 32 * b(5) + 64 * b(6) + 128 * b(7)
    BY <1>1 DEF Word
  <1>3. \A i \in 0 .. 7 : b(i) \in {0, 1} /\ (Bit(w, i) <=> b(i) = 1)
    BY <1>1 DEF Word, Bit
  <1>4. /\ new(0) \in Nat /\ new(0) + b(0) <= 1
        /\ new(1) \in Nat /\ new(1) + 2 * b(1) <= 2
        /\ new(2) \in Nat /\ new(2) + 4 * b(2) <= 4
        /\ new(3) \in Nat /\ new(3) + 8 * b(3) <= 8
        /\ new(4) \in Nat /\ new(4) + 16 * b(4) <= 16
        /\ new(5) \in Nat /\ new(5) + 32 * b(5) <= 32
        /\ new(6) \in Nat /\ new(6) + 64 * b(6) <= 64
        /\ new(7) \in Nat /\ new(7) + 128 * b(7) <= 128
    BY <1>1, <1>3
  <1>5. SetBits(w, S) = w + new(0) + new(1) + new(2) + new(3) + new(4) + new(5) + new(6) + new(7)
    BY DEF SetBits
  <1>6. /\ b(0) \in Int /\ b(1) \in Int /\ b(2) \in Int /\ b(3) \in Int
        /\ b(4) \in Int /\ b(5) \in Int /\ b(6) \in Int /\ b(7) \in Int
    BY <1>1 DEF Word
  <1> HIDE DEF b, new
  <1>7. /\ w + new(0) + new(1) + new(2) + new(3) + new(4) + new(5) + new(6) + new(7) <= 255
        /\ w + new(0) + new(1) + new(2) + new(3) + new(4) + new(5) + new(6) + new(7) \in Nat
    BY <1>2, <1>4, <1>6 DEF Word
  <1> QED BY <1>5, <1>7 DEF Word

\* Every ALU function gives a word.
LEMMA AluWord ==
  ASSUME NEW fn \in AluFunctions, NEW a \in Word, NEW b \in Word, NEW imm \in 0 .. 8
  PROVE  Alu(fn, a, b, imm).value \in Word
  <1>0. 2^0 = 1 /\ 2^1 = 2 /\ 2^2 = 4 /\ 2^3 = 8 /\ 2^4 = 16 /\ 2^5 = 32 /\ 2^6 = 64 /\ 2^7 = 128 /\ 2^8 = 256
    OBVIOUS
  <1> DEFINE amount == IF b >= 8 THEN 8 ELSE b
  <1>1. amount \in 0 .. 8
    BY DEF Word
  <1>2. \A n \in 0 .. 8 : ShiftLeft(a, n).value \in Word
    BY <1>0 DEF ShiftLeft, Word
  <1>d. \A n \in 0 .. 8 : \A x \in Word : x \div 2^n \in 0 .. x
    <2> SUFFICES ASSUME NEW n \in 0 .. 8, NEW x \in Word PROVE x \div 2^n \in 0 .. x
      OBVIOUS
    <2>1. \A d \in {1, 2, 4, 8, 16, 32, 64, 128, 256} : x \div d \in 0 .. x
      BY DEF Word
    <2>2. 2^n \in {1, 2, 4, 8, 16, 32, 64, 128, 256}
      <3>0. n = 0 => 2^n = 1
        OBVIOUS
      <3>1. n = 1 => 2^n = 2
        OBVIOUS
      <3>2. n = 2 => 2^n = 4
        OBVIOUS
      <3>3. n = 3 => 2^n = 8
        OBVIOUS
      <3>4. n = 4 => 2^n = 16
        OBVIOUS
      <3>5. n = 5 => 2^n = 32
        OBVIOUS
      <3>6. n = 6 => 2^n = 64
        OBVIOUS
      <3>7. n = 7 => 2^n = 128
        OBVIOUS
      <3>8. n = 8 => 2^n = 256
        OBVIOUS
      <3> QED BY <3>0, <3>1, <3>2, <3>3, <3>4, <3>5, <3>6, <3>7, <3>8
    <2> QED BY <2>1, <2>2
  <1>3. \A n \in 0 .. 8 : ShiftRight(a, n).value \in Word
    <2> SUFFICES ASSUME NEW n \in 0 .. 8 PROVE ShiftRight(a, n).value \in Word
      OBVIOUS
    <2>1. a \div 2^n \in 0 .. a
      BY <1>d
    <2>2. ShiftRight(a, n).value = a \div 2^n
      BY DEF ShiftRight
    <2> QED BY <2>1, <2>2 DEF Word
  <1>4. \A n \in 0 .. 8 : ShiftArithmetic(a, n).value \in Word
    <2> SUFFICES ASSUME NEW n \in 0 .. 8 PROVE ShiftArithmetic(a, n).value \in Word
      OBVIOUS
    <2>1. ShiftArithmetic(a, n).value = IF a >= 128 THEN 255 - ((255 - a) \div 2^n) ELSE ShiftRight(a, n).value
      BY DEF ShiftArithmetic, ShiftRight
    <2>2. 255 - a \in Word
      BY DEF Word
    <2>3. (255 - a) \div 2^n \in 0 .. (255 - a)
      BY <1>d, <2>2
    <2> QED BY <1>3, <2>1, <2>2, <2>3 DEF Word
  <1>5. \A S : SetBits(0, S) \in Word
    BY SetBitsWord DEF Word
  <1>6. Plus(a, b) \in Word /\ Minus(a, b) \in Word
    <2>1. a \in Int /\ b \in Int
      BY DEF Word
    <2> QED BY <2>1, PlusWord
  <1> HIDE DEF amount
  <1>7. CASE fn \in {"ADD", "SUB", "TEST"}
    BY <1>6, <1>7 DEF Alu
  <1>8. CASE fn \in {"AND", "OR", "XOR"}
    BY <1>5, <1>8 DEF Alu
  <1>9. CASE fn \in {"SLL", "SRL", "SRA"}
    BY <1>1, <1>2, <1>3, <1>4, <1>9 DEF Alu, amount
  <1>10. CASE fn \in {"SLLI", "SRLI", "SRAI"}
    BY <1>2, <1>3, <1>4, <1>10 DEF Alu
  <1> QED BY <1>7, <1>8, <1>9, <1>10 DEF AluFunctions

\* Four bytes make a word.
LEMMA WordOfWord ==
  ASSUME NEW b, \A i \in 0 .. 3 : b[i] \in Byte
  PROVE  WordOf(b) \in Word
  BY DEF WordOf, Byte, Word

\* A load gives a word.
LEMMA LoadWord ==
  ASSUME NEW m, NEW D, m \in [D -> Byte], NEW a, NEW width
  PROVE  LoadBytes(m, a, width) \in Word
  <1>1. \A x : ByteAt(m, x) \in Byte
    BY DEF ByteAt, Byte
  <1> DEFINE b == [i \in 0 .. 3 |-> IF i < width THEN ByteAt(m, a + i) ELSE 0]
  <1>2. \A i \in 0 .. 3 : b[i] \in Byte
    BY <1>1 DEF Byte
  <1> HIDE DEF b
  <1>3. WordOf(b) \in Word
    BY <1>2, WordOfWord
  <1> QED BY <1>3 DEF LoadBytes, b

\* A store leaves bytes in memory, and no new addresses.
LEMMA StoreBytesType ==
  ASSUME NEW m, NEW D, m \in [D -> Byte], NEW a, NEW lanes, lanes \subseteq 0 .. 3, NEW value, value \in Word
  PROVE  StoreBytes(m, a, lanes, value) \in [D -> Byte]
  <1>1. 4^0 = 1 /\ 4^1 = 4 /\ 4^2 = 16 /\ 4^3 = 64
    OBVIOUS
  <1>2. \A i \in 0 .. 3 : ByteOf(value, i) \in Byte
    BY <1>1 DEF ByteOf, Byte, Word
  <1> QED BY <1>2 DEF StoreBytes, Byte

\* the special registers after an edge that only latches lines
Latched(s, lines) == [s EXCEPT ![INTERRUPT_STATES_HIGH] = SetBits(@, lines)]

\* A translation depends on the control word and the root only.
LEMMA TranslateSame ==
  ASSUME NEW s, NEW t, s[CPU_CONTROL] = t[CPU_CONTROL], s[PAGE_TABLE_ROOT] = t[PAGE_TABLE_ROOT],
         NEW va, NEW access
  PROVE  Translate(va, access, s) = Translate(va, access, t) /\ EntryFault(va, s) = EntryFault(va, t)
  BY DEF Translate, EntryFault

\* page table entries
Pte == [V : BOOLEAN, perm : SUBSET {"R", "W", "X"}, U : BOOLEAN, rsv : BOOLEAN, ppn : 0 .. 15]

\* Every word of memory reads as a page table entry.
LEMMA PteType == \A e : PteAt(e) \in Pte
  BY L64Assumption DEF PteAt, ZeroPte, Pte

\* A leaf gives a page of the physical address space,
LEMMA WalkPageType ==
  ASSUME NEW pte \in Pte, NEW level \in 0 .. 2, NEW page \in Int
  PROVE  WalkPage(pte, level, page) \in 0 .. 15
  <1>1. pte.ppn \in Int
    BY DEF Pte
  <1>2. 2^0 = 1 /\ 2^1 = 2 /\ 2^2 = 4
    OBVIOUS
  <1>3. page % 1 \in Int /\ page % 2 \in Int /\ page % 4 \in Int
    OBVIOUS
  <1>4. page % 2^level \in Int
    <2>1. level = 0 => page % 2^level \in Int
      BY <1>2, <1>3
    <2>2. level = 1 => page % 2^level \in Int
      BY <1>2, <1>3
    <2>3. level = 2 => page % 2^level \in Int
      BY <1>2, <1>3
    <2> QED BY <2>1, <2>2, <2>3
  <1>5. 256 \div PageBytes = 16
    BY DEF PageBytes
  <1> DEFINE x == pte.ppn + (page % 2^level)
  <1>6. x \in Int
    BY <1>1, <1>4
  <1> HIDE DEF x
  <1>7. x % 16 \in 0 .. 15
    BY <1>6
  <1> QED BY <1>5, <1>7 DEF WalkPage, x

\* and so does a whole walk;
LEMMA WalkType ==
  ASSUME NEW table, NEW page \in Int, NEW access, NEW user
  PROVE  WalkFrom2(table, page, access, user).page \in 0 .. 15
  <1>1. \A t, l : WalkEntry(t, l, page) \in Pte
    BY PteType DEF WalkEntry
  <1>2. \A pte \in Pte, l \in 0 .. 2 : WalkEnd(pte, l, page, access, user).page \in 0 .. 15
    BY WalkPageType DEF WalkEnd
  <1>3. \A t : WalkFrom0(t, page, access, user).page \in 0 .. 15
    BY <1>1, <1>2 DEF WalkFrom0
  <1>4. \A t : WalkFrom1(t, page, access, user).page \in 0 .. 15
    BY <1>1, <1>2, <1>3 DEF WalkFrom1
  <1> QED BY <1>1, <1>2, <1>4 DEF WalkFrom2

\* a translation gives a physical address.
LEMMA TranslateType ==
  ASSUME NEW va \in Word, NEW access, NEW s
  PROVE  Translate(va, access, s).phys \in Word
  <1>1. PageOf(va) \in Int /\ OffsetOf(va) \in 0 .. 15
    BY DEF PageOf, OffsetOf, PageBytes, Word
  <1> DEFINE r == WalkFrom2(PageOf(s[PAGE_TABLE_ROOT]), PageOf(va), access, UserMode(s[CPU_CONTROL]))
  <1>2. r.page \in 0 .. 15
    BY <1>1, WalkType
  <1> HIDE DEF r
  <1>3. r.page * PageBytes + OffsetOf(va) \in Word
    BY <1>1, <1>2 DEF PageBytes, Word
  <1>4. \/ Translate(va, access, s).phys = 0 \/ Translate(va, access, s).phys = va
        \/ Translate(va, access, s).phys = r.page * PageBytes + OffsetOf(va)
    BY DEF Translate, r
  <1>5. 0 \in Word
    BY DEF Word
  <1> QED BY <1>3, <1>4, <1>5

\* Words are integers.
LEMMA WordInt == \A w \in Word : w \in Int
  BY DEF Word

\* what the execute stage can ask of memory
IsOperation(op, i, res) ==
    /\ DOMAIN op = {"addr", "width", "write", "value", "dest", "post", "chain", "flags", "reserve"}
    /\ op.addr \in Word /\ op.width \in 0 .. WordBytes /\ op.write \in BOOLEAN /\ op.value \in Word
    /\ op.reserve \in BOOLEAN
    /\ op.post # <<>> => /\ op.post = <<op.post[1]>> /\ op.post[1].value \in Word
                         /\ op.post[1].index = i.rd
    /\ op.dest # <<>> => op.dest = <<op.dest[1]>>
    /\ op.write => /\ op.dest = <<>> /\ op.chain = <<>> /\ ~op.reserve
                   /\ op.post # <<>> => MovesStack(i) /\ ~op.post[1].alias
    /\ ~op.write => op.flags = <<>> /\ i.op # "STORE"
    /\ op.flags # <<>> => op.post = <<>> /\ res = <<op.addr>> /\ op.width = WordBytes
    /\ op.chain # <<>> =>
          /\ op.chain = <<op.chain[1]>> /\ op.chain[1] \in Word /\ op.dest = <<>> /\ ~op.reserve
          /\ op.post # <<>> /\ MovesStack(i) /\ ~op.post[1].alias
          /\ op.width = WordBytes
    /\ i.op = "STORE" => op.post = <<>> /\ op.flags = <<>>

\* the outputs of an instruction that asks for an operation
Asks(o, i, res) ==
    o.trap = 0 /\ o.next_pc \in Word /\ \E op : o.memory = <<op>> /\ IsOperation(op, i, res)

\* the instructions of the load, store and jump formats
LsOps == {"LOAD", "STORE", "PUSH", "POP", "MOVE", "JUMP"}

\* A register-relative memory instruction asks for one operation;
LEMMA LsMemory ==
  ASSUME NEW D, NEW i, IsInstruction(i, D), i.op \in LsOps,
         NEW a \in Word, NEW b \in Word, NEW f, NEW next \in Word, NEW res,
         NEW o, o = ExecuteLs(i, a, b, f, NopOutputs(next)), o.memory # <<>>
  PROVE  Asks(o, i, res)
  <1> DEFINE rd  == IF i.rd = 15 THEN next ELSE a
             rs1 == IF i.rs1 = 15 THEN next ELSE b
             addr == Plus(rs1, i.imm)
             sp == Minus(rd, WordBytes)
             up == Plus(rd, WordBytes)
  <1>1. rd \in Word /\ rs1 \in Word
    OBVIOUS
  <1>i. i.imm \in Word
    BY DEF IsInstruction
  <1> HIDE DEF rd, rs1
  <1>2. WordBytes \in Int /\ i.imm \in Int /\ rd \in Int /\ rs1 \in Int
    BY <1>1, <1>i, WordInt DEF WordBytes
  <1>3. addr \in Word /\ sp \in Word /\ up \in Word
    BY <1>2, PlusWord
  <1>4. NopOutputs(next).next_pc = next
    BY DEF NopOutputs
  <1>w. i.width \in 0 .. WordBytes /\ WordBytes \in 0 .. WordBytes /\ 0 \in Word
    BY DEF IsInstruction, WordBytes, Word
  <1> HIDE DEF addr, sp, up
  <1>5. CASE i.op = "LOAD"
    <2> DEFINE op == [MemoryOp(addr, i.width, FALSE, 0) EXCEPT !.dest = <<i.rd>>]
    <2>0. /\ DOMAIN op = {"addr", "width", "write", "value", "dest", "post", "chain", "flags", "reserve"}
          /\ op.addr = addr /\ op.width = i.width /\ op.write = FALSE /\ op.value = 0 /\ op.dest = <<i.rd>>
          /\ op.post = <<>> /\ op.chain = <<>> /\ op.flags = <<>> /\ op.reserve = FALSE
      BY DEF MemoryOp
    <2> HIDE DEF op
    <2>1. o = [NopOutputs(next) EXCEPT !.memory = <<op>>]
      BY <1>4, <1>5 DEF ExecuteLs, addr, rs1, op
    <2>2. o.memory = <<op>> /\ o.trap = 0 /\ o.next_pc = next
      BY <2>1 DEF NopOutputs
    <2>3. /\ op.addr \in Word /\ op.width \in 0 .. WordBytes /\ op.value \in Word
          /\ op.write \in BOOLEAN /\ op.reserve \in BOOLEAN
      BY <2>0, <1>1, <1>3, <1>w
    <2>4. /\ ~op.write /\ op.flags = <<>> /\ op.post = <<>> /\ op.chain = <<>>
          /\ op.dest = <<op.dest[1]>>
      BY <2>0, <1>3, <1>5
    <2>5. DOMAIN op = {"addr", "width", "write", "value", "dest", "post", "chain", "flags", "reserve"}
      BY <2>0
    <2>6. i.op # "STORE"
      BY <1>5
    <2>7. IsOperation(op, i, res)
      BY <2>3, <2>4, <2>5, <2>6 DEF IsOperation
    <2> QED BY <2>2, <2>7 DEF Asks
  <1>6. CASE i.op = "STORE"
    <2> DEFINE op == [addr |-> addr, width |-> i.width, write |-> TRUE, value |-> rd,
                      dest |-> <<>>, post |-> <<>>, chain |-> <<>>, flags |-> <<>>, reserve |-> FALSE]
    <2>1. o = [NopOutputs(next) EXCEPT !.memory = <<op>>]
      BY <1>4, <1>6 DEF ExecuteLs, MemoryOp, addr, rs1, rd
    <2>2. o.memory = <<op>> /\ o.trap = 0 /\ o.next_pc = next
      BY <2>1 DEF NopOutputs
    <2>3. IsOperation(op, i, res)
      BY <1>1, <1>3, <1>w, <1>6 DEF IsOperation
    <2> QED BY <2>2, <2>3 DEF Asks
  <1>7. CASE i.op = "PUSH"
    <2> DEFINE post == [index |-> i.rd, value |-> sp, alias |-> FALSE]
               op == [MemoryOp(sp, WordBytes, TRUE, rs1) EXCEPT !.post = <<post>>]
    <2>0. /\ DOMAIN op = {"addr", "width", "write", "value", "dest", "post", "chain", "flags", "reserve"}
          /\ op.addr = sp /\ op.width = WordBytes /\ op.write = TRUE /\ op.value = rs1 /\ op.dest = <<>>
          /\ op.post = <<post>> /\ op.chain = <<>> /\ op.flags = <<>> /\ op.reserve = FALSE
      BY DEF MemoryOp
    <2> HIDE DEF op
    <2>1. o = [NopOutputs(next) EXCEPT !.memory = <<op>>]
      BY <1>4, <1>7 DEF ExecuteLs, sp, rs1, rd, op
    <2>2. o.memory = <<op>> /\ o.trap = 0 /\ o.next_pc = next
      BY <2>1 DEF NopOutputs
    <2>3. /\ op.addr \in Word /\ op.width \in 0 .. WordBytes /\ op.value \in Word
          /\ op.write \in BOOLEAN /\ op.reserve \in BOOLEAN
      BY <2>0, <1>1, <1>3, <1>w
    <2>4. /\ op.write /\ op.flags = <<>> /\ op.dest = <<>> /\ op.chain = <<>> /\ ~op.reserve
          /\ op.post = <<op.post[1]>> /\ op.post[1].value \in Word /\ op.post[1].index = i.rd
          /\ ~op.post[1].alias /\ MovesStack(i)
      BY <2>0, <1>3, <1>7 DEF MovesStack
    <2>5. DOMAIN op = {"addr", "width", "write", "value", "dest", "post", "chain", "flags", "reserve"}
      BY <2>0
    <2>6. i.op # "STORE"
      BY <1>7
    <2>7. IsOperation(op, i, res)
      BY <2>3, <2>4, <2>5, <2>6 DEF IsOperation
    <2> QED BY <2>2, <2>7 DEF Asks
  <1>8. CASE i.op = "POP"
    <2> DEFINE post == [index |-> i.rd, value |-> up, alias |-> i.rd = i.rs1]
               op == [MemoryOp(rd, WordBytes, FALSE, 0) EXCEPT !.dest = <<i.rs1>>, !.post = <<post>>]
    <2>0. /\ DOMAIN op = {"addr", "width", "write", "value", "dest", "post", "chain", "flags", "reserve"}
          /\ op.addr = rd /\ op.width = WordBytes /\ op.write = FALSE /\ op.value = 0 /\ op.dest = <<i.rs1>>
          /\ op.post = <<post>> /\ op.chain = <<>> /\ op.flags = <<>> /\ op.reserve = FALSE
      BY DEF MemoryOp
    <2> HIDE DEF op
    <2>1. o = [NopOutputs(next) EXCEPT !.memory = <<op>>]
      BY <1>4, <1>8 DEF ExecuteLs, up, rd, op
    <2>2. o.memory = <<op>> /\ o.trap = 0 /\ o.next_pc = next
      BY <2>1 DEF NopOutputs
    <2>3. /\ op.addr \in Word /\ op.width \in 0 .. WordBytes /\ op.value \in Word
          /\ op.write \in BOOLEAN /\ op.reserve \in BOOLEAN
      BY <2>0, <1>1, <1>3, <1>w
    <2>4. /\ ~op.write /\ op.flags = <<>> /\ op.chain = <<>> /\ op.dest = <<op.dest[1]>>
          /\ op.post = <<op.post[1]>> /\ op.post[1].value \in Word /\ op.post[1].index = i.rd
      BY <2>0, <1>3, <1>8
    <2>5. DOMAIN op = {"addr", "width", "write", "value", "dest", "post", "chain", "flags", "reserve"}
      BY <2>0
    <2>6. i.op # "STORE"
      BY <1>8
    <2>7. IsOperation(op, i, res)
      BY <2>3, <2>4, <2>5, <2>6 DEF IsOperation
    <2> QED BY <2>2, <2>7 DEF Asks
  <1>9. CASE i.op \in {"MOVE", "JUMP"}
    <2>1. o.memory = <<>>
      BY <1>9 DEF ExecuteLs, NopOutputs
    <2> QED BY <2>1
  <1> QED BY <1>5, <1>6, <1>7, <1>8, <1>9 DEF LsOps

\* so does a PC-relative one,
LEMMA LsPcMemory ==
  ASSUME NEW D, NEW i, IsInstruction(i, D), i.op \in LsOps,
         i.op \in {"PUSH", "POP"} => MovesStack(i), NEW a \in Word, NEW f, NEW next \in Word, NEW res,
         NEW o, o = ExecuteLsPc(i, a, f, NopOutputs(next)), o.memory # <<>>
  PROVE  Asks(o, i, res)
  <1> DEFINE target == Plus(next, i.imm)
             sp == Minus(a, WordBytes)
             up == Plus(a, WordBytes)
  <1>i. i.imm \in Word
    BY DEF IsInstruction
  <1>2. WordBytes \in Int /\ i.imm \in Int /\ a \in Int /\ next \in Int
    BY <1>i, WordInt DEF WordBytes
  <1>3. target \in Word /\ sp \in Word /\ up \in Word
    BY <1>2, PlusWord
  <1>4. NopOutputs(next).next_pc = next
    BY DEF NopOutputs
  <1>w. i.width \in 0 .. WordBytes /\ WordBytes \in 0 .. WordBytes /\ 0 \in Word
    BY DEF IsInstruction, WordBytes, Word
  <1> HIDE DEF target, sp, up
  <1>5. CASE i.op = "LOAD"
    <2> DEFINE op == [MemoryOp(target, i.width, FALSE, 0) EXCEPT !.dest = <<i.rd>>]
    <2>0. /\ DOMAIN op = {"addr", "width", "write", "value", "dest", "post", "chain", "flags", "reserve"}
          /\ op.addr = target /\ op.width = i.width /\ op.write = FALSE /\ op.value = 0 /\ op.dest = <<i.rd>>
          /\ op.post = <<>> /\ op.chain = <<>> /\ op.flags = <<>> /\ op.reserve = FALSE
      BY DEF MemoryOp
    <2> HIDE DEF op
    <2>1. o = [NopOutputs(next) EXCEPT !.memory = <<op>>]
      BY <1>4, <1>5 DEF ExecuteLsPc, target, op
    <2>2. o.memory = <<op>> /\ o.trap = 0 /\ o.next_pc = next
      BY <2>1 DEF NopOutputs
    <2>3. /\ op.addr \in Word /\ op.width \in 0 .. WordBytes /\ op.value \in Word
          /\ op.write \in BOOLEAN /\ op.reserve \in BOOLEAN
      BY <2>0, <1>3, <1>w
    <2>4. /\ ~op.write /\ op.flags = <<>> /\ op.post = <<>> /\ op.chain = <<>>
          /\ op.dest = <<op.dest[1]>>
      BY <2>0, <1>3, <1>5
    <2>5. DOMAIN op = {"addr", "width", "write", "value", "dest", "post", "chain", "flags", "reserve"}
      BY <2>0
    <2>6. i.op # "STORE"
      BY <1>5
    <2>7. IsOperation(op, i, res)
      BY <2>3, <2>4, <2>5, <2>6 DEF IsOperation
    <2> QED BY <2>2, <2>7 DEF Asks
  <1>6. CASE i.op = "STORE"
    <2> DEFINE op == [addr |-> target, width |-> i.width, write |-> TRUE, value |-> a,
                      dest |-> <<>>, post |-> <<>>, chain |-> <<>>, flags |-> <<>>, reserve |-> FALSE]
    <2>1. o = [NopOutputs(next) EXCEPT !.memory = <<op>>]
      BY <1>4, <1>6 DEF ExecuteLsPc, MemoryOp, target
    <2>2. o.memory = <<op>> /\ o.trap = 0 /\ o.next_pc = next
      BY <2>1 DEF NopOutputs
    <2>3. IsOperation(op, i, res)
      BY <1>3, <1>w, <1>6 DEF IsOperation
    <2> QED BY <2>2, <2>3 DEF Asks
  <1>7. CASE i.op = "PUSH"
    <2> DEFINE post == [index |-> i.rd, value |-> sp, alias |-> FALSE]
               op == [MemoryOp(target, WordBytes, FALSE, 0) EXCEPT !.post = <<post>>, !.chain = <<sp>>]
    <2>0. /\ DOMAIN op = {"addr", "width", "write", "value", "dest", "post", "chain", "flags", "reserve"}
          /\ op.addr = target /\ op.width = WordBytes /\ op.write = FALSE /\ op.value = 0 /\ op.dest = <<>>
          /\ op.post = <<post>> /\ op.chain = <<sp>> /\ op.flags = <<>> /\ op.reserve = FALSE
      BY DEF MemoryOp
    <2> HIDE DEF op
    <2>1. o = [NopOutputs(next) EXCEPT !.memory = <<op>>]
      BY <1>4, <1>7 DEF ExecuteLsPc, target, sp, op
    <2>2. o.memory = <<op>> /\ o.trap = 0 /\ o.next_pc = next
      BY <2>1 DEF NopOutputs
    <2>3. /\ op.addr \in Word /\ op.width \in 0 .. WordBytes /\ op.value \in Word
          /\ op.write \in BOOLEAN /\ op.reserve \in BOOLEAN
      BY <2>0, <1>3, <1>w
    <2>4. /\ ~op.write /\ op.flags = <<>> /\ op.dest = <<>> /\ ~op.reserve /\ op.width = WordBytes
          /\ op.post = <<op.post[1]>> /\ op.post # <<>> /\ op.post[1].value \in Word /\ op.post[1].index = i.rd
          /\ op.chain = <<op.chain[1]>> /\ op.chain[1] \in Word
          /\ ~op.post[1].alias /\ MovesStack(i)
      BY <2>0, <1>3, <1>7
    <2>5. DOMAIN op = {"addr", "width", "write", "value", "dest", "post", "chain", "flags", "reserve"}
      BY <2>0
    <2>6. i.op # "STORE"
      BY <1>7
    <2>7. IsOperation(op, i, res)
      BY <2>3, <2>4, <2>5, <2>6 DEF IsOperation
    <2> QED BY <2>2, <2>7 DEF Asks
  <1>8. CASE i.op = "POP"
    <2> DEFINE post == [index |-> i.rd, value |-> up, alias |-> FALSE]
               op == [MemoryOp(a, WordBytes, FALSE, 0) EXCEPT !.post = <<post>>, !.chain = <<target>>]
    <2>0. /\ DOMAIN op = {"addr", "width", "write", "value", "dest", "post", "chain", "flags", "reserve"}
          /\ op.addr = a /\ op.width = WordBytes /\ op.write = FALSE /\ op.value = 0 /\ op.dest = <<>>
          /\ op.post = <<post>> /\ op.chain = <<target>> /\ op.flags = <<>> /\ op.reserve = FALSE
      BY DEF MemoryOp
    <2> HIDE DEF op
    <2>1. o = [NopOutputs(next) EXCEPT !.memory = <<op>>]
      BY <1>4, <1>8 DEF ExecuteLsPc, target, up, op
    <2>2. o.memory = <<op>> /\ o.trap = 0 /\ o.next_pc = next
      BY <2>1 DEF NopOutputs
    <2>3. /\ op.addr \in Word /\ op.width \in 0 .. WordBytes /\ op.value \in Word
          /\ op.write \in BOOLEAN /\ op.reserve \in BOOLEAN
      BY <2>0, <1>3, <1>w
    <2>4. /\ ~op.write /\ op.flags = <<>> /\ op.dest = <<>> /\ ~op.reserve /\ op.width = WordBytes
          /\ op.post = <<op.post[1]>> /\ op.post # <<>> /\ op.post[1].value \in Word /\ op.post[1].index = i.rd
          /\ op.chain = <<op.chain[1]>> /\ op.chain[1] \in Word
          /\ ~op.post[1].alias /\ MovesStack(i)
      BY <2>0, <1>3, <1>8
    <2>5. DOMAIN op = {"addr", "width", "write", "value", "dest", "post", "chain", "flags", "reserve"}
      BY <2>0
    <2>6. i.op # "STORE"
      BY <1>8
    <2>7. IsOperation(op, i, res)
      BY <2>3, <2>4, <2>5, <2>6 DEF IsOperation
    <2> QED BY <2>2, <2>7 DEF Asks
  <1>9. CASE i.op \in {"MOVE", "JUMP"}
    <2>1. o.memory = <<>>
      BY <1>9 DEF ExecuteLsPc, NopOutputs
    <2> QED BY <2>1
  <1> QED BY <1>5, <1>6, <1>7, <1>8, <1>9 DEF LsOps

\* and a load-reserve or a store-conditional.
LEMMA AtomicMemory ==
  ASSUME NEW D, NEW i, IsInstruction(i, D), i.op \in {"LLR", "SCR"},
         NEW a \in Word, NEW b \in Word, NEW f, NEW next \in Word, NEW res,
         NEW o, o = ExecuteAtomic(i, a, b, f, res, NopOutputs(next)), o.memory # <<>>
  PROVE  Asks(o, i, res)
  <1>w. WordBytes \in 0 .. WordBytes /\ 0 \in Word
    BY DEF WordBytes, Word
  <1>1. CASE i.op = "LLR"
    <2> DEFINE op == [MemoryOp(b, WordBytes, FALSE, 0) EXCEPT !.dest = <<i.rd>>, !.reserve = TRUE]
    <2>0. /\ DOMAIN op = {"addr", "width", "write", "value", "dest", "post", "chain", "flags", "reserve"}
          /\ op.addr = b /\ op.width = WordBytes /\ op.write = FALSE /\ op.value = 0 /\ op.dest = <<i.rd>>
          /\ op.post = <<>> /\ op.chain = <<>> /\ op.flags = <<>> /\ op.reserve = TRUE
      BY DEF MemoryOp
    <2> HIDE DEF op
    <2>1. o = [NopOutputs(next) EXCEPT !.memory = <<op>>]
      BY <1>1 DEF ExecuteAtomic, op
    <2>2. o.memory = <<op>> /\ o.trap = 0 /\ o.next_pc = next
      BY <2>1 DEF NopOutputs
    <2>3. /\ op.addr \in Word /\ op.width \in 0 .. WordBytes /\ op.value \in Word
          /\ op.write \in BOOLEAN /\ op.reserve \in BOOLEAN
      BY <2>0, <1>w
    <2>4. /\ ~op.write /\ op.flags = <<>> /\ op.post = <<>> /\ op.chain = <<>>
          /\ op.dest = <<op.dest[1]>>
      BY <2>0
    <2>5. DOMAIN op = {"addr", "width", "write", "value", "dest", "post", "chain", "flags", "reserve"}
      BY <2>0
    <2>6. i.op # "STORE"
      BY <1>1
    <2>7. IsOperation(op, i, res)
      BY <2>3, <2>4, <2>5, <2>6 DEF IsOperation
    <2> QED BY <2>2, <2>7 DEF Asks
  <1>2. CASE i.op = "SCR" /\ res = <<b>>
    <2> DEFINE op == [MemoryOp(b, WordBytes, TRUE, a) EXCEPT !.flags = <<<<TRUE, f[2], f[3]>>>>]
    <2>0. /\ DOMAIN op = {"addr", "width", "write", "value", "dest", "post", "chain", "flags", "reserve"}
          /\ op.addr = b /\ op.width = WordBytes /\ op.write = TRUE /\ op.value = a /\ op.dest = <<>>
          /\ op.post = <<>> /\ op.chain = <<>> /\ op.reserve = FALSE
      BY DEF MemoryOp
    <2> HIDE DEF op
    <2>1. o = [NopOutputs(next) EXCEPT !.memory = <<op>>]
      BY <1>2 DEF ExecuteAtomic, op
    <2>2. o.memory = <<op>> /\ o.trap = 0 /\ o.next_pc = next
      BY <2>1 DEF NopOutputs
    <2>3. /\ op.addr \in Word /\ op.width \in 0 .. WordBytes /\ op.value \in Word
          /\ op.write \in BOOLEAN /\ op.reserve \in BOOLEAN
      BY <2>0, <1>w
    <2>4. /\ op.write /\ op.dest = <<>> /\ op.chain = <<>> /\ ~op.reserve /\ op.post = <<>>
          /\ op.width = WordBytes /\ res = <<op.addr>>
      BY <2>0, <1>2
    <2>5. DOMAIN op = {"addr", "width", "write", "value", "dest", "post", "chain", "flags", "reserve"}
      BY <2>0
    <2>6. i.op # "STORE"
      BY <1>2
    <2>7. IsOperation(op, i, res)
      BY <2>3, <2>4, <2>5, <2>6 DEF IsOperation
    <2> QED BY <2>2, <2>7 DEF Asks
  <1>3. CASE i.op = "SCR" /\ res # <<b>>
    <2>1. o.memory = <<>>
      BY <1>3 DEF ExecuteAtomic, NopOutputs
    <2> QED BY <2>1
  <1> QED BY <1>1, <1>2, <1>3

\* the two addressing modes
PcRelative(i) == i.pcrel

\* What a memory instruction asks for, which no special register changes
LEMMA ExecuteMemoryOp ==
  ASSUME NEW D, NEW i, IsInstruction(i, D), NEW a \in Word, NEW b \in Word, NEW f, NEW s, NEW res,
         NEW pc \in Word, NEW o, o = Execute(i, pc, a, b, f, s, res), o.memory # <<>>
  PROVE  /\ Asks(o, i, res)
         /\ \A t : Execute(i, pc, a, b, f, t, res) = o
  <1> DEFINE next == Plus(pc, 2)
             n == NopOutputs(next)
  <1>1. next \in Word
    <2>1. pc \in Int /\ 2 \in Int
      BY WordInt
    <2> QED BY <2>1, PlusWord
  <1> HIDE DEF next
  <1>2. CASE i.op \in {"LLR", "SCR"}
    <2>1. \A t : Execute(i, pc, a, b, f, t, res) = ExecuteAtomic(i, a, b, f, res, n)
      BY <1>2 DEF Execute, next
    <2> HIDE DEF n
    <2>2. o = ExecuteAtomic(i, a, b, f, res, n)
      BY <2>1
    <2> QED BY <1>1, <1>2, <2>1, <2>2, AtomicMemory DEF n
  <1>3. CASE i.op \in LsOps /\ PcRelative(i)
    <2>1. \A t : Execute(i, pc, a, b, f, t, res) = ExecuteLsPc(i, a, f, n)
      BY <1>3 DEF Execute, next, LsOps, PcRelative
    <2> HIDE DEF n
    <2>2. o = ExecuteLsPc(i, a, f, n)
      BY <2>1
    <2>3. i.op \in {"PUSH", "POP"} => MovesStack(i)
      BY <1>3 DEF MovesStack, PcRelative
    <2>4. Asks(o, i, res)
      BY <1>1, <1>3, <2>2, <2>3, LsPcMemory DEF n
    <2> QED BY <2>1, <2>2, <2>4
  <1>4. CASE i.op \in LsOps /\ ~PcRelative(i)
    <2>1. \A t : Execute(i, pc, a, b, f, t, res) = ExecuteLs(i, a, b, f, n)
      BY <1>4 DEF Execute, next, LsOps, PcRelative
    <2> HIDE DEF n
    <2>2. o = ExecuteLs(i, a, b, f, n)
      BY <2>1
    <2>3. Asks(o, i, res)
      BY <1>1, <1>4, <2>2, LsMemory DEF n
    <2> QED BY <2>1, <2>2, <2>3
  <1>5. CASE i.op = "LDI"
    <2>1. o.memory = <<>>
      BY <1>5 DEF Execute, ExecuteLdi, NopOutputs
    <2> QED BY <2>1
  <1>6. CASE i.op = "UJMP"
    <2>1. o.memory = <<>>
      BY <1>6 DEF Execute, NopOutputs
    <2> QED BY <2>1
  <1>7. CASE i.op = "ALU"
    <2>1. o.memory = <<>>
      BY <1>7 DEF Execute, ExecuteAlu, NopOutputs
    <2> QED BY <2>1
  <1>8. CASE i.op \in {"LSR", "SSR", "SYSCALL", "IRET", "STOP", "ILLEGAL"}
    <2>1. o = ExecuteSystem(i, a, b, s, n)
      BY <1>8 DEF Execute, next
    <2>2. ExecuteSystem(i, a, b, s, n).memory = <<>>
      BY <1>8 DEF ExecuteSystem, NopOutputs
    <2> QED BY <2>1, <2>2
  <1> QED BY <1>2, <1>3, <1>4, <1>5, <1>6, <1>7, <1>8 DEF IsInstruction, Opcodes, LsOps

\* at most one register is written, with a word
WordWrites(w) == w = <<>> \/ \E r, v : v \in Word /\ w = <<<<r, v>>>>

\* everything the execute stage computes is a word
IsResult(o) ==
    /\ o.next_pc \in Word /\ o.trap \in 0 .. 15
    /\ WordWrites(o.writes)
    /\ o.control # <<>> => o.control[1] \in Word
    /\ o.special # <<>> => o.special[1].data \in Word

\* The outputs of an instruction that does one thing only
LEMMA NopResult ==
  ASSUME NEW next \in Word
  PROVE  /\ IsResult(NopOutputs(next))
         /\ \A w : WordWrites(w) => IsResult([NopOutputs(next) EXCEPT !.writes = w])
         /\ \A x \in Word : IsResult([NopOutputs(next) EXCEPT !.next_pc = x])
         /\ \A m : IsResult([NopOutputs(next) EXCEPT !.memory = m])
         /\ \A t \in 0 .. 15 : IsResult([NopOutputs(next) EXCEPT !.trap = t])
  BY DEF NopOutputs, IsResult, WordWrites

\* The results of the memory instructions, the moves and the jumps are words;
LEMMA LsResult ==
  ASSUME NEW D, NEW i, IsInstruction(i, D), i.op \in LsOps,
         NEW a \in Word, NEW b \in Word, NEW f, NEW next \in Word
  PROVE  IsResult(ExecuteLs(i, a, b, f, NopOutputs(next))) /\ IsResult(ExecuteLsPc(i, a, f, NopOutputs(next)))
  <1> DEFINE n == NopOutputs(next)
             o == ExecuteLs(i, a, b, f, n)
             p == ExecuteLsPc(i, a, f, n)
             rs1 == IF i.rs1 = 15 THEN next ELSE b
             addr == Plus(rs1, i.imm)
             target == Plus(next, i.imm)
  <1>0. n.next_pc = next
    BY DEF NopOutputs
  <1>1. addr \in Word /\ target \in Word
    <2>1. i.imm \in Word
      BY DEF IsInstruction
    <2>2. rs1 \in Word
      OBVIOUS
    <2> HIDE DEF rs1
    <2>3. i.imm \in Int /\ rs1 \in Int /\ next \in Int
      BY <2>1, <2>2, WordInt
    <2> QED BY <2>3, PlusWord
  <1>2. WordWrites(<<>>) /\ WordWrites(<<<<i.rd, addr>>>>) /\ WordWrites(<<<<i.rd, target>>>>)
    BY <1>1 DEF WordWrites
  <1> HIDE DEF rs1, addr, target, n
  <1>3. CASE i.op \in {"LOAD", "STORE", "PUSH", "POP"}
    <2>1. (\E m : o = [n EXCEPT !.memory = m]) /\ (\E m : p = [n EXCEPT !.memory = m])
      <3>1. i.op = "LOAD" => (\E m : o = [n EXCEPT !.memory = m]) /\ (\E m : p = [n EXCEPT !.memory = m])
        BY DEF ExecuteLs, ExecuteLsPc
      <3>2. i.op = "STORE" => (\E m : o = [n EXCEPT !.memory = m]) /\ (\E m : p = [n EXCEPT !.memory = m])
        BY DEF ExecuteLs, ExecuteLsPc
      <3>3. i.op = "PUSH" => (\E m : o = [n EXCEPT !.memory = m]) /\ (\E m : p = [n EXCEPT !.memory = m])
        BY DEF ExecuteLs, ExecuteLsPc
      <3>4. i.op = "POP" => (\E m : o = [n EXCEPT !.memory = m]) /\ (\E m : p = [n EXCEPT !.memory = m])
        BY DEF ExecuteLs, ExecuteLsPc
      <3> HIDE DEF o, p
      <3> QED BY <1>3, <3>1, <3>2, <3>3, <3>4
    <2> HIDE DEF o, p
    <2> QED BY <2>1, NopResult DEF n, o, p
  <1>4. CASE i.op \in {"MOVE", "JUMP"}
    <2>1. \E w, x : /\ (w = <<>> \/ w = <<<<i.rd, addr>>>>) /\ (x = addr \/ x = next)
                    /\ o = [n EXCEPT !.writes = w, !.next_pc = x]
      <3> DEFINE taken == i.op = "MOVE" \/ LsCondition(f, i.fn)
                 w == IF taken THEN <<<<i.rd, addr>>>> ELSE <<>>
                 x == IF taken /\ i.rd = 15 THEN addr ELSE next
      <3>1. o = [n EXCEPT !.writes = w, !.next_pc = x]
        BY <1>0, <1>4 DEF ExecuteLs, addr, rs1
      <3> HIDE DEF o
      <3> QED BY <3>1
    <2>3. \A w, x : WordWrites(w) /\ x \in Word => IsResult([n EXCEPT !.writes = w, !.next_pc = x])
      BY DEF n, NopOutputs, IsResult
    <2>4. IsResult(o)
      <3> HIDE DEF o
      <3>1. PICK w, x : /\ (w = <<>> \/ w = <<<<i.rd, addr>>>>) /\ (x = addr \/ x = next)
                        /\ o = [n EXCEPT !.writes = w, !.next_pc = x]
        BY <2>1
      <3>2. WordWrites(w) /\ x \in Word
        BY <1>1, <1>2, <3>1
      <3> QED BY <2>3, <3>1, <3>2
    <2>5. IsResult(p)
      <3> DEFINE x == IF i.rd = 15 THEN target ELSE next
                 y == IF LsCondition(f, i.fn) THEN target ELSE next
                 w == <<<<i.rd, target>>>>
      <3>0. x \in Word /\ y \in Word
        BY <1>1
      <3>1. CASE i.op = "MOVE"
        <4>1. p = [n EXCEPT !.writes = w, !.next_pc = x]
          BY <1>0, <3>1 DEF ExecuteLsPc, target
        <4> HIDE DEF p, x, w
        <4> QED BY <1>2, <2>3, <3>0, <4>1 DEF w
      <3>2. CASE i.op = "JUMP"
        <4>1. p = [n EXCEPT !.next_pc = y]
          BY <1>0, <3>2 DEF ExecuteLsPc, target
        <4> HIDE DEF p, y
        <4> QED BY <3>0, <4>1, NopResult DEF n
      <3> HIDE DEF p
      <3> QED BY <1>4, <3>1, <3>2
    <2> HIDE DEF o, p
    <2> QED BY <2>4, <2>5 DEF n, o, p
  <1> QED BY <1>3, <1>4 DEF LsOps

\* so are those of the ALU instructions
LEMMA AluResult ==
  ASSUME NEW D, NEW i, IsInstruction(i, D), i.op = "ALU",
         NEW a \in Word, NEW b \in Word, NEW next \in Word
  PROVE  IsResult(ExecuteAlu(i, a, b, NopOutputs(next)))
  <1> DEFINE r == Alu(i.fn, a, b, i.imm)
             w == IF i.fn = "TEST" THEN <<>> ELSE <<<<i.rd, r.value>>>>
  <1>1. r.value \in Word
    <2>1. i.fn \in AluFunctions /\ i.imm \in 0 .. 8
      BY DEF IsInstruction
    <2> QED BY <2>1, AluWord
  <1> HIDE DEF r
  <1>2. WordWrites(w)
    BY <1>1 DEF WordWrites
  <1>3. ExecuteAlu(i, a, b, NopOutputs(next)) = [NopOutputs(next) EXCEPT !.writes = w, !.flags = <<FlagValue(r.value, r.carry)>>]
    BY DEF ExecuteAlu, r
  <1> HIDE DEF w
  <1>4. \A f : IsResult([NopOutputs(next) EXCEPT !.writes = w, !.flags = f])
    BY <1>2 DEF NopOutputs, IsResult
  <1> QED BY <1>3, <1>4

\* and of the system instructions.
LEMMA SystemResult ==
  ASSUME NEW i, i.op \in {"LSR", "SSR", "SYSCALL", "IRET", "STOP", "ILLEGAL"},
         NEW a \in Word, NEW b, NEW next \in Word, NEW s, s \in [Selectors -> Word]
  PROVE  IsResult(ExecuteSystem(i, a, b, s, NopOutputs(next)))
  <1> DEFINE n == NopOutputs(next)
             o == ExecuteSystem(i, a, b, s, n)
             v == SpecialRead(s, b)
  <1>t. /\ IsResult([n EXCEPT !.trap = PRIVILEGED_INSTRUCTION]) /\ IsResult([n EXCEPT !.trap = INVALID_INSTRUCTION])
        /\ IsResult([n EXCEPT !.trap = SYSCALL]) /\ IsResult([n EXCEPT !.trap = SYSCALL_FROM_SUPERVISOR])
    <2>1. \A t \in 0 .. 15 : IsResult([n EXCEPT !.trap = t])
      BY NopResult
    <2> HIDE DEF n
    <2>2. /\ PRIVILEGED_INSTRUCTION \in 0 .. 15 /\ INVALID_INSTRUCTION \in 0 .. 15
          /\ SYSCALL \in 0 .. 15 /\ SYSCALL_FROM_SUPERVISOR \in 0 .. 15
      BY DEF PRIVILEGED_INSTRUCTION, INVALID_INSTRUCTION, SYSCALL, SYSCALL_FROM_SUPERVISOR
    <2> QED BY <2>1, <2>2
  <1>1. CASE i.op = "LSR"
    <2>1. v \in Word
      BY DEF SpecialRead, Word
    <2> HIDE DEF v
    <2>2. WordWrites(<<<<i.rd, v>>>>)
      BY <2>1 DEF WordWrites
    <2>3. IsResult([n EXCEPT !.writes = <<<<i.rd, v>>>>])
      BY <2>2, NopResult
    <2>4. o = [n EXCEPT !.trap = PRIVILEGED_INSTRUCTION] \/ o = [n EXCEPT !.writes = <<<<i.rd, v>>>>]
      BY <1>1 DEF ExecuteSystem, v
    <2> HIDE DEF o, n
    <2> QED BY <1>t, <2>3, <2>4 DEF o, n
  <1>2. CASE i.op = "SSR"
    <2> DEFINE w == [sel |-> b, data |-> a]
    <2>1. IsResult([n EXCEPT !.special = <<w>>])
      BY DEF NopOutputs, IsResult, WordWrites
    <2>2. o = [n EXCEPT !.trap = PRIVILEGED_INSTRUCTION] \/ o = [n EXCEPT !.special = <<w>>]
      BY <1>2 DEF ExecuteSystem
    <2> HIDE DEF o, n, w
    <2> QED BY <1>t, <2>1, <2>2 DEF o, n
  <1>3. CASE i.op = "SYSCALL"
    <2>1. o = [n EXCEPT !.trap = SYSCALL] \/ o = [n EXCEPT !.trap = SYSCALL_FROM_SUPERVISOR]
      BY <1>3 DEF ExecuteSystem
    <2> HIDE DEF o, n
    <2> QED BY <1>t, <2>1 DEF o, n
  <1>4. CASE i.op = "IRET"
    <2> DEFINE f == WordFlags(s[INTERRUPT_EFLAGS])
               c == s[INTERRUPT_CPU_CONTROL]
               x == s[INTERRUPT_EPC]
    <2>0. c \in Word /\ x \in Word
      BY DEF INTERRUPT_CPU_CONTROL, INTERRUPT_EPC, Selectors
    <2> HIDE DEF f, c, x
    <2>1. IsResult([n EXCEPT !.flags = <<f>>, !.control = <<c>>, !.next_pc = x])
      BY <2>0 DEF NopOutputs, IsResult, WordWrites
    <2>2. \/ o = [n EXCEPT !.trap = PRIVILEGED_INSTRUCTION]
          \/ o = [n EXCEPT !.flags = <<f>>, !.control = <<c>>, !.next_pc = x]
      BY <1>4 DEF ExecuteSystem, f, c, x
    <2> HIDE DEF o, n
    <2> QED BY <1>t, <2>1, <2>2 DEF o, n
  <1>5. CASE i.op = "STOP"
    <2>1. IsResult([n EXCEPT !.halt = TRUE])
      BY DEF NopOutputs, IsResult, WordWrites
    <2>2. o = [n EXCEPT !.trap = PRIVILEGED_INSTRUCTION] \/ o = [n EXCEPT !.halt = TRUE]
      BY <1>5 DEF ExecuteSystem
    <2> HIDE DEF o, n
    <2> QED BY <1>t, <2>1, <2>2 DEF o, n
  <1>6. CASE i.op = "ILLEGAL"
    <2>1. o = [n EXCEPT !.trap = INVALID_INSTRUCTION]
      BY <1>6 DEF ExecuteSystem
    <2> HIDE DEF o, n
    <2> QED BY <1>t, <2>1 DEF o, n
  <1> QED BY <1>1, <1>2, <1>3, <1>4, <1>5, <1>6

\* Everything an instruction computes is a word.
LEMMA ExecuteResult ==
  ASSUME NEW D, NEW i, IsInstruction(i, D), NEW a \in Word, NEW b \in Word, NEW f,
         NEW s, s \in [Selectors -> Word], NEW res, NEW pc \in Word,
         NEW o, o = Execute(i, pc, a, b, f, s, res)
  PROVE  IsResult(o)
  <1> DEFINE next == Plus(pc, 2)
             n == NopOutputs(next)
  <1>1. next \in Word
    <2>1. pc \in Int /\ 2 \in Int
      BY WordInt
    <2> QED BY <2>1, PlusWord
  <1>0. n.next_pc = next
    BY DEF NopOutputs
  <1>i. i.imm \in Word
    BY DEF IsInstruction
  <1> HIDE DEF next
  <1>2. CASE i.op \in {"LLR", "SCR"}
    <2>1. o = ExecuteAtomic(i, a, b, f, res, n)
      BY <1>2 DEF Execute, next
    <2> DEFINE g == <<<<FALSE, f[2], f[3]>>>>
    <2>2. \/ \E m : o = [n EXCEPT !.memory = m]
          \/ o = [n EXCEPT !.flags = g, !.clear_reservation = TRUE]
      BY <2>1 DEF ExecuteAtomic
    <2>3. IsResult([n EXCEPT !.flags = g, !.clear_reservation = TRUE])
      BY <1>1 DEF NopOutputs, IsResult, WordWrites
    <2>4. \A m : IsResult([n EXCEPT !.memory = m])
      BY <1>1, NopResult
    <2> HIDE DEF n, g
    <2> QED BY <2>2, <2>3, <2>4
  <1>3. CASE i.op \in LsOps
    <2>1. o = ExecuteLsPc(i, a, f, n) \/ o = ExecuteLs(i, a, b, f, n)
      BY <1>3 DEF Execute, next, LsOps
    <2> QED BY <1>1, <1>3, <2>1, LsResult
  <1>5. CASE i.op = "LDI"
    <2> DEFINE S == {k \in 0 .. 7 : Bit((i.imm * 4^i.fn) % 256, k)}
               v == IF i.fn = 0 THEN i.imm ELSE SetBits(a, S)
    <2>1. o = [n EXCEPT !.writes = <<<<i.rd, v>>>>]
      BY <1>5 DEF Execute, ExecuteLdi, next
    <2>2. SetBits(a, S) \in Word
      BY SetBitsWord
    <2>3. v \in Word
      BY <1>i, <2>2
    <2> HIDE DEF v
    <2>4. WordWrites(<<<<i.rd, v>>>>)
      BY <2>3 DEF WordWrites
    <2> QED BY <1>1, <2>1, <2>4, NopResult
  <1>6. CASE i.op = "UJMP"
    <2> DEFINE x == Plus(next, i.imm)
    <2>1. o = [n EXCEPT !.next_pc = x]
      BY <1>0, <1>6 DEF Execute, next
    <2>2. x \in Word
      <3>1. next \in Int /\ i.imm \in Int
        BY <1>1, <1>i, WordInt
      <3> QED BY <3>1, PlusWord
    <2> HIDE DEF x
    <2> QED BY <1>1, <2>1, <2>2, NopResult
  <1>7. CASE i.op = "ALU"
    <2>1. o = ExecuteAlu(i, a, b, n)
      BY <1>7 DEF Execute, next
    <2> QED BY <1>1, <1>7, <2>1, AluResult
  <1>8. CASE i.op \in {"LSR", "SSR", "SYSCALL", "IRET", "STOP", "ILLEGAL"}
    <2>1. o = ExecuteSystem(i, a, b, s, n)
      BY <1>8 DEF Execute, next
    <2> QED BY <1>1, <1>8, <2>1, SystemResult
  <1> QED BY <1>2, <1>3, <1>5, <1>6, <1>7, <1>8 DEF IsInstruction, Opcodes, LsOps

\* What is written back to the registers is a word.
LEMMA WriteBackType ==
  ASSUME NEW D, NEW g, g \in [D -> Word], NEW w, NEW next \in Word,
         \A r, old : old \in Word => LastWrite(w, r, old) \in Word
  PROVE  /\ WriteBack(g, w, next) \in [D -> Word]
         /\ 0 \in D => WriteBack(g, w, next)[0] = 0
  <1>1. 0 \in Word
    BY DEF Word
  <1> QED BY <1>1 DEF WriteBack

\* The last of a list of words written to a register is a word.
LEMMA LastWord ==
  ASSUME NEW w, WordWrites(w), NEW r, NEW old \in Word
  PROVE  LastWrite(w, r, old) \in Word
  <1>1. CASE w = <<>>
    BY <1>1 DEF LastWrite
  <1>2. ASSUME NEW q, NEW v \in Word, w = <<<<q, v>>>>
        PROVE  LastWrite(w, r, old) \in Word
    BY <1>2 DEF LastWrite
  <1> QED BY <1>1, <1>2 DEF WordWrites

\* What a memory instruction writes to a register is a word.
LEMMA MemoryWord ==
  ASSUME NEW op, NEW i, NEW res, IsOperation(op, i, res), NEW loaded \in Word, NEW r, NEW old \in Word
  PROVE  LastWrite(MemoryWrites(op, loaded), r, old) \in Word
  <1> DEFINE v == IF op.post[1].alias THEN Plus(loaded, WordBytes) ELSE op.post[1].value
             p == <<op.post[1].index, v>>
             d == <<op.dest[1], loaded>>
  <1>1. Plus(loaded, WordBytes) \in Word
    <2>1. loaded \in Int /\ WordBytes \in Int
      BY WordInt DEF WordBytes
    <2> QED BY <2>1, PlusWord
  <1>2. op.post # <<>> => v \in Word
    BY <1>1 DEF IsOperation
  <1> DEFINE w == MemoryWrites(op, loaded)
  <1>3. w = <<>> \/ w = <<d>> \/ (op.post # <<>> /\ (w = <<p>> \/ w = <<d, p>>))
    <2> HIDE DEF v
    <2>1. CASE op.post = <<>> /\ op.dest = <<>>
      <3>1. w = <<>>
        BY <2>1 DEF MemoryWrites
      <3> HIDE DEF w, p, d
      <3> QED BY <3>1
    <2>2. CASE op.post = <<>> /\ op.dest # <<>>
      <3>1. w = <<d>>
        BY <2>2 DEF MemoryWrites
      <3> HIDE DEF w, p, d
      <3> QED BY <3>1
    <2>3. CASE op.post # <<>> /\ op.dest = <<>>
      BY <2>3 DEF MemoryWrites, v
    <2>4. CASE op.post # <<>> /\ op.dest # <<>>
      BY <2>4 DEF MemoryWrites, v
    <2> QED BY <2>1, <2>2, <2>3, <2>4
  <1>4. p[2] = v /\ d[2] = loaded
    OBVIOUS
  <1> HIDE DEF p, d, v
  <1>5. CASE w = <<>>
    BY <1>5 DEF LastWrite
  <1>6. CASE w = <<d>>
    BY <1>4, <1>6 DEF LastWrite
  <1>7. CASE op.post # <<>> /\ w = <<p>>
    BY <1>2, <1>4, <1>7 DEF LastWrite
  <1>8. CASE op.post # <<>> /\ w = <<d, p>>
    BY <1>2, <1>4, <1>8 DEF LastWrite
  <1> QED BY <1>3, <1>5, <1>6, <1>7, <1>8

\* an optional word
Optional(v) == v # <<>> => v[1] \in Word

\* The saved flags are a word.
LEMMA FlagsWordType == \A f : FlagsWord(f) \in Word
  BY DEF FlagsWord, Word

\* The special registers hold words after every edge that writes words.
LEMMA SpecialClockWords ==
  ASSUME NEW s, s \in [Selectors -> Word], NEW control, NEW saved, NEW entered, NEW trap, NEW write, NEW lines,
         Optional(control), Optional(saved), entered # <<>> => entered[1] \in Word /\ entered[2] \in Word,
         trap # <<>> => /\ trap[1].cause \in Word /\ trap[1].addr \in Word /\ trap[1].access \in Word
                        /\ trap[1].pc \in Word /\ trap[1].aux \in Word,
         write # <<>> => write[1].data \in Word
  PROVE  SpecialClock(s, control, saved, entered, trap, write, lines) \in [Selectors -> Word]
  <1> DEFINE s1 == IF control = <<>> THEN s ELSE [s EXCEPT ![CPU_CONTROL] = control[1]]
             s2 == IF saved = <<>> THEN s1 ELSE [s1 EXCEPT ![INTERRUPT_CPU_CONTROL] = saved[1]]
             s3 == IF entered = <<>> THEN s2
                   ELSE [s2 EXCEPT ![INTERRUPT_EPC] = entered[1], ![INTERRUPT_EFLAGS] = entered[2]]
             s4 == IF write = <<>>
                   THEN [s3 EXCEPT ![INTERRUPT_STATES_HIGH] = SetBits(@, lines)]
                   ELSE GuestWrite(s3, write[1], control # <<>>, lines)
             s5 == IF trap = <<>> THEN s4 ELSE TrapWrite(s4, s[TRAP_CAUSE], trap[1])
  <1>0. SpecialClock(s, control, saved, entered, trap, write, lines) = s5
    BY DEF SpecialClock
  <1>1. s1 \in [Selectors -> Word]
    BY DEF Optional
  <1> HIDE DEF s1
  <1>2. s2 \in [Selectors -> Word]
    BY <1>1 DEF Optional
  <1> HIDE DEF s2
  <1>3. s3 \in [Selectors -> Word]
    BY <1>2
  <1> HIDE DEF s3
  <1>4. s4 \in [Selectors -> Word]
    <2>1. \A w \in Word : SetBits(w, lines) \in Word
      BY SetBitsWord
    <2>2. s3[INTERRUPT_STATES_HIGH] \in Word
      BY <1>3 DEF INTERRUPT_STATES_HIGH, Selectors
    <2>3. CASE write = <<>>
      BY <1>3, <2>1, <2>2, <2>3
    <2>4. CASE write # <<>>
      BY <1>3, <2>1, <2>4 DEF GuestWrite
    <2> QED BY <2>3, <2>4
  <1> HIDE DEF s4
  <1>5. s[TRAP_CAUSE] \in Word
    BY DEF TRAP_CAUSE, Selectors
  <1>6. s5 \in [Selectors -> Word]
    BY <1>4, <1>5 DEF TrapWrite
  <1> QED BY <1>0, <1>6

\* Latching the lines leaves words.
LEMMA LatchedType ==
  ASSUME NEW s, s \in [Selectors -> Word], NEW lines
  PROVE  Latched(s, lines) \in [Selectors -> Word]
  <1>1. s[INTERRUPT_STATES_HIGH] \in Word
    BY DEF INTERRUPT_STATES_HIGH, Selectors
  <1>2. SetBits(s[INTERRUPT_STATES_HIGH], lines) \in Word
    BY <1>1, SetBitsWord
  <1> QED BY <1>2 DEF Latched

\* Register files are equal when they are in every register.
LEMMA SameFile ==
  ASSUME NEW s, NEW t, s \in [Selectors -> Word], t \in [Selectors -> Word],
         \A x \in Selectors : s[x] = t[x]
  PROVE  s = t
  OBVIOUS

\* the PC and the flags of an interrupted instruction in their registers
Saved(s, epc, eflags) == [s EXCEPT ![INTERRUPT_EPC] = epc, ![INTERRUPT_EFLAGS] = eflags]

\* Saving a PC and flags leaves words.
LEMMA SavedType ==
  ASSUME NEW s, s \in [Selectors -> Word], NEW e \in Word, NEW f \in Word
  PROVE  Saved(s, e, f) \in [Selectors -> Word]
  BY DEF Saved

\* Saving changes two registers.
LEMMA SavedFile ==
  ASSUME NEW s, DOMAIN s = Selectors, NEW e, NEW f
  PROVE  /\ Saved(s, e, f)[INTERRUPT_EPC] = e /\ Saved(s, e, f)[INTERRUPT_EFLAGS] = f
         /\ \A x \in Selectors : x # INTERRUPT_EPC /\ x # INTERRUPT_EFLAGS => Saved(s, e, f)[x] = s[x]
  BY DEF Saved, INTERRUPT_EPC, INTERRUPT_EFLAGS, Selectors

\* Latching changes one.
LEMMA LatchedFile ==
  ASSUME NEW s, s \in [Selectors -> Word], NEW lines
  PROVE  \A x \in Selectors : Latched(s, lines)[x] =
            IF x = INTERRUPT_STATES_HIGH THEN SetBits(s[x], lines) ELSE s[x]
  BY DEF Latched, INTERRUPT_STATES_HIGH, Selectors

\* A line may be latched before or after.
LEMMA SavedLatched ==
  ASSUME NEW s, s \in [Selectors -> Word], NEW e \in Word, NEW f \in Word, NEW lines
  PROVE  Saved(Latched(s, lines), e, f) = Latched(Saved(s, e, f), lines)
  <1> SUFFICES ASSUME NEW l, NEW d, l = Latched(s, lines), d = Saved(s, e, f)
               PROVE  Saved(l, e, f) = Latched(d, lines)
    OBVIOUS
  <1>1. l \in [Selectors -> Word] /\ d \in [Selectors -> Word]
    BY LatchedType, SavedType
  <1>d. DOMAIN l = Selectors /\ DOMAIN s = Selectors
    BY <1>1
  <1>2. Saved(l, e, f) \in [Selectors -> Word]
    BY <1>1, SavedType
  <1>3. Latched(d, lines) \in [Selectors -> Word]
    BY <1>1, LatchedType
  <1>4. \A x \in Selectors : l[x] = IF x = INTERRUPT_STATES_HIGH THEN SetBits(s[x], lines) ELSE s[x]
    BY LatchedFile
  <1>5. /\ d[INTERRUPT_EPC] = e /\ d[INTERRUPT_EFLAGS] = f
        /\ \A x \in Selectors : x # INTERRUPT_EPC /\ x # INTERRUPT_EFLAGS => d[x] = s[x]
    BY <1>d, SavedFile
  <1>6. \A x \in Selectors : Latched(d, lines)[x] = IF x = INTERRUPT_STATES_HIGH THEN SetBits(d[x], lines) ELSE d[x]
    BY <1>1, LatchedFile
  <1>7. /\ Saved(l, e, f)[INTERRUPT_EPC] = e /\ Saved(l, e, f)[INTERRUPT_EFLAGS] = f
        /\ \A x \in Selectors : x # INTERRUPT_EPC /\ x # INTERRUPT_EFLAGS => Saved(l, e, f)[x] = l[x]
    BY <1>d, SavedFile
  <1>8. \A x \in Selectors : Saved(l, e, f)[x] = Latched(d, lines)[x]
    BY <1>4, <1>5, <1>6, <1>7 DEF INTERRUPT_EPC, INTERRUPT_EFLAGS, INTERRUPT_STATES_HIGH
  <1> QED BY <1>2, <1>3, <1>8, SameFile

\* the trap registers of an entry, when it has a trap
TrapWritten(s, cause, trap) == IF trap = <<>> THEN s ELSE TrapWrite(s, cause, trap[1])

\* what the trap registers are given
IsTrap(trap) ==
    /\ trap.cause \in 0 .. 15 /\ trap.addr \in Word /\ trap.access \in Word
    /\ trap.pc \in Word /\ trap.aux \in Word

\* A trap writes its five registers, and keeps the first cause.
LEMMA TrapFile ==
  ASSUME NEW s, DOMAIN s = Selectors, NEW c, NEW t
  PROVE  /\ DOMAIN TrapWrite(s, c, t) = Selectors
         /\ TrapWrite(s, c, t)[TRAP_CAUSE] = (IF c = 0 THEN t.cause ELSE c)
         /\ TrapWrite(s, c, t)[TRAP_FAULT_ADDR] = t.addr
         /\ TrapWrite(s, c, t)[TRAP_ACCESS] = t.access
         /\ TrapWrite(s, c, t)[TRAP_PC] = t.pc
         /\ TrapWrite(s, c, t)[TRAP_AUX] = t.aux
         /\ \A x \in Selectors : x \notin {TRAP_CAUSE, TRAP_FAULT_ADDR, TRAP_ACCESS, TRAP_PC, TRAP_AUX}
                => TrapWrite(s, c, t)[x] = s[x]
  BY DEF TrapWrite, TRAP_CAUSE, TRAP_FAULT_ADDR, TRAP_ACCESS, TRAP_PC, TRAP_AUX, Selectors

\* the edge of an entry but for the trap registers
LEMMA EntryFile ==
  ASSUME NEW s, DOMAIN s = Selectors, NEW c, NEW k, NEW lines, NEW t,
         t = SpecialClock(s, <<c>>, <<k>>, <<>>, <<>>, <<>>, lines)
  PROVE  /\ DOMAIN t = Selectors
         /\ t[CPU_CONTROL] = c /\ t[INTERRUPT_CPU_CONTROL] = k
         /\ t[INTERRUPT_STATES_HIGH] = SetBits(s[INTERRUPT_STATES_HIGH], lines)
         /\ \A x \in Selectors : x \notin {CPU_CONTROL, INTERRUPT_CPU_CONTROL, INTERRUPT_STATES_HIGH}
                => t[x] = s[x]
  <1>1. t = [[[s EXCEPT ![CPU_CONTROL] = c] EXCEPT ![INTERRUPT_CPU_CONTROL] = k]
                EXCEPT ![INTERRUPT_STATES_HIGH] = SetBits(@, lines)]
    BY DEF SpecialClock
  <1> QED BY <1>1, SMTT(30) DEF CPU_CONTROL, INTERRUPT_CPU_CONTROL, INTERRUPT_STATES_HIGH, Selectors

\* The trap registers of an entry are written over the others.
LEMMA EntryTrap ==
  ASSUME NEW s, NEW c, NEW k, NEW lines, NEW trap
  PROVE  SpecialClock(s, <<c>>, <<k>>, <<>>, trap, <<>>, lines)
            = TrapWritten(SpecialClock(s, <<c>>, <<k>>, <<>>, <<>>, <<>>, lines), s[TRAP_CAUSE], trap)
  BY DEF SpecialClock, TrapWritten

\* The control word of an entry holds its vector.
LEMMA EntryVector ==
  ASSUME NEW c, NEW v \in 0 .. 15
  PROVE  EntryControl(c, v) \in Word /\ CurInt(EntryControl(c, v)) = v
  <1>1. EntryControl(c, v) = 2 + 4 * v \/ EntryControl(c, v) = 2 + 4 * v + 64
    BY DEF EntryControl
  <1> QED BY <1>1 DEF Word, CurInt

\* the special registers after the edge of an entry
EntryClock(s, v, trap, lines) ==
    SpecialClock(s, <<EntryControl(s[CPU_CONTROL], v)>>, <<s[CPU_CONTROL]>>, <<>>, trap, <<>>, lines)

\* a fault: its cause and its auxiliary word
IsFault(f) == f[1] \in 0 .. 15 /\ f[2] \in Word

\* The faults of the checks before a walk fit the trap registers;
LEMMA EntryFaultType ==
  ASSUME NEW va, NEW s, EntryFault(va, s) # <<>>
  PROVE  IsFault(EntryFault(va, s))
  BY DEF EntryFault, IsFault, EncodeAux, PAGE_FAULT_CANONICAL, PAGE_FAULT_RESERVED, Word

\* so do those of the walk.
LEMMA WalkFaultType ==
  ASSUME NEW pte, NEW level \in 0 .. 2, NEW access, NEW user, WalkFault(pte, level, access, user) # <<>>
  PROVE  IsFault(WalkFault(pte, level, access, user))
  <1>1. EncodeAux(1, level) \in Word /\ EncodeAux(4, level) \in Word /\ EncodeAux(2, 0) \in Word
        /\ EncodeAux(3, level) \in Word
    BY DEF EncodeAux, Word
  <1>2. /\ PAGE_FAULT_NOT_PRESENT \in 0 .. 15 /\ PAGE_FAULT_RESERVED \in 0 .. 15
        /\ PAGE_FAULT_PERMISSION \in 0 .. 15
    BY DEF PAGE_FAULT_NOT_PRESENT, PAGE_FAULT_RESERVED, PAGE_FAULT_PERMISSION
  <1> QED BY <1>1, <1>2 DEF WalkFault, IsFault

\* What is written to the trap registers is words.
LEMMA TrapInfoType ==
  ASSUME NEW cause, NEW addr, NEW access, NEW pc, NEW aux,
         cause \in 0 .. 15, addr \in Word, access \in 0 .. 2, pc \in Word, aux \in Word
  PROVE  IsTrap(TrapInfo(cause, addr, access, pc, aux)) /\ TrapInfo(cause, addr, access, pc, aux).pc = pc
  <1>1. access \in Word
    BY DEF Word
  <1> QED BY <1>1 DEF TrapInfo, IsTrap

\* The access codes of loads, stores and fetches
LEMMA AccessCodes ==
  AccessCode("R") = 0 /\ AccessCode("W") = 1 /\ AccessCode("X") = 2
  BY DEF AccessCode

\* the registers g after the write that follows an access
Moved(g, post) ==
    IF post = <<>> \/ post[1].index = 0 THEN g ELSE [g EXCEPT ![post[1].index] = post[1].value]

\* The write that follows an access and the next PC, made in two steps, are
\* the write-back of an operation that loads no register.
LEMMA MovedWriteBack ==
  ASSUME NEW D, NEW g, g \in [D -> Word], 0 \in D => g[0] = 0, 15 \in D, NEW op, NEW loaded, NEW next,
         op.dest = <<>>,
         op.post # <<>> => op.post = <<op.post[1]>> /\ ~op.post[1].alias /\ op.post[1].index # 15
  PROVE  [Moved(g, op.post) EXCEPT ![15] = next]
            = WriteBack(g, MemoryWrites(op, loaded), MemoryNextPc(op, loaded, next))
  <1>d. DOMAIN g = D /\ DOMAIN Moved(g, op.post) = D
    BY DEF Moved
  <1> DEFINE w == MemoryWrites(op, loaded)
             h == Moved(g, op.post)
  <1>1. CASE op.post = <<>>
    <2>1. w = <<>>
      BY <1>1 DEF MemoryWrites
    <2>2. \A r, old : LastWrite(w, r, old) = old
      BY <2>1 DEF LastWrite
    <2> HIDE DEF w
    <2>3. WriteBack(g, w, LastWrite(w, 15, next)) = [r \in D |-> IF r = 0 THEN 0 ELSE IF r = 15 THEN next ELSE g[r]]
      BY <1>d, <2>2 DEF WriteBack
    <2>4. h = g
      BY <1>1 DEF Moved
    <2>5. [g EXCEPT ![15] = next] = [r \in D |-> IF r = 0 THEN 0 ELSE IF r = 15 THEN next ELSE g[r]]
      <3>1. PICK f : f = [g EXCEPT ![15] = next]
        OBVIOUS
      <3>2. f = [r \in D |-> f[r]]
        BY <3>1
      <3>3. \A r \in D : f[r] = IF r = 0 THEN 0 ELSE IF r = 15 THEN next ELSE g[r]
        BY <3>1
      <3>4. [r \in D |-> f[r]] = [r \in D |-> IF r = 0 THEN 0 ELSE IF r = 15 THEN next ELSE g[r]]
        BY <3>3
      <3> QED BY <3>1, <3>2, <3>4
    <2> HIDE DEF h
    <2> QED BY <2>3, <2>4, <2>5 DEF MemoryNextPc, w, h
  <1>2. CASE op.post # <<>>
    <2> DEFINE x == op.post[1].index
               v == op.post[1].value
    <2>1. w = <<<<x, v>>>> /\ x # 15
      BY <1>2 DEF MemoryWrites
    <2> HIDE DEF w, x, v
    <2>2. \A r, old : LastWrite(w, r, old) = IF x = r THEN v ELSE old
      BY <2>1 DEF LastWrite
    <2>3. WriteBack(g, w, LastWrite(w, 15, next))
            = [r \in D |-> IF r = 0 THEN 0 ELSE IF r = 15 THEN next ELSE IF x = r THEN v ELSE g[r]]
      BY <1>d, <2>1, <2>2 DEF WriteBack
    <2>4. h = IF x = 0 THEN g ELSE [g EXCEPT ![x] = v]
      BY <1>2 DEF Moved, x, v
    <2> HIDE DEF h
    <2>5. [h EXCEPT ![15] = next]
            = [r \in D |-> IF r = 0 THEN 0 ELSE IF r = 15 THEN next ELSE IF x = r THEN v ELSE g[r]]
      <3>0. DOMAIN h = D /\ h = [r \in D |-> h[r]]
        BY <2>4
      <3>1. PICK f : f = [h EXCEPT ![15] = next]
        OBVIOUS
      <3>2. f = [r \in D |-> f[r]]
        BY <3>0, <3>1
      <3>3. \A r \in D : h[r] = IF r = 0 THEN 0 ELSE IF x = r THEN v ELSE g[r]
        BY <2>4
      <3>4. \A r \in D : f[r] = IF r = 0 THEN 0 ELSE IF r = 15 THEN next ELSE IF x = r THEN v ELSE g[r]
        BY <3>0, <3>1, <3>3
      <3>5. [r \in D |-> f[r]] = [r \in D |-> IF r = 0 THEN 0 ELSE IF r = 15 THEN next ELSE IF x = r THEN v ELSE g[r]]
        BY <3>4
      <3> QED BY <3>1, <3>2, <3>5
    <2> QED BY <2>3, <2>5 DEF MemoryNextPc, w, h
  <1> QED BY <1>1, <1>2

\* The write that follows an access leaves words, and R0 zero.
LEMMA MovedType ==
  ASSUME NEW D, NEW g, g \in [D -> Word], NEW post, post # <<>> => post[1].value \in Word
  PROVE  /\ Moved(g, post) \in [D -> Word]
         /\ 0 \in D /\ g[0] = 0 => Moved(g, post)[0] = 0
  BY DEF Moved

\* byte i of a load, as the two beats give it and as memory holds it
SplitByte(l, m, i) == Joined(l, BusWord(m, l.req.addr + Room(l.req)), i)
MemoryByte(m, a, i) == ByteAt(m, a + i)

\* the two beats of a load that crosses a bus word join to its bytes
LEMMA JoinedLoad ==
  ASSUME NEW m, NEW l, NEW a, a \in Word, l.req.addr = a, l.first = BusWord(m, a), NEW i, i \in 0 .. 3
  PROVE  SplitByte(l, m, i) = MemoryByte(m, a, i)
  <1> SUFFICES Joined(l, BusWord(m, a + Room(l.req)), i) = ByteAt(m, a + i)
    BY DEF SplitByte, MemoryByte
  <1> DEFINE off == a % WordBytes
             room == WordBytes - off
             second == BusWord(m, a + room)
  <1>1. off \in 0 .. 3 /\ a \in Int /\ Room(l.req) = room /\ room = 4 - off
    BY DEF WordBytes, Room, Word
  <1>2. \A k \in 0 .. 3 : BusWord(m, a)[k] = ByteAt(m, (a - off) + k)
    BY DEF BusWord
  <1>3. (a + room) % WordBytes = 0
    BY DEF WordBytes, Word
  <1>4. \A k \in 0 .. 3 : second[k] = ByteAt(m, ((a + room) - 0) + k)
    <2>1. \A k \in 0 .. 3 : second[k] = ByteAt(m, ((a + room) - ((a + room) % WordBytes)) + k)
      BY DEF BusWord
    <2> HIDE DEF room, second
    <2> QED BY <1>3, <2>1
  <1>5. Joined(l, second, i) = IF i < room THEN BusWord(m, a)[off + i] ELSE second[i - room]
    BY <1>1 DEF Joined
  <1> HIDE DEF off, second, room
  <1>6. CASE i < room
    <2>1. off + i \in 0 .. 3 /\ (a - off) + (off + i) = a + i
      BY <1>1, <1>6
    <2>2. BusWord(m, a)[off + i] = ByteAt(m, a + i)
      BY <1>2, <2>1
    <2> QED BY <1>1, <1>5, <1>6, <2>2 DEF second
  <1>7. CASE ~(i < room)
    <2>1. i - room \in 0 .. 3 /\ ((a + room) - 0) + (i - room) = a + i
      BY <1>1, <1>7
    <2>2. second[i - room] = ByteAt(m, a + i)
      BY <1>4, <2>1
    <2> QED BY <1>1, <1>5, <1>7, <2>2 DEF second
  <1> QED BY <1>6, <1>7

\* Stores of parts of the same value to the same address add up.
LEMMA StoreTwice ==
  ASSUME NEW m, NEW a, NEW one, NEW two, NEW v, NEW all, all = one \cup two
  PROVE  StoreBytes(StoreBytes(m, a, one, v), a, two, v) = StoreBytes(m, a, all, v)
  <1> DEFINE n == StoreBytes(m, a, one, v)
  <1>1. DOMAIN n = DOMAIN m /\ \A x \in DOMAIN m : n[x] = IF x - a \in one THEN ByteOf(v, x - a) ELSE m[x]
    BY DEF StoreBytes
  <1> HIDE DEF n
  <1>2. [x \in DOMAIN n |-> IF x - a \in two THEN ByteOf(v, x - a) ELSE n[x]]
          = [x \in DOMAIN m |-> IF x - a \in all THEN ByteOf(v, x - a) ELSE m[x]]
    BY <1>1
  <1> QED BY <1>2 DEF StoreBytes, n

\* The end of a walk is the translation of its address.
LEMMA WalkMeans ==
  ASSUME NEW sr, PagingOn(sr[CPU_CONTROL]), NEW user, user = UserMode(sr[CPU_CONTROL]),
         NEW va, EntryFault(va, sr) = <<>>, NEW access, access = "X" => va % 2 # 1,
         NEW table, NEW level \in 0 .. 2, NEW pte, pte = WalkEntry(table, level, PageOf(va)),
         WalkFrom2(PageOf(sr[PAGE_TABLE_ROOT]), PageOf(va), access, user)
             = WalkRest(table, level, PageOf(va), access, user)
  PROVE  LET fault == WalkFault(pte, level, access, user) IN
         /\ fault # <<>> => Translate(va, access, sr).fault = fault
         /\ fault = <<>> /\ WalkIsLeaf(pte) =>
               Translate(va, access, sr) = [phys |-> WalkPhys(pte, level, va), fault |-> <<>>]
  <1> DEFINE fault == WalkFault(pte, level, access, user)
             r == WalkFrom2(PageOf(sr[PAGE_TABLE_ROOT]), PageOf(va), access, user)
  <1>0. ~(access = "X" /\ va % 2 = 1)
    OBVIOUS
  <1>1. Translate(va, access, sr) = [phys |-> r.page * PageBytes + OffsetOf(va), fault |-> r.fault]
    BY <1>0 DEF Translate
  <1>2. WalkStops(pte, level, access, user) => r = WalkEnd(pte, level, PageOf(va), access, user)
    <2>1. level = 2 \/ level = 1 \/ level = 0
      OBVIOUS
    <2> QED BY <2>1 DEF WalkRest, WalkFrom0, WalkFrom1, WalkFrom2
  <1> HIDE DEF r
  <1>3. fault # <<>> => r.fault = fault
    BY <1>2 DEF WalkStops, WalkEnd
  <1>4. fault = <<>> /\ WalkIsLeaf(pte) => r.fault = <<>> /\ r.page = WalkPage(pte, level, PageOf(va))
    BY <1>2 DEF WalkStops, WalkEnd
  <1> HIDE DEF fault
  <1>5. fault # <<>> => Translate(va, access, sr).fault = fault
    BY <1>1, <1>3
  <1>6. fault = <<>> /\ WalkIsLeaf(pte) =>
               Translate(va, access, sr) = [phys |-> WalkPhys(pte, level, va), fault |-> <<>>]
    BY <1>1, <1>4 DEF WalkPhys
  <1> QED BY <1>5, <1>6 DEF fault

\* the special registers after an entry from epc with the flags f
Entered(s, vector, epc, f) ==
    [s EXCEPT ![INTERRUPT_CPU_CONTROL] = s[CPU_CONTROL],
              ![CPU_CONTROL] = EntryControl(s[CPU_CONTROL], vector),
              ![INTERRUPT_EPC] = epc,
              ![INTERRUPT_EFLAGS] = FlagsWord(f)]

\* An entry writes four registers.
LEMMA EnteredFile ==
  ASSUME NEW s, DOMAIN s = Selectors, NEW v, NEW epc, NEW f
  PROVE  /\ DOMAIN Entered(s, v, epc, f) = Selectors
         /\ Entered(s, v, epc, f)[INTERRUPT_CPU_CONTROL] = s[CPU_CONTROL]
         /\ Entered(s, v, epc, f)[CPU_CONTROL] = EntryControl(s[CPU_CONTROL], v)
         /\ Entered(s, v, epc, f)[INTERRUPT_EPC] = epc
         /\ Entered(s, v, epc, f)[INTERRUPT_EFLAGS] = FlagsWord(f)
         /\ \A x \in Selectors : x \notin {INTERRUPT_CPU_CONTROL, CPU_CONTROL, INTERRUPT_EPC, INTERRUPT_EFLAGS}
                => Entered(s, v, epc, f)[x] = s[x]
  BY DEF Entered, INTERRUPT_CPU_CONTROL, CPU_CONTROL, INTERRUPT_EPC, INTERRUPT_EFLAGS, Selectors

\* The registers an entry leaves, once the PC and the flags are saved, are
\* the machine's.
LEMMA EntrySaved ==
  ASSUME NEW s, s \in [Selectors -> Word], NEW lines, NEW v, NEW t, NEW trap, NEW epc, NEW f,
         t = EntryClock(s, v, trap, lines)
  PROVE  /\ Saved(t, epc, FlagsWord(f))
                = Entered(TrapWritten(Latched(s, lines), s[TRAP_CAUSE], trap), v, epc, f)
         /\ t[CPU_CONTROL] = EntryControl(s[CPU_CONTROL], v)
         /\ t[PAGE_TABLE_ROOT] = s[PAGE_TABLE_ROOT]
         /\ t[INTERRUPT_TABLE_BASE] = s[INTERRUPT_TABLE_BASE]
  <1> DEFINE c == s[CPU_CONTROL]
             ec == EntryControl(c, v)
  <1>0. PICK u : u = SpecialClock(s, <<ec>>, <<c>>, <<>>, <<>>, <<>>, lines)
    OBVIOUS
  <1>d. DOMAIN s = Selectors
    OBVIOUS
  <1>1. /\ DOMAIN u = Selectors
        /\ u[CPU_CONTROL] = ec /\ u[INTERRUPT_CPU_CONTROL] = c
        /\ u[INTERRUPT_STATES_HIGH] = SetBits(s[INTERRUPT_STATES_HIGH], lines)
        /\ \A x \in Selectors : x \notin {CPU_CONTROL, INTERRUPT_CPU_CONTROL, INTERRUPT_STATES_HIGH}
                => u[x] = s[x]
    BY <1>0, <1>d, EntryFile
  <1>2. t = TrapWritten(u, s[TRAP_CAUSE], trap)
    BY <1>0, EntryTrap DEF EntryClock
  <1>3. PICK l : l = Latched(s, lines)
    OBVIOUS
  <1>4. /\ DOMAIN l = Selectors
        /\ \A x \in Selectors : l[x] = IF x = INTERRUPT_STATES_HIGH THEN SetBits(s[x], lines) ELSE s[x]
    BY <1>3, LatchedType, LatchedFile
  <1>5. PICK m : m = TrapWritten(l, s[TRAP_CAUSE], trap)
    OBVIOUS
  <1>c. c = s[CPU_CONTROL] /\ ec = EntryControl(c, v)
    OBVIOUS
  <1> HIDE DEF c, ec
  <1>6. /\ DOMAIN t = Selectors /\ DOMAIN m = Selectors
        /\ t[CPU_CONTROL] = ec /\ m[CPU_CONTROL] = c /\ t[INTERRUPT_CPU_CONTROL] = c
        /\ \A x \in Selectors : x # CPU_CONTROL /\ x # INTERRUPT_CPU_CONTROL => t[x] = m[x]
        /\ t[PAGE_TABLE_ROOT] = s[PAGE_TABLE_ROOT]
        /\ t[INTERRUPT_TABLE_BASE] = s[INTERRUPT_TABLE_BASE]
    <2>1. /\ l[CPU_CONTROL] = c
          /\ \A x \in Selectors : x # CPU_CONTROL /\ x # INTERRUPT_CPU_CONTROL => u[x] = l[x]
          /\ u[PAGE_TABLE_ROOT] = s[PAGE_TABLE_ROOT]
          /\ u[INTERRUPT_TABLE_BASE] = s[INTERRUPT_TABLE_BASE]
      BY <1>1, <1>4, <1>c DEF CPU_CONTROL, INTERRUPT_CPU_CONTROL, INTERRUPT_STATES_HIGH, PAGE_TABLE_ROOT,
         INTERRUPT_TABLE_BASE, Selectors
    <2>2. CASE trap = <<>>
      BY <1>1, <1>2, <1>4, <1>5, <2>1, <2>2 DEF TrapWritten
    <2>3. CASE trap # <<>>
      <3>1. t = TrapWrite(u, s[TRAP_CAUSE], trap[1]) /\ m = TrapWrite(l, s[TRAP_CAUSE], trap[1])
        BY <1>2, <1>5, <2>3 DEF TrapWritten
      <3> DEFINE traps == {TRAP_CAUSE, TRAP_FAULT_ADDR, TRAP_ACCESS, TRAP_PC, TRAP_AUX}
      <3>2. /\ DOMAIN t = Selectors /\ DOMAIN m = Selectors
            /\ t[TRAP_CAUSE] = m[TRAP_CAUSE] /\ t[TRAP_FAULT_ADDR] = m[TRAP_FAULT_ADDR]
            /\ t[TRAP_ACCESS] = m[TRAP_ACCESS] /\ t[TRAP_PC] = m[TRAP_PC] /\ t[TRAP_AUX] = m[TRAP_AUX]
            /\ \A x \in Selectors : x \notin traps => t[x] = u[x] /\ m[x] = l[x]
        BY <1>1, <1>4, <3>1, TrapFile
      <3>3. {CPU_CONTROL, INTERRUPT_CPU_CONTROL, PAGE_TABLE_ROOT, INTERRUPT_TABLE_BASE} \subseteq Selectors \ traps
        BY DEF CPU_CONTROL, INTERRUPT_CPU_CONTROL, PAGE_TABLE_ROOT, INTERRUPT_TABLE_BASE, Selectors,
               TRAP_CAUSE, TRAP_FAULT_ADDR, TRAP_ACCESS, TRAP_PC, TRAP_AUX
      <3>4. \A x \in Selectors : x # CPU_CONTROL /\ x # INTERRUPT_CPU_CONTROL => t[x] = m[x]
        BY <2>1, <3>2
      <3> HIDE DEF traps
      <3> QED BY <1>1, <2>1, <3>2, <3>3, <3>4
    <2> QED BY <2>2, <2>3
  <1>7. PICK a, b : a = Saved(t, epc, FlagsWord(f)) /\ b = Entered(m, v, epc, f)
    OBVIOUS
  <1>8. /\ a[INTERRUPT_EPC] = epc /\ a[INTERRUPT_EFLAGS] = FlagsWord(f)
        /\ \A x \in Selectors : x # INTERRUPT_EPC /\ x # INTERRUPT_EFLAGS => a[x] = t[x]
    BY <1>6, <1>7, SavedFile
  <1>9. /\ DOMAIN b = Selectors
        /\ b[INTERRUPT_CPU_CONTROL] = m[CPU_CONTROL]
        /\ b[CPU_CONTROL] = EntryControl(m[CPU_CONTROL], v)
        /\ b[INTERRUPT_EPC] = epc
        /\ b[INTERRUPT_EFLAGS] = FlagsWord(f)
        /\ \A x \in Selectors : x \notin {INTERRUPT_CPU_CONTROL, CPU_CONTROL, INTERRUPT_EPC, INTERRUPT_EFLAGS}
                => b[x] = m[x]
    BY <1>6, <1>7, EnteredFile
  <1>10. \A x \in Selectors : a[x] = b[x]
    <2> SUFFICES ASSUME NEW x \in Selectors PROVE a[x] = b[x]
      OBVIOUS
    <2>1. CASE x \notin {INTERRUPT_CPU_CONTROL, CPU_CONTROL, INTERRUPT_EPC, INTERRUPT_EFLAGS}
      BY <1>6, <1>8, <1>9, <2>1
    <2>2. CASE x = INTERRUPT_EPC \/ x = INTERRUPT_EFLAGS
      BY <1>8, <1>9, <2>2
    <2>3. CASE x = CPU_CONTROL
      BY <1>6, <1>8, <1>9, <1>c, <2>3 DEF CPU_CONTROL, INTERRUPT_EPC, INTERRUPT_EFLAGS, Selectors
    <2>4. CASE x = INTERRUPT_CPU_CONTROL
      BY <1>6, <1>8, <1>9, <1>c, <2>4 DEF INTERRUPT_CPU_CONTROL, INTERRUPT_EPC, INTERRUPT_EFLAGS, Selectors
    <2> QED BY <2>1, <2>2, <2>3, <2>4
  <1>11. a = b
    <2>1. a = [x \in Selectors |-> a[x]]
      BY <1>6, <1>7 DEF Saved
    <2>2. b = [x \in Selectors |-> b[x]]
      BY <1>6, <1>7 DEF Entered
    <2>3. [x \in Selectors |-> a[x]] = [x \in Selectors |-> b[x]]
      BY <1>10
    <2> QED BY <2>1, <2>2, <2>3
  <1> QED BY <1>3, <1>5, <1>6, <1>7, <1>11, <1>c

\* Every word of the program decodes to an instruction.
LEMMA FetchType ==
  ASSUME NEW prog, IsProgram(prog), NEW a
  PROVE  IsInstruction(Fetch(prog.code, a), DOMAIN prog.regs)
  <1> DEFINE slot == a - (a % 2)
  <1>1. \A x \in DOMAIN prog.code : IsInstruction(prog.code[x], DOMAIN prog.regs)
    BY DEF IsProgram
  <1>2. IsInstruction(Unassigned, DOMAIN prog.regs)
    <2>1. Unassigned.op = "ILLEGAL" /\ Unassigned.rd = 0 /\ Unassigned.rs1 = 0 /\ Unassigned.imm = 0
          /\ Unassigned.width = 0 /\ Unassigned.pcrel \in BOOLEAN
      BY DEF Unassigned
    <2> QED BY <2>1 DEF IsInstruction, Opcodes, Word, WordBytes
  <1>3. Fetch(prog.code, a) = IF slot \in DOMAIN prog.code THEN prog.code[slot] ELSE Unassigned
    BY DEF Fetch
  <1> HIDE DEF slot
  <1> QED BY <1>1, <1>2, <1>3

-----------------------------------------------------------------------------
\* One edge of an idle LSU takes the request; one of a busy LSU ends the
\* request, ends its first beat, or waits.
LEMMA LsuNext ==
  ASSUME NEW l, NEW bus, NEW request, NEW m, NEW n, n = LsuClock(l, bus, request, m),
         DOMAIN l = {"st", "started", "req", "first", "wd"}
  PROVE  /\ DOMAIN n = {"st", "started", "req", "first", "wd"}
         /\ l.started \in BOOLEAN => n.started \in BOOLEAN
         /\ LsuReady(l) /\ request = <<>> => n = l
         /\ LsuReady(l) /\ request # <<>> =>
               n.st = "FIRST" /\ ~n.started /\ n.req = request[1] /\ n.wd = 0
         /\ LsuActive(l) /\ LsuDone(l, bus) => n = LsuReset
         /\ LsuActive(l) /\ ~LsuDone(l, bus) =>
               /\ n.req = l.req
               /\ BeatTaken(l, bus) =>
                     /\ n.st = "SECOND" /\ ~n.started /\ n.first = BusWord(m, l.req.addr)
                     /\ n.wd = IF bus = "wait" /\ ~LsuWatchdog(l) THEN l.wd + 1 ELSE 0
               /\ ~BeatTaken(l, bus) =>
                     /\ n.st = l.st /\ n.first = l.first /\ n.started
                     /\ n.wd = IF bus = "wait" /\ ~LsuWatchdog(l) THEN l.wd + 1 ELSE 0
         /\ LsuDone(l, bus) => LsuActive(l) /\ l.started
  <1> DEFINE wd == IF LsuActive(l) /\ bus = "wait" /\ ~LsuWatchdog(l) THEN l.wd + 1 ELSE 0
  <1>1. (LsuDone(l, bus) => LsuActive(l) /\ l.started) /\ (BeatTaken(l, bus) => LsuActive(l) /\ l.started)
    BY DEF LsuDone, LsuError, BeatTaken
  <1>2. CASE LsuReady(l) /\ request = <<>>
    BY <1>1, <1>2 DEF LsuClock, LsuReady, LsuActive
  <1>3. CASE LsuReady(l) /\ request # <<>>
    <2>1. n = [LsuReset EXCEPT !.st = "FIRST", !.req = request[1]]
      BY <1>3 DEF LsuClock
    <2>2. /\ n.req = request[1] /\ DOMAIN n = {"st", "started", "req", "first", "wd"}
          /\ n.st = "FIRST" /\ ~n.started /\ n.started \in BOOLEAN /\ n.wd = 0
      BY <2>1 DEF LsuReset
    <2> QED BY <1>1, <1>3, <2>2 DEF LsuReady, LsuActive
  <1>4. CASE LsuActive(l) /\ ~l.started
    <2>1. n = [l EXCEPT !.started = TRUE, !.wd = wd]
      BY <1>4 DEF LsuClock, LsuReady, LsuActive
    <2>2. wd = IF bus = "wait" /\ ~LsuWatchdog(l) THEN l.wd + 1 ELSE 0
      BY <1>4
    <2> HIDE DEF wd
    <2>3. /\ n.req = l.req /\ DOMAIN n = {"st", "started", "req", "first", "wd"}
          /\ n.st = l.st /\ n.first = l.first /\ n.started /\ n.started \in BOOLEAN /\ n.wd = wd
      BY <2>1
    <2> QED BY <1>1, <1>4, <2>2, <2>3 DEF LsuReady, LsuActive
  <1>5. CASE LsuActive(l) /\ l.started /\ LsuDone(l, bus)
    <2>1. n = LsuReset
      BY <1>1, <1>5 DEF LsuClock, LsuReady, LsuActive
    <2>2. n.started \in BOOLEAN /\ n.st = "IDLE" /\ DOMAIN n = {"st", "started", "req", "first", "wd"}
      BY <2>1 DEF LsuReset
    <2> QED BY <1>1, <1>5, <2>1, <2>2 DEF LsuReady, LsuActive
  <1>6. CASE LsuActive(l) /\ l.started /\ ~LsuDone(l, bus)
    <2>1. wd = IF bus = "wait" /\ ~LsuWatchdog(l) THEN l.wd + 1 ELSE 0
      BY <1>6
    <2>2. CASE BeatTaken(l, bus)
      <3>1. n = [l EXCEPT !.st = "SECOND", !.started = FALSE, !.wd = wd, !.first = BusWord(m, l.req.addr)]
        BY <1>6, <2>2 DEF LsuClock, LsuReady, LsuActive
      <3> HIDE DEF wd
      <3>2. /\ n.req = l.req /\ DOMAIN n = {"st", "started", "req", "first", "wd"}
            /\ n.st = "SECOND" /\ n.first = BusWord(m, l.req.addr) /\ ~n.started /\ n.wd = wd
            /\ n.started \in BOOLEAN
        BY <3>1
      <3> QED BY <1>6, <2>1, <2>2, <3>2 DEF LsuReady, LsuActive
    <2>3. CASE ~BeatTaken(l, bus)
      <3>1. n = [l EXCEPT !.wd = wd]
        BY <1>6, <2>3 DEF LsuClock, LsuReady, LsuActive
      <3> HIDE DEF wd
      <3>2. /\ n.req = l.req /\ DOMAIN n = {"st", "started", "req", "first", "wd"}
            /\ n.st = l.st /\ n.first = l.first /\ n.started = l.started /\ n.wd = wd
        BY <3>1
      <3> QED BY <1>6, <2>1, <2>3, <3>2 DEF LsuReady, LsuActive
    <2> QED BY <2>2, <2>3
  <1> QED BY <1>2, <1>3, <1>4, <1>5, <1>6 DEF LsuReady, LsuActive
=============================================================================
