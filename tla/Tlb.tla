-------------------------------- MODULE Tlb --------------------------------
(***************************************************************************)
(* The software TLB of Little64CPU: direct-mapped, filled by every         *)
(* successful walk while paging is on, never told about stores to page     *)
(* tables, not flushed on trap entry.                                      *)
(***************************************************************************)
EXTENDS Mmu

CONSTANT TlbSize   \* kTLBSize

ASSUME TlbAssumption == TlbSize \in Nat /\ TlbSize > 0

VARIABLE tlb

vars == <<mem, root, paging, user, saved, run, stale, out, tlb>>

NoPage == -1       \* vpage = UINT64_MAX, which no address has
Slots  == 0 .. (TlbSize - 1)
Slot(v) == v % TlbSize

TLBEntry == [vpage : Pages \cup {NoPage}, pbase : VPages,
             perms : SUBSET Access, user_accessible : BOOLEAN]

NoEntry == [vpage |-> NoPage, pbase |-> 0, perms |-> {},
            user_accessible |-> FALSE]

Empty == [i \in Slots |-> NoEntry]

flushTLB == tlb' = Empty

TypeOK == MmuTypeOK /\ tlb \in [Slots -> TLBEntry]

Init == MmuInit /\ tlb = Empty

-----------------------------------------------------------------------------
\* (Definitions named after a slip, here and in the other modules, are the
\* mutants that PROJECT.json pairs with the definition below them.)

HitAnyAccess(v, a) ==
    LET e == tlb[Slot(v)] IN e.vpage = v /\ (~user \/ e.user_accessible)

\* _mapAddress, the inline fast path
Hit(v, a) ==
    LET e == tlb[Slot(v)] IN
    /\ e.vpage = v
    /\ a \in e.perms
    /\ ~user \/ e.user_accessible

FastPath(v, odd, a) == ~(a = "X" /\ odd) /\ (~paging \/ Hit(v, a))

FastResult(v) == Mapped(IF paging THEN tlb[Slot(v)].pbase ELSE v)

FilledUnshifted(v, a, frame) ==
    [tlb EXCEPT ![Slot(v)] = [vpage |-> v, pbase |-> frame * 4096,
                              perms |-> {a}, user_accessible |-> user]]

FilledKeepingPerms(v, a, frame) ==
    [tlb EXCEPT ![Slot(v)] = [vpage |-> v, pbase |-> frame,
                              perms |-> @.perms \cup {a},
                              user_accessible |-> user]]

\* _mapAddressSlowPath: what a successful walk leaves in the slot
Filled(v, a, frame) ==
    IF tlb[Slot(v)].vpage = v
    THEN [tlb EXCEPT ![Slot(v)].perms = @ \cup {a}]
    ELSE [tlb EXCEPT ![Slot(v)] = [vpage |-> v, pbase |-> frame,
                                   perms |-> {a}, user_accessible |-> user]]

\* _mapAddress: the outcome handed to the instruction, and the TLB after it
Outcome(v, odd, a) ==
    IF FastPath(v, odd, a) THEN FastResult(v)
    ELSE Translate(mem, root, paging, v, odd, user, a)

Refilled(v, odd, a) ==
    IF ~FastPath(v, odd, a) /\ paging /\ Outcome(v, odd, a).valid
    THEN Filled(v, a, Outcome(v, odd, a).frame)
    ELSE tlb

\* a load (R) or a fetch (X)
Read(v, odd, a) ==
    /\ run
    /\ Finish(v, a, Outcome(v, odd, a))
    /\ tlb' = Refilled(v, odd, a)
    /\ UNCHANGED <<mem, stale>>

\* A store of a page-table entry, itself translated.
Store(v, i, pte) ==
    LET r == Outcome(v, FALSE, "W") IN
    /\ run
    /\ Finish(v, "W", r)
    /\ tlb' = Refilled(v, FALSE, "W")
    /\ Poke(IF r.valid THEN Write(r.frame, i, pte) ELSE mem)

TlbDmaWrite(frame, i, pte) == DmaWrite(frame, i, pte) /\ UNCHANGED tlb
TlbTrap == Trap /\ UNCHANGED tlb
TlbSsrCpuControl(c) == SsrCpuControl(c) /\ flushTLB
TlbSsrRootUnflushed(r) == SsrRoot(r) /\ UNCHANGED tlb

TlbSsrRoot(r) == SsrRoot(r) /\ flushTLB
TlbSsrSaved(c) == SsrSaved(c) /\ UNCHANGED tlb

TlbIretUnflushed == Iret /\ UNCHANGED tlb

TlbIret == Iret /\ flushTLB
TlbReset == Reset /\ flushTLB

Next ==
    \/ \E v \in Pages : Read(v, FALSE, "R")
    \/ \E v \in Pages, odd \in BOOLEAN : Read(v, odd, "X")
    \/ \E v \in Pages, i \in Idx, p \in PteChoices : Store(v, i, p)
    \/ \E f \in Ram, i \in Idx, p \in PteChoices : TlbDmaWrite(f, i, p)
    \/ TlbTrap
    \/ \E c \in Control : TlbSsrCpuControl(c)
    \/ \E c \in Control : TlbSsrSaved(c)
    \/ \E r \in RootChoices : TlbSsrRoot(r)
    \/ TlbIret
    \/ TlbReset

Spec == Init /\ [][Next]_vars

-----------------------------------------------------------------------------
\* An entry answers only what a walk of the present tables answers, in
\* either mode: the supervisor walk maps the page to pbase for every cached
\* permission, and so does the user walk if the entry is user_accessible.
SoundIn(m, r, e) ==
    /\ e.perms # {}
    /\ \A a \in e.perms :
          /\ Walk(m, r, e.vpage, FALSE, a) = Mapped(e.pbase)
          /\ e.user_accessible =>
                Walk(m, r, e.vpage, TRUE, a) = Mapped(e.pbase)

\* Every cached translation is sound unless the page tables changed under
\* it since the last flush.  Fills of a page in one mode and hits in the
\* other, and permission bits added one access at a time in either mode,
\* must never add up to an access that a walk would refuse.
EntriesSound ==
    \A i \in Slots :
        LET e == tlb[i] IN
        e.vpage # NoPage /\ e.vpage \notin stale => SoundIn(mem, root, e)

\* In user mode no cached translation is one that was filled by the
\* supervisor: trap entry leaves the TLB alone, so every way back to user
\* mode (IRET, SSR to cpu_control) has to flush it.
UserSeesUserEntries ==
    user => \A i \in Slots :
                tlb[i].vpage # NoPage => tlb[i].user_accessible

\* What the argument for the TLB carries from step to step.
IInv == TypeOK /\ EntriesSound /\ UserSeesUserEntries

\* The TLB is invisible to an access: whatever it is asked, in whatever
\* mode and whatever it has cached, _mapAddress answers what a walk of the
\* tables would answer, or the page is stale.
OutcomeAllowed ==
    \A v \in Pages, odd \in BOOLEAN, a \in Access :
        Outcome(v, odd, a) \in Allowed(v, odd, a)

\* The CPU with the TLB implements the CPU that walks on every access: no
\* sequence of steps gives an access an answer, or leaves memory or the
\* control bits in a state, that the walking CPU could not.
Transparent == MmuSpec
=============================================================================
