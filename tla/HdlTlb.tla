------------------------------- MODULE HdlTlb -------------------------------
(***************************************************************************)
(* Little64V3TLB (the V2 and basic TLBs hold the same logic): a direct-    *)
(* mapped translation buffer flushed in one cycle by moving to the next    *)
(* generation.  An entry is valid only in the generation that filled it.   *)
(***************************************************************************)
EXTENDS PageWalk

CONSTANTS
    TlbEntries,     \* entries, a power of two
    GenMax          \* the last generation before the counter wraps

ASSUME HdlTlbAssumption == TlbEntries \in Nat \ {0} /\ GenMax \in Nat

EmptyEntry == [valid |-> FALSE, gen |-> 0, tag |-> 0, page |-> 0, perm |-> {}, user |-> FALSE]

TlbReset == [gen |-> 0, entry |-> [i \in 0 .. (TlbEntries - 1) |-> EmptyEntry]]

TlbIndex(va) == PageOf(va) % TlbEntries

\* lookup_hit and the permission check of the core, tlb_hit_ok
TlbHit(t, va, access, user) ==
    LET e == t.entry[TlbIndex(va)] IN
    /\ e.valid /\ e.gen = t.gen /\ e.tag = PageOf(va)
    /\ access \in e.perm /\ (~user \/ e.user)

\* lookup_paddr
TlbPhys(t, va) == t.entry[TlbIndex(va)].page * PageBytes + OffsetOf(va)

\* the entries that can answer a lookup
Live(t) == {k \in DOMAIN t.entry : t.entry[k].valid /\ t.entry[k].gen = t.gen}

\* every translation a live entry answers with is the walk from the root
LiveAgree(t, root) ==
    \A e \in {t.entry[k] : k \in Live(t)} :
        \A access \in e.perm, user \in {FALSE, e.user} :
            WalkFrom2(root, e.tag, access, user) = [page |-> e.page, fault |-> <<>>]

\* mutant: the generation wraps and the entries stay
TlbFlushedWraps(t) == [t EXCEPT !.gen = IF t.gen = GenMax THEN 0 ELSE @ + 1]

\* A flush beats a fill.  When the generation wraps every entry is cleared.
TlbFlushed(t) ==
    IF t.gen = GenMax THEN TlbReset
    ELSE [gen |-> t.gen + 1, entry |-> t.entry]

\* fill_vpage, fill_ppage and the permissions of a walk that found its leaf
WalkFill(w) == <<PageOf(w.va), WalkPage(w.pte, w.level, PageOf(w.va)), w.pte>>

TlbFilled(t, vpage, ppage, pte) ==
    [gen |-> t.gen,
     entry |-> [t.entry EXCEPT ![vpage % TlbEntries] =
                  [valid |-> TRUE, gen |-> t.gen, tag |-> vpage, page |-> ppage,
                   perm |-> pte.perm, user |-> pte.U]]]

\* fill is <<>> or <<vpage, ppage, pte>>
TlbClock(t, flush, fill) ==
    IF flush THEN TlbFlushed(t)
    ELSE IF fill # <<>> THEN TlbFilled(t, fill[1], fill[2], fill[3]) ELSE t
=============================================================================
