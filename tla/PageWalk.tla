------------------------------ MODULE PageWalk ------------------------------
(***************************************************************************)
(* The page walk of the V3 and V4 cores, one level at a time, the checks   *)
(* made before a walk starts, and the translation they add up to.          *)
(***************************************************************************)
EXTENDS SpecialRegisters

\* A trap as the core records it, and the five registers it fills
TrapInfo(cause, addr, access, pc, aux) ==
    [cause |-> cause, addr |-> addr, access |-> access, pc |-> pc, aux |-> aux]

\* walk_index, walk_pte_addr
WalkPteAddr(table, level, page) ==
    table * PageBytes
        + (CASE level = 2 -> P!Idx2(page)
             [] level = 1 -> P!Idx1(page)
             [] level = 0 -> P!Idx0(page))

WalkIsLeaf(pte) == pte.perm # {}

\* walk_permission_ok and walk_user_ok
WalkAllowed(pte, access, user) == access \in pte.perm /\ (~user \/ pte.U)

\* walk_fault, walk_fault_cause and walk_fault_aux: <<>> or <<cause, aux>>
WalkFault(pte, level, access, user) ==
    CASE ~pte.V -> <<PAGE_FAULT_NOT_PRESENT, EncodeAux(1, level)>>
      [] pte.V /\ pte.rsv -> <<PAGE_FAULT_RESERVED, EncodeAux(4, level)>>
      [] pte.V /\ ~pte.rsv /\ level = 0 /\ ~WalkIsLeaf(pte) ->
            <<PAGE_FAULT_RESERVED, EncodeAux(2, 0)>>
      [] pte.V /\ ~pte.rsv /\ WalkIsLeaf(pte) /\ ~WalkAllowed(pte, access, user) ->
            <<PAGE_FAULT_PERMISSION, EncodeAux(3, level)>>
      [] OTHER -> <<>>

\* walk_page_mask, walk_result_phys: a leaf above level 0 maps a superpage
WalkPage(pte, level, page) == (pte.ppn + (page % 2^level)) % (256 \div PageBytes)
WalkPhys(pte, level, va) == WalkPage(pte, level, PageOf(va)) * PageBytes + OffsetOf(va)

\* The address and the root are checked before the walk; root_misaligned and
\* ~is_canonical39
EntryFault(va, sr) ==
    CASE ~Canonical(va) -> <<PAGE_FAULT_CANONICAL, EncodeAux(5, 2)>>
      [] Canonical(va) /\ ~RootAligned(sr[PAGE_TABLE_ROOT]) ->
            <<PAGE_FAULT_RESERVED, EncodeAux(4, 2)>>
      [] OTHER -> <<>>

\* The whole walk from one level down, as a reference for the walk machine
WalkEntry(table, level, page) == PteAt(WalkPteAddr(table, level, page))
WalkStops(pte, level, access, user) ==
    WalkFault(pte, level, access, user) # <<>> \/ WalkIsLeaf(pte)
WalkEnd(pte, level, page, access, user) ==
    LET fault == WalkFault(pte, level, access, user) IN
    [page |-> IF fault # <<>> THEN 0 ELSE WalkPage(pte, level, page), fault |-> fault]

WalkFrom0(table, page, access, user) ==
    WalkEnd(WalkEntry(table, 0, page), 0, page, access, user)
WalkFrom1(table, page, access, user) ==
    LET pte == WalkEntry(table, 1, page) IN
    IF WalkStops(pte, 1, access, user) THEN WalkEnd(pte, 1, page, access, user)
    ELSE WalkFrom0(pte.ppn, page, access, user)
WalkFrom2(table, page, access, user) ==
    LET pte == WalkEntry(table, 2, page) IN
    IF WalkStops(pte, 2, access, user) THEN WalkEnd(pte, 2, page, access, user)
    ELSE WalkFrom1(pte.ppn, page, access, user)

\* What an access to va means: its physical address or its fault
Translate(va, access, sr) ==
    IF access = "X" /\ va % 2 = 1
    THEN [phys |-> 0, fault |-> <<EXEC_ALIGN, EncodeAux(0, 0)>>]
    ELSE IF ~PagingOn(sr[CPU_CONTROL]) THEN [phys |-> va, fault |-> <<>>]
    ELSE IF EntryFault(va, sr) # <<>> THEN [phys |-> 0, fault |-> EntryFault(va, sr)]
    ELSE LET r == WalkFrom2(PageOf(sr[PAGE_TABLE_ROOT]), PageOf(va), access,
                            UserMode(sr[CPU_CONTROL]))
         IN [phys |-> r.page * PageBytes + OffsetOf(va), fault |-> r.fault]
=============================================================================
