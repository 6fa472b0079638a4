-------------------------------- MODULE MCV3 --------------------------------
(***************************************************************************)
(* All named programs but OddJump, BranchOnScr, LoadUnderIrq,              *)
(* StoresUnderIrq, PagedIrq and PagedReturn, on which the core departs     *)
(* from the program's machine.                                             *)
(***************************************************************************)
EXTENDS V3Core, MCPrograms

McPrograms ==
    CommonPrograms
    \cup Sequences3(Menu(4)) \cup Sequences3(AtomicMenu)
    \cup PagedSequences3(Menu(4))
    \cup {StoreInReservation, StoreThenLoad, OverlappingStores, StoreThenCall, TightLoop,
          PagedStop, CachedPush, CachedThenLoad, TwoConditionals, FaultingPush}

\* for the run on one program
PagedIrqOnly == {PagedIrq}
=============================================================================
