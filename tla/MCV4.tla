-------------------------------- MODULE MCV4 --------------------------------
(***************************************************************************)
(* The named programs on which the core departs from the program's machine *)
(* are left out: OddJump, BranchOnScr, PagedIrq, PagedStop, PagedReturn,   *)
(* StoreInReservation, StoreThenLoad, OverlappingStores, StoreThenCall and *)
(* FaultingPush.  The sequences load and store half words, which the data  *)
(* cache does not keep.                                                    *)
(***************************************************************************)
EXTENDS V4Core, MCPrograms

McPrograms ==
    CommonPrograms
    \cup Sequences3(Menu(2))
    \cup {CachedPush, CachedThenLoad, TwoConditionals, TightLoop, LoadUnderIrq,
          StoresUnderIrq}

\* for the run on one program
StoreInReservationOnly == {StoreInReservation}
=============================================================================
