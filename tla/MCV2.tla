-------------------------------- MODULE MCV2 --------------------------------
(***************************************************************************)
(* All named programs but CachedPush, CachedThenLoad and TwoConditionals.  *)
(* A load that the data cache answers leaves its bus request behind, and   *)
(* the answer may reach the next access: the sequences under paging        *)
(* therefore fill no cache line, and the watchdog is short.                *)
(***************************************************************************)
EXTENDS V2Core, MCPrograms

McPrograms ==
    CommonPrograms
    \cup Sequences3(Menu(4)) \cup Sequences3(AtomicMenu)
    \cup PagedSequences3(Menu(2) \ {Pop(3, 2)})
    \cup {OddJump, BranchOnScr, LoadUnderIrq, StoresUnderIrq, PagedIrq, PagedReturn,
          StoreInReservation, StoreThenLoad, OverlappingStores, StoreThenCall, TightLoop,
          PagedStop, FaultingPush}

\* for the run on one program
CachedPushOnly == {CachedPush}
=============================================================================
