------------------------------ MODULE MCBasic -------------------------------
(***************************************************************************)
(* All named programs but FaultingPush, on which the core moves the stack  *)
(* pointer before it finds that the store faults; for the same reason no   *)
(* PUSH in the sequences under paging.                                     *)
(***************************************************************************)
EXTENDS BasicCore, MCPrograms

McPrograms ==
    CommonPrograms
    \cup Sequences3(Menu(4)) \cup Sequences3(AtomicMenu)
    \cup PagedSequences3(Menu(4) \ {Push(3, 2)})
    \cup {OddJump, BranchOnScr, LoadUnderIrq, StoresUnderIrq, PagedIrq, PagedReturn,
          StoreInReservation, StoreThenLoad, OverlappingStores, StoreThenCall, TightLoop, PagedStop,
          CachedPush, TwoConditionals}
=============================================================================
