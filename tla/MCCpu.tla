------------------------------- MODULE MCCpu -------------------------------
(***************************************************************************)
(* Two even addresses and two odd ones, one handler that all vectors       *)
(* share, two page faults of different rank, two IRQs.                     *)
(***************************************************************************)
EXTENDS Cpu

MCPageFaults == {5, 6}
MCIrqs == {65, 66}
MCMaskValues == {MCIrqs}

\* A user process with IRQs on, and a handler of the lower-ranking IRQ that
\* has turned IRQs on again.
MCCtlValues ==
    {[ie |-> TRUE, inInt |-> FALSE, cur |-> 0, paging |-> TRUE, user |-> TRUE],
     [ie |-> TRUE, inInt |-> TRUE, cur |-> 66, paging |-> TRUE, user |-> FALSE]}
=============================================================================
