------------------------------- MODULE V4Lsu -------------------------------
(***************************************************************************)
(* Little64V4LSU: the V3 unit without the cycle between the start of a     *)
(* beat and the first look at its answer.                                  *)
(***************************************************************************)
EXTENDS Lsu

Started(l) == [l EXCEPT !.started = TRUE]

V4LsuReset == Started(LsuReset)

\* response_valid, response_error
V4LsuDone(l, bus) == LsuDone(Started(l), bus)
V4LsuError(l, bus) == LsuError(Started(l), bus)

\* One edge: a beat is looked at in its first cycle.
V4LsuClock(l, bus, request, mem) == Started(LsuClock(Started(l), bus, request, mem))
=============================================================================
