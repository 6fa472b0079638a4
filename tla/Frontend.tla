------------------------------ MODULE Frontend ------------------------------
(***************************************************************************)
(* Little64V3FetchFrontend (the V2 frontend holds the same code): one      *)
(* fetch line and one bus request.  A request already on the bus cannot be *)
(* withdrawn: an invalidate cancels it and its answer is dropped.          *)
(*                                                                         *)
(* The programs do not store into their own code, so the line's data is    *)
(* the code at its base and the store update of the line is left out.      *)
(***************************************************************************)
EXTENDS Integers

CONSTANTS FetchTimeout      \* bus_timeout_cycles

FrontendReset ==
    [valid |-> FALSE, base |-> 0, req |-> FALSE, cancelled |-> FALSE, rbase |-> 0, wd |-> 0]

LineHit(f, line) == f.valid /\ f.base = line

FetchWatchdog(f) == f.req /\ f.wd = FetchTimeout
\* mutant: the watchdog does not answer
FetchErrSilent(f, bus) == bus = "err"
FetchErr(f, bus) == bus = "err" \/ FetchWatchdog(f)

\* fetch_error: the error of a cancelled request is nobody's
FetchError(f, bus) == f.req /\ ~f.cancelled /\ FetchErr(f, bus)

\* One edge; line is the line of the requested physical address
FrontendClock(f, bus, line, invalidate) ==
    LET done == f.req /\ (bus = "ack" \/ FetchErr(f, bus))
        wd == IF f.req /\ bus = "wait" /\ ~FetchWatchdog(f) THEN f.wd + 1 ELSE 0
    IN IF done
       THEN IF bus = "ack" /\ ~FetchErr(f, bus) /\ ~f.cancelled /\ ~invalidate
            THEN [FrontendReset EXCEPT !.valid = TRUE, !.base = f.rbase]
            ELSE FrontendReset
       ELSE IF invalidate
       THEN [FrontendReset EXCEPT !.req = f.req, !.cancelled = f.req,
                                  !.rbase = f.rbase, !.wd = wd]
       ELSE IF ~LineHit(f, line) /\ ~f.req
       THEN [f EXCEPT !.req = TRUE, !.cancelled = FALSE, !.rbase = line]
       ELSE [f EXCEPT !.wd = wd]
=============================================================================
