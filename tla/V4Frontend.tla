----------------------------- MODULE V4Frontend -----------------------------
(***************************************************************************)
(* Little64V4FetchFrontend: a direct-mapped cache of fetch lines, one      *)
(* prefetched line beside it and one bus request, for the line that is     *)
(* needed or for the one that follows.                                     *)
(*                                                                         *)
(* The programs do not store into their own code, so a line's data is the  *)
(* code at its base and the store update of a line is left out.            *)
(***************************************************************************)
EXTENDS L64

CONSTANTS
    FetchLines,     \* entries
    FetchTimeout    \* bus_timeout_cycles

\* lines: <<>> or <<line number>> by index; ahead: the prefetched line
V4FrontendReset ==
    [lines |-> [i \in 0 .. (FetchLines - 1) |-> <<>>], ahead |-> <<>>, req |-> FALSE,
     cancelled |-> FALSE, prefetch |-> FALSE, rbase |-> 0, wd |-> 0]

Present(f, line) == f.lines[line % FetchLines] = <<line>>

\* instruction_valid
V4LineHit(f, line) == Present(f, line) \/ f.ahead = <<line>>

V4FetchWatchdog(f) == f.req /\ f.wd = FetchTimeout
\* mutant: the watchdog does not answer
V4FetchErrSilent(f, bus) == bus = "err"
V4FetchErr(f, bus) == bus = "err" \/ V4FetchWatchdog(f)

\* fetch_error: the error of a cancelled request or of a prefetch is nobody's
V4FetchError(f, bus) == f.req /\ ~f.cancelled /\ ~f.prefetch /\ V4FetchErr(f, bus)

\* prefetch_needed, once the fetch is past the first slot of its line
NextLine(line) == (line + 1) % 64
PrefetchNeeded(f, pc) ==
    /\ pc % WordBytes > 1 /\ ~f.req
    /\ ~V4LineHit(f, NextLine(LineOf(pc)))

\* the answer of the bus, or the first use of the prefetched line, fills an
\* entry; the cache has one write port and the answer has it first
Filled(f, bus, line) ==
    IF f.req /\ bus = "ack" /\ ~V4FetchErr(f, bus) /\ ~f.cancelled /\ ~f.prefetch
    THEN [f.lines EXCEPT ![f.rbase % FetchLines] = <<f.rbase>>]
    ELSE IF f.ahead = <<line>> /\ ~Present(f, line)
    THEN [f.lines EXCEPT ![line % FetchLines] = <<line>>]
    ELSE f.lines

\* One edge; pc is the physical address of the fetch.  An invalidate drops
\* every line and cancels the request that is out.
V4FrontendClock(f, bus, pc, invalidate) ==
    LET line == LineOf(pc)
        done == f.req /\ (bus = "ack" \/ V4FetchErr(f, bus))
        wd == IF f.req /\ bus = "wait" /\ ~V4FetchWatchdog(f) THEN f.wd + 1 ELSE 0
        ahead == IF done /\ bus = "ack" /\ ~V4FetchErr(f, bus) /\ ~f.cancelled /\ f.prefetch
                 THEN <<f.rbase>> ELSE f.ahead
        g == [f EXCEPT !.lines = Filled(f, bus, line), !.ahead = ahead, !.wd = wd]
    IN IF invalidate
       THEN [V4FrontendReset EXCEPT !.req = f.req /\ ~done, !.cancelled = f.req /\ ~done,
                                    !.prefetch = f.prefetch /\ ~done,
                                    !.rbase = IF done THEN 0 ELSE f.rbase, !.wd = wd]
       ELSE IF ~V4LineHit(f, line) /\ ~f.req
       THEN [g EXCEPT !.req = TRUE, !.prefetch = FALSE, !.rbase = line]
       ELSE IF Present(f, line) /\ PrefetchNeeded(f, pc)
       THEN [g EXCEPT !.req = TRUE, !.prefetch = TRUE, !.rbase = NextLine(line)]
       ELSE IF done
       THEN [g EXCEPT !.req = FALSE, !.cancelled = FALSE, !.prefetch = FALSE, !.rbase = 0]
       ELSE g
=============================================================================
