-------------------------------- MODULE Lsu --------------------------------
(***************************************************************************)
(* Little64V3LSU (the V2 unit holds the same logic): one data bus request  *)
(* at a time, in one beat or, when it crosses a bus word, in two, each     *)
(* with one cycle before its answer is looked at, and a watchdog that      *)
(* answers for a silent bus.                                               *)
(*                                                                         *)
(* A request is [kind, addr, width, write, value].  The kinds "pte" and    *)
(* "vec" read one entry of the page tables or of the interrupt table; they *)
(* are aligned words in the code and never split.                          *)
(***************************************************************************)
EXTENDS L64

CONSTANTS BusTimeout    \* bus_timeout_cycles

NoRequest == [kind |-> "data", addr |-> 0, width |-> 0, write |-> FALSE, value |-> 0]

NoBytes == [i \in 0 .. 3 |-> 0]

LsuReset == [st |-> "IDLE", started |-> FALSE, req |-> NoRequest, first |-> NoBytes, wd |-> 0]

LsuReady(l) == l.st = "IDLE"
LsuActive(l) == l.st # "IDLE"

\* the bytes left in the bus word the request starts in
Room(r) == WordBytes - (r.addr % WordBytes)
SplitNeeded(r) == r.kind = "data" /\ r.width > Room(r)

\* mutant: the watchdog does not answer
LsuErrSilent(l, bus) == bus = "err"

\* watchdog_fire and effective_err
LsuWatchdog(l) == LsuActive(l) /\ l.wd = BusTimeout
LsuErr(l, bus) == bus = "err" \/ LsuWatchdog(l)

\* A beat ends with an error or with its acknowledge.
BeatTaken(l, bus) == LsuActive(l) /\ l.started /\ ~LsuErr(l, bus) /\ bus = "ack"
LsuError(l, bus) == LsuActive(l) /\ l.started /\ LsuErr(l, bus)

\* response_valid
LsuDone(l, bus) ==
    LsuError(l, bus) \/ (BeatTaken(l, bus) /\ (l.st = "SECOND" \/ ~SplitNeeded(l.req)))

\* bus.adr, bus.sel and the lanes of the current beat, as offsets from addr
BeatLanes(l) ==
    IF ~SplitNeeded(l.req) THEN 0 .. (l.req.width - 1)
    ELSE IF l.st = "FIRST" THEN 0 .. (Room(l.req) - 1)
    ELSE Room(l.req) .. (l.req.width - 1)

\* The bytes of the second beat join the first's.
Joined(l, second, i) ==
    IF i < Room(l.req) THEN l.first[(l.req.addr % WordBytes) + i] ELSE second[i - Room(l.req)]

\* response_load_value
LsuLoad(l, mem) ==
    CASE l.req.kind = "pte" -> PteAt(l.req.addr)
      [] l.req.kind = "vec" -> HandlerAt(l.req.addr)
      [] l.req.kind = "data" /\ ~SplitNeeded(l.req) -> LoadBytes(mem, l.req.addr, l.req.width)
      [] l.req.kind = "data" /\ SplitNeeded(l.req) ->
            WordOf([i \in 0 .. 3 |->
                IF i < l.req.width THEN Joined(l, BusWord(mem, l.req.addr + Room(l.req)), i) ELSE 0])

\* The memory behind the bus performs a write in the beat it acknowledges.
LsuMemory(l, bus, mem) ==
    IF BeatTaken(l, bus) /\ l.req.write
    THEN StoreBytes(mem, l.req.addr, BeatLanes(l), l.req.value) ELSE mem

\* One edge; request is <<>> or <<request>>
LsuClock(l, bus, request, mem) ==
    LET wd == IF LsuActive(l) /\ bus = "wait" /\ ~LsuWatchdog(l) THEN l.wd + 1 ELSE 0 IN
    IF LsuReady(l)
    THEN IF request = <<>> THEN l
         ELSE [LsuReset EXCEPT !.st = "FIRST", !.req = request[1]]
    ELSE IF ~l.started THEN [l EXCEPT !.started = TRUE, !.wd = wd]
    ELSE IF LsuDone(l, bus) THEN LsuReset
    ELSE IF BeatTaken(l, bus)
         THEN [l EXCEPT !.st = "SECOND", !.started = FALSE, !.wd = wd,
                        !.first = BusWord(mem, l.req.addr)]
         ELSE [l EXCEPT !.wd = wd]
=============================================================================
