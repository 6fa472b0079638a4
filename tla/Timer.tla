------------------------------- MODULE Timer -------------------------------
(***************************************************************************)
(* TimerDevice, the EmulatorClock that drives it and the order in which    *)
(* cycle() runs them: the guest's instruction, then the device's tick,     *)
(* then the clock's.                                                       *)
(*                                                                         *)
(* Only differences of times matter to the device, so a deadline is kept   *)
(* as what is left until it: _next_cycle_fire - cycles(), or 0 once that   *)
(* is not positive, and the same for the virtual nanoseconds.              *)
(***************************************************************************)
EXTENDS Integers

CONSTANTS
    Intervals,       \* values the guest writes to the interval registers
    Advances,        \* nanoseconds that may pass between two samples
    SampleInterval   \* kClockSampleInterval

ASSUME TimerAssumption ==
    /\ Intervals \subseteq Nat /\ 0 \in Intervals
    /\ Advances \subseteq Nat
    /\ SampleInterval \in Nat /\ SampleInterval > 1

VARIABLES
    timer,    \* the device's registers, and bit 66 of the pending bank
    paused,   \* EmulatorClock::_paused
    phase,    \* cycles() modulo the sample interval
    op        \* ghost: what the guest or the host did last

vars == <<timer, paused, phase, op>>

Registers ==
    [civ : Nat, cleft : Nat, tiv : Nat, tleft : Nat, fired : BOOLEAN,
     pend : BOOLEAN]

TypeOK ==
    /\ timer \in Registers
    /\ paused \in BOOLEAN
    /\ phase \in 0 .. (SampleInterval - 1)
    /\ op \in {"idle", "ack", "cycle", "time", "load", "reset"}

\* TimerDevice::reset(); the pending bank is cleared with the registers
Fresh == [civ |-> 0, cleft |-> 0, tiv |-> 0, tleft |-> 0, fired |-> FALSE,
          pend |-> FALSE]

Init ==
    /\ timer = Fresh
    /\ paused = TRUE
    /\ phase = 0
    /\ op = "load"

-----------------------------------------------------------------------------
Left(n, d) == IF n > d THEN n - d ELSE 0

\* write64 to offset 16 and to offset 24
SetCycleInterval(s, v) ==
    IF v # 0 THEN [s EXCEPT !.civ = v, !.cleft = v, !.fired = FALSE]
             ELSE [s EXCEPT !.civ = 0, !.pend = FALSE]

SetTimeInterval(s, v) ==
    IF v # 0 THEN [s EXCEPT !.tiv = v, !.tleft = v, !.fired = FALSE]
             ELSE [s EXCEPT !.tiv = 0, !.pend = FALSE]

\* TimerDevice::tick()
CycleDue(s) == s.civ # 0 /\ s.cleft = 0
TimeDue(s)  == s.tiv # 0 /\ s.tleft = 0
ShouldFire(s) == CycleDue(s) \/ TimeDue(s)

\* (TickedOnce, TickedLate, ClockedUnclamped and ElapsedAlways are the mutants
\* that PROJECT.json pairs with the definitions below them.)
TickedOnce(s) ==
    [s EXCEPT !.cleft = IF CycleDue(s) THEN s.civ ELSE s.cleft,
              !.tleft = IF TimeDue(s) THEN s.tiv ELSE s.tleft,
              !.pend  = IF ShouldFire(s) /\ ~s.fired THEN TRUE ELSE s.pend,
              !.fired = IF ShouldFire(s) THEN TRUE ELSE s.fired]

TickedLate(s) ==
    [s EXCEPT !.cleft = IF CycleDue(s) THEN s.civ ELSE s.cleft,
              !.tleft = IF TimeDue(s) THEN s.tiv ELSE s.tleft,
              !.pend  = IF s.fired THEN TRUE ELSE s.pend,
              !.fired = ShouldFire(s)]

Ticked(s) ==
    [s EXCEPT !.cleft = IF CycleDue(s) THEN s.civ ELSE s.cleft,
              !.tleft = IF TimeDue(s) THEN s.tiv ELSE s.tleft,
              !.pend  = IF ShouldFire(s) /\ ~s.fired THEN TRUE ELSE s.pend,
              !.fired = ShouldFire(s)]

ClockedUnclamped(s, d) ==
    IF paused THEN s ELSE [s EXCEPT !.cleft = @ - 1, !.tleft = Left(@, d)]

\* EmulatorClock::tick(): nanoseconds are read from the host every
\* SampleInterval cycles only.
Clocked(s, d) ==
    IF paused THEN s ELSE [s EXCEPT !.cleft = Left(@, 1), !.tleft = Left(@, d)]

NextPhase == IF phase + 1 = SampleInterval THEN 0 ELSE phase + 1

ElapsedAlways == Advances

Elapsed == IF NextPhase = 0 THEN Advances ELSE {0}

\* One cycle() whose instruction leaves the device in state s.
Cycle(s) ==
    /\ \E d \in Elapsed : timer' = Clocked(Ticked(s), d)
    /\ phase' = IF paused THEN phase ELSE NextPhase
    /\ UNCHANGED paused

Idle == Cycle(timer) /\ op' = "idle"

\* SSR of interrupt_states_high, the only acknowledgement there is
Acknowledge == Cycle([timer EXCEPT !.pend = FALSE]) /\ op' = "ack"

WriteCycleInterval(v) == Cycle(SetCycleInterval(timer, v)) /\ op' = "cycle"

WriteTimeInterval(v) == Cycle(SetTimeInterval(timer, v)) /\ op' = "time"

\* loadProgram and loadProgramElf: new devices, the clock as it was
LoadProgram ==
    /\ timer' = Fresh
    /\ op' = "load"
    /\ UNCHANGED <<paused, phase>>

\* Little64CPU::reset() and the loaders that resume the clock
ResetOrBoot ==
    /\ timer' = Fresh
    /\ paused' = FALSE
    /\ op' = "reset"
    /\ UNCHANGED phase

Step ==
    \/ Idle
    \/ Acknowledge
    \/ \E v \in Intervals : WriteCycleInterval(v)
    \/ \E v \in Intervals : WriteTimeInterval(v)

Next == Step \/ LoadProgram \/ ResetOrBoot

\* The run loop calls cycle() for as long as the CPU runs.
Spec == Init /\ [][Next]_vars /\ WF_vars(Step)

-----------------------------------------------------------------------------
\* A cycle in which the guest leaves the intervals alone.
Quiet == op' \in {"idle", "ack"}

CycleOnly(s) == s.civ > 1 /\ s.tiv = 0
TimeOnly(s)  == s.civ = 0 /\ s.tiv # 0

\* A deadline of the only source in use is never swallowed by the flag that
\* keeps one cycle from firing twice: the tick that finds it due raises the
\* line, whatever was disabled, rewritten or acknowledged before.
OnTime ==
    [][Quiet /\ ((CycleOnly(timer) /\ CycleDue(timer))
                  \/ (TimeOnly(timer) /\ TimeDue(timer)))
          => timer'.pend]_vars

\* What makes it so: the flag is left set only while the next deadline of
\* that source is ahead.
FlagIsBehind ==
    timer.fired => /\ CycleOnly(timer) => timer.cleft > 0
                   /\ TimeOnly(timer) => timer.tleft > 0

\* And what makes that so for nanoseconds, which may advance by more than an
\* interval at once: a time deadline is found due only in the cycle after a
\* sample, so at least one tick that clears the flag lies between two.
DueAfterSample == TimeDue(timer) => phase = 0

\* What the argument for OnTime carries from step to step.
IInv == TypeOK /\ FlagIsBehind /\ DueAfterSample

\* A guest that programs a cycle interval and then only acknowledges gets
\* the interrupt again and again once the clock runs, unless it is disarmed.
ArmedFires ==
    <>[][Quiet]_vars =>
        [](~paused /\ CycleOnly(timer) => <>(timer.pend \/ ~CycleOnly(timer)))
=============================================================================
