---------------------------- MODULE TimerProofs ----------------------------
(***************************************************************************)
(* The timer's deadlines, for every set of intervals, every advance of the *)
(* host's clock and every sample interval above one.  Each cycle is the    *)
(* guest's effect on the device followed by Cycle, so the work is one      *)
(* lemma about Cycle(s), used for the four kinds of guest instruction.     *)
(***************************************************************************)
EXTENDS Timer, TLAPS

\* A state of the device that the guest's instruction may leave to the tick:
\* its registers, and a time deadline that is due only if it was before.
Handed(s) == s \in Registers /\ (TimeDue(s) => phase = 0)

\* What every elapsed time is, and when it can be more than nothing.
LEMMA ElapsedNat ==
    ASSUME NEW d \in Elapsed
    PROVE  d \in Nat /\ (d # 0 => NextPhase = 0)
BY TimerAssumption DEF Elapsed

\* What is left of a deadline after d is a number, and is more than nothing
\* exactly if d was less than what was left.
LEMMA LeftNat ==
    ASSUME NEW n \in Nat, NEW d \in Nat
    PROVE  Left(n, d) \in Nat /\ (Left(n, d) > 0 <=> n > d)
BY DEF Left

\* The clock's tick moves the two deadlines, or nothing if it is paused.
LEMMA ClockedShape ==
    ASSUME NEW r \in Registers, NEW d \in Nat
    PROVE  /\ Clocked(r, d) \in Registers
           /\ Clocked(r, d).cleft \in {r.cleft, Left(r.cleft, 1)}
           /\ Clocked(r, d).tleft \in {r.tleft, Left(r.tleft, d)}
<1>1. /\ r.cleft \in Nat /\ r.tleft \in Nat
      /\ Left(r.cleft, 1) \in Nat /\ Left(r.tleft, d) \in Nat
  BY LeftNat DEF Registers
<1>2. CASE paused
  BY <1>2 DEF Clocked
<1>3. CASE ~paused
  <2>1. Clocked(r, d) = [r EXCEPT !.cleft = Left(r.cleft, 1),
                                  !.tleft = Left(r.tleft, d)]
    BY <1>3 DEF Clocked
  <2> QED BY <1>1, <2>1 DEF Registers
<1> QED BY <1>2, <1>3

\* The device's tick and the clock's keep the registers what they are.
LEMMA TickTypes ==
    ASSUME NEW s \in Registers, NEW d \in Nat
    PROVE  Ticked(s) \in Registers /\ Clocked(Ticked(s), d) \in Registers
<1>1. Ticked(s) \in Registers
  BY DEF Ticked, ShouldFire, CycleDue, TimeDue, Registers
<1> QED BY <1>1, ClockedShape

\* One cycle re-establishes the invariant, whatever the flag was before it.
LEMMA CycleKeeps ==
    ASSUME NEW s, Handed(s), phase \in 0 .. (SampleInterval - 1),
           paused \in BOOLEAN, Cycle(s)
    PROVE  /\ timer' \in Registers /\ paused' \in BOOLEAN
           /\ phase' \in 0 .. (SampleInterval - 1)
           /\ FlagIsBehind' /\ DueAfterSample'
<1> USE TimerAssumption
<1>1. PICK d \in Elapsed : timer' = Clocked(Ticked(s), d)
  BY DEF Cycle
<1>2. d \in Nat /\ (d # 0 => NextPhase = 0)
  BY <1>1, ElapsedNat
<1>3. s \in Registers /\ timer' \in Registers
  BY <1>1, <1>2, TickTypes DEF Handed
<1>4. phase' \in 0 .. (SampleInterval - 1) /\ paused' = paused
  BY DEF Cycle, NextPhase
<1>5. FlagIsBehind'
  <2> SUFFICES ASSUME timer'.fired
               PROVE  /\ CycleOnly(timer') => timer'.cleft > 0
                      /\ TimeOnly(timer') => timer'.tleft > 0
    BY DEF FlagIsBehind
  <2>1. ShouldFire(s) /\ timer'.civ = s.civ /\ timer'.tiv = s.tiv
    BY <1>1, <1>3 DEF Clocked, Ticked, Registers
  <2>2. ASSUME CycleOnly(timer') PROVE timer'.cleft > 0
    <3>1. CycleDue(s) /\ s.civ > 1
      BY <2>1, <2>2 DEF CycleOnly, ShouldFire, TimeDue
    <3>2. Ticked(s).cleft = s.civ
      BY <1>3, <3>1 DEF Ticked, Registers
    <3>3. timer'.cleft \in {s.civ, Left(s.civ, 1)} /\ s.civ \in Nat
      BY <1>1, <1>2, <1>3, <3>2, TickTypes, ClockedShape DEF Registers
    <3>4. s.civ > 1 /\ Left(s.civ, 1) > 0
      BY <3>1, <3>3, LeftNat
    <3> QED BY <3>3, <3>4
  <2>3. ASSUME TimeOnly(timer') PROVE timer'.tleft > 0
    <3>1. TimeDue(s) /\ s.tiv # 0
      BY <2>1, <2>3 DEF TimeOnly, ShouldFire, CycleDue
    <3>2. d = 0
      BY <3>1, <1>2 DEF Handed, NextPhase
    <3>3. Ticked(s).tleft = s.tiv
      BY <1>3, <3>1 DEF Ticked, Registers
    <3>4. timer'.tleft \in {s.tiv, Left(s.tiv, 0)} /\ s.tiv \in Nat
      BY <1>1, <1>2, <1>3, <3>2, <3>3, TickTypes, ClockedShape DEF Registers
    <3> QED BY <3>1, <3>4, LeftNat
  <2> QED BY <2>2, <2>3
<1>6. DueAfterSample'
  <2> SUFFICES ASSUME timer'.tiv # 0, timer'.tleft = 0, phase' # 0
               PROVE  FALSE
    BY DEF DueAfterSample, TimeDue
  <2>1. s.tiv # 0
    BY <1>1, <1>3 DEF Clocked, Ticked, Registers
  <2>2. Ticked(s) \in Registers /\ Ticked(s).tleft > 0
    <3>1. Ticked(s) \in Registers
      BY <1>2, <1>3, TickTypes
    <3>2. Ticked(s).tleft = IF TimeDue(s) THEN s.tiv ELSE s.tleft
      BY <1>3 DEF Ticked, Registers
    <3> QED BY <1>3, <2>1, <3>1, <3>2 DEF TimeDue, Registers
  <2>3. CASE paused
    BY <1>1, <2>2, <2>3 DEF Clocked
  <2>4. CASE ~paused
    <3>1. d = 0
      BY <1>2, <2>4 DEF Cycle
    <3> QED BY <1>1, <2>2, <2>4, <3>1 DEF Clocked, Left, Registers
  <2> QED BY <2>3, <2>4
<1> QED BY <1>3, <1>4, <1>5, <1>6

\* Every guest instruction hands the tick a proper device.
LEMMA GuestHands ==
    ASSUME IInv, NEW v \in Nat
    PROVE  /\ Handed(timer)
           /\ Handed([timer EXCEPT !.pend = FALSE])
           /\ Handed(SetCycleInterval(timer, v))
           /\ Handed(SetTimeInterval(timer, v))
<1>1. timer \in Registers /\ (timer.tiv # 0 /\ timer.tleft = 0 => phase = 0)
  BY DEF IInv, TypeOK, DueAfterSample, TimeDue
<1>2. Handed(timer) /\ Handed([timer EXCEPT !.pend = FALSE])
  BY <1>1 DEF Handed, TimeDue, Registers
<1>3. Handed(SetCycleInterval(timer, v))
  BY <1>1 DEF Handed, TimeDue, Registers, SetCycleInterval
<1>4. Handed(SetTimeInterval(timer, v))
  BY <1>1 DEF Handed, TimeDue, Registers, SetTimeInterval
<1> QED BY <1>2, <1>3, <1>4

\* The first state satisfies the inductive invariant,
LEMMA InitIInv == Init => IInv
BY TimerAssumption
   DEF Init, IInv, TypeOK, FlagIsBehind, DueAfterSample, Fresh, Registers,
       TimeDue

\* and every step keeps it.
LEMMA StepIInv == IInv /\ [Next]_vars => IInv'
<1> SUFFICES ASSUME IInv, [Next]_vars PROVE IInv'
  OBVIOUS
<1>1. /\ phase \in 0 .. (SampleInterval - 1) /\ paused \in BOOLEAN
      /\ op \in {"idle", "ack", "cycle", "time", "load", "reset"}
  BY DEF IInv, TypeOK
<1>2. 0 \in Nat /\ Intervals \subseteq Nat
  BY TimerAssumption
<1>3. ASSUME NEW s, Handed(s), Cycle(s),
             op' \in {"idle", "ack", "cycle", "time"}
      PROVE  IInv'
  BY <1>1, <1>3, CycleKeeps DEF IInv, TypeOK
<1>4. CASE Idle
  BY <1>2, <1>3, <1>4, GuestHands DEF Idle
<1>5. CASE Acknowledge
  BY <1>2, <1>3, <1>5, GuestHands DEF Acknowledge
<1>6. ASSUME NEW v \in Intervals, WriteCycleInterval(v) PROVE IInv'
  BY <1>2, <1>3, <1>6, GuestHands DEF WriteCycleInterval
<1>7. ASSUME NEW v \in Intervals, WriteTimeInterval(v) PROVE IInv'
  BY <1>2, <1>3, <1>7, GuestHands DEF WriteTimeInterval
<1>8. CASE LoadProgram
  BY <1>1, <1>8 DEF LoadProgram, IInv, TypeOK, FlagIsBehind, DueAfterSample,
                    Fresh, Registers, TimeDue
<1>9. CASE ResetOrBoot
  BY <1>1, <1>9 DEF ResetOrBoot, IInv, TypeOK, FlagIsBehind, DueAfterSample,
                    Fresh, Registers, TimeDue
<1>10. CASE UNCHANGED vars
  BY <1>10 DEF vars, IInv, TypeOK, FlagIsBehind, DueAfterSample, TimeDue,
               CycleOnly, TimeOnly
<1> QED BY <1>4, <1>5, <1>6, <1>7, <1>8, <1>9, <1>10 DEF Next, Step

\* A quiet cycle that finds the deadline of the only source due raises the
\* line: the flag is clear, by the invariant.
LEMMA StepOnTime ==
    IInv /\ [Next]_vars =>
        [Quiet /\ ((CycleOnly(timer) /\ CycleDue(timer))
                    \/ (TimeOnly(timer) /\ TimeDue(timer)))
            => timer'.pend]_vars
<1> SUFFICES ASSUME IInv, Next, Quiet,
                    \/ CycleOnly(timer) /\ CycleDue(timer)
                    \/ TimeOnly(timer) /\ TimeDue(timer)
             PROVE  timer'.pend
  OBVIOUS
<1>1. timer \in Registers /\ ~timer.fired /\ ShouldFire(timer)
  BY DEF IInv, TypeOK, FlagIsBehind, CycleDue, TimeDue, ShouldFire, Registers
<1>2. ASSUME NEW s \in {timer, [timer EXCEPT !.pend = FALSE]}, Cycle(s)
      PROVE  timer'.pend
  <2>1. PICK d \in Elapsed : timer' = Clocked(Ticked(s), d)
    BY <1>2 DEF Cycle
  <2>2. s \in Registers /\ ~s.fired /\ ShouldFire(s)
    BY <1>1, <1>2 DEF Registers, ShouldFire, CycleDue, TimeDue
  <2>3. Ticked(s).pend
    BY <2>2 DEF Ticked, Registers
  <2>4. Ticked(s) \in Registers
    BY <2>2, TickTypes, ElapsedNat, <2>1
  <2> QED BY <2>1, <2>3, <2>4 DEF Clocked, Registers
<1>3. Idle \/ Acknowledge
  BY DEF Next, Step, Quiet, WriteCycleInterval, WriteTimeInterval,
         LoadProgram, ResetOrBoot
<1> QED BY <1>2, <1>3 DEF Idle, Acknowledge

\* The registers stay what they are declared to be: what is left until a
\* deadline is never negative, however far the clock has run past it.
THEOREM TimerTypeCorrect == Spec => []TypeOK
<1>1. IInv => TypeOK
  BY DEF IInv
<1> QED BY InitIInv, StepIInv, <1>1, PTL DEF Spec

\* _fired_this_cycle outlives its tick only while the next deadline of the
\* source in use is ahead.
THEOREM FlagBehind == Spec => []FlagIsBehind
<1>1. IInv => FlagIsBehind
  BY DEF IInv
<1> QED BY InitIInv, StepIInv, <1>1, PTL DEF Spec

\* A nanosecond deadline is found due only in the cycle after a sample.
THEOREM SampleDue == Spec => []DueAfterSample
<1>1. IInv => DueAfterSample
  BY DEF IInv
<1> QED BY InitIInv, StepIInv, <1>1, PTL DEF Spec

\* A deadline of the only source in use always raises the line, for every
\* interval above one cycle and however far a sample moves the clock.
THEOREM DeadlinesOnTime == Spec => OnTime
BY InitIInv, StepIInv, StepOnTime, PTL DEF Spec, OnTime
=============================================================================
