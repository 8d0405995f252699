------------------------------- MODULE Timer -------------------------------
(***************************************************************************)
(* timer.device: the arithmetic on times (devs/timer/addtime.c, subtime.c, *)
(* cmptime.c) and NanoTime, which sleeps until a point of the monotonic    *)
(* clock.  A time is the record of tv_sec and tv_nsec; a second has Second *)
(* nanoseconds (10^9 in the code).                                         *)
(***************************************************************************)
EXTENDS Integers

CONSTANTS Second,
          Spans,       \* times that callers ask to sleep for
          ClockEnd     \* bound: the second at which the model's clock stops

ASSUME TimerAssumption ==
  Second \in Nat \ {0} /\ Spans \subseteq [sec : Nat, nsec : Nat]

VARIABLES
  clock,         \* CLOCK_MONOTONIC
  sleeper,       \* "idle", "asleep" or "awake": the thread in NanoTime
  since, span,   \* when it was called, and its argument
  until          \* its variable of the name now

timerVars == <<clock, sleeper, since, span, until>>

Zero == [sec |-> 0, nsec |-> 0]

\* The whole seconds of n nanoseconds go to sec.
Normal(sec, n) == [sec |-> sec + n \div Second, nsec |-> n % Second]

\* Seeded fault: a full second is not carried.
AddTime_KeepsFull(dest, src) ==
  LET n == dest.nsec + src.nsec
  IN  IF n <= Second THEN [sec |-> dest.sec + src.sec, nsec |-> n]
      ELSE Normal(dest.sec + src.sec, n)

\* Normalises upward only.
AddTime(dest, src) ==
  LET n == dest.nsec + src.nsec
  IN  IF n < 0 THEN [sec |-> dest.sec + src.sec, nsec |-> n]
      ELSE Normal(dest.sec + src.sec, n)

SubTime(dest, src) == Normal(dest.sec - src.sec, dest.nsec - src.nsec)

CmpTime(left, right) ==
  LET diff == IF left.sec = right.sec THEN left.nsec - right.nsec
              ELSE left.sec - right.sec
  IN  IF diff < 0 THEN -1 ELSE IF diff > 0 THEN 1 ELSE 0

TimerInit ==
  /\ clock \in [sec : {0}, nsec : 0 .. Second - 1]
  /\ sleeper = "idle" /\ since = Zero /\ span = Zero /\ until = Zero

\* Time passes, also between any two instructions of the thread.
Tick == /\ clock.sec < ClockEnd
        /\ clock' = Normal(clock.sec, clock.nsec + 1)
        /\ UNCHANGED <<sleeper, since, span, until>>

\* NanoTime reads the clock and adds its argument.
NanoTime(t) ==
  /\ sleeper = "idle"
  /\ sleeper' = "asleep" /\ since' = clock /\ span' = t
  /\ until' = AddTime(clock, t)
  /\ UNCHANGED clock

\* SC_clock_nanosleep with TIMER_ABSTIME returns 0.  It does so for a valid
\* time that has come; with every error NanoTime calls it again.
Awake == /\ sleeper = "asleep"
         /\ until.nsec \in 0 .. Second - 1
         /\ CmpTime(clock, until) >= 0
         /\ sleeper' = "awake"
         /\ UNCHANGED <<clock, since, span, until>>

TimerNext == Tick \/ (\E t \in Spans : NanoTime(t)) \/ Awake

TimerSpec == TimerInit /\ [][TimerNext]_timerVars

-----------------------------------------------------------------------------
(* Properties *)

Nanos(t) == t.sec * Second + t.nsec

\* NanoTime waits for a time the kernel accepts (it would otherwise retry an
\* invalid time for ever, nanosleep.c:16), which is its argument after the
\* call, and when it returns at least that much has passed: the time slept,
\* as SubTime and CmpTime compute it, is no shorter than asked, though it
\* crosses seconds and the argument itself counts more than one.
SleepsLongEnough ==
  /\ sleeper # "idle" => /\ until.nsec \in 0 .. Second - 1
                         /\ Nanos(until) = Nanos(since) + Nanos(span)
  /\ sleeper = "awake" =>
       CmpTime(SubTime(clock, since), Normal(span.sec, span.nsec)) >= 0
=============================================================================
