-------------------------- MODULE BackoffRateLimiter --------------------------
(***************************************************************************)
(* How often the router thread reacts to pauses and asks for metadata:     *)
(* TDoryRateLimiter over TBackoffRateLimiter and TRandomExpBackoff.  The   *)
(* thread asks for a delay, sleeps that long or longer, and acts           *)
(* (HandlePause(); the loops that get metadata do the same).               *)
(*                                                                         *)
(* The clock counts ticks that are shorter than a millisecond, and a       *)
(* timespec is the pair of its seconds and of the ticks in the second.     *)
(***************************************************************************)
EXTENDS Integers, Sequences

CONSTANTS
  InitialDelay, MaxDouble, MinDelay,  \* as in the configuration, milliseconds
  TicksPerMs, MsPerSec,               \* of the clock
  MaxTicks,                           \* bound: time
  MaxOversleep                        \* bound: how many ticks too long a sleep may last

ASSUME BackoffAssumption ==
  /\ InitialDelay \in Nat \ {0} /\ MaxDouble \in Nat /\ MinDelay \in Nat
  /\ TicksPerMs \in Nat \ {0} /\ MsPerSec \in Nat \ {0} /\ MaxTicks \in Nat
  /\ MaxOversleep \in Nat

VARIABLES
  ticks,          \* CLOCK_MONOTONIC_RAW
  limiter,        \* the limiter's fields
  waiter,         \* the router thread: when it asked, and how long it waits; <<>> when idle
  acted           \* history: actions in the window, and when the last was

backoffVars == <<ticks, limiter, waiter, acted>>

TicksPerSec == TicksPerMs * MsPerSec

(* Division of long, which rounds towards zero.                            *)
Truncated(a, b) == IF a >= 0 THEN a \div b ELSE -((-a) \div b)

ComputeTimeToNow(start, now) ==
  LET sec == (now \div TicksPerSec) - (start \div TicksPerSec)
      nsec == (now % TicksPerSec) - (start % TicksPerSec)
  IN IF sec < 0 THEN 0
     ELSE IF sec = 0 THEN IF nsec < 0 THEN 0 ELSE nsec \div TicksPerMs
     ELSE sec * MsPerSec + Truncated(nsec, TicksPerMs)

ComputeBackoffWindow == InitialDelay * 2 ^ (MaxDouble + 2)

(* TRandomExpBackoff::NextValue(): what it may return ...                  *)
NextValues(l) == (l.BaseCount \div 2) .. (l.BaseCount + (l.BaseCount \div 2))

(* Mutant: the base never doubles.                                         *)
SameBase(l) == l

(* ... and what it leaves.                                                 *)
DoubleBase(l) ==
  IF l.DoubleTimesLeft = 0 THEN l
  ELSE [l EXCEPT !.DoubleTimesLeft = @ - 1, !.BaseCount = 2 * @]

(* TRandomExpBackoff::Reset(), and the window that begins.                 *)
NewWindow(l, now) ==
  [l EXCEPT !.BaseCount = InitialDelay, !.DoubleTimesLeft = MaxDouble,
            !.WindowStartTime = now]

InBackoffWindow(l, now) ==
  /\ ~l.FirstTime
  /\ ComputeTimeToNow(l.WindowStartTime, now) <= ComputeBackoffWindow

(* What TBackoffRateLimiter::ComputeDelay() may return and leave.          *)
ComputeDelayResults(l, now) ==
  LET seen == [l EXCEPT !.FirstTime = FALSE]
      delta == ComputeTimeToNow(l.LastEventTime, now)
      At(k) == [k EXCEPT !.LastEventTime = now]
  IN IF InBackoffWindow(l, now)
       THEN {IF delta < v THEN [delay |-> v - delta, limiter |-> DoubleBase(seen)]
             ELSE [delay |-> 0, limiter |-> At(DoubleBase(seen))] : v \in NextValues(l)}
       ELSE {[delay |-> 0, limiter |-> At(NewWindow(seen, now))]}

Larger(a, b) == IF a > b THEN a ELSE b

BackoffInit ==
  /\ ticks = 0 /\ waiter = <<>> /\ acted = [count |-> 0, last |-> 0]
  /\ limiter = [BaseCount |-> InitialDelay, DoubleTimesLeft |-> MaxDouble, FirstTime |-> TRUE,
                WindowStartTime |-> 0, LastEventTime |-> 0]

(* TDoryRateLimiter::ComputeDelay()                                        *)
ComputeDelay ==
  /\ waiter = <<>> /\ ticks < MaxTicks
  /\ \E r \in ComputeDelayResults(limiter, ticks) :
       /\ limiter' = r.limiter
       /\ waiter' = <<[asked |-> ticks, delay |-> Larger(MinDelay, r.delay),
                      fresh |-> ~InBackoffWindow(limiter, ticks)]>>
  /\ UNCHANGED <<ticks, acted>>

(* SleepMilliseconds() returns, and OnAction().                            *)
OnAction ==
  /\ waiter # <<>>
  /\ ticks - waiter[1].asked >= waiter[1].delay * TicksPerMs
  /\ limiter' = [limiter EXCEPT !.LastEventTime = ticks]
  /\ waiter' = <<>>
  /\ acted' = [count |-> IF waiter[1].fresh THEN 1 ELSE acted.count + 1, last |-> ticks]
  /\ UNCHANGED ticks

(* Time ends when it is up and the thread does not sleep, and a thread     *)
(* does not sleep much too long.                                           *)
ClockTick ==
  /\ IF waiter = <<>> THEN ticks < MaxTicks
     ELSE ticks - waiter[1].asked < waiter[1].delay * TicksPerMs + MaxOversleep
  /\ ticks' = ticks + 1
  /\ UNCHANGED <<limiter, waiter, acted>>

TimeIsUp ==
  /\ ticks >= MaxTicks /\ waiter = <<>>
  /\ UNCHANGED backoffVars

BackoffNext == ComputeDelay \/ OnAction \/ ClockTick \/ TimeIsUp
===============================================================================
