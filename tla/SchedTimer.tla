----------------------------- MODULE SchedTimer -----------------------------
(***************************************************************************)
(* The clock of the scheduler (sched.c): SetTimeout stores the end of a    *)
(* timer as an int of milliseconds, calctimo chooses the timer to wait     *)
(* for, sched() waits for it in poll() and calls it when nothing else      *)
(* happened meanwhile.                                                     *)
(*                                                                         *)
(* Milliseconds since 1970 do not fit the int.  The model keeps the int    *)
(* (Width values, 2^32 in the code) beside the time that is really left.   *)
(***************************************************************************)
EXTENDS Integers, FiniteSets

CONSTANTS
  Timers,       \* events of type EV_TIMEOUT
  NULL,
  Rank,         \* Rank[e]: position by which the queue breaks ties
  Width,        \* number of values of an int, an even number
  MaxWait,      \* the longest time a timer is set to (bound)
  MaxLate,      \* how late a timer gets (bound)
  Bounded,      \* time stops at that bound; otherwise late is late
  Idle          \* what poll() waits for when there is no timer

Half == Width \div 2

ASSUME NullAssumption == NULL \notin Timers
ASSUME RankAssumption ==
  /\ Rank \in [Timers -> Nat]
  /\ \A a, b \in Timers : a # b => Rank[a] # Rank[b]
ASSUME WidthAssumption == Width \in Nat /\ Width = 2 * Half /\ Half > 0
ASSUME WaitAssumption ==
  /\ MaxWait \in Nat /\ MaxLate \in Nat \ {0} /\ Idle \in Nat
  /\ MaxWait + MaxLate < Half /\ Bounded \in BOOLEAN

VARIABLES
  now,          \* the time of day modulo Width
  queued,       \* the timers in tevs
  timeout,      \* the int of every timer
  due,          \* the time really left, down to -MaxLate, 0 for a timer
                \* that is not queued (history)
  pc,           \* "run" (handlers) or "poll"
  timeoutev,    \* the timer poll() waits for, or NULL
  wait,         \* what is left of the wait
  slept         \* poll() has really waited (history)

vars == <<now, queued, timeout, due, pc, timeoutev, wait, slept>>

-----------------------------------------------------------------------------
\* x as an int.
Int32(x) == ((x + Half) % Width) - Half

\* calctimo(): the first of the smallest ints.
CalctimoFirst ==  \* mutant: the first of the queue
  IF queued = {} THEN NULL
  ELSE CHOOSE e \in queued : \A x \in queued : Rank[e] <= Rank[x]

Calctimo ==
  IF queued = {} THEN NULL
  ELSE CHOOSE e \in queued : \A x \in queued :
         \/ timeout[e] < timeout[x]
         \/ timeout[e] = timeout[x] /\ Rank[e] <= Rank[x]

\* The wait is the difference to the full time, cut down to an int, and
\* nothing if the time is over.
RemainingEndless(e) ==  \* mutant: a negative timeout, so poll() waits for ever
  LET t == Int32(timeout[e] - now) IN IF t < 0 THEN Width ELSE t

Remaining(e) ==
  LET t == Int32(timeout[e] - now) IN IF t < 0 THEN 0 ELSE t

Init ==
  /\ now \in 0..Width - 1
  /\ queued = {} /\ timeout = [e \in Timers |-> 0] /\ due = [e \in Timers |-> 0]
  /\ pc = "run" /\ timeoutev = NULL /\ wait = 0 /\ slept = FALSE

-----------------------------------------------------------------------------
\* SetTimeout, and evenq if the timer is not queued.
SetTimeout(e, timo) ==
  /\ pc = "run"
  /\ timeout' = [timeout EXCEPT ![e] = Int32(now + timo)]
  /\ due' = [due EXCEPT ![e] = timo]
  /\ queued' = queued \cup {e}
  /\ UNCHANGED <<now, pc, timeoutev, wait, slept>>

Evdeq(e) ==
  /\ pc = "run" /\ e \in queued
  /\ queued' = queued \ {e} /\ due' = [due EXCEPT ![e] = 0]
  /\ UNCHANGED <<now, timeout, pc, timeoutev, wait, slept>>

\* Time passes, for handlers too.
Passes ==
  /\ Bounded => \A e \in queued : due[e] > -MaxLate
  /\ now' = (now + 1) % Width
  /\ due' = [e \in Timers |->
       IF e \notin queued \/ due[e] = -MaxLate THEN due[e] ELSE due[e] - 1]
  /\ UNCHANGED <<queued, timeout>>

Busy ==
  /\ pc = "run" /\ Passes
  /\ UNCHANGED <<pc, timeoutev, wait, slept>>

\* The top of the loop.
Poll ==
  /\ pc = "run"
  /\ pc' = "poll" /\ slept' = FALSE
  /\ timeoutev' = Calctimo
  /\ wait' = IF timeoutev' = NULL THEN Idle ELSE Remaining(timeoutev')
  /\ UNCHANGED <<now, queued, timeout, due>>

Sleep ==
  /\ pc = "poll" /\ wait > 0 /\ Passes
  /\ wait' = wait - 1 /\ slept' = TRUE
  /\ UNCHANGED <<pc, timeoutev>>

Fired ==
  /\ queued' = queued \ {timeoutev}
  /\ due' = [e \in Timers |-> IF e = timeoutev THEN 0 ELSE due[e]]

\* poll() returns with descriptors, at any time, or is interrupted by a
\* signal: no timer is looked at.
InterruptFires ==  \* mutant: -1 is taken for a timeout
  /\ pc = "poll"
  /\ pc' = "run"
  /\ Fired
  /\ UNCHANGED <<now, timeout, timeoutev, wait, slept>>

Interrupt ==
  /\ pc = "poll"
  /\ pc' = "run"
  /\ UNCHANGED <<now, queued, timeout, due, timeoutev, wait, slept>>

\* poll() returns 0.
Expire ==
  /\ pc = "poll" /\ wait = 0
  /\ pc' = "run"
  /\ Fired
  /\ UNCHANGED <<now, timeout, timeoutev, wait, slept>>

Next ==
  \/ \E e \in Timers : Evdeq(e) \/ \E timo \in 1..MaxWait : SetTimeout(e, timo)
  \/ Busy \/ Poll \/ Sleep \/ Interrupt \/ Expire

Spec == Init /\ [][Next]_vars

\* The loop runs and time passes.
LoopFairness ==
  WF_vars(Poll) /\ WF_vars(Sleep) /\ WF_vars(Interrupt \/ Expire) /\ SF_vars(Busy)

\* Descriptors are quiet again and again when the wait is over: without that
\* no timer runs, since one is called only when poll() returns 0.
QuietSpec == Spec /\ LoopFairness /\ SF_vars(Expire)

-----------------------------------------------------------------------------
(* Properties                                                              *)

TypeOK ==
  /\ now \in 0..Width - 1 /\ queued \subseteq Timers
  /\ timeout \in [Timers -> -Half..Half - 1]
  /\ due \in [Timers -> -MaxLate..MaxWait]
  /\ pc \in {"run", "poll"} /\ timeoutev \in Timers \cup {NULL}
  /\ wait \in Nat /\ slept \in BOOLEAN

\* However the clock wraps, no timer runs before its time, also when a signal
\* interrupts the wait: one that leaves the queue in poll() is due.
NeverEarly ==
  [][\A e \in queued : pc = "poll" /\ e \notin queued' => due[e] <= 0]_vars

\* The ints of two queued timers are in another order than their ends.
Straddling ==
  \E a, b \in queued : due[a] < due[b] /\ timeout[a] > timeout[b]

\* When poll() has waited, no timer has become overdue meanwhile: the wait
\* ends with the first of them, however they were set, reset and dequeued,
\* unless the ints have wrapped between two of them.
NoOversleep ==
  pc = "poll" /\ slept => Straddling \/ \A e \in queued : due[e] >= 0

\* A timer that is due runs, is reset or is taken away, however often the
\* others are set again, with the same exception.
TimersRun ==
  \A e \in Timers :
    (e \in queued /\ due[e] <= 0) ~> (e \notin queued \/ due[e] > 0 \/ Straddling)
=============================================================================
