------------------------------- MODULE Sched -------------------------------
(***************************************************************************)
(* The event scheduler of the session daemon: the queues of events that    *)
(* wait for a descriptor, for the clock, or for nothing (evs, tevs), and   *)
(* the loop that polls and dispatches them (sched.c).                      *)
(*                                                                         *)
(* sched() walks evs twice in every round: once to fill the poll array,    *)
(* slot by slot, and once to call handlers, counting slots with an index   *)
(* of its own.  Handlers call evenq and evdeq while the second walk is     *)
(* under way, so the index and the queue may drift apart; what the code    *)
(* relies on is stated as invariants of the walk.                          *)
(***************************************************************************)
EXTENDS Integers, Sequences, FiniteSets

CONSTANTS
  Events,       \* the Event structures of the process
  NULL,         \* the null Event pointer
  Fd,           \* Fd[e]: the descriptor of event e, 0 for a pure timer
  Prio,         \* Prio[e]: its priority
  InitType,     \* InitType[e]: the type it is created with
  AltType,      \* AltType[e]: the type its handlers may give it
  Conditional,  \* the events with a condpos pointer
  InitQueue,    \* the events queued before sched() is entered, in order
  MayEnq,       \* MayEnq[e]: the events the handler of e may enqueue
  MayDeq,       \* MayDeq[e]: the events the handler of e may dequeue
  MaxOps        \* bound on the queue operations of the handlers of one round

Types == {"TIMEOUT", "READ", "WRITE", "ALWAYS"}
PolledTypes == {"READ", "WRITE"}

ASSUME NullAssumption == NULL \notin Events
ASSUME TypesAssumption ==
  /\ InitType \in [Events -> Types]
  /\ AltType \in [Events -> Types]
ASSUME FdAssumption == Fd \in [Events -> Nat]
ASSUME PrioAssumption == Prio \in [Events -> Int]
ASSUME HandlersAssumption ==
  /\ MayEnq \in [Events -> SUBSET Events]
  /\ MayDeq \in [Events -> SUBSET Events]
  /\ Conditional \subseteq Events
  /\ MaxOps \in Nat

VARIABLES
  evs,          \* queue of the events that are polled or always run
  tevs,         \* queue of the timers
  queued,       \* the flag of every event
  type,         \* the type of every event
  held,         \* the conditional events with condpos <= condneg
  pfd,          \* the poll array: descriptor and revents of every slot
  pc,           \* "poll", "walk", "timer" (its handler runs) or "handler"
  i, n,         \* the slot index and the count of ready slots left
  ev, nextev,   \* the cursor of the walk and the static saved successor
  ops,          \* queue operations made in this round (bound)
  \* history of the round, read by the properties only:
  ready,        \* the events whose slot poll() marked ready
  ran,          \* the polled events whose handler was called
  seen,         \* the events the walk has examined
  touched,      \* the events enqueued, dequeued, retyped, held or released
  shifted       \* the slots ahead of the cursor are not those of its events

queueVars == <<evs, tevs, queued, type, held>>
walkVars == <<pc, i, n, ev, nextev>>
history == <<ready, ran, seen, touched, shifted>>
vars == <<queueVars, pfd, walkVars, ops, history>>

-----------------------------------------------------------------------------
(* Queues.  Both are kept by falling priority, and in order of arrival     *)
(* within one priority.                                                    *)

InQueue(e, q) == \E k \in DOMAIN q : q[k] = e

IsPolled(e) == type[e] \in PolledTypes

\* e enters q before the first event of a lower priority.
Enter(q, e) ==
  [k \in 1..Len(q) + 1 |->
     IF k <= Len(q) /\ Prio[e] <= Prio[q[k]] THEN q[k]
     ELSE IF k = 1 THEN e
     ELSE IF Prio[e] <= Prio[q[k - 1]] THEN e
     ELSE q[k - 1]]

\* q without its first e.
Unlink(q, e) ==
  LET p == CHOOSE k \in DOMAIN q : q[k] = e
  IN  [k \in 1..Len(q) - 1 |-> IF k < p THEN q[k] ELSE q[k + 1]]

\* ev->next of a queued event.
Successor(q, e) ==
  LET after == {k \in 2..Len(q) : q[k - 1] = e}
  IN  IF after = {} THEN NULL ELSE q[CHOOSE k \in after : TRUE]

First(q) == IF q = <<>> THEN NULL ELSE q[1]

PolledIn(q, t) == {k \in DOMAIN q : t[q[k]] \in PolledTypes}

Sorted(q) == \A j, k \in DOMAIN q :
               j < k => q[j] # q[k] /\ Prio[q[j]] >= Prio[q[k]]

ASSUME InitQueueAssumption ==
  /\ InitQueue \in Seq(Events) /\ Sorted(InitQueue)
  /\ \A k \in DOMAIN InitQueue : InitType[InitQueue[k]] # "TIMEOUT"

-----------------------------------------------------------------------------
(* The poll array.  A slot a condition holds back keeps descriptor 0 and   *)
(* is not polled; evdeq negates the descriptors of the slots to skip.      *)

\* realloc when the polled events outnumber the slots: the slots it adds
\* are not initialised, and revents may hold anything.
GrownLate(p, q, t) ==  \* mutant: off by one
  IF Cardinality(PolledIn(q, t)) <= Len(p) + 1 THEN {p}
  ELSE {[k \in 1..Len(p) + 1 |-> IF k <= Len(p) THEN p[k]
                                ELSE [fd |-> 0, revents |-> FALSE]]}

Grown(p, q, t) ==
  LET need == Cardinality(PolledIn(q, t))
      fresh == Len(p) + 1..need
  IN  IF need <= Len(p) THEN {p}
      ELSE {[k \in 1..need |->
               IF k <= Len(p) THEN p[k] ELSE [fd |-> 0, revents |-> r[k]]] :
             r \in [fresh -> BOOLEAN]}

Marked(p, e) ==
  [k \in DOMAIN p |->
     IF p[k].fd = Fd[e] THEN [fd |-> -Fd[e], revents |-> p[k].revents]
     ELSE p[k]]

SlotOfUnheld(k) ==  \* mutant: a held event does not take a slot
  Cardinality({j \in PolledIn(evs, type) : j <= k /\ evs[j] \notin held})

\* The slot of the k-th event of the queue, if it is a polled one.
SlotOf(k) == Cardinality({j \in PolledIn(evs, type) : j <= k})

\* The array as poll() leaves it when it reports the events at R.
Filled(R) ==
  [s \in DOMAIN pfd |->
     LET own == {k \in PolledIn(evs, type) : SlotOf(k) = s /\ evs[k] \notin held}
     IN  IF own = {} THEN [fd |-> 0, revents |-> FALSE]
         ELSE LET k == CHOOSE k \in own : TRUE
              IN  [fd |-> Fd[evs[k]], revents |-> k \in R]]

-----------------------------------------------------------------------------
Init ==
  /\ evs = InitQueue /\ tevs = <<>>
  /\ type = InitType
  /\ queued = [e \in Events |-> InQueue(e, InitQueue)]
  /\ held = {}
  /\ pfd = [k \in 1..Cardinality(PolledIn(evs, InitType)) |->
              [fd |-> 0, revents |-> FALSE]]
  /\ pc = "poll" /\ i = 1 /\ n = 0 /\ ops = 0
  /\ ev = NULL /\ nextev = NULL
  /\ ready = {} /\ ran = {} /\ seen = {} /\ touched = {} /\ shifted = FALSE

\* evdeq(e), for a queued event, but for the saved successor.
TakeOff(e) ==
  /\ queued' = [queued EXCEPT ![e] = FALSE]
  /\ IF type[e] = "TIMEOUT"
       THEN tevs' = Unlink(tevs, e) /\ evs' = evs
       ELSE evs' = Unlink(evs, e) /\ tevs' = tevs
  /\ pfd' = Marked(pfd, e)

DequeueKeepNext(e) ==  \* mutant: the saved successor is not repaired
  TakeOff(e) /\ nextev' = nextev

DequeueStop(e) ==  \* mutant: the walk ends where its successor is dequeued
  TakeOff(e) /\ nextev' = IF e = nextev THEN NULL ELSE nextev

Dequeue(e) ==
  /\ TakeOff(e)
  /\ nextev' = IF e = nextev THEN Successor(evs, e) ELSE nextev

\* evenq(e): nothing if it is queued.
Enqueue(e) ==
  /\ queued' = [queued EXCEPT ![e] = TRUE]
  /\ IF type[e] = "TIMEOUT"
       THEN tevs' = Enter(tevs, e) /\ evs' = evs
       ELSE evs' = Enter(evs, e) /\ tevs' = tevs
  /\ pfd' \in Grown(pfd, evs', type)

\* The events the walk has still to examine.
Ahead ==
  IF nextev = NULL THEN {}
  ELSE {evs[k] : k \in {k \in DOMAIN evs :
                          \E j \in 1..k : evs[j] = nextev}}

-----------------------------------------------------------------------------
(* poll(): the slots of the events no condition holds back are polled, any *)
(* of them may be ready.  With no ready slot either a timer has expired,   *)
(* which is dequeued and its handler called, or the call was interrupted   *)
(* or ran into the idle timeout.                                           *)
Poll ==
  /\ pc = "poll"
  /\ \E R \in SUBSET {k \in PolledIn(evs, type) : evs[k] \notin held} :
       /\ n' = Cardinality(R)
       /\ ready' = {evs[k] : k \in R}
       /\ \/ /\ pc' = "walk" /\ ev' = First(evs)
             /\ pfd' = Filled(R)
             /\ UNCHANGED <<evs, tevs, queued, nextev>>
          \/ /\ R = {} /\ tevs # <<>>
             /\ pc' = "timer"
             /\ \E e \in {tevs[k] : k \in DOMAIN tevs} :
                  /\ ev' = e
                  /\ queued' = [queued EXCEPT ![e] = FALSE]
                  /\ tevs' = Unlink(tevs, e)
                  /\ pfd' = Marked(Filled(R), e)
             /\ UNCHANGED <<evs, nextev>>
  /\ UNCHANGED <<type, held, i, ops, ran, seen, touched, shifted>>

\* The walk reaches an event: nextev is saved before anything else.
Examining(e) ==
  /\ pc = "walk" /\ ev = e
  /\ seen' = seen \cup {e}
  /\ UNCHANGED <<queueVars, pfd, ops, ready, touched, shifted>>

\* poll() has nothing left to report: polled events are passed over, and
\* the slot index no longer moves.
PassOver(e) ==
  /\ Examining(e)
  /\ IsPolled(e) /\ n = 0
  /\ nextev' = Successor(evs, e) /\ ev' = Successor(evs, e)
  /\ UNCHANGED <<pc, i, n, ran>>

\* Whether slot k reports anything: past the end of the array, either way.
Shown(k) == IF k \in DOMAIN pfd THEN {pfd[k].revents /\ pfd[k].fd >= 0}
            ELSE BOOLEAN

SkipSlot(e) ==
  /\ Examining(e)
  /\ IsPolled(e) /\ n > 0 /\ FALSE \in Shown(i)
  /\ i' = i + 1
  /\ nextev' = Successor(evs, e) /\ ev' = Successor(evs, e)
  /\ UNCHANGED <<pc, n, ran>>

DispatchMiscount(e) ==  \* mutant: every handler counts as a ready slot
  /\ Examining(e)
  /\ IsPolled(e) => n > 0 /\ TRUE \in Shown(i)
  /\ n' = n - 1 /\ i' = i + 1
  /\ nextev' = Successor(evs, e)
  /\ pc' = "handler" /\ ran' = ran \cup {e}
  /\ UNCHANGED ev

\* A ready slot is consumed even when the condition then holds the event.
Dispatch(e) ==
  /\ Examining(e)
  /\ \/ IsPolled(e) /\ n > 0 /\ TRUE \in Shown(i) /\ n' = n - 1 /\ i' = i + 1
     \/ ~IsPolled(e) /\ UNCHANGED <<n, i>>
  /\ nextev' = Successor(evs, e)
  /\ IF e \in held
       THEN /\ ev' = Successor(evs, e)
            /\ UNCHANGED <<pc, ran>>
       ELSE /\ pc' = "handler"
            /\ ran' = IF IsPolled(e) THEN ran \cup {e} ELSE ran
            /\ UNCHANGED ev

\* The end of the walk; the array is cleared for the next round.
RoundEnd ==
  /\ pc = "walk" /\ ev = NULL
  /\ pc' = "poll"
  /\ pfd' = [k \in DOMAIN pfd |-> [fd |-> 0, revents |-> FALSE]]
  /\ i' = 1 /\ n' = 0 /\ ops' = 0
  /\ ready' = {} /\ ran' = {} /\ seen' = {} /\ touched' = {}
  /\ shifted' = FALSE
  /\ UNCHANGED <<queueVars, ev, nextev>>

-----------------------------------------------------------------------------
(* What handlers do to the queues, one call at a time.                     *)

InHandler == pc \in {"handler", "timer"}

HandlerDeq(e) ==
  /\ InHandler /\ ops < MaxOps
  /\ e \in MayDeq[ev] /\ queued[e]
  /\ Dequeue(e)
  /\ ops' = ops + 1
  /\ touched' = touched \cup {e}
  /\ shifted' = (shifted \/ (IsPolled(e) /\ e \in Ahead))
  /\ UNCHANGED <<type, held, pc, i, n, ev, ready, ran, seen>>

HandlerEnqAgain(e) ==  \* mutant: the flag queued is not tested
  /\ InHandler /\ ops < MaxOps
  /\ e \in MayEnq[ev]
  /\ Enqueue(e)
  /\ ops' = ops + 1 /\ touched' = touched \cup {e}
  /\ UNCHANGED <<type, held, pc, i, n, ev, nextev, ready, ran, seen, shifted>>

HandlerEnq(e) ==
  /\ InHandler /\ ops < MaxOps
  /\ e \in MayEnq[ev] /\ ~queued[e]
  /\ Enqueue(e)
  /\ ops' = ops + 1
  /\ touched' = touched \cup {e}
  /\ shifted' = (shifted \/ (IsPolled(e) /\ nextev # NULL /\ Prio[e] <= Prio[nextev]
                             /\ \E x \in Ahead : IsPolled(x) /\ Prio[x] < Prio[e]))
  /\ UNCHANGED <<type, held, pc, i, n, ev, nextev, ready, ran, seen>>

\* A handler changes the type of an event it has dequeued (the display's
\* writer waits 100 ms after EAGAIN).
HandlerRetype(e) ==
  /\ InHandler /\ ops < MaxOps
  /\ e \in MayEnq[ev] /\ ~queued[e]
  /\ AltType[e] # InitType[e]
  /\ type' = [type EXCEPT ![e] =
                IF type[e] = AltType[e] THEN InitType[e] ELSE AltType[e]]
  /\ ops' = ops + 1
  /\ touched' = touched \cup {e}
  /\ UNCHANGED <<evs, tevs, queued, held, pfd, walkVars, ready, ran, seen,
                 shifted>>

\* A buffer fills or drains, which holds an event back or releases it.
HandlerCondition(e) ==
  /\ InHandler /\ ops < MaxOps
  /\ e \in Conditional
  /\ held' = IF e \in held THEN held \ {e} ELSE held \cup {e}
  /\ ops' = ops + 1
  /\ touched' = touched \cup {e}
  /\ UNCHANGED <<evs, tevs, queued, type, pfd, walkVars, ready, ran, seen,
                 shifted>>

HandlerReturn ==
  /\ InHandler
  /\ pc' = "walk"
  /\ ev' = IF pc = "timer" THEN First(evs) ELSE nextev
  /\ UNCHANGED <<queueVars, pfd, i, n, nextev, ops, history>>

Step ==
  \/ Poll \/ RoundEnd \/ HandlerReturn
  \/ \E e \in Events : \/ PassOver(e) \/ SkipSlot(e) \/ Dispatch(e)
                       \/ HandlerDeq(e) \/ HandlerEnq(e)
                       \/ HandlerRetype(e) \/ HandlerCondition(e)

Spec == Init /\ [][Step]_vars

-----------------------------------------------------------------------------
(* Properties                                                              *)

TypeOK ==
  /\ evs \in Seq(Events) /\ tevs \in Seq(Events)
  /\ queued \in [Events -> BOOLEAN] /\ type \in [Events -> Types]
  /\ held \subseteq Conditional
  /\ pfd \in Seq([fd : Int, revents : BOOLEAN])
  /\ pc \in {"poll", "walk", "timer", "handler"}
  /\ i \in Nat /\ n \in Nat /\ ops \in 0..MaxOps
  /\ ev \in Events \cup {NULL} /\ nextev \in Events \cup {NULL}
  /\ InHandler => ev \in Events
  /\ ready \subseteq Events /\ ran \subseteq Events /\ seen \subseteq Events
  /\ touched \subseteq Events /\ shifted \in BOOLEAN

\* The flag queued, the type and the two queues agree whatever handlers do:
\* an event is in the queue of its type exactly when its flag is set, once,
\* behind every event of a higher priority (evenq, evdeq).
QueueOK ==
  /\ Sorted(evs) /\ Sorted(tevs)
  /\ \A e \in Events :
       /\ InQueue(e, evs) <=> queued[e] /\ type[e] # "TIMEOUT"
       /\ InQueue(e, tevs) <=> queued[e] /\ type[e] = "TIMEOUT"

\* The walk never stands on, nor saves as its next stop, an event that a
\* handler has taken off the queue (the nextev repair in evdeq).
CursorSafe ==
  /\ pc = "walk" /\ ev # NULL => InQueue(ev, evs)
  /\ nextev # NULL => InQueue(nextev, evs)

\* The poll array has a slot for every polled event of the queue, whatever
\* was queued since it was last sized (the realloc in evenq; sched() fills
\* the array without a check).
PollArrayFits == Cardinality(PolledIn(evs, type)) <= Len(pfd)

\* A round looks at every event that no handler touched, exactly once,
\* whatever the handlers did to the others.
RoundComplete ==
  pc = "walk" =>
    /\ ev = NULL =>
         \A k \in DOMAIN evs : evs[k] \in seen \cup touched
    /\ ev # NULL /\ ev \notin touched => ev \notin seen

\* As long as no handler dequeues a polled event ahead of the cursor, or
\* enqueues one between events ahead of it, the slot index and the walk
\* agree: of the untouched events, those poll() reported are called and no
\* other, except those that share their descriptor with a dequeued one.
DispatchExact ==
  pc = "walk" /\ ev = NULL /\ ~shifted =>
    \A k \in DOMAIN evs :
      IsPolled(evs[k]) /\ evs[k] \notin touched =>
        /\ evs[k] \in ran => evs[k] \in ready
        /\ evs[k] \in ready /\ (\A e \in touched : Fd[e] # Fd[evs[k]])
             => evs[k] \in ran

\* What the comment in sched() says of its check: a handler is called only
\* if there is something to do for its event; this does not hold, and no run
\* checks it (README, What does not hold).
HandlerOnlyWhenReady ==
  pc = "handler" /\ IsPolled(ev) /\ ev \notin touched => ev \in ready

=============================================================================
