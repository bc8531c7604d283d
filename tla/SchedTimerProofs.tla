-------------------------- MODULE SchedTimerProofs --------------------------
(***************************************************************************)
(* What holds of the clock for every width of the int, every set of timers *)
(* and every bound on the waits: no timer runs early, and poll() does not  *)
(* sleep over the end of a timer.                                          *)
(*                                                                         *)
(* The argument is one invariant: the int of a queued timer is its end,    *)
(* cut down to an int, and the timer poll() waits for has the smallest int *)
(* and is due when the wait is over.                                       *)
(***************************************************************************)
EXTENDS SchedTimer, NaturalsInduction, WellFoundedInduction, TLAPS

-----------------------------------------------------------------------------
(* The smallest of a set                                                   *)

Below == {p \in Nat \X Nat : p[1] < p[2]}

LEMMA BelowWellFounded == IsWellFoundedOn(Below, Nat)
  BY NatLessThanWellFounded DEF OpToRel, Below

LEMMA Smallest ==
  ASSUME NEW S \in SUBSET Nat, S # {}
  PROVE  \E x \in S : \A y \in S : x <= y
<1>1. S \subseteq Nat
  OBVIOUS
<1>2. \E x \in S : \A y \in S : ~(<<y, x>> \in Below)
  BY <1>1, BelowWellFounded, WFMin, Zenon
<1>3. PICK x \in S : \A y \in S : ~(<<y, x>> \in Below)
  BY <1>2
<1>4. ASSUME NEW y \in S PROVE x <= y
  <2>1. x \in Nat /\ y \in Nat
    BY <1>1
  <2>2. y < x => <<y, x>> \in Below
    BY <2>1 DEF Below
  <2> QED BY <1>3, <2>1, <2>2
<1> QED BY <1>4

-----------------------------------------------------------------------------
(* Ints                                                                    *)

\* One number of an interval as long as the width stands for each class.
LEMMA SameClass ==
  ASSUME NEW a \in 0..Width - 1, NEW b \in 0..Width - 1, NEW k \in Int, a = b + Width * k
  PROVE  a = b
<1>0. Width \in Int /\ Width > 0
  BY WidthAssumption
<1>1. CASE k = 0
  BY <1>0, <1>1
<1>2. CASE k >= 1
  <2>1. Width * k >= Width
    BY <1>0, <1>2
  <2> QED BY <1>0, <2>1
<1>3. CASE k <= -1
  <2>1. Width * k <= -Width
    BY <1>0, <1>3
  <2> QED BY <1>0, <2>1
<1> QED BY <1>1, <1>2, <1>3

LEMMA Int32Type ==
  ASSUME NEW x \in Int
  PROVE  /\ Int32(x) \in -Half..Half - 1
         /\ \E k \in Int : Int32(x) = x + Width * k
<1>0. Width \in Int /\ Width > 0 /\ Half \in Int /\ Width = 2 * Half
  BY WidthAssumption DEF Half
<1> DEFINE z == x + Half
<1>1. z \in Int /\ z % Width \in 0..Width - 1 /\ z \div Width \in Int
      /\ z = (Width * (z \div Width)) + (z % Width)
  BY <1>0
<1>2. Int32(x) = (z % Width) - Half
  BY DEF Int32
<1>3. Int32(x) \in -Half..Half - 1
  BY <1>0, <1>1, <1>2
<1>4. -(z \div Width) \in Int /\ Width * (-(z \div Width)) = -(Width * (z \div Width))
  BY <1>0, <1>1
<1>5. Int32(x) = x + Width * (-(z \div Width))
  BY <1>0, <1>1, <1>2, <1>4
<1> QED BY <1>3, <1>4, <1>5

\* An int is determined by its class.
LEMMA Int32Unique ==
  ASSUME NEW x \in Int, NEW t \in -Half..Half - 1, NEW k \in Int, t = x + Width * k
  PROVE  Int32(x) = t
<1>0. Width \in Int /\ Width > 0 /\ Half \in Int /\ Width = 2 * Half
  BY WidthAssumption DEF Half
<1>1. PICK j \in Int : Int32(x) = x + Width * j
  BY Int32Type
<1>2. Int32(x) \in -Half..Half - 1
  BY Int32Type
<1> DEFINE a == Int32(x) + Half
           b == t + Half
<1>3. a \in 0..Width - 1 /\ b \in 0..Width - 1
  BY <1>0, <1>2
<1>4. Width * (j - k) = Width * j - Width * k /\ j - k \in Int
  BY <1>0
<1>5. a = b + Width * (j - k)
  BY <1>0, <1>1, <1>2, <1>4
<1>6. a = b
  BY <1>3, <1>4, <1>5, SameClass
<1> QED BY <1>0, <1>2, <1>6

LEMMA Int32Id == ASSUME NEW x \in -Half..Half - 1 PROVE Int32(x) = x
<1>1. Half \in Int /\ Width \in Int
  BY WidthAssumption DEF Half
<1>2. x \in Int /\ x = x + Width * 0
  BY <1>1
<1> QED BY <1>2, Int32Unique

\* Numbers of one class have one int, and so has a difference.
LEMMA Int32Class ==
  ASSUME NEW x \in Int, NEW y \in Int, NEW k \in Int, x = y + Width * k
  PROVE  Int32(x) = Int32(y)
<1>0. Width \in Int
  BY WidthAssumption
<1>1. PICK j \in Int : Int32(y) = y + Width * j
  BY Int32Type
<1>2. Int32(y) \in -Half..Half - 1
  BY Int32Type
<1>3. j - k \in Int /\ Width * (j - k) = Width * j - Width * k
      /\ Width * j \in Int /\ Width * k \in Int
  BY <1>0
<1>4. Int32(y) = x + Width * (j - k)
  BY <1>1, <1>3
<1> QED BY <1>2, <1>3, <1>4, Int32Unique

LEMMA Int32Minus ==
  ASSUME NEW x \in Int, NEW n \in Int
  PROVE  Int32(Int32(x) - n) = Int32(x - n)
<1>1. PICK k \in Int : Int32(x) = x + Width * k
  BY Int32Type
<1>2. Width * k \in Int
  BY WidthAssumption
<1>3. Int32(x) - n = (x - n) + Width * k /\ Int32(x) - n \in Int
  BY <1>1, <1>2
<1> QED BY <1>3, Int32Class

\* Numbers less than the width apart are told apart.
LEMMA Int32Distinct ==
  ASSUME NEW x \in Int, NEW y \in Int, x < y, y - x < Width
  PROVE  Int32(x) # Int32(y)
<1>0. Width \in Int /\ Width > 0
  BY WidthAssumption
<1> SUFFICES ASSUME Int32(x) = Int32(y) PROVE FALSE
  OBVIOUS
<1>1. PICK j \in Int : Int32(x) = x + Width * j
  BY Int32Type
<1>2. PICK k \in Int : Int32(y) = y + Width * k
  BY Int32Type
<1>3. j - k \in Int /\ Width * (j - k) = Width * j - Width * k
      /\ Width * j \in Int /\ Width * k \in Int
  BY <1>0
<1>4. y - x = 0 + Width * (j - k)
  <2>1. \A p, q \in Int : x + p = y + q => y - x = 0 + (p - q)
    OBVIOUS
  <2>2. x + Width * j = y + Width * k
    BY <1>1, <1>2
  <2> QED BY <1>3, <2>1, <2>2
<1>5. y - x \in 0..Width - 1 /\ 0 \in 0..Width - 1
  BY <1>0
<1> QED BY <1>3, <1>4, <1>5, SameClass

\* One millisecond, on a clock that wraps.
LEMMA Int32Tick ==
  ASSUME NEW n \in 0..Width - 1, NEW d \in Int
  PROVE  Int32(((n + 1) % Width) + (d - 1)) = Int32(n + d)
<1>0. Width \in Int /\ Width > 0
  BY WidthAssumption
<1>1. CASE n + 1 < Width
  <2>1. (n + 1) % Width = n + 1
    BY <1>0, <1>1
  <2>2. (n + 1) + (d - 1) = n + d
    BY <1>0
  <2> QED BY <2>1, <2>2
<1>2. CASE n + 1 = Width
  <2>1. (n + 1) % Width = 0
    <3>1. (n + 1) % Width \in 0..Width - 1 /\ (n + 1) \div Width \in Int
          /\ n + 1 = (Width * ((n + 1) \div Width)) + ((n + 1) % Width)
      BY <1>0
    <3> DEFINE k == 1 - ((n + 1) \div Width)
    <3>2. Width * k = Width - Width * ((n + 1) \div Width) /\ k \in Int
          /\ Width * ((n + 1) \div Width) \in Int
      BY <1>0, <3>1
    <3>3. (n + 1) % Width = 0 + Width * k
      BY <1>0, <1>2, <3>1, <3>2
    <3>4. 0 \in 0..Width - 1
      BY <1>0
    <3> HIDE DEF k
    <3> QED BY <3>1, <3>2, <3>3, <3>4, SameClass
  <2>2. n + d \in Int /\ 0 + (d - 1) \in Int /\ n + d = (0 + (d - 1)) + Width * 1
    BY <1>0, <1>2
  <2> QED BY <2>1, <2>2, Int32Class
<1> QED BY <1>0, <1>1, <1>2

-----------------------------------------------------------------------------
(* Types                                                                   *)

LEMMA Bounds ==
  /\ Half \in Int /\ Width \in Int /\ Half > 0 /\ Width = 2 * Half
  /\ MaxWait \in Nat /\ MaxLate \in Nat /\ MaxLate > 0 /\ Idle \in Nat
  /\ MaxWait + MaxLate < Half /\ Bounded \in BOOLEAN
  BY WidthAssumption, WaitAssumption DEF Half

LEMMA RemainingType == ASSUME TypeOK, NEW e \in Timers PROVE Remaining(e) \in Nat
<1>1. timeout[e] - now \in Int
  BY Bounds DEF TypeOK
<1>2. Int32(timeout[e] - now) \in -Half..Half - 1
  BY <1>1, Int32Type
<1>3. Int32(timeout[e] - now) \in Int
  BY <1>2, Bounds
<1> QED BY <1>3 DEF Remaining

\* calctimo() finds a timer, and none has a smaller int.
LEMMA CalctimoSmallest ==
  ASSUME TypeOK
  PROVE  /\ queued = {} => Calctimo = NULL
         /\ queued # {} => /\ Calctimo \in queued
                           /\ \A x \in queued : timeout[Calctimo] <= timeout[x]
<1>1. CASE queued = {}
  BY <1>1 DEF Calctimo
<1>2. CASE queued # {}
  <2>0. /\ queued \subseteq Timers
        /\ \A x \in queued : timeout[x] \in Int /\ timeout[x] + Half \in Nat /\ Rank[x] \in Nat
    <3> QED BY Bounds, RankAssumption DEF TypeOK
  <2>1. PICK n \in {timeout[x] + Half : x \in queued} :
          \A m \in {timeout[x] + Half : x \in queued} : n <= m
    <3>1. /\ {timeout[x] + Half : x \in queued} \in SUBSET Nat
          /\ {timeout[x] + Half : x \in queued} # {}
      BY <1>2, <2>0
    <3> QED BY <3>1, Smallest
  <2> DEFINE firsts == {x \in queued : timeout[x] + Half = n}
  <2>2. PICK r \in {Rank[x] : x \in firsts} : \A m \in {Rank[x] : x \in firsts} : r <= m
    <3>1. {Rank[x] : x \in firsts} \in SUBSET Nat /\ {Rank[x] : x \in firsts} # {}
      BY <2>0, <2>1
    <3> QED BY <3>1, Smallest
  <2>3. PICK e \in firsts : Rank[e] = r
    BY <2>2
  <2>4. ASSUME NEW x \in queued
        PROVE  \/ timeout[e] < timeout[x]
               \/ timeout[e] = timeout[x] /\ Rank[e] <= Rank[x]
    <3>1. timeout[e] + Half <= timeout[x] + Half
      BY <2>1, <2>3
    <3>2. timeout[e] \in Int /\ timeout[x] \in Int /\ Half \in Int
      BY <2>0, <2>3, Bounds
    <3>3. CASE timeout[x] = timeout[e]
      <4>1. x \in firsts
        BY <2>3, <3>3
      <4> QED BY <2>2, <2>3, <3>3, <4>1
    <3> HIDE DEF firsts
    <3> QED BY <3>1, <3>2, <3>3
  <2>5. Calctimo \in queued /\ \A x \in queued :
          \/ timeout[Calctimo] < timeout[x]
          \/ timeout[Calctimo] = timeout[x] /\ Rank[Calctimo] <= Rank[x]
    BY <1>2, <2>3, <2>4 DEF Calctimo
  <2> QED BY <1>2, <2>0, <2>5
<1> QED BY <1>1, <1>2

LEMMA PassesType == ASSUME TypeOK, Passes
  PROVE  now' \in 0..Width - 1 /\ due' \in [Timers -> -MaxLate..MaxWait]
<1>1. now' \in 0..Width - 1
  BY Bounds DEF Passes, TypeOK
<1>2. ASSUME NEW e \in Timers
      PROVE  (IF e \notin queued \/ due[e] = -MaxLate THEN due[e] ELSE due[e] - 1)
               \in -MaxLate..MaxWait
  BY Bounds DEF TypeOK
<1> QED BY <1>1, <1>2 DEF Passes

\* The clock and the ints keep their ranges, and a wait is never negative.
THEOREM TypeCorrect == Spec => []TypeOK
<1>1. Init => TypeOK
  <2>1. 0 \in -Half..Half - 1 /\ 0 \in -MaxLate..MaxWait /\ 0 \in Nat
    BY Bounds
  <2> QED BY <2>1 DEF Init, TypeOK
<1>2. TypeOK /\ [Next]_vars => TypeOK'
  <2> SUFFICES ASSUME TypeOK, [Next]_vars PROVE TypeOK'
    OBVIOUS
  <2>1. ASSUME NEW e \in Timers, NEW timo \in 1..MaxWait, SetTimeout(e, timo) PROVE TypeOK'
    <3>1. timo \in Int /\ now + timo \in Int
      BY Bounds DEF TypeOK
    <3>2. Int32(now + timo) \in -Half..Half - 1
      BY <3>1, Int32Type
    <3>3. timo \in -MaxLate..MaxWait
      BY Bounds
    <3> QED BY <2>1, <3>2, <3>3 DEF SetTimeout, TypeOK
  <2>2. ASSUME NEW e \in Timers, Evdeq(e) PROVE TypeOK'
    <3>1. 0 \in -MaxLate..MaxWait
      BY Bounds
    <3> QED BY <2>2, <3>1 DEF Evdeq, TypeOK
  <2>3. CASE Busy
    BY <2>3, PassesType DEF Busy, Passes, TypeOK
  <2>4. CASE Poll
    <3>1. timeoutev' \in Timers \cup {NULL}
      BY <2>4, CalctimoSmallest DEF Poll, TypeOK
    <3>2. wait' \in Nat
      BY <2>4, <3>1, RemainingType, Bounds DEF Poll
    <3> QED BY <2>4, <3>1, <3>2 DEF Poll, TypeOK
  <2>5. CASE Sleep
    BY <2>5, PassesType DEF Sleep, Passes, TypeOK
  <2>6. CASE Interrupt
    BY <2>6 DEF Interrupt, TypeOK
  <2>7. CASE Expire
    <3>1. 0 \in -MaxLate..MaxWait
      BY Bounds
    <3> QED BY <2>7, <3>1 DEF Expire, Fired, TypeOK
  <2>8. CASE UNCHANGED vars
    BY <2>8 DEF vars, TypeOK
  <2> QED BY <2>1, <2>2, <2>3, <2>4, <2>5, <2>6, <2>7, <2>8 DEF Next
<1> QED BY <1>1, <1>2, PTL DEF Spec

-----------------------------------------------------------------------------
(* The end of a timer and the wait for it                                  *)

\* The int of a queued timer is its end, unless it is so late that the model
\* no longer counts.
Exact ==
  \A e \in queued : Bounded \/ due[e] > -MaxLate => timeout[e] = Int32(now + due[e])

\* poll() waits for the timer with the smallest int, and that one is due when
\* the wait is over, but not before when poll() has really waited.
Waiting ==
  pc = "poll" =>
    IF queued = {} THEN timeoutev = NULL
    ELSE /\ timeoutev \in queued
         /\ \A e \in queued : timeout[timeoutev] <= timeout[e]
         /\ due[timeoutev] <= wait
         /\ Bounded => due[timeoutev] = wait \/ (wait = 0 /\ ~slept)

ClockInv == Exact /\ Waiting

LEMMA RemainingDue ==
  ASSUME TypeOK, Exact, NEW e \in queued
  PROVE  /\ due[e] <= Remaining(e)
         /\ Bounded => due[e] = Remaining(e) \/ Remaining(e) = 0
<1>0. /\ now \in Int /\ due[e] \in -MaxLate..MaxWait /\ due[e] \in Int /\ e \in Timers
  BY Bounds DEF TypeOK
<1>1. CASE timeout[e] = Int32(now + due[e])
  <2>1. Int32(timeout[e] - now) = Int32((now + due[e]) - now)
    <3>1. now + due[e] \in Int
      BY <1>0
    <3>2. Int32(Int32(now + due[e]) - now) = Int32((now + due[e]) - now)
      BY <1>0, <3>1, Int32Minus
    <3> QED BY <1>1, <3>2
  <2>2. (now + due[e]) - now = due[e] /\ due[e] \in -Half..Half - 1
    BY <1>0, Bounds
  <2>3. Int32(timeout[e] - now) = due[e]
    BY <2>1, <2>2, Int32Id
  <2> QED BY <1>0, <2>3 DEF Remaining
<1>2. CASE timeout[e] # Int32(now + due[e])
  <2>1. ~Bounded /\ due[e] <= 0
    BY <1>0, <1>2, Bounds DEF Exact
  <2>2. Remaining(e) \in Nat
    BY <1>0, RemainingType
  <2> QED BY <1>0, <2>1, <2>2
<1> QED BY <1>1, <1>2

\* A millisecond changes neither the ends of the timers nor their order.
LEMMA PassesExact == ASSUME TypeOK, Exact, Passes PROVE Exact'
<1> SUFFICES ASSUME NEW e \in queued', Bounded \/ due'[e] > -MaxLate
             PROVE  timeout'[e] = Int32(now' + due'[e])
  BY DEF Exact
<1>1. /\ e \in queued /\ e \in Timers /\ timeout' = timeout /\ now' = (now + 1) % Width
      /\ Bounded => due[e] > -MaxLate
      /\ due'[e] = IF due[e] = -MaxLate THEN due[e] ELSE due[e] - 1
  BY DEF Passes, TypeOK
<1>2. now \in 0..Width - 1 /\ due[e] \in Int /\ due[e] >= -MaxLate
  BY <1>1, Bounds DEF TypeOK
<1>3. due[e] # -MaxLate
  BY <1>1, <1>2, Bounds
<1>4. due'[e] = due[e] - 1 /\ due[e] > -MaxLate
  BY <1>1, <1>2, <1>3, Bounds
<1>5. timeout[e] = Int32(now + due[e])
  BY <1>1, <1>4 DEF Exact
<1> QED BY <1>1, <1>2, <1>4, <1>5, Int32Tick

LEMMA PollWaits == ASSUME TypeOK, Exact, Poll PROVE Waiting'
<1>0. /\ UNCHANGED <<queued, timeout, due>> /\ slept' = FALSE
      /\ timeoutev' = Calctimo
      /\ wait' = IF timeoutev' = NULL THEN Idle ELSE Remaining(timeoutev')
  BY DEF Poll
<1>1. CASE queued = {}
  BY <1>0, <1>1, CalctimoSmallest DEF Waiting
<1>2. CASE queued # {}
  <2>1. /\ timeoutev' \in queued /\ timeoutev' # NULL
        /\ \A e \in queued : timeout[timeoutev'] <= timeout[e]
    BY <1>0, <1>2, CalctimoSmallest, NullAssumption DEF TypeOK
  <2>2. wait' = Remaining(timeoutev')
    BY <1>0, <2>1
  <2>3. /\ due[timeoutev'] <= wait'
        /\ Bounded => due[timeoutev'] = wait' \/ wait' = 0
    BY <2>1, <2>2, RemainingDue
  <2> QED BY <1>0, <1>2, <2>1, <2>3 DEF Waiting
<1> QED BY <1>1, <1>2

LEMMA SleepWaits == ASSUME TypeOK, Waiting, Sleep PROVE Waiting'
<1>0. /\ pc = "poll" /\ wait > 0 /\ wait' = wait - 1 /\ slept' = TRUE
      /\ UNCHANGED <<queued, timeout, timeoutev, pc>>
  BY DEF Sleep, Passes
<1>1. CASE queued = {}
  BY <1>0, <1>1 DEF Waiting
<1>2. CASE queued # {}
  <2>1. /\ timeoutev \in queued /\ timeoutev \in Timers
        /\ \A e \in queued : timeout[timeoutev] <= timeout[e]
        /\ due[timeoutev] <= wait
        /\ Bounded => due[timeoutev] = wait
    BY <1>0, <1>2 DEF Waiting, TypeOK
  <2>2. /\ due'[timeoutev] = IF due[timeoutev] = -MaxLate THEN due[timeoutev]
                             ELSE due[timeoutev] - 1
        /\ Bounded => due[timeoutev] # -MaxLate
    <3>1. due[timeoutev] \in Int
      BY <2>1, Bounds DEF TypeOK
    <3> QED BY <2>1, <3>1, Bounds DEF Sleep, Passes
  <2>3. due[timeoutev] \in Int /\ wait \in Nat
    BY <2>1, Bounds DEF TypeOK
  <2>4. due'[timeoutev] <= wait' /\ (Bounded => due'[timeoutev] = wait')
    BY <1>0, <2>1, <2>2, <2>3, Bounds
  <2> QED BY <1>0, <1>2, <2>1, <2>4 DEF Waiting
<1> QED BY <1>1, <1>2

THEOREM ClockInvariant == Spec => []ClockInv
<1>1. Init => ClockInv
  BY DEF Init, ClockInv, Exact, Waiting
<1>2. TypeOK /\ ClockInv /\ [Next]_vars => ClockInv'
  <2> SUFFICES ASSUME TypeOK, Exact, Waiting, [Next]_vars PROVE Exact' /\ Waiting'
    BY DEF ClockInv
  <2>1. ASSUME NEW e \in Timers, NEW timo \in 1..MaxWait, SetTimeout(e, timo)
        PROVE  Exact' /\ Waiting'
    <3>1. Waiting'
      BY <2>1 DEF SetTimeout, Waiting
    <3>2. ASSUME NEW x \in queued', Bounded \/ due'[x] > -MaxLate
          PROVE  timeout'[x] = Int32(now' + due'[x])
      <4>1. CASE x = e
        BY <2>1, <4>1 DEF SetTimeout, TypeOK
      <4>2. CASE x # e
        <5>1. x \in queued /\ timeout'[x] = timeout[x] /\ due'[x] = due[x] /\ now' = now
          BY <2>1, <4>2 DEF SetTimeout, TypeOK
        <5> QED BY <3>2, <5>1 DEF Exact
      <4> QED BY <4>1, <4>2
    <3> QED BY <3>1, <3>2 DEF Exact
  <2>2. ASSUME NEW e \in Timers, Evdeq(e) PROVE Exact' /\ Waiting'
    BY <2>2 DEF Evdeq, Exact, Waiting, TypeOK
  <2>3. CASE Busy
    BY <2>3, PassesExact DEF Busy, Waiting
  <2>4. CASE Poll
    BY <2>4, PollWaits DEF Poll, Exact
  <2>5. CASE Sleep
    BY <2>5, PassesExact, SleepWaits DEF Sleep
  <2>6. CASE Interrupt
    BY <2>6 DEF Interrupt, Exact, Waiting
  <2>7. CASE Expire
    BY <2>7 DEF Expire, Fired, Exact, Waiting, TypeOK
  <2>8. CASE UNCHANGED vars
    BY <2>8 DEF vars, Exact, Waiting
  <2> QED BY <2>1, <2>2, <2>3, <2>4, <2>5, <2>6, <2>7, <2>8 DEF Next
<1> QED BY <1>1, <1>2, TypeCorrect, PTL DEF Spec

\* However the clock wraps, a timer that leaves the queue in poll() is due
\* (calctimo, sched): the loop never calls one early, also not when signals
\* and descriptors interrupt the wait.
THEOREM TimersNeverEarly == Spec => NeverEarly
<1>1. TypeOK /\ ClockInv /\ [Next]_vars =>
        [\A e \in queued : pc = "poll" /\ e \notin queued' => due[e] <= 0]_vars
  <2> SUFFICES ASSUME TypeOK, Waiting, Next, NEW e \in queued, pc = "poll", e \notin queued'
               PROVE  due[e] <= 0
    BY DEF ClockInv
  <2>1. Expire
    BY DEF Next, SetTimeout, Evdeq, Busy, Poll, Sleep, Passes, Interrupt
  <2>2. e = timeoutev /\ wait = 0
    BY <2>1 DEF Expire, Fired
  <2> QED BY <2>2 DEF Waiting
<1> QED BY <1>1, TypeCorrect, ClockInvariant, PTL DEF Spec, NeverEarly

\* When poll() has waited, no timer has become overdue meanwhile, unless the
\* ints of two timers stand in the wrong order (calctimo).  Timers whose lateness
\* is not bounded may be 2^31 milliseconds late, and then look early.
THEOREM NeverOversleeps == ASSUME Bounded PROVE Spec => []NoOversleep
<1>1. TypeOK /\ ClockInv => NoOversleep
  <2> SUFFICES ASSUME TypeOK, Exact, Waiting, pc = "poll", slept, ~Straddling,
                      NEW e \in queued
               PROVE  due[e] >= 0
    BY DEF ClockInv, NoOversleep
  <2>1. /\ timeoutev \in queued /\ timeout[timeoutev] <= timeout[e]
        /\ due[timeoutev] = wait
    BY DEF Waiting
  <2>2. /\ now \in Int /\ wait \in Nat /\ due[e] \in -MaxLate..MaxWait
        /\ due[timeoutev] \in -MaxLate..MaxWait
        /\ timeout[e] \in Int /\ timeout[timeoutev] \in Int
    BY <2>1, Bounds DEF TypeOK
  <2>3. /\ timeout[e] = Int32(now + due[e])
        /\ timeout[timeoutev] = Int32(now + due[timeoutev])
    BY <2>1 DEF Exact
  <2> SUFFICES ASSUME due[e] < 0 PROVE FALSE
    BY <2>2, Bounds
  <2>4. due[e] < due[timeoutev]
    BY <2>1, <2>2, Bounds
  <2>5. timeout[e] # timeout[timeoutev]
    <3>1. /\ now + due[e] \in Int /\ now + due[timeoutev] \in Int
          /\ now + due[e] < now + due[timeoutev]
          /\ (now + due[timeoutev]) - (now + due[e]) < Width
      BY <2>2, <2>4, Bounds
    <3> QED BY <2>3, <3>1, Int32Distinct
  <2>6. timeout[e] > timeout[timeoutev]
    BY <2>1, <2>2, <2>5
  <2> QED BY <2>1, <2>4, <2>6 DEF Straddling
<1> QED BY <1>1, TypeCorrect, ClockInvariant, PTL DEF Spec
=============================================================================
