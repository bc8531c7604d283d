---------------------------- MODULE SchedProofs ----------------------------
(***************************************************************************)
(* What holds of the scheduler for every set of events, every table of     *)
(* handlers and every number of queue operations: its types, the shape of  *)
(* the two queues, the safety of the cursor of the walk, and that a round  *)
(* looks at every event exactly once.                                      *)
(***************************************************************************)
EXTENDS Sched, FiniteSetTheorems, TLAPS

-----------------------------------------------------------------------------
(* The queue operators                                                     *)

Before(q, x, y) == \E j, k \in DOMAIN q : j < k /\ q[j] = x /\ q[k] = y

LEMMA ConstantSeq ==
  ASSUME NEW S, NEW x \in S, NEW c \in Nat
  PROVE  /\ [k \in 1..c |-> x] \in Seq(S)
         /\ Len([k \in 1..c |-> x]) = c
  OBVIOUS

LEMMA EnterType ==
  ASSUME NEW q \in Seq(Events), NEW e \in Events
  PROVE  /\ Enter(q, e) \in Seq(Events)
         /\ Len(Enter(q, e)) = Len(q) + 1
         /\ DOMAIN Enter(q, e) = 1..Len(q) + 1
  BY DEF Enter

\* Where the entry goes: one place p, the events before it as they were,
\* those after it moved by one.
LEMMA EnterPlace ==
  ASSUME NEW q \in Seq(Events), Sorted(q), NEW e \in Events
  PROVE  \E p \in 1..Len(q) + 1 :
           /\ \A k \in 1..Len(q) : k < p <=> Prio[q[k]] >= Prio[e]
           /\ Enter(q, e)[p] = e
           /\ \A k \in 1..Len(q) : /\ k < p => Enter(q, e)[k] = q[k]
                                   /\ k >= p => Enter(q, e)[k + 1] = q[k]
<1> DEFINE low == {k \in 1..Len(q) : Prio[q[k]] < Prio[e]}
           m == Cardinality(low)
           p == Len(q) - m + 1
<1>1. /\ IsFiniteSet(1..Len(q)) /\ Cardinality(1..Len(q)) = Len(q)
      /\ Len(q) \in Nat
  <2>1. Len(q) \in Nat
    OBVIOUS
  <2> QED BY <2>1, FS_Interval
<1>2. /\ IsFiniteSet(low) /\ m \in Nat /\ m <= Len(q)
  BY <1>1, FS_Subset, FS_CardinalityType
<1>3. \A k \in 1..Len(q) : /\ q[k] \in Events /\ Prio[q[k]] \in Int
                           /\ Prio[e] \in Int
  BY PrioAssumption
<1>4. \A j, k \in 1..Len(q) : j < k => Prio[q[j]] >= Prio[q[k]]
  BY DEF Sorted
<1> HIDE DEF low, m
<1>5. \A k \in low : k >= p
  <2> SUFFICES ASSUME NEW k \in low PROVE k >= p
    OBVIOUS
  <2>0. k \in 1..Len(q) /\ Prio[q[k]] < Prio[e]
    BY DEF low
  <2>1. k..Len(q) \subseteq low
    <3> SUFFICES ASSUME NEW j \in k..Len(q) PROVE j \in low
      OBVIOUS
    <3>1. j \in 1..Len(q) /\ (j = k \/ k < j)
      BY <2>0, <1>1
    <3>2. Prio[q[k]] >= Prio[q[j]]
      BY <3>1, <2>0, <1>4, <1>3
    <3> QED BY <3>1, <3>2, <2>0, <1>3 DEF low
  <2>2. Cardinality(k..Len(q)) = Len(q) - k + 1
    BY <2>0, <1>1, FS_Interval
  <2>3. Cardinality(k..Len(q)) <= m
    BY <2>1, <1>2, FS_Subset DEF m
  <2> QED BY <2>0, <2>2, <2>3, <1>1, <1>2
<1>6. low = p..Len(q)
  <2>1. low \subseteq p..Len(q)
    BY <1>5, <1>1, <1>2 DEF low
  <2>2. IsFiniteSet(p..Len(q)) /\ Cardinality(p..Len(q)) = m
    BY <1>1, <1>2, FS_Interval
  <2> QED BY <2>1, <2>2, FS_Subset DEF m
<1>7. p \in 1..Len(q) + 1
  BY <1>1, <1>2
<1> HIDE DEF p
<1>8. \A k \in 1..Len(q) : k < p <=> Prio[q[k]] >= Prio[e]
  BY <1>1, <1>3, <1>6, <1>7 DEF low
<1>9. Enter(q, e)[p] = e
  BY <1>1, <1>7, <1>8, <1>3 DEF Enter
<1>10. \A k \in 1..Len(q) : /\ k < p => Enter(q, e)[k] = q[k]
                            /\ k >= p => Enter(q, e)[k + 1] = q[k]
  <2> SUFFICES ASSUME NEW k \in 1..Len(q)
               PROVE  /\ k < p => Enter(q, e)[k] = q[k]
                      /\ k >= p => Enter(q, e)[k + 1] = q[k]
    OBVIOUS
  <2>1. CASE k < p
    BY <2>1, <1>1, <1>3, <1>8, <1>7 DEF Enter
  <2>2. CASE k >= p
    <3>1. Prio[q[k]] < Prio[e]
      BY <2>2, <1>1, <1>3, <1>8, <1>7
    <3>2. k + 1 <= Len(q) => Prio[q[k + 1]] < Prio[e]
      BY <3>1, <2>2, <1>1, <1>3, <1>8, <1>7
    <3>3. ~(k < p) /\ k + 1 # 1 /\ (k + 1) - 1 = k /\ k + 1 \in 1..Len(q) + 1
      BY <2>2, <1>1, <1>7
    <3>4. Prio[q[k]] \in Int /\ ~(Prio[e] <= Prio[q[k]])
      BY <3>1, <1>3
    <3>5. ~(k + 1 <= Len(q) /\ Prio[e] <= Prio[q[k + 1]])
      <4>1. CASE k + 1 <= Len(q)
        <5>1. k + 1 \in 1..Len(q)
          BY <4>1, <1>1
        <5> QED BY <5>1, <4>1, <3>2, <1>3
      <4> QED BY <4>1
    <3>6. Enter(q, e)[k + 1] = q[(k + 1) - 1]
      BY <3>3, <3>4, <3>5 DEF Enter
    <3> QED BY <3>6, <3>3
  <2> QED BY <2>1, <2>2, <1>7
<1> QED BY <1>7, <1>8, <1>9, <1>10

\* A new event enters a queue once, and moves nothing else.
LEMMA EnterQueue ==
  ASSUME NEW q \in Seq(Events), Sorted(q), NEW e \in Events, ~InQueue(e, q)
  PROVE  /\ Enter(q, e) \in Seq(Events)
         /\ Sorted(Enter(q, e))
         /\ \A x : InQueue(x, Enter(q, e)) <=> InQueue(x, q) \/ x = e
         /\ \A x, y : x # e /\ y # e =>
              (Before(Enter(q, e), x, y) <=> Before(q, x, y))
<1> DEFINE r == Enter(q, e)
<1>1. /\ r \in Seq(Events) /\ Len(r) = Len(q) + 1
      /\ DOMAIN r = 1..Len(q) + 1 /\ DOMAIN q = 1..Len(q) /\ Len(q) \in Nat
  BY EnterType
<1>2. PICK p \in 1..Len(q) + 1 :
        /\ \A k \in 1..Len(q) : k < p <=> Prio[q[k]] >= Prio[e]
        /\ r[p] = e
        /\ \A k \in 1..Len(q) : /\ k < p => r[k] = q[k]
                                /\ k >= p => r[k + 1] = q[k]
  BY EnterPlace
<1>3. \A k \in 1..Len(q) : q[k] \in Events /\ q[k] # e /\ Prio[q[k]] \in Int
  BY PrioAssumption DEF InQueue
<1>4. Prio[e] \in Int
  BY PrioAssumption
<1> HIDE DEF r
<1>5. \A k \in 1..Len(q) + 1 :
        k # p => \E j \in 1..Len(q) : /\ r[k] = q[j]
                                      /\ j = IF k < p THEN k ELSE k - 1
  <2> SUFFICES ASSUME NEW k \in 1..Len(q) + 1, k # p
               PROVE  \E j \in 1..Len(q) : /\ r[k] = q[j]
                                           /\ j = IF k < p THEN k ELSE k - 1
    OBVIOUS
  <2>1. CASE k < p
    BY <2>1, <1>1, <1>2
  <2>2. CASE k > p
    <3>1. k - 1 \in 1..Len(q) /\ k - 1 >= p /\ (k - 1) + 1 = k
      BY <2>2, <1>1
    <3>2. r[(k - 1) + 1] = q[k - 1]
      BY <3>1, <1>2
    <3> QED BY <2>2, <3>1, <3>2
  <2> QED BY <2>1, <2>2, <1>1
<1>6. Sorted(r)
  <2> SUFFICES ASSUME NEW j \in DOMAIN r, NEW k \in DOMAIN r, j < k
               PROVE  r[j] # r[k] /\ Prio[r[j]] >= Prio[r[k]]
    BY DEF Sorted
  <2>1. CASE j = p
    <3>1. PICK l \in 1..Len(q) : r[k] = q[l] /\ l = k - 1
      BY <2>1, <1>1, <1>5
    <3> QED BY <2>1, <3>1, <1>1, <1>2, <1>3, <1>4
  <2>2. CASE k = p
    <3>1. PICK l \in 1..Len(q) : r[j] = q[l] /\ l = j
      BY <2>2, <1>1, <1>5
    <3> QED BY <2>2, <3>1, <1>1, <1>2, <1>3, <1>4
  <2>3. CASE j # p /\ k # p
    <3>1. PICK a \in 1..Len(q) : r[j] = q[a] /\ a = IF j < p THEN j ELSE j - 1
      BY <2>3, <1>1, <1>5
    <3>2. PICK b \in 1..Len(q) : r[k] = q[b] /\ b = IF k < p THEN k ELSE k - 1
      BY <2>3, <1>1, <1>5
    <3>3. a < b
      BY <2>3, <3>1, <3>2, <1>1
    <3> QED BY <3>1, <3>2, <3>3, <1>1 DEF Sorted
  <2> QED BY <2>1, <2>2, <2>3
<1>7. ASSUME NEW x PROVE InQueue(x, r) <=> InQueue(x, q) \/ x = e
  <2>1. InQueue(x, r) => InQueue(x, q) \/ x = e
    <3> SUFFICES ASSUME NEW k \in 1..Len(q) + 1, r[k] = x, x # e
                 PROVE  InQueue(x, q)
      BY <1>1 DEF InQueue
    <3>1. PICK j \in 1..Len(q) : r[k] = q[j]
      BY <1>2, <1>5
    <3> QED BY <3>1, <1>1 DEF InQueue
  <2>2. InQueue(x, q) => InQueue(x, r)
    <3> SUFFICES ASSUME NEW k \in 1..Len(q), q[k] = x PROVE InQueue(x, r)
      BY <1>1 DEF InQueue
    <3>1. k \in DOMAIN r /\ k + 1 \in DOMAIN r /\ (k < p \/ k >= p)
      BY <1>1
    <3> QED BY <3>1, <1>2 DEF InQueue
  <2>3. InQueue(e, r)
    BY <1>1, <1>2 DEF InQueue
  <2> QED BY <2>1, <2>2, <2>3
<1>8. ASSUME NEW x, NEW y, x # e, y # e
      PROVE  Before(r, x, y) <=> Before(q, x, y)
  <2>1. ASSUME Before(r, x, y) PROVE Before(q, x, y)
    <3>1. PICK j, k \in DOMAIN r : j < k /\ r[j] = x /\ r[k] = y
      BY <2>1 DEF Before
    <3>2. j # p /\ k # p
      BY <3>1, <1>2, <1>8
    <3>3. PICK a \in 1..Len(q) : r[j] = q[a] /\ a = IF j < p THEN j ELSE j - 1
      BY <3>2, <1>1, <1>5
    <3>4. PICK b \in 1..Len(q) : r[k] = q[b] /\ b = IF k < p THEN k ELSE k - 1
      BY <3>2, <1>1, <1>5
    <3>5. a < b
      BY <3>1, <3>2, <3>3, <3>4, <1>1
    <3> QED BY <3>1, <3>3, <3>4, <3>5, <1>1 DEF Before
  <2>2. ASSUME Before(q, x, y) PROVE Before(r, x, y)
    <3>1. PICK j, k \in 1..Len(q) : j < k /\ q[j] = x /\ q[k] = y
      BY <2>2, <1>1 DEF Before
    <3> DEFINE a == IF j < p THEN j ELSE j + 1
               b == IF k < p THEN k ELSE k + 1
    <3>2. r[a] = x /\ r[b] = y
      BY <3>1, <1>2, <1>1
    <3>3. a \in DOMAIN r /\ b \in DOMAIN r /\ a < b
      BY <3>1, <1>1
    <3> QED BY <3>2, <3>3 DEF Before
  <2> QED BY <2>1, <2>2
<1> QED BY <1>1, <1>6, <1>7, <1>8 DEF r

\* Unlinking an event removes it, and moves nothing else.
LEMMA UnlinkQueue ==
  ASSUME NEW q \in Seq(Events), Sorted(q), NEW e \in Events, InQueue(e, q)
  PROVE  /\ Unlink(q, e) \in Seq(Events)
         /\ Sorted(Unlink(q, e))
         /\ \A x : InQueue(x, Unlink(q, e)) <=> InQueue(x, q) /\ x # e
         /\ \A x, y : x # e /\ y # e =>
              (Before(Unlink(q, e), x, y) <=> Before(q, x, y))
<1> DEFINE r == Unlink(q, e)
           p == CHOOSE k \in DOMAIN q : q[k] = e
<1>1. p \in DOMAIN q /\ q[p] = e
  BY DEF InQueue
<1> HIDE DEF p
<1>2. Len(q) \in Nat /\ DOMAIN q = 1..Len(q) /\ Len(q) >= 1
  BY <1>1
<1>3. r = [k \in 1..Len(q) - 1 |-> IF k < p THEN q[k] ELSE q[k + 1]]
  BY DEF Unlink, p
<1> HIDE DEF r
<1>4. DOMAIN r = 1..Len(q) - 1 /\ r \in Seq(Events)
  <2>1. \A k \in 1..Len(q) - 1 : r[k] \in Events
    BY <1>2, <1>3
  <2> QED BY <1>2, <1>3, <2>1
<1>5. \A j, k \in 1..Len(q) : j < k => q[j] # q[k] /\ Prio[q[j]] >= Prio[q[k]]
  BY <1>2 DEF Sorted
<1>6. \A k \in 1..Len(q) - 1 :
        \E j \in 1..Len(q) : /\ r[k] = q[j] /\ j # p
                             /\ j = IF k < p THEN k ELSE k + 1
  BY <1>1, <1>2, <1>3
<1>7. \A j \in 1..Len(q) :
        j # p => \E k \in 1..Len(q) - 1 : /\ r[k] = q[j]
                                          /\ k = IF j < p THEN j ELSE j - 1
  <2> SUFFICES ASSUME NEW j \in 1..Len(q), j # p
               PROVE  \E k \in 1..Len(q) - 1 :
                        /\ r[k] = q[j] /\ k = IF j < p THEN j ELSE j - 1
    OBVIOUS
  <2>1. CASE j < p
    <3>1. j \in 1..Len(q) - 1
      BY <2>1, <1>1, <1>2
    <3>2. r[j] = q[j]
      BY <2>1, <3>1, <1>3
    <3> QED BY <2>1, <3>1, <3>2
  <2>2. CASE j > p
    <3>1. j - 1 \in 1..Len(q) - 1 /\ ~(j - 1 < p) /\ (j - 1) + 1 = j
      BY <2>2, <1>1, <1>2
    <3>2. r[j - 1] = q[(j - 1) + 1]
      BY <3>1, <1>3
    <3> QED BY <2>2, <3>1, <3>2, <1>1, <1>2
  <2> QED BY <2>1, <2>2, <1>1, <1>2
<1>8. Sorted(r)
  <2> SUFFICES ASSUME NEW j \in DOMAIN r, NEW k \in DOMAIN r, j < k
               PROVE  r[j] # r[k] /\ Prio[r[j]] >= Prio[r[k]]
    BY DEF Sorted
  <2>1. PICK a \in 1..Len(q) : r[j] = q[a] /\ a = IF j < p THEN j ELSE j + 1
    BY <1>4, <1>6
  <2>2. PICK b \in 1..Len(q) : r[k] = q[b] /\ b = IF k < p THEN k ELSE k + 1
    BY <1>4, <1>6
  <2>3. a < b
    BY <2>1, <2>2, <1>1, <1>2, <1>4
  <2> QED BY <2>1, <2>2, <2>3, <1>5
<1>9. ASSUME NEW x PROVE InQueue(x, r) <=> InQueue(x, q) /\ x # e
  <2>1. ASSUME InQueue(x, r) PROVE InQueue(x, q) /\ x # e
    <3>1. PICK k \in 1..Len(q) - 1 : r[k] = x
      BY <2>1, <1>4 DEF InQueue
    <3>2. PICK j \in 1..Len(q) : r[k] = q[j] /\ j # p
      BY <1>6
    <3>3. q[j] # q[p]
      BY <3>2, <1>1, <1>2, <1>5
    <3> QED BY <3>1, <3>2, <3>3, <1>1, <1>2 DEF InQueue
  <2>2. ASSUME InQueue(x, q), x # e PROVE InQueue(x, r)
    <3>1. PICK j \in 1..Len(q) : q[j] = x /\ j # p
      BY <2>2, <1>1, <1>2 DEF InQueue
    <3>2. PICK k \in 1..Len(q) - 1 : r[k] = q[j]
      BY <3>1, <1>7
    <3> QED BY <3>1, <3>2, <1>4 DEF InQueue
  <2> QED BY <2>1, <2>2
<1>10. ASSUME NEW x, NEW y, x # e, y # e
       PROVE  Before(r, x, y) <=> Before(q, x, y)
  <2>1. ASSUME Before(r, x, y) PROVE Before(q, x, y)
    <3>1. PICK j, k \in 1..Len(q) - 1 : j < k /\ r[j] = x /\ r[k] = y
      BY <2>1, <1>4 DEF Before
    <3>2. PICK a \in 1..Len(q) : r[j] = q[a] /\ a = IF j < p THEN j ELSE j + 1
      BY <1>6
    <3>3. PICK b \in 1..Len(q) : r[k] = q[b] /\ b = IF k < p THEN k ELSE k + 1
      BY <1>6
    <3>4. a < b
      BY <3>1, <3>2, <3>3, <1>1, <1>2
    <3> QED BY <3>1, <3>2, <3>3, <3>4, <1>2 DEF Before
  <2>2. ASSUME Before(q, x, y) PROVE Before(r, x, y)
    <3>1. PICK j, k \in 1..Len(q) : j < k /\ q[j] = x /\ q[k] = y
      BY <2>2, <1>2 DEF Before
    <3>2. j # p /\ k # p
      BY <3>1, <1>1, <1>10
    <3>3. PICK a \in 1..Len(q) - 1 : r[a] = q[j] /\ a = IF j < p THEN j ELSE j - 1
      BY <3>2, <1>7
    <3>4. PICK b \in 1..Len(q) - 1 : r[b] = q[k] /\ b = IF k < p THEN k ELSE k - 1
      BY <3>2, <1>7
    <3>5. a < b
      BY <3>1, <3>2, <3>3, <3>4, <1>1, <1>2
    <3> QED BY <3>1, <3>3, <3>4, <3>5, <1>4 DEF Before
  <2> QED BY <2>1, <2>2
<1> QED BY <1>4, <1>8, <1>9, <1>10 DEF r

\* The events before the successor of e are e and those before e; with no
\* successor, e is the last.
LEMMA SuccessorQueue ==
  ASSUME NEW q \in Seq(Events), Sorted(q), NEW e \in Events, InQueue(e, q)
  PROVE  /\ Successor(q, e) # NULL => InQueue(Successor(q, e), q)
         /\ Successor(q, e) \in Events \cup {NULL}
         /\ Successor(q, e) # e
         /\ \A x : Successor(q, e) # NULL =>
              (Before(q, x, Successor(q, e)) <=> x = e \/ Before(q, x, e))
         /\ \A x : Successor(q, e) = NULL /\ InQueue(x, q) =>
              x = e \/ Before(q, x, e)
<1>1. PICK p \in DOMAIN q : q[p] = e
  BY DEF InQueue
<1>2. Len(q) \in Nat /\ DOMAIN q = 1..Len(q)
  OBVIOUS
<1>3. \A j, k \in 1..Len(q) : j # k => q[j] # q[k]
  <2> SUFFICES ASSUME NEW j \in 1..Len(q), NEW k \in 1..Len(q), j # k
               PROVE  q[j] # q[k]
    OBVIOUS
  <2> QED BY <1>2 DEF Sorted
<1> DEFINE after == {k \in 2..Len(q) : q[k - 1] = e}
<1>4. after = IF p < Len(q) THEN {p + 1} ELSE {}
  <2>1. \A k \in 2..Len(q) : q[k - 1] = e <=> k - 1 = p
    BY <1>1, <1>2, <1>3
  <2> QED BY <2>1, <1>1, <1>2
<1>5. Successor(q, e) = IF p < Len(q) THEN q[p + 1] ELSE NULL
  <2>1. Successor(q, e) = IF after = {} THEN NULL
                          ELSE q[CHOOSE k \in after : TRUE]
    BY DEF Successor
  <2> HIDE DEF after
  <2>2. p < Len(q) => (CHOOSE k \in after : TRUE) = p + 1
    BY <1>4
  <2> QED BY <2>1, <2>2, <1>4
<1>6. CASE p < Len(q)
  <2>1. /\ Successor(q, e) = q[p + 1] /\ p + 1 \in 1..Len(q)
        /\ q[p + 1] \in Events
    BY <1>5, <1>6, <1>1, <1>2
  <2>2. q[p + 1] # NULL
    BY <2>1, NullAssumption
  <2>3. ASSUME NEW x
        PROVE Before(q, x, q[p + 1]) <=> x = e \/ Before(q, x, e)
    <3>1. ASSUME Before(q, x, q[p + 1]) PROVE x = e \/ Before(q, x, e)
      <4>1. PICK j, k \in 1..Len(q) : j < k /\ q[j] = x /\ q[k] = q[p + 1]
        BY <3>1, <1>2 DEF Before
      <4>2. k = p + 1
        BY <4>1, <2>1, <1>3
      <4> QED BY <4>1, <4>2, <1>1, <1>2 DEF Before
    <3>2. ASSUME x = e \/ Before(q, x, e) PROVE Before(q, x, q[p + 1])
      <4>1. CASE x = e
        BY <4>1, <1>1, <1>2, <2>1 DEF Before
      <4>2. CASE Before(q, x, e)
        <5>1. PICK j, k \in 1..Len(q) : j < k /\ q[j] = x /\ q[k] = e
          BY <4>2, <1>2 DEF Before
        <5>2. k = p
          BY <5>1, <1>1, <1>2, <1>3
        <5> QED BY <5>1, <5>2, <2>1, <1>2 DEF Before
      <4> QED BY <3>2, <4>1, <4>2
    <3> QED BY <3>1, <3>2
  <2>4. q[p + 1] # e
    BY <1>1, <1>2, <1>3, <2>1
  <2>5. InQueue(q[p + 1], q)
    BY <2>1, <1>2 DEF InQueue
  <2> QED BY <2>1, <2>2, <2>3, <2>4, <2>5
<1>7. CASE ~(p < Len(q))
  <2>1. Successor(q, e) = NULL
    BY <1>5, <1>7
  <2>2. ASSUME NEW x, InQueue(x, q) PROVE x = e \/ Before(q, x, e)
    <3>1. PICK j \in 1..Len(q) : q[j] = x
      BY <2>2, <1>2 DEF InQueue
    <3> QED BY <3>1, <1>1, <1>2, <1>7 DEF Before
  <2> QED BY <2>1, <2>2, NullAssumption
<1> QED BY <1>6, <1>7

-----------------------------------------------------------------------------
(* The poll array                                                          *)

Slot == [fd : Int, revents : BOOLEAN]

LEMMA MarkedType ==
  ASSUME NEW p \in Seq(Slot), NEW e \in Events
  PROVE  Marked(p, e) \in Seq(Slot) /\ Len(Marked(p, e)) = Len(p)
<1>1. Fd[e] \in Int /\ -Fd[e] \in Int
  BY FdAssumption
<1>2. \A k \in DOMAIN p :
        p[k] \in Slot /\ [fd |-> -Fd[e], revents |-> p[k].revents] \in Slot
  <2> SUFFICES ASSUME NEW k \in DOMAIN p
               PROVE  /\ p[k] \in Slot
                      /\ [fd |-> -Fd[e], revents |-> p[k].revents] \in Slot
    OBVIOUS
  <2>1. p[k] \in Slot
    OBVIOUS
  <2>2. p[k].revents \in BOOLEAN
    BY <2>1 DEF Slot
  <2> QED BY <2>1, <2>2, <1>1 DEF Slot
<1>3. DOMAIN p = 1..Len(p) /\ Len(p) \in Nat
  OBVIOUS
<1>4. \A k \in DOMAIN p :
        (IF p[k].fd = Fd[e] THEN [fd |-> -Fd[e], revents |-> p[k].revents]
         ELSE p[k]) \in Slot
  BY <1>2
<1> QED BY <1>3, <1>4 DEF Marked

\* The polled events of a queue are finitely many.
LEMMA PolledFinite ==
  ASSUME NEW q \in Seq(Events), NEW t
  PROVE  /\ IsFiniteSet(PolledIn(q, t)) /\ Cardinality(PolledIn(q, t)) \in Nat
         /\ PolledIn(q, t) \subseteq DOMAIN q
<1>1. DOMAIN q = 1..Len(q) /\ Len(q) \in Nat
  OBVIOUS
<1>2. IsFiniteSet(1..Len(q))
  BY <1>1, FS_Interval
<1>3. PolledIn(q, t) \subseteq 1..Len(q)
  BY <1>1 DEF PolledIn
<1> QED BY <1>1, <1>2, <1>3, FS_Subset, FS_CardinalityType

LEMMA GrownType ==
  ASSUME NEW p \in Seq(Slot), NEW q \in Seq(Events), NEW t,
         NEW g \in Grown(p, q, t)
  PROVE  /\ g \in Seq(Slot)
         /\ Cardinality(PolledIn(q, t)) <= Len(g)
<1> DEFINE need == Cardinality(PolledIn(q, t))
<1>1. need \in Nat /\ Len(p) \in Nat /\ DOMAIN p = 1..Len(p)
  BY PolledFinite
<1> HIDE DEF need
<1>2. CASE need <= Len(p)
  <2>1. g = p
    BY <1>2 DEF Grown, need
  <2> QED BY <2>1, <1>2 DEF need
<1>3. CASE ~(need <= Len(p))
  <2>1. PICK r \in [Len(p) + 1..need -> BOOLEAN] :
          g = [k \in 1..need |->
                 IF k <= Len(p) THEN p[k] ELSE [fd |-> 0, revents |-> r[k]]]
    BY <1>3 DEF Grown, need
  <2>2. \A k \in 1..need : g[k] \in Slot
    <3> SUFFICES ASSUME NEW k \in 1..need PROVE g[k] \in Slot
      OBVIOUS
    <3>1. CASE k <= Len(p)
      BY <3>1, <2>1, <1>1
    <3>2. CASE ~(k <= Len(p))
      <4>1. k \in Len(p) + 1..need
        BY <3>2, <1>1
      <4>2. r[k] \in BOOLEAN /\ g[k] = [fd |-> 0, revents |-> r[k]]
        BY <4>1, <3>2, <2>1
      <4> QED BY <4>2 DEF Slot
    <3> QED BY <3>1, <3>2
  <2>3. g \in Seq(Slot) /\ Len(g) = need
    BY <2>1, <2>2, <1>1
  <2> QED BY <2>3, <1>1 DEF need
<1> QED BY <1>2, <1>3

\* Unlinking adds no polled event.
LEMMA UnlinkPolled ==
  ASSUME NEW q \in Seq(Events), NEW e \in Events, InQueue(e, q), NEW t
  PROVE  Cardinality(PolledIn(Unlink(q, e), t)) <= Cardinality(PolledIn(q, t))
<1> DEFINE r == Unlink(q, e)
           p == CHOOSE k \in DOMAIN q : q[k] = e
           R == PolledIn(r, t)
           Q == PolledIn(q, t)
           f == [k \in R |-> IF k < p THEN k ELSE k + 1]
<1>1. p \in DOMAIN q /\ Len(q) \in Nat /\ DOMAIN q = 1..Len(q)
  BY DEF InQueue
<1> HIDE DEF p
<1>2. r = [k \in 1..Len(q) - 1 |-> IF k < p THEN q[k] ELSE q[k + 1]]
  BY DEF Unlink, p
<1> HIDE DEF r
<1>3. \A k \in R : k \in 1..Len(q) - 1 /\ t[r[k]] \in PolledTypes
  BY <1>2 DEF PolledIn
<1>4. \A k \in R : f[k] \in Q
  BY <1>1, <1>2, <1>3 DEF PolledIn
<1>5. \A j, k \in R : f[j] = f[k] => j = k
  BY <1>1, <1>3
<1> HIDE DEF R, Q
<1>6. f \in [R -> Q]
  BY <1>4
<1>7. f \in Injection(R, Q)
  BY <1>5, <1>6 DEF Injection, IsInjective
<1>8. IsFiniteSet(Q)
  BY PolledFinite DEF Q
<1>9. Cardinality(R) <= Cardinality(Q)
  BY <1>7, <1>8, FS_Injection
<1> QED BY <1>9 DEF R, Q, r

-----------------------------------------------------------------------------
(* The inductive invariant                                                 *)

\* The walk divides the queue: of the untouched events, the seen ones are
\* those before the cursor (the saved successor while a handler runs).
Cursor == IF pc = "walk" THEN ev ELSE nextev

WalkOrder ==
  /\ pc \in {"poll", "timer"} => seen = {} /\ nextev = NULL
  /\ pc = "walk" => nextev \in {ev, NULL}
  /\ pc \in {"walk", "handler"} =>
       /\ Cursor = NULL =>
            \A x : InQueue(x, evs) => x \in seen \cup touched
       /\ Cursor # NULL =>
            \A x : InQueue(x, evs) /\ x \notin touched =>
              (x \in seen <=> Before(evs, x, Cursor))

Inv == TypeOK /\ QueueOK /\ CursorSafe /\ WalkOrder /\ PollArrayFits

\* No event is before itself in a sorted queue, and none before the first.
LEMMA BeforeFirst ==
  ASSUME NEW q \in Seq(Events), Sorted(q)
  PROVE  /\ \A x : ~Before(q, x, x)
         /\ First(q) \in Events \cup {NULL}
         /\ First(q) # NULL => InQueue(First(q), q)
         /\ First(q) = NULL => \A x : ~InQueue(x, q)
         /\ \A x : First(q) # NULL => ~Before(q, x, First(q))
<1>1. Len(q) \in Nat /\ DOMAIN q = 1..Len(q)
  OBVIOUS
<1>2. \A j, k \in 1..Len(q) : j < k => q[j] # q[k]
  BY <1>1 DEF Sorted
<1>3. \A x : ~Before(q, x, x)
  BY <1>1, <1>2 DEF Before
<1>4. CASE q = <<>>
  BY <1>3, <1>4 DEF First, InQueue
<1>5. CASE q # <<>>
  <2>1. 1 \in 1..Len(q) /\ First(q) = q[1] /\ q[1] \in Events
    BY <1>1, <1>5 DEF First
  <2>2. InQueue(q[1], q) /\ q[1] # NULL
    BY <2>1, <1>1, NullAssumption DEF InQueue
  <2>3. \A x : ~Before(q, x, q[1])
    <3> SUFFICES ASSUME NEW j \in 1..Len(q), NEW k \in 1..Len(q),
                        j < k, q[k] = q[1]
                 PROVE  FALSE
      BY <1>1 DEF Before
    <3>1. 1 < k
      OBVIOUS
    <3> QED BY <3>1, <2>1, <1>2
  <2> QED BY <2>1, <2>2, <2>3, <1>3
<1> QED BY <1>4, <1>5

LEMMA InitInv == Init => Inv
<1> SUFFICES ASSUME Init PROVE Inv
  OBVIOUS
<1> USE DEF Init
<1>1. Cardinality(PolledIn(evs, InitType)) \in Nat
  BY InitQueueAssumption, PolledFinite
<1>2. TypeOK
  <2>1. \A k \in 1..Cardinality(PolledIn(evs, InitType)) :
          [fd |-> 0, revents |-> FALSE] \in [fd : Int, revents : BOOLEAN]
    OBVIOUS
  <2>2. pfd \in Seq([fd : Int, revents : BOOLEAN])
    <3> DEFINE c == Cardinality(PolledIn(evs, InitType))
    <3>1. c \in Nat
      BY <1>1
    <3>2. pfd = [k \in 1..c |-> [fd |-> 0, revents |-> FALSE]]
      OBVIOUS
    <3>3. [fd |-> 0, revents |-> FALSE] \in [fd : Int, revents : BOOLEAN]
      OBVIOUS
    <3> HIDE DEF c
    <3>4. [k \in 1..c |-> [fd |-> 0, revents |-> FALSE]]
            \in Seq([fd : Int, revents : BOOLEAN])
      BY <3>1, <3>3, ConstantSeq
    <3> QED BY <3>2, <3>4
  <2>3. tevs \in Seq(Events) /\ evs \in Seq(Events)
    BY InitQueueAssumption
  <2>4. queued \in [Events -> BOOLEAN] /\ type \in [Events -> Types]
    BY TypesAssumption, Zenon DEF InQueue
  <2>5. ops \in 0..MaxOps
    BY HandlersAssumption
  <2> QED BY <2>2, <2>3, <2>4, <2>5 DEF TypeOK, InHandler
<1>3. QueueOK
  BY InitQueueAssumption DEF QueueOK, Sorted, InQueue
<1>4. CursorSafe /\ WalkOrder
  BY DEF CursorSafe, WalkOrder, Cursor
<1>5. PollArrayFits
  <2>1. Len(pfd) = Cardinality(PolledIn(evs, type))
    BY <1>1
  <2> QED BY <2>1, <1>1 DEF PollArrayFits
<1> QED BY <1>2, <1>3, <1>4, <1>5 DEF Inv

\* The array poll() fills keeps its size.
LEMMA FilledType ==
  ASSUME TypeOK, NEW R
  PROVE  Filled(R) \in Seq(Slot) /\ Len(Filled(R)) = Len(pfd)
<1>1. DOMAIN pfd = 1..Len(pfd) /\ Len(pfd) \in Nat
  BY DEF TypeOK
<1>2. ASSUME NEW s \in DOMAIN pfd PROVE Filled(R)[s] \in Slot
  <2> DEFINE own == {k \in PolledIn(evs, type) :
                       SlotOf(k) = s /\ evs[k] \notin held}
             k0 == CHOOSE k \in own : TRUE
  <2>1. CASE own = {}
    BY <2>1 DEF Filled, Slot
  <2>2. CASE own # {}
    <3>1. k0 \in own
      BY <2>2
    <3>2. k0 \in DOMAIN evs
      BY <3>1 DEF PolledIn
    <3>3. evs[k0] \in Events
      BY <3>2 DEF TypeOK
    <3>4. Fd[evs[k0]] \in Int
      BY <3>3, FdAssumption
    <3>5. Filled(R)[s] = [fd |-> Fd[evs[k0]], revents |-> k0 \in R]
      BY <2>2 DEF Filled
    <3>6. (k0 \in R) \in BOOLEAN
      OBVIOUS
    <3> QED BY <3>4, <3>5, <3>6 DEF Slot
  <2> QED BY <2>1, <2>2
<1>3. Filled(R) = [s \in 1..Len(pfd) |-> Filled(R)[s]]
  BY <1>1 DEF Filled
<1> QED BY <1>1, <1>2, <1>3

-----------------------------------------------------------------------------
(* One lemma per action                                                    *)

LEMMA PollInv == Inv /\ Poll => Inv'
<1> SUFFICES ASSUME Inv, Poll PROVE Inv'
  OBVIOUS
<1> USE DEF Inv
<1>1. TypeOK /\ QueueOK /\ WalkOrder /\ seen = {} /\ nextev = NULL
  BY DEF Poll, WalkOrder
<1>2. PICK R \in SUBSET {k \in PolledIn(evs, type) : evs[k] \notin held} :
        /\ n' = Cardinality(R)
        /\ ready' = {evs[k] : k \in R}
        /\ \/ /\ pc' = "walk" /\ ev' = First(evs)
              /\ pfd' = Filled(R)
              /\ UNCHANGED <<evs, tevs, queued, nextev>>
           \/ /\ R = {} /\ tevs # <<>>
              /\ pc' = "timer"
              /\ \E e \in {tevs[k] : k \in DOMAIN tevs} :
                   /\ ev' = e
                   /\ queued' = [queued EXCEPT ![e] = FALSE]
                   /\ tevs' = Unlink(tevs, e)
                   /\ pfd' = Marked(Filled(R), e)
              /\ UNCHANGED <<evs, nextev>>
  BY DEF Poll
<1>3. /\ UNCHANGED <<type, held, i, ops, ran, seen, touched, shifted>>
      /\ evs' = evs /\ nextev' = NULL
  BY <1>1, <1>2 DEF Poll
<1>4. n' \in Nat /\ ready' \subseteq Events
  <2>1. IsFiniteSet(PolledIn(evs, type)) /\ PolledIn(evs, type) \subseteq DOMAIN evs
    BY PolledFinite DEF TypeOK
  <2>2. R \subseteq PolledIn(evs, type)
    OBVIOUS
  <2>3. IsFiniteSet(R) /\ Cardinality(R) \in Nat
    BY <2>1, <2>2, FS_Subset, FS_CardinalityType
  <2>4. \A k \in R : evs[k] \in Events
    BY <2>1, <2>2 DEF TypeOK
  <2> QED BY <2>3, <2>4, <1>2
<1>5. Filled(R) \in Seq(Slot) /\ Len(Filled(R)) = Len(pfd)
  BY FilledType
<1>6. Sorted(evs) /\ Sorted(tevs) /\ evs \in Seq(Events) /\ tevs \in Seq(Events)
  BY DEF QueueOK, TypeOK
<1>7. CASE /\ pc' = "walk" /\ ev' = First(evs)
           /\ pfd' = Filled(R)
           /\ UNCHANGED <<evs, tevs, queued, nextev>>
  <2>1. /\ First(evs) \in Events \cup {NULL}
        /\ First(evs) # NULL => InQueue(First(evs), evs)
        /\ First(evs) = NULL => \A x : ~InQueue(x, evs)
        /\ \A x : First(evs) # NULL => ~Before(evs, x, First(evs))
    BY <1>6, BeforeFirst
  <2>2. TypeOK'
    BY <1>1, <1>3, <1>4, <1>5, <1>7, <2>1 DEF TypeOK, InHandler, Slot
  <2>3. QueueOK'
    BY <1>3, <1>7 DEF QueueOK, Sorted, InQueue
  <2>4. CursorSafe'
    BY <1>3, <1>7, <2>1 DEF CursorSafe, InQueue
  <2>5. WalkOrder'
    BY <1>1, <1>3, <1>7, <2>1 DEF WalkOrder, Cursor
  <2>6. PollArrayFits'
    BY <1>3, <1>5, <1>7 DEF PollArrayFits, PolledIn
  <2> QED BY <2>2, <2>3, <2>4, <2>5, <2>6
<1>8. CASE /\ pc' = "timer"
           /\ \E e \in {tevs[k] : k \in DOMAIN tevs} :
                /\ ev' = e
                /\ queued' = [queued EXCEPT ![e] = FALSE]
                /\ tevs' = Unlink(tevs, e)
                /\ pfd' = Marked(Filled(R), e)
           /\ UNCHANGED <<evs, nextev>>
  <2>1. PICK e \in {tevs[k] : k \in DOMAIN tevs} :
           /\ ev' = e
           /\ queued' = [queued EXCEPT ![e] = FALSE]
           /\ tevs' = Unlink(tevs, e)
           /\ pfd' = Marked(Filled(R), e)
    BY <1>8
  <2>2. e \in Events /\ InQueue(e, tevs)
    BY <1>6, <2>1 DEF InQueue
  <2>3. type[e] = "TIMEOUT" /\ queued[e]
    BY <2>2 DEF QueueOK
  <2>4. /\ tevs' \in Seq(Events) /\ Sorted(tevs')
        /\ \A x : InQueue(x, tevs') <=> InQueue(x, tevs) /\ x # e
    BY <1>6, <2>1, <2>2, UnlinkQueue
  <2>5. pfd' \in Seq(Slot) /\ Len(pfd') = Len(pfd)
    BY <1>5, <2>1, <2>2, MarkedType
  <2>6. TypeOK'
    BY <1>1, <1>3, <1>4, <1>8, <2>1, <2>2, <2>4, <2>5
       DEF TypeOK, InHandler, Slot
  <2>7. QueueOK'
    <3>1. \A x \in Events : queued'[x] <=> queued[x] /\ x # e
      BY <2>1, <2>2 DEF TypeOK
    <3>2. \A x \in Events : InQueue(x, evs') <=> queued'[x] /\ type'[x] # "TIMEOUT"
      BY <1>3, <2>3, <3>1 DEF QueueOK
    <3>3. \A x \in Events : InQueue(x, tevs') <=> queued'[x] /\ type'[x] = "TIMEOUT"
      BY <1>3, <2>3, <2>4, <3>1 DEF QueueOK
    <3> QED BY <1>3, <1>6, <2>4, <3>2, <3>3 DEF QueueOK
  <2>8. CursorSafe' /\ WalkOrder'
    BY <1>1, <1>3, <1>8, NullAssumption DEF CursorSafe, WalkOrder
  <2>9. PollArrayFits'
    BY <1>3, <2>5 DEF PollArrayFits, PolledIn
  <2> QED BY <2>6, <2>7, <2>8, <2>9
<1> QED BY <1>2, <1>7, <1>8

\* The actions of the walk leave the queues alone; e is the event at the
\* cursor and s its successor.
LEMMA WalkInv ==
  ASSUME Inv, NEW e \in Events, Examining(e)
  PROVE  /\ InQueue(e, evs)
         /\ Successor(evs, e) \in Events \cup {NULL}
         /\ Successor(evs, e) # NULL => InQueue(Successor(evs, e), evs)
         /\ \A x : Successor(evs, e) = NULL /\ InQueue(x, evs) =>
              x \in seen' \cup touched
         /\ \A x : Successor(evs, e) # NULL /\ InQueue(x, evs) /\ x \notin touched =>
              (x \in seen' <=> Before(evs, x, Successor(evs, e)))
<1> USE DEF Inv
<1>1. /\ pc = "walk" /\ ev = e /\ e # NULL
      /\ seen' = seen \cup {e}
      /\ evs \in Seq(Events) /\ Sorted(evs)
  BY NullAssumption DEF Examining, TypeOK, QueueOK
<1>2. InQueue(e, evs)
  BY <1>1 DEF CursorSafe
<1>3. /\ Successor(evs, e) # NULL => InQueue(Successor(evs, e), evs)
      /\ Successor(evs, e) \in Events \cup {NULL}
      /\ \A x : Successor(evs, e) # NULL =>
           (Before(evs, x, Successor(evs, e)) <=> x = e \/ Before(evs, x, e))
      /\ \A x : Successor(evs, e) = NULL /\ InQueue(x, evs) =>
           x = e \/ Before(evs, x, e)
  BY <1>1, <1>2, SuccessorQueue
<1>4. \A x : InQueue(x, evs) /\ x \notin touched =>
               (x \in seen <=> Before(evs, x, e))
  BY <1>1 DEF WalkOrder, Cursor
<1> QED BY <1>1, <1>2, <1>3, <1>4

LEMMA ExamineInv ==
  ASSUME Inv, NEW e \in Events, PassOver(e) \/ SkipSlot(e) \/ Dispatch(e)
  PROVE  Inv'
<1> USE DEF Inv
<1>1. /\ Examining(e) /\ pc = "walk" /\ seen' = seen \cup {e}
      /\ nextev' = Successor(evs, e)
      /\ \/ pc' = "walk" /\ ev' = Successor(evs, e)
         \/ pc' = "handler" /\ ev' = e
      /\ UNCHANGED <<queueVars, pfd, ops, ready, touched, shifted>>
  BY DEF PassOver, SkipSlot, Dispatch, Examining
<1>2. /\ i' \in Nat /\ n' \in Nat /\ ran' \subseteq Events
  <2>1. i \in Nat /\ n \in Nat /\ ran \subseteq Events
    BY DEF TypeOK
  <2>2. CASE PassOver(e)
    BY <2>1, <2>2 DEF PassOver
  <2>3. CASE SkipSlot(e)
    BY <2>1, <2>3 DEF SkipSlot
  <2>4. CASE Dispatch(e)
    <3>1. \/ n > 0 /\ n' = n - 1 /\ i' = i + 1
          \/ n' = n /\ i' = i
      BY <2>4 DEF Dispatch
    <3>2. ran' = ran \/ ran' = ran \cup {e}
      BY <2>4 DEF Dispatch
    <3> QED BY <2>1, <3>1, <3>2
  <2> QED BY <2>2, <2>3, <2>4
<1>3. /\ Successor(evs, e) \in Events \cup {NULL}
      /\ Successor(evs, e) # NULL => InQueue(Successor(evs, e), evs)
      /\ \A x : Successor(evs, e) = NULL /\ InQueue(x, evs) =>
           x \in seen' \cup touched
      /\ \A x : Successor(evs, e) # NULL /\ InQueue(x, evs) /\ x \notin touched =>
           (x \in seen' <=> Before(evs, x, Successor(evs, e)))
  BY <1>1, WalkInv
<1>4. TypeOK'
  BY <1>1, <1>2, <1>3 DEF TypeOK, InHandler, queueVars
<1>5. QueueOK' /\ PollArrayFits'
  BY <1>1 DEF QueueOK, Sorted, InQueue, queueVars, PollArrayFits, PolledIn
<1>6. CursorSafe'
  BY <1>1, <1>3 DEF CursorSafe, queueVars, InQueue
<1>7. Cursor' = Successor(evs, e)
  BY <1>1 DEF Cursor
<1>8. WalkOrder'
  BY <1>1, <1>3, <1>7 DEF WalkOrder, queueVars, InQueue, Before
<1> QED BY <1>4, <1>5, <1>6, <1>8

LEMMA RoundEndInv == Inv /\ RoundEnd => Inv'
<1> SUFFICES ASSUME Inv, RoundEnd PROVE Inv'
  OBVIOUS
<1> USE DEF Inv
<1>1. /\ evs' = evs /\ tevs' = tevs /\ queued' = queued /\ type' = type
      /\ held' = held /\ ev' = NULL /\ nextev' = NULL
      /\ pc' = "poll" /\ seen' = {}
  BY DEF RoundEnd, queueVars, WalkOrder
<1>2. pfd' \in Seq(Slot) /\ Len(pfd') = Len(pfd)
  <2>1. Len(pfd) \in Nat /\ DOMAIN pfd = 1..Len(pfd)
    BY DEF TypeOK
  <2>2. [fd |-> 0, revents |-> FALSE] \in Slot
    BY DEF Slot
  <2>3. pfd' = [k \in 1..Len(pfd) |-> [fd |-> 0, revents |-> FALSE]]
    BY <2>1 DEF RoundEnd
  <2> QED BY <2>1, <2>2, <2>3, ConstantSeq
<1>3. TypeOK'
  <2>1. ops' \in 0..MaxOps
    BY HandlersAssumption DEF RoundEnd
  <2> QED BY <1>1, <1>2, <2>1 DEF RoundEnd, TypeOK, InHandler, Slot
<1>4. QueueOK' /\ CursorSafe' /\ WalkOrder'
  BY <1>1 DEF QueueOK, Sorted, InQueue, CursorSafe, WalkOrder
<1>5. PollArrayFits'
  BY <1>1, <1>2 DEF PollArrayFits, PolledIn
<1> QED BY <1>3, <1>4, <1>5

LEMMA HandlerReturnInv == Inv /\ HandlerReturn => Inv'
<1> SUFFICES ASSUME Inv, HandlerReturn PROVE Inv'
  OBVIOUS
<1> USE DEF Inv
<1>1. /\ UNCHANGED <<queueVars, pfd, i, n, nextev, ops, history>>
      /\ pc \in {"handler", "timer"} /\ pc' = "walk"
      /\ ev' = IF pc = "timer" THEN First(evs) ELSE nextev
  BY DEF HandlerReturn, InHandler
<1>2. evs \in Seq(Events) /\ Sorted(evs)
  BY DEF TypeOK, QueueOK
<1>3. /\ First(evs) \in Events \cup {NULL}
      /\ First(evs) # NULL => InQueue(First(evs), evs)
      /\ First(evs) = NULL => \A x : ~InQueue(x, evs)
      /\ \A x : First(evs) # NULL => ~Before(evs, x, First(evs))
  BY <1>2, BeforeFirst
<1>4. TypeOK'
  BY <1>1, <1>3 DEF TypeOK, InHandler, queueVars, history
<1>5. QueueOK' /\ PollArrayFits'
  BY <1>1 DEF QueueOK, Sorted, InQueue, PollArrayFits, PolledIn, queueVars
<1>6. CursorSafe'
  BY <1>1, <1>3 DEF CursorSafe, InQueue, queueVars
<1>7. WalkOrder'
  <2>1. evs' = evs /\ seen' = seen /\ touched' = touched /\ nextev' = nextev
    BY <1>1 DEF queueVars, history
  <2>2. CASE pc = "timer"
    <3>1. seen = {} /\ nextev = NULL /\ ev' = First(evs)
      BY <1>1, <2>2 DEF WalkOrder
    <3> QED BY <1>1, <1>3, <2>1, <3>1 DEF WalkOrder, Cursor, InQueue, Before
  <2>3. CASE pc = "handler"
    BY <1>1, <2>1, <2>3 DEF WalkOrder, Cursor, InQueue, Before
  <2> QED BY <1>1, <2>2, <2>3
<1> QED BY <1>4, <1>5, <1>6, <1>7

\* A condition changes, or the type of an event outside the queues.
LEMMA HandlerMarkInv ==
  ASSUME Inv, NEW e \in Events, HandlerRetype(e) \/ HandlerCondition(e)
  PROVE  Inv'
<1> USE DEF Inv
<1>1. /\ UNCHANGED <<evs, tevs, queued, pfd, walkVars, ready, ran, seen, shifted>>
      /\ ops' = ops + 1 /\ ops < MaxOps
      /\ touched' = touched \cup {e}
      /\ InHandler
  BY DEF HandlerRetype, HandlerCondition
<1>2. /\ type' \in [Events -> Types] /\ held' \subseteq Conditional
      /\ \A x \in Events : queued[x] => type'[x] = type[x]
  <2>1. CASE HandlerRetype(e)
    BY <2>1, TypesAssumption DEF HandlerRetype, TypeOK
  <2>2. CASE HandlerCondition(e)
    BY <2>2 DEF HandlerCondition, TypeOK
  <2> QED BY <2>1, <2>2
<1>3. ops' \in 0..MaxOps
  BY <1>1, HandlersAssumption DEF TypeOK
<1>4. TypeOK'
  BY <1>1, <1>2, <1>3 DEF TypeOK, InHandler, walkVars
<1>5. QueueOK'
  BY <1>1, <1>2 DEF QueueOK, Sorted, InQueue
<1>6. CursorSafe' /\ WalkOrder'
  BY <1>1 DEF CursorSafe, WalkOrder, Cursor, InQueue, Before, walkVars
<1>7. PolledIn(evs, type') = PolledIn(evs, type)
  <2>1. \A k \in DOMAIN evs : evs[k] \in Events /\ InQueue(evs[k], evs)
    BY DEF TypeOK, InQueue
  <2>2. \A k \in DOMAIN evs : type'[evs[k]] = type[evs[k]]
    BY <2>1, <1>2 DEF QueueOK
  <2> QED BY <2>2 DEF PolledIn
<1>8. PollArrayFits'
  BY <1>1, <1>7 DEF PollArrayFits
<1> QED BY <1>4, <1>5, <1>6, <1>8

LEMMA HandlerEnqInv == ASSUME Inv, NEW e \in Events, HandlerEnq(e) PROVE Inv'
<1> USE DEF Inv
<1>1. /\ UNCHANGED <<type, held, pc, i, n, ev, nextev, ready, ran, seen>>
      /\ ops' = ops + 1 /\ ops < MaxOps
      /\ touched' = touched \cup {e} /\ shifted' \in BOOLEAN
      /\ InHandler /\ ~queued[e]
      /\ queued' = [queued EXCEPT ![e] = TRUE]
      /\ IF type[e] = "TIMEOUT"
           THEN tevs' = Enter(tevs, e) /\ evs' = evs
           ELSE evs' = Enter(evs, e) /\ tevs' = tevs
      /\ pfd' \in Grown(pfd, evs', type)
  BY DEF HandlerEnq, Enqueue, TypeOK
<1>2. /\ evs \in Seq(Events) /\ Sorted(evs) /\ ~InQueue(e, evs)
      /\ tevs \in Seq(Events) /\ Sorted(tevs) /\ ~InQueue(e, tevs)
  BY <1>1 DEF TypeOK, QueueOK
<1>3. /\ evs' \in Seq(Events) /\ Sorted(evs')
      /\ \A x : InQueue(x, evs') <=> \/ InQueue(x, evs)
                                     \/ x = e /\ type[e] # "TIMEOUT"
      /\ \A x, y : x # e /\ y # e => (Before(evs', x, y) <=> Before(evs, x, y))
  <2>1. CASE type[e] = "TIMEOUT"
    BY <1>1, <1>2, <2>1
  <2>2. CASE type[e] # "TIMEOUT"
    BY <1>1, <1>2, <2>2, EnterQueue
  <2> QED BY <2>1, <2>2
<1>4. /\ tevs' \in Seq(Events) /\ Sorted(tevs')
      /\ \A x : InQueue(x, tevs') <=> \/ InQueue(x, tevs)
                                      \/ x = e /\ type[e] = "TIMEOUT"
  <2>1. CASE type[e] = "TIMEOUT"
    BY <1>1, <1>2, <2>1, EnterQueue
  <2>2. CASE type[e] # "TIMEOUT"
    BY <1>1, <1>2, <2>2
  <2> QED BY <2>1, <2>2
<1>5. /\ pfd' \in Seq(Slot)
      /\ Cardinality(PolledIn(evs', type)) <= Len(pfd')
  <2>1. pfd \in Seq(Slot)
    BY DEF TypeOK, Slot
  <2> QED BY <2>1, <1>1, <1>3, GrownType
<1>6. \A x \in Events : queued'[x] <=> queued[x] \/ x = e
  BY <1>1 DEF TypeOK
<1>7. TypeOK'
  <2>1. ops' \in 0..MaxOps
    BY <1>1, HandlersAssumption DEF TypeOK
  <2> QED BY <1>1, <1>3, <1>4, <1>5, <2>1 DEF TypeOK, InHandler, Slot
<1>8. QueueOK'
  <2>1. \A x \in Events : InQueue(x, evs') <=> queued'[x] /\ type'[x] # "TIMEOUT"
    BY <1>1, <1>3, <1>6 DEF QueueOK
  <2>2. \A x \in Events : InQueue(x, tevs') <=> queued'[x] /\ type'[x] = "TIMEOUT"
    BY <1>1, <1>4, <1>6 DEF QueueOK
  <2> QED BY <1>3, <1>4, <2>1, <2>2 DEF QueueOK
<1>9. CursorSafe'
  BY <1>1, <1>3 DEF CursorSafe, InHandler
<1>10. WalkOrder'
  <2>1. pc' \in {"handler", "timer"} /\ Cursor' = nextev /\ Cursor = nextev
    BY <1>1 DEF InHandler, Cursor
  <2>2. nextev # e
    BY <1>2, NullAssumption DEF CursorSafe
  <2> QED BY <1>1, <1>3, <2>1, <2>2 DEF WalkOrder
<1>11. PollArrayFits'
  BY <1>1, <1>5 DEF PollArrayFits
<1> QED BY <1>7, <1>8, <1>9, <1>10, <1>11

LEMMA HandlerDeqInv == ASSUME Inv, NEW e \in Events, HandlerDeq(e) PROVE Inv'
<1> USE DEF Inv
<1>1. /\ UNCHANGED <<type, held, pc, i, n, ev, ready, ran, seen>>
      /\ ops' = ops + 1 /\ ops < MaxOps
      /\ touched' = touched \cup {e} /\ shifted' \in BOOLEAN
      /\ InHandler /\ queued[e]
      /\ queued' = [queued EXCEPT ![e] = FALSE]
      /\ IF type[e] = "TIMEOUT"
           THEN tevs' = Unlink(tevs, e) /\ evs' = evs
           ELSE evs' = Unlink(evs, e) /\ tevs' = tevs
      /\ nextev' = IF e = nextev THEN Successor(evs, e) ELSE nextev
      /\ pfd' = Marked(pfd, e)
  BY DEF HandlerDeq, Dequeue, TakeOff, TypeOK
<1>2. /\ evs \in Seq(Events) /\ Sorted(evs)
      /\ tevs \in Seq(Events) /\ Sorted(tevs)
      /\ type[e] # "TIMEOUT" => InQueue(e, evs)
      /\ type[e] = "TIMEOUT" => InQueue(e, tevs) /\ ~InQueue(e, evs)
  BY <1>1 DEF TypeOK, QueueOK
<1>3. /\ evs' \in Seq(Events) /\ Sorted(evs')
      /\ \A x : InQueue(x, evs') <=> InQueue(x, evs) /\ x # e
      /\ \A x, y : x # e /\ y # e => (Before(evs', x, y) <=> Before(evs, x, y))
  <2>1. CASE type[e] = "TIMEOUT"
    BY <1>1, <1>2, <2>1
  <2>2. CASE type[e] # "TIMEOUT"
    BY <1>1, <1>2, <2>2, UnlinkQueue
  <2> QED BY <2>1, <2>2
<1>4. /\ tevs' \in Seq(Events) /\ Sorted(tevs')
      /\ \A x : InQueue(x, tevs') <=>
                  InQueue(x, tevs) /\ ~(x = e /\ type[e] = "TIMEOUT")
  <2>1. CASE type[e] = "TIMEOUT"
    BY <1>1, <1>2, <2>1, UnlinkQueue
  <2>2. CASE type[e] # "TIMEOUT"
    BY <1>1, <1>2, <2>2
  <2> QED BY <2>1, <2>2
<1>5. /\ pfd' \in Seq(Slot) /\ Len(pfd') = Len(pfd)
      /\ Cardinality(PolledIn(evs', type)) <= Cardinality(PolledIn(evs, type))
  <2>1. pfd \in Seq(Slot)
    BY DEF TypeOK, Slot
  <2>2. Cardinality(PolledIn(evs, type)) \in Nat
    BY <1>2, PolledFinite
  <2>3. CASE type[e] = "TIMEOUT"
    BY <1>1, <2>1, <2>2, <2>3, MarkedType
  <2>4. CASE type[e] # "TIMEOUT"
    BY <1>1, <1>2, <2>1, <2>4, MarkedType, UnlinkPolled
  <2> QED BY <2>3, <2>4
<1>6. \A x \in Events : queued'[x] <=> queued[x] /\ x # e
  BY <1>1 DEF TypeOK
<1>7. e = nextev => InQueue(e, evs)
  BY NullAssumption DEF CursorSafe
<1>8. e = nextev =>
        /\ Successor(evs, e) # NULL => InQueue(Successor(evs, e), evs)
        /\ Successor(evs, e) \in Events \cup {NULL}
        /\ Successor(evs, e) # e
        /\ \A x : Successor(evs, e) # NULL =>
             (Before(evs, x, Successor(evs, e)) <=> x = e \/ Before(evs, x, e))
        /\ \A x : Successor(evs, e) = NULL /\ InQueue(x, evs) =>
             x = e \/ Before(evs, x, e)
  BY <1>2, <1>7, SuccessorQueue
<1>9. TypeOK'
  <2>1. ops' \in 0..MaxOps
    BY <1>1, HandlersAssumption DEF TypeOK
  <2> QED BY <1>1, <1>3, <1>4, <1>5, <1>8, <2>1 DEF TypeOK, InHandler, Slot
<1>10. QueueOK'
  <2>1. \A x \in Events : InQueue(x, evs') <=> queued'[x] /\ type'[x] # "TIMEOUT"
    BY <1>1, <1>3, <1>6 DEF QueueOK
  <2>2. \A x \in Events : InQueue(x, tevs') <=> queued'[x] /\ type'[x] = "TIMEOUT"
    BY <1>1, <1>4, <1>6 DEF QueueOK
  <2> QED BY <1>3, <1>4, <2>1, <2>2 DEF QueueOK
<1>11. nextev' # NULL => InQueue(nextev', evs')
  BY <1>1, <1>3, <1>8 DEF CursorSafe
<1>12. CursorSafe'
  BY <1>1, <1>11 DEF CursorSafe, InHandler
<1>13. WalkOrder'
  <2>1. pc' = pc /\ pc \in {"handler", "timer"} /\ Cursor' = nextev' /\ Cursor = nextev
    BY <1>1 DEF InHandler, Cursor
  <2>2. CASE pc = "timer"
    <3>1. nextev = NULL /\ seen = {} /\ nextev' = NULL
      BY <1>1, <2>2, NullAssumption DEF WalkOrder
    <3> QED BY <1>1, <2>1, <2>2, <3>1 DEF WalkOrder
  <2>3. CASE pc = "handler" /\ e # nextev
    <3>1. nextev' = nextev /\ seen' = seen
      BY <1>1, <2>3
    <3> QED BY <1>1, <1>3, <2>1, <2>3, <3>1 DEF WalkOrder
  <2>4. CASE pc = "handler" /\ e = nextev
    <3>1. nextev' = Successor(evs, e) /\ seen' = seen /\ nextev # NULL
      BY <1>1, <2>4, NullAssumption
    <3>2. \A x : InQueue(x, evs) /\ x \notin touched =>
                   (x \in seen <=> Before(evs, x, e))
      BY <2>1, <2>4, <3>1 DEF WalkOrder
    <3>3. nextev' = NULL => \A x : InQueue(x, evs') => x \in seen' \cup touched'
      BY <1>1, <1>3, <1>8, <2>4, <3>1, <3>2
    <3>4. nextev' # NULL =>
            \A x : InQueue(x, evs') /\ x \notin touched' =>
              (x \in seen' <=> Before(evs', x, nextev'))
      BY <1>1, <1>3, <1>8, <2>4, <3>1, <3>2
    <3> QED BY <2>1, <2>4, <3>3, <3>4 DEF WalkOrder
  <2> QED BY <2>1, <2>2, <2>3, <2>4
<1>14. PollArrayFits'
  <2>1. /\ Cardinality(PolledIn(evs, type)) \in Nat
        /\ Cardinality(PolledIn(evs', type)) \in Nat
    BY <1>2, <1>3, PolledFinite
  <2>2. Len(pfd) \in Nat
    BY DEF TypeOK
  <2> QED BY <1>1, <1>5, <2>1, <2>2 DEF PollArrayFits
<1> QED BY <1>9, <1>10, <1>12, <1>13, <1>14

-----------------------------------------------------------------------------
(* The slot index                                                          *)

\* The polled events the walk has still to examine, those of them before x,
\* and the slot at which the walk will look for x.
Rest == {x \in Events : /\ InQueue(x, evs) /\ IsPolled(x)
                        /\ Cursor # NULL /\ ~Before(evs, x, Cursor)}
Earlier(x) == {y \in Rest : Before(evs, y, x)}
Place(x) == i + Cardinality(Earlier(x))

\* No handler touched an event with the same descriptor.
Apart(x) == \A e \in touched : Fd[e] # Fd[x]
Reports(p, s) == p[s].revents /\ p[s].fd >= 0
Reported(a, b) == {s \in a..b : Reports(pfd, s)}

\* The untouched events ahead find their own slots, and n does not run out
\* before the last ready one of them.
Found(x) ==
  /\ Place(x) \in DOMAIN pfd
  /\ Reports(pfd, Place(x)) => x \in ready
  /\ x \in ready /\ Apart(x) => pfd[Place(x)] = [fd |-> Fd[x], revents |-> TRUE]
  /\ Cardinality(Reported(i, Place(x))) <= n

Answered ==
  \A x \in Events : InQueue(x, evs) /\ IsPolled(x) /\ x \notin touched =>
    /\ x \in ran => x \in ready
    /\ x \in ready /\ Apart(x) /\ x \notin Rest => x \in ran

SlotInv ==
  /\ pc = "poll" => touched = {} /\ ~shifted /\ i = 1 /\ ran = {} /\ ready = {} /\ n = 0
  /\ pc = "timer" => ran = {} /\ ready = {} /\ n = 0
  /\ ready \cap held \subseteq touched /\ i > 0
  /\ pc \in {"walk", "handler"} /\ ~shifted =>
       /\ n > 0 => \A x \in Rest \ touched : Found(x)
       /\ n = 0 => \A x \in Rest \ touched : ~(x \in ready /\ Apart(x))
       /\ Answered

\* Two events of a sorted queue are in one order.
LEMMA BeforeOrder ==
  ASSUME NEW q \in Seq(Events), Sorted(q)
  PROVE  /\ \A x, y : Before(q, x, y) => ~Before(q, y, x) /\ x # y
         /\ \A x, y : InQueue(x, q) /\ InQueue(y, q) /\ x # y =>
              Before(q, x, y) \/ Before(q, y, x)
         /\ \A x, y : Before(q, x, y) => InQueue(x, q) /\ InQueue(y, q)
         /\ \A x, y, z : Before(q, x, y) /\ Before(q, y, z) => Before(q, x, z)
         /\ \A x, y : Before(q, x, y) => Prio[x] >= Prio[y]
<1>1. Len(q) \in Nat /\ DOMAIN q = 1..Len(q)
  OBVIOUS
<1>2. \A j, k \in 1..Len(q) : j < k => q[j] # q[k] /\ Prio[q[j]] >= Prio[q[k]]
  BY <1>1 DEF Sorted
<1>3. \A j, k \in 1..Len(q) : q[j] = q[k] => j = k
  <2> SUFFICES ASSUME NEW j \in 1..Len(q), NEW k \in 1..Len(q), q[j] = q[k], j # k
               PROVE  FALSE
    OBVIOUS
  <2>1. j < k \/ k < j
    BY <1>1
  <2> QED BY <1>2, <2>1
<1>4. \A x, y : Before(q, x, y) <=>
               \E j, k \in 1..Len(q) : j < k /\ q[j] = x /\ q[k] = y
  BY <1>1 DEF Before
<1>5. \A x : InQueue(x, q) <=> \E j \in 1..Len(q) : q[j] = x
  BY <1>1 DEF InQueue
<1>6. ASSUME NEW x, NEW y, Before(q, x, y)
      PROVE  /\ ~Before(q, y, x) /\ x # y /\ InQueue(x, q) /\ InQueue(y, q)
             /\ Prio[x] >= Prio[y]
  <2>1. PICK j \in 1..Len(q), k \in 1..Len(q) : j < k /\ q[j] = x /\ q[k] = y
    BY <1>4, <1>6
  <2>2. ASSUME NEW a \in 1..Len(q), NEW b \in 1..Len(q), a < b, q[a] = y, q[b] = x
        PROVE  FALSE
    <3>1. a = k /\ b = j
      BY <1>3, <2>1, <2>2
    <3> QED BY <2>1, <2>2, <3>1
  <2> QED BY <1>2, <1>4, <1>5, <2>1, <2>2
<1>7. ASSUME NEW x, NEW y, InQueue(x, q), InQueue(y, q), x # y
      PROVE  Before(q, x, y) \/ Before(q, y, x)
  <2>1. PICK j \in 1..Len(q), k \in 1..Len(q) : q[j] = x /\ q[k] = y
    BY <1>5, <1>7
  <2>2. j < k \/ k < j
    BY <1>7, <2>1
  <2> QED BY <1>4, <2>1, <2>2
<1>8. ASSUME NEW x, NEW y, NEW z, Before(q, x, y), Before(q, y, z) PROVE Before(q, x, z)
  <2>1. PICK j \in 1..Len(q), k \in 1..Len(q) : j < k /\ q[j] = x /\ q[k] = y
    BY <1>4, <1>8
  <2>2. PICK a \in 1..Len(q), b \in 1..Len(q) : a < b /\ q[a] = y /\ q[b] = z
    BY <1>4, <1>8
  <2>3. k = a
    BY <1>3, <2>1, <2>2
  <2>4. j < b
    BY <2>1, <2>2, <2>3
  <2> QED BY <1>4, <2>1, <2>2, <2>4
<1> QED BY <1>6, <1>7, <1>8

\* A queued event of the same priority, or of a higher one, is before a new one.
LEMMA EnterAfter ==
  ASSUME NEW q \in Seq(Events), Sorted(q), NEW e \in Events, ~InQueue(e, q),
         NEW x, InQueue(x, q), Prio[x] >= Prio[e]
  PROVE  Before(Enter(q, e), x, e)
<1>1. PICK p \in 1..Len(q) + 1 :
        /\ \A k \in 1..Len(q) : k < p <=> Prio[q[k]] >= Prio[e]
        /\ Enter(q, e)[p] = e
        /\ \A k \in 1..Len(q) : /\ k < p => Enter(q, e)[k] = q[k]
                                /\ k >= p => Enter(q, e)[k + 1] = q[k]
  BY EnterPlace
<1>2. DOMAIN Enter(q, e) = 1..Len(q) + 1 /\ DOMAIN q = 1..Len(q) /\ Len(q) \in Nat
  BY EnterType
<1>3. PICK k \in 1..Len(q) : q[k] = x
  BY <1>2 DEF InQueue
<1>4. k < p /\ Enter(q, e)[k] = x /\ k \in 1..Len(q) + 1
  BY <1>1, <1>2, <1>3
<1> QED BY <1>1, <1>2, <1>4 DEF Before

LEMMA QueueFinite ==
  ASSUME NEW q \in Seq(Events)
  PROVE  IsFiniteSet({x \in Events : InQueue(x, q)})
<1> DEFINE S == {x \in Events : InQueue(x, q)}
           f == [k \in 1..Len(q) |-> q[k]]
<1>1. Len(q) \in Nat /\ DOMAIN q = 1..Len(q)
  OBVIOUS
<1>2. \A k \in 1..Len(q) : q[k] \in S
  BY <1>1 DEF InQueue
<1>3. \A x \in S : \E k \in 1..Len(q) : q[k] = x
  BY <1>1 DEF InQueue
<1> HIDE DEF S
<1>4. f \in Surjection(1..Len(q), S)
  BY <1>2, <1>3 DEF Surjection
<1>5. IsFiniteSet(1..Len(q))
  BY <1>1, FS_Interval
<1> HIDE DEF f
<1> QED BY <1>4, <1>5, FS_Surjection DEF S

LEMMA EarlierFinite ==
  ASSUME TypeOK, NEW x
  PROVE  /\ IsFiniteSet(Earlier(x)) /\ Cardinality(Earlier(x)) \in Nat
         /\ Place(x) \in Nat /\ i <= Place(x)
<1>1. evs \in Seq(Events) /\ i \in Nat
  BY DEF TypeOK
<1>2. Earlier(x) \subseteq {y \in Events : InQueue(y, evs)}
  BY DEF Earlier, Rest
<1>3. IsFiniteSet(Earlier(x)) /\ Cardinality(Earlier(x)) \in Nat
  BY <1>1, <1>2, QueueFinite, FS_Subset, FS_CardinalityType
<1> QED BY <1>1, <1>3 DEF Place

LEMMA ReportedFinite ==
  ASSUME NEW a \in Int, NEW b \in Int
  PROVE  IsFiniteSet(Reported(a, b)) /\ Cardinality(Reported(a, b)) \in Nat
<1>1. IsFiniteSet(a..b)
  BY FS_Interval
<1>2. Reported(a, b) \subseteq a..b
  BY DEF Reported
<1> QED BY <1>1, <1>2, FS_Subset, FS_CardinalityType

\* What the walk has still to examine is what Ahead says of it.
LEMMA RestIsAhead ==
  ASSUME Inv, pc # "walk", NEW x \in Rest
  PROVE  x \in Ahead
<1> USE DEF Inv
<1>1. /\ Cursor = nextev /\ nextev # NULL /\ InQueue(x, evs) /\ ~Before(evs, x, nextev)
      /\ evs \in Seq(Events)
  BY DEF Rest, Cursor, TypeOK
<1>2. InQueue(nextev, evs)
  BY <1>1 DEF CursorSafe
<1>3. Len(evs) \in Nat /\ DOMAIN evs = 1..Len(evs)
  BY <1>1
<1>4. PICK j \in 1..Len(evs), k \in 1..Len(evs) : evs[j] = nextev /\ evs[k] = x
  BY <1>1, <1>2, <1>3 DEF InQueue
<1>5. ~(k < j)
  BY <1>1, <1>3, <1>4 DEF Before
<1>6. j \in 1..k
  BY <1>4, <1>5
<1> QED BY <1>1, <1>3, <1>4, <1>6 DEF Ahead

\* A step of a handler that leaves what is to be examined in its order, and
\* changes slots only to mark them.
LEMMA HandlerKeepsSlots ==
  ASSUME Inv, Inv', SlotInv, InHandler, NEW e \in Events,
         UNCHANGED <<pc, i, n, ready, ran>>,
         touched' = touched \cup {e}, ~shifted' => ~shifted,
         ready \cap held' \subseteq touched \cup {e},
         \A x \in Events : x \notin touched' /\ InQueue(x, evs') /\ type'[x] \in PolledTypes =>
           InQueue(x, evs) /\ IsPolled(x),
         pc = "handler" /\ ~shifted' =>
           \A x \in Events : x \notin touched' /\ InQueue(x, evs') =>
             /\ x \in Rest <=> x \in Rest'
             /\ x \in Rest => \A y : y \in Earlier(x) <=> y \in Earlier(x)',
         DOMAIN pfd \subseteq DOMAIN pfd',
         \A s \in DOMAIN pfd :
           \/ pfd'[s] = pfd[s]
           \/ pfd[s].fd = Fd[e] /\ pfd'[s] = [fd |-> -Fd[e], revents |-> pfd[s].revents]
  PROVE  SlotInv'
<1> USE DEF Inv
<1>1. pc \in {"handler", "timer"}
  BY DEF InHandler
<1>2. \A x \in Events : Apart(x)' => Apart(x) /\ Fd[e] # Fd[x]
  BY DEF Apart
<1>3. (ready \cap held \subseteq touched)' /\ i' > 0
  BY DEF SlotInv
<1>4. CASE pc = "timer"
  BY <1>3, <1>4 DEF SlotInv
<1>5. CASE pc = "handler"
  <2> SUFFICES ASSUME ~shifted'
               PROVE  /\ n > 0 => \A x \in Rest' \ touched' : Found(x)'
                      /\ n = 0 => \A x \in Rest' \ touched' : ~(x \in ready /\ Apart(x)')
                      /\ Answered'
    BY <1>3, <1>5 DEF SlotInv
  <2>1. /\ n > 0 => \A x \in Rest \ touched : Found(x)
        /\ n = 0 => \A x \in Rest \ touched : ~(x \in ready /\ Apart(x))
        /\ Answered
    BY <1>5 DEF SlotInv
  <2>2. \A x \in Rest' \ touched' :
          /\ x \in Events /\ x \in Rest \ touched /\ InQueue(x, evs')
          /\ \A y : y \in Earlier(x) <=> y \in Earlier(x)'
    BY <1>5 DEF Rest
  <2>3. ASSUME n > 0, NEW x \in Rest' \ touched' PROVE Found(x)'
    <3>1. Found(x) /\ x \in Events
      BY <2>1, <2>2, <2>3
    <3>2. Earlier(x)' = Earlier(x)
      BY <2>2
    <3>3. Place(x)' = Place(x)
      BY <3>2 DEF Place
    <3>4. Place(x) \in DOMAIN pfd /\ Place(x) \in Nat /\ i \in Nat
      BY <3>1, EarlierFinite DEF Found, TypeOK
    <3>5. i..Place(x) \subseteq DOMAIN pfd
      <4>1. i > 0
        BY DEF SlotInv
      <4>2. DOMAIN pfd = 1..Len(pfd) /\ Len(pfd) \in Nat
        BY DEF TypeOK
      <4> QED BY <3>4, <4>1, <4>2
    <3>6. \A s \in DOMAIN pfd : Reports(pfd', s) => Reports(pfd, s)
      <4> SUFFICES ASSUME NEW s \in DOMAIN pfd, Reports(pfd', s) PROVE Reports(pfd, s)
        OBVIOUS
      <4>1. CASE pfd'[s] = pfd[s]
        BY <4>1 DEF Reports
      <4>2. CASE pfd[s].fd = Fd[e] /\ pfd'[s] = [fd |-> -Fd[e], revents |-> pfd[s].revents]
        <5>1. Fd[e] \in Nat
          BY FdAssumption
        <5> QED BY <4>2, <5>1 DEF Reports
      <4> QED BY <4>1, <4>2
    <3>7. Reported(i, Place(x))' \subseteq Reported(i, Place(x))
      BY <3>3, <3>5, <3>6 DEF Reported
    <3>8. /\ Cardinality(Reported(i, Place(x))') <= Cardinality(Reported(i, Place(x)))
          /\ Cardinality(Reported(i, Place(x))') \in Nat
          /\ Cardinality(Reported(i, Place(x))) \in Nat
      <4>1. i \in Int /\ Place(x) \in Int
        BY <3>4
      <4>2. IsFiniteSet(Reported(i, Place(x))) /\ Cardinality(Reported(i, Place(x))) \in Nat
        BY <4>1, ReportedFinite
      <4> QED BY <3>7, <4>2, FS_Subset, FS_CardinalityType
    <3>9. Cardinality(Reported(i, Place(x))') <= n
      BY <3>1, <3>8 DEF Found, TypeOK
    <3>10. x \in ready /\ Apart(x)' => pfd'[Place(x)] = [fd |-> Fd[x], revents |-> TRUE]
      <4> SUFFICES ASSUME x \in ready, Apart(x)'
                   PROVE  pfd'[Place(x)] = [fd |-> Fd[x], revents |-> TRUE]
        OBVIOUS
      <4>1. Apart(x) /\ Fd[e] # Fd[x]
        BY <1>2, <3>1
      <4>2. pfd[Place(x)] = [fd |-> Fd[x], revents |-> TRUE]
        BY <3>1, <4>1 DEF Found
      <4>3. pfd[Place(x)].fd # Fd[e]
        BY <4>1, <4>2
      <4>4. pfd'[Place(x)] = pfd[Place(x)]
        BY <3>4, <4>3
      <4> QED BY <4>2, <4>4
    <3>11. Reports(pfd', Place(x)) => x \in ready
      BY <3>1, <3>4, <3>6 DEF Found
    <3> QED BY <3>3, <3>4, <3>9, <3>10, <3>11 DEF Found
  <2>4. ASSUME n = 0, NEW x \in Rest' \ touched' PROVE ~(x \in ready /\ Apart(x)')
    BY <1>2, <2>1, <2>2, <2>4
  <2>5. Answered'
    <3> SUFFICES ASSUME NEW x \in Events, InQueue(x, evs'), type'[x] \in PolledTypes, x \notin touched'
                 PROVE  /\ x \in ran => x \in ready
                        /\ x \in ready /\ Apart(x)' /\ x \notin Rest' => x \in ran
      BY DEF Answered, IsPolled
    <3>1. InQueue(x, evs) /\ IsPolled(x) /\ x \notin touched /\ (x \in Rest <=> x \in Rest')
      BY <1>5
    <3> QED BY <1>2, <2>1, <3>1 DEF Answered
  <2> QED BY <2>3, <2>4, <2>5
<1> QED BY <1>1, <1>4, <1>5

LEMMA HandlerDeqSlots ==
  ASSUME Inv, Inv', SlotInv, NEW e \in Events, HandlerDeq(e) PROVE SlotInv'
<1> USE DEF Inv
<1>1. /\ UNCHANGED <<type, held, pc, i, n, ev, ready, ran, seen>>
      /\ touched' = touched \cup {e} /\ shifted' = (shifted \/ (IsPolled(e) /\ e \in Ahead))
      /\ InHandler /\ queued[e]
      /\ IF type[e] = "TIMEOUT" THEN evs' = evs ELSE evs' = Unlink(evs, e)
      /\ nextev' = IF e = nextev THEN Successor(evs, e) ELSE nextev
      /\ pfd' = Marked(pfd, e)
  BY DEF HandlerDeq, Dequeue, TakeOff
<1>2. /\ evs \in Seq(Events) /\ Sorted(evs)
      /\ type[e] # "TIMEOUT" => InQueue(e, evs)
      /\ type[e] = "TIMEOUT" => ~InQueue(e, evs)
      /\ nextev # NULL => InQueue(nextev, evs)
  BY <1>1 DEF TypeOK, QueueOK, CursorSafe
<1>3. /\ \A x : InQueue(x, evs') <=> InQueue(x, evs) /\ x # e
      /\ \A x, y : x # e /\ y # e => (Before(evs', x, y) <=> Before(evs, x, y))
  <2>1. CASE type[e] = "TIMEOUT"
    BY <1>1, <1>2, <2>1
  <2>2. CASE type[e] # "TIMEOUT"
    BY <1>1, <1>2, <2>2, UnlinkQueue
  <2> QED BY <2>1, <2>2
<1>4. e = nextev =>
        /\ InQueue(e, evs)
        /\ Successor(evs, e) # NULL => InQueue(Successor(evs, e), evs)
        /\ Successor(evs, e) # e
        /\ \A x : Successor(evs, e) # NULL =>
             (Before(evs, x, Successor(evs, e)) <=> x = e \/ Before(evs, x, e))
        /\ \A x : Successor(evs, e) = NULL /\ InQueue(x, evs) =>
             x = e \/ Before(evs, x, e)
  BY <1>2, NullAssumption, SuccessorQueue
<1>5. ASSUME pc = "handler", ~shifted' PROVE Rest' = Rest
  <2>1. Cursor = nextev /\ Cursor' = nextev' /\ pc # "walk"
    BY <1>1, <1>5 DEF Cursor
  <2>2. e \notin Rest
    BY <1>1, <1>5, <2>1, RestIsAhead DEF Rest
  <2>3. \A x \in Events : IsPolled(x)' <=> IsPolled(x)
    BY <1>1 DEF IsPolled
  <2>4. CASE e # nextev
    <3>1. nextev' = nextev
      BY <1>1, <2>4
    <3> QED BY <1>3, <2>1, <2>2, <2>3, <2>4, <3>1 DEF Rest
  <2>5. CASE e = nextev
    <3>1. nextev' = Successor(evs, e) /\ nextev # NULL
      BY <1>1, <2>5, NullAssumption
    <3>2. CASE nextev' = NULL
      <4>1. Rest' = {}
        BY <2>1, <3>2 DEF Rest
      <4>2. Rest = {}
        BY <1>4, <2>1, <2>2, <2>5, <3>1, <3>2 DEF Rest
      <4> QED BY <4>1, <4>2
    <3>3. CASE nextev' # NULL
      <4>1. \A x : x # e => (Before(evs', x, nextev') <=> Before(evs, x, nextev))
        BY <1>3, <1>4, <2>5, <3>1, <3>3
      <4> QED BY <1>3, <2>1, <2>2, <2>3, <3>1, <3>3, <4>1 DEF Rest
    <3> QED BY <3>2, <3>3
  <2> QED BY <2>4, <2>5
<1>6. ASSUME pc = "handler", ~shifted', NEW x \in Events, x \notin touched', InQueue(x, evs')
      PROVE  /\ x \in Rest <=> x \in Rest'
             /\ x \in Rest => \A y : y \in Earlier(x) <=> y \in Earlier(x)'
  <2>1. Rest' = Rest
    BY <1>5, <1>6
  <2>2. e \notin Rest
    BY <1>3, <2>1 DEF Rest
  <2>3. x # e
    BY <1>1, <1>6
  <2> QED BY <1>3, <2>1, <2>2, <2>3 DEF Earlier
<1>7. /\ DOMAIN pfd \subseteq DOMAIN pfd'
      /\ \A s \in DOMAIN pfd :
           \/ pfd'[s] = pfd[s]
           \/ pfd[s].fd = Fd[e] /\ pfd'[s] = [fd |-> -Fd[e], revents |-> pfd[s].revents]
  BY <1>1 DEF Marked
<1>8. \A x \in Events : x \notin touched' /\ InQueue(x, evs') /\ type'[x] \in PolledTypes =>
           InQueue(x, evs) /\ IsPolled(x)
  BY <1>1, <1>3 DEF IsPolled
<1>9. UNCHANGED <<pc, i, n, ready, ran>> /\ InHandler /\ (~shifted' => ~shifted)
      /\ touched' = touched \cup {e} /\ ready \cap held' \subseteq touched \cup {e}
  BY <1>1 DEF SlotInv
<1> QED BY <1>6, <1>7, <1>8, <1>9, HandlerKeepsSlots

LEMMA HandlerEnqSlots ==
  ASSUME Inv, Inv', SlotInv, NEW e \in Events, HandlerEnq(e) PROVE SlotInv'
<1> USE DEF Inv
<1>1. /\ UNCHANGED <<type, held, pc, i, n, ev, nextev, ready, ran, seen>>
      /\ touched' = touched \cup {e}
      /\ InHandler /\ ~queued[e]
      /\ IF type[e] = "TIMEOUT" THEN evs' = evs ELSE evs' = Enter(evs, e)
      /\ pfd' \in Grown(pfd, evs', type)
  BY DEF HandlerEnq, Enqueue
<1>2. /\ evs \in Seq(Events) /\ Sorted(evs) /\ ~InQueue(e, evs)
      /\ evs' \in Seq(Events) /\ Sorted(evs')
      /\ nextev # NULL => InQueue(nextev, evs) /\ nextev \in Events
  BY <1>1 DEF TypeOK, QueueOK, CursorSafe
<1>3. /\ \A x : InQueue(x, evs) => InQueue(x, evs')
      /\ \A x : InQueue(x, evs') => InQueue(x, evs) \/ x = e
      /\ \A x, y : x # e /\ y # e => (Before(evs', x, y) <=> Before(evs, x, y))
  <2>1. CASE type[e] = "TIMEOUT"
    BY <1>1, <1>2, <2>1
  <2>2. CASE type[e] # "TIMEOUT"
    BY <1>1, <1>2, <2>2, EnterQueue
  <2> QED BY <2>1, <2>2
<1>4. \A x : IsPolled(x)' <=> IsPolled(x)
  BY <1>1 DEF IsPolled
<1>5. pc = "handler" => Cursor = nextev /\ Cursor' = nextev
  BY <1>1 DEF Cursor
<1>6. pc = "handler" => \A x \in Events : x # e => (x \in Rest <=> x \in Rest')
  <2>1. nextev # e
    BY <1>2, NullAssumption
  <2> QED BY <1>3, <1>4, <1>5, <2>1 DEF Rest
\* Between events ahead nothing polled has entered.
<1>7. ASSUME pc = "handler", ~shifted', e \in Rest', NEW x \in Rest
      PROVE  ~Before(evs', e, x)
  <2>1. /\ Cursor = nextev /\ nextev # NULL /\ IsPolled(e) /\ InQueue(e, evs')
        /\ ~Before(evs', e, nextev) /\ nextev # e
    BY <1>2, <1>4, <1>5, <1>7, NullAssumption DEF Rest
  <2>2. evs' = Enter(evs, e)
    BY <1>1, <2>1 DEF IsPolled, PolledTypes
  <2>3. Prio[e] \in Int /\ Prio[nextev] \in Int /\ Prio[x] \in Int
    BY <1>2, <2>1, PrioAssumption DEF Rest
  <2>4. Prio[e] <= Prio[nextev]
    <3>1. InQueue(nextev, evs')
      BY <1>2, <1>3, <2>1
    <3>2. Before(evs', nextev, e)
      BY <1>2, <2>1, <3>1, BeforeOrder
    <3> QED BY <1>2, <2>3, <3>2, BeforeOrder
  <2>5. ~\E z \in Ahead : IsPolled(z) /\ Prio[z] < Prio[e]
    BY <1>7, <2>1, <2>4 DEF HandlerEnq
  <2>6. x \in Ahead /\ IsPolled(x)
    BY <1>7, RestIsAhead DEF Rest
  <2>7. Prio[x] >= Prio[e] /\ InQueue(x, evs)
    BY <2>3, <2>5, <2>6 DEF Rest
  <2>8. Before(evs', x, e)
    BY <1>2, <2>2, <2>7, EnterAfter
  <2> QED BY <1>2, <2>8, BeforeOrder
<1>8. ASSUME pc = "handler", ~shifted', NEW x \in Events, x \notin touched', InQueue(x, evs')
      PROVE  /\ x \in Rest <=> x \in Rest'
             /\ x \in Rest => \A y : y \in Earlier(x) <=> y \in Earlier(x)'
  <2>1. x # e /\ (x \in Rest <=> x \in Rest')
    BY <1>1, <1>6, <1>8
  <2>2. ASSUME x \in Rest, NEW y PROVE y \in Earlier(x) <=> y \in Earlier(x)'
    <3>1. CASE y = e
      <4>1. e \notin Rest
        BY <1>2 DEF Rest
      <4> QED BY <1>7, <1>8, <2>2, <3>1, <4>1 DEF Earlier
    <3>2. CASE y # e
      <4>1. y \in Rest <=> y \in Rest'
        BY <1>6, <1>8, <3>2 DEF Rest
      <4> QED BY <1>3, <2>1, <3>2, <4>1 DEF Earlier
    <3> QED BY <3>1, <3>2
  <2> QED BY <2>1, <2>2
<1>9. /\ DOMAIN pfd \subseteq DOMAIN pfd'
      /\ \A s \in DOMAIN pfd : pfd'[s] = pfd[s]
  <2>1. DOMAIN pfd = 1..Len(pfd) /\ Len(pfd) \in Nat
    BY DEF TypeOK
  <2>2. Cardinality(PolledIn(evs', type)) \in Nat
    BY <1>2, PolledFinite
  <2> QED BY <1>1, <2>1, <2>2 DEF Grown
<1>10. \A x \in Events : x \notin touched' /\ InQueue(x, evs') /\ type'[x] \in PolledTypes =>
           InQueue(x, evs) /\ IsPolled(x)
  BY <1>1, <1>3 DEF IsPolled
<1>11. UNCHANGED <<pc, i, n, ready, ran>> /\ InHandler
       /\ touched' = touched \cup {e} /\ ready \cap held' \subseteq touched \cup {e}
  BY <1>1 DEF SlotInv
<1>12. ~shifted' => ~shifted
  BY DEF HandlerEnq
<1> QED BY <1>8, <1>9, <1>10, <1>11, <1>12, HandlerKeepsSlots

LEMMA HandlerMarkSlots ==
  ASSUME Inv, Inv', SlotInv, NEW e \in Events, HandlerRetype(e) \/ HandlerCondition(e)
  PROVE  SlotInv'
<1> USE DEF Inv
<1>1. /\ UNCHANGED <<evs, pfd, pc, i, n, ev, nextev, ready, ran, seen, shifted>>
      /\ touched' = touched \cup {e} /\ InHandler
  BY DEF HandlerRetype, HandlerCondition, walkVars
<1>2. \A x \in Events : InQueue(x, evs) => (IsPolled(x)' <=> IsPolled(x))
  <2>1. ASSUME HandlerRetype(e), NEW x \in Events, InQueue(x, evs) PROVE type'[x] = type[x]
    <3>1. x # e
      BY <2>1 DEF HandlerRetype, QueueOK
    <3> QED BY <2>1, <3>1 DEF HandlerRetype, TypeOK
  <2>2. ASSUME HandlerCondition(e) PROVE type' = type
    BY <2>2 DEF HandlerCondition
  <2> QED BY <2>1, <2>2 DEF IsPolled
<1>3. Rest' = Rest
  BY <1>1, <1>2 DEF Rest, Cursor
<1>4. \A x : Earlier(x)' = Earlier(x)
  BY <1>1, <1>3 DEF Earlier
<1>5. ready \cap held' \subseteq touched \cup {e}
  BY DEF SlotInv, HandlerRetype, HandlerCondition
<1>6. \A x \in Events : x \notin touched' /\ InQueue(x, evs') /\ type'[x] \in PolledTypes =>
           InQueue(x, evs) /\ IsPolled(x)
  BY <1>1, <1>2 DEF IsPolled
<1> QED BY <1>1, <1>3, <1>4, <1>5, <1>6, HandlerKeepsSlots

\* The walk examines e: what it has still to examine is the rest but for e,
\* which was the first of it.
LEMMA ExaminedRest ==
  ASSUME Inv, NEW e \in Events, Examining(e), type' = type, evs' = evs,
         Cursor' = Successor(evs, e)
  PROVE  /\ Rest' = Rest \ {e}
         /\ e \in Rest <=> IsPolled(e)
         /\ InQueue(e, evs) /\ Cursor = e
         /\ Earlier(e) = {}
         /\ \A x \in Rest' : /\ e \notin Earlier(x)'
                             /\ Earlier(x) = IF IsPolled(e) THEN Earlier(x)' \cup {e}
                                             ELSE Earlier(x)'
<1> USE DEF Inv
<1>1. /\ pc = "walk" /\ ev = e /\ e # NULL /\ Cursor = e
      /\ evs \in Seq(Events) /\ Sorted(evs)
  BY NullAssumption DEF Examining, TypeOK, QueueOK, Cursor
<1>2. InQueue(e, evs)
  BY <1>1 DEF CursorSafe
<1>3. /\ \A x : Successor(evs, e) # NULL =>
           (Before(evs, x, Successor(evs, e)) <=> x = e \/ Before(evs, x, e))
      /\ \A x : Successor(evs, e) = NULL /\ InQueue(x, evs) =>
           x = e \/ Before(evs, x, e)
  BY <1>1, <1>2, SuccessorQueue
<1>4. \A x \in Events : IsPolled(x)' <=> IsPolled(x)
  BY DEF IsPolled
<1>5. Rest' = Rest \ {e}
  <2>1. CASE Successor(evs, e) = NULL
    <3>1. Rest' = {}
      BY <2>1 DEF Rest
    <3>2. Rest \ {e} = {}
      BY <1>1, <1>3, <2>1 DEF Rest
    <3> QED BY <3>1, <3>2
  <2>2. CASE Successor(evs, e) # NULL
    BY <1>1, <1>3, <1>4, <2>2 DEF Rest
  <2> QED BY <2>1, <2>2
<1>6. e \in Rest <=> IsPolled(e)
  BY <1>1, <1>2, BeforeOrder DEF Rest
<1>7. Earlier(e) = {}
  BY <1>1 DEF Earlier, Rest
<1>8. ASSUME NEW x \in Rest'
      PROVE  /\ e \notin Earlier(x)'
             /\ Earlier(x) = IF IsPolled(e) THEN Earlier(x)' \cup {e} ELSE Earlier(x)'
  <2>1. x # e /\ x \in Rest /\ InQueue(x, evs) /\ ~Before(evs, x, e)
    BY <1>1, <1>5, <1>8 DEF Rest
  <2>2. Before(evs, e, x)
    BY <1>1, <1>2, <2>1, BeforeOrder
  <2>3. Earlier(x)' = {y \in Rest \ {e} : Before(evs, y, x)}
    BY <1>5 DEF Earlier
  <2> QED BY <1>6, <2>2, <2>3 DEF Earlier
<1> QED BY <1>1, <1>2, <1>5, <1>6, <1>7, <1>8

\* The place of what is left does not change when a polled event takes its slot.
LEMMA ExaminedPlace ==
  ASSUME Inv, NEW e \in Events, Examining(e), type' = type, evs' = evs,
         Cursor' = Successor(evs, e), TypeOK',
         i' = IF IsPolled(e) THEN i + 1 ELSE i
  PROVE  /\ IsPolled(e) => Place(e) = i
         /\ \A x \in Rest' : Place(x)' = Place(x) /\ i' <= Place(x)
<1> USE DEF Inv
<1>1. Place(e) = i
  <2>1. Earlier(e) = {}
    BY ExaminedRest
  <2>2. i \in Nat
    BY DEF TypeOK
  <2> QED BY <2>1, <2>2, FS_EmptySet DEF Place
<1>2. ASSUME NEW x \in Rest' PROVE Place(x)' = Place(x) /\ i' <= Place(x)
  <2>1. /\ e \notin Earlier(x)'
        /\ Earlier(x) = IF IsPolled(e) THEN Earlier(x)' \cup {e} ELSE Earlier(x)'
    BY <1>2, ExaminedRest
  <2>2. IsFiniteSet(Earlier(x)) /\ Cardinality(Earlier(x)) \in Nat
    BY EarlierFinite
  <2>3. Earlier(x)' \subseteq Earlier(x)
    BY <2>1
  <2>4. IsFiniteSet(Earlier(x)') /\ Cardinality(Earlier(x)') \in Nat
    BY <2>2, <2>3, FS_Subset, FS_CardinalityType
  <2>5. Cardinality(Earlier(x)) = IF IsPolled(e) THEN Cardinality(Earlier(x)') + 1
                                  ELSE Cardinality(Earlier(x)')
    BY <2>1, <2>4, FS_AddElement
  <2>6. i \in Nat
    BY DEF TypeOK
  <2> QED BY <2>4, <2>5, <2>6 DEF Place
<1> QED BY <1>1, <1>2

LEMMA ExamineSlots ==
  ASSUME Inv, Inv', SlotInv, NEW e \in Events, PassOver(e) \/ SkipSlot(e) \/ Dispatch(e)
  PROVE  SlotInv'
<1> USE DEF Inv
<1>1. /\ Examining(e) /\ pc = "walk" /\ pc' \in {"walk", "handler"}
      /\ UNCHANGED <<evs, type, held, pfd, ready, touched, shifted>>
      /\ Cursor' = Successor(evs, e)
  BY DEF PassOver, SkipSlot, Dispatch, Examining, queueVars, Cursor
<1>2. i \in Nat /\ n \in Nat /\ i > 0 /\ ready \cap held \subseteq touched
  BY DEF TypeOK, SlotInv
<1>3. i' \in {i, i + 1} /\ (n' = n \/ n' = n - 1)
  BY DEF PassOver, SkipSlot, Dispatch
<1> SUFFICES ASSUME ~shifted
             PROVE  /\ n' > 0 => \A x \in Rest' \ touched' : Found(x)'
                    /\ n' = 0 => \A x \in Rest' \ touched' : ~(x \in ready' /\ Apart(x)')
                    /\ Answered'
  BY <1>1, <1>2, <1>3 DEF SlotInv
<1>4. /\ n > 0 => \A x \in Rest \ touched : Found(x)
      /\ n = 0 => \A x \in Rest \ touched : ~(x \in ready /\ Apart(x))
      /\ Answered
  BY <1>1 DEF SlotInv
<1>5. \A x : (Apart(x)' <=> Apart(x)) /\ (IsPolled(x)' <=> IsPolled(x))
  BY <1>1 DEF Apart, IsPolled
<1>6. /\ Rest' = Rest \ {e} /\ (e \in Rest <=> IsPolled(e)) /\ InQueue(e, evs)
  BY <1>1, ExaminedRest
\* The slot of e itself.
<1>7. IsPolled(e) /\ n > 0 /\ e \notin touched =>
        /\ i \in DOMAIN pfd
        /\ Reports(pfd, i) => e \in ready
        /\ e \in ready /\ Apart(e) => pfd[i] = [fd |-> Fd[e], revents |-> TRUE]
  <2> SUFFICES ASSUME IsPolled(e), n > 0, e \notin touched
               PROVE  /\ i \in DOMAIN pfd
                      /\ Reports(pfd, i) => e \in ready
                      /\ e \in ready /\ Apart(e) => pfd[i] = [fd |-> Fd[e], revents |-> TRUE]
    OBVIOUS
  <2>1. Earlier(e) = {}
    BY <1>1, ExaminedRest
  <2>2. Place(e) = i
    BY <1>2, <2>1, FS_EmptySet DEF Place
  <2>3. Found(e)
    BY <1>4, <1>6
  <2> QED BY <2>2, <2>3 DEF Found
<1>8. e \in ready /\ Apart(e) => (i \in DOMAIN pfd /\ pfd[i] = [fd |-> Fd[e], revents |-> TRUE] =>
                                    Shown(i) = {TRUE})
  <2> SUFFICES ASSUME i \in DOMAIN pfd, pfd[i] = [fd |-> Fd[e], revents |-> TRUE]
               PROVE  Shown(i) = {TRUE}
    OBVIOUS
  <2>1. Fd[e] \in Nat
    BY FdAssumption
  <2>2. (pfd[i].revents /\ pfd[i].fd >= 0) = TRUE
    BY <2>1
  <2> QED BY <2>2, Zenon DEF Shown
<1>9. i \in DOMAIN pfd /\ TRUE \in Shown(i) => Reports(pfd, i)
  BY DEF Shown, Reports
<1>10. IsPolled(e) /\ e \notin touched /\ e \in ran' => e \in ready
  <2>1. ASSUME IsPolled(e), e \notin touched, e \in ran PROVE e \in ready
    BY <1>4, <1>6, <2>1 DEF Answered
  <2>2. ASSUME IsPolled(e), e \notin touched, e \in ran', e \notin ran PROVE e \in ready
    <3>1. n > 0 /\ TRUE \in Shown(i)
      BY <2>2 DEF PassOver, SkipSlot, Dispatch
    <3> QED BY <1>7, <1>9, <2>2, <3>1
  <2> QED BY <2>1, <2>2
<1>11. IsPolled(e) /\ e \notin touched /\ e \in ready /\ Apart(e) => e \in ran'
  <2> SUFFICES ASSUME IsPolled(e), e \notin touched, e \in ready, Apart(e) PROVE e \in ran'
    OBVIOUS
  <2>1. n > 0
    BY <1>2, <1>4, <1>6
  <2>2. Shown(i) = {TRUE} /\ e \notin held
    BY <1>2, <1>7, <1>8, <2>1
  <2>3. Dispatch(e)
    BY <2>1, <2>2 DEF PassOver, SkipSlot
  <2> QED BY <2>2, <2>3 DEF Dispatch
<1>12. \A x : x # e => (x \in ran' <=> x \in ran)
  BY DEF PassOver, SkipSlot, Dispatch
<1>13. Answered'
  <2> SUFFICES ASSUME NEW x \in Events, InQueue(x, evs), IsPolled(x), x \notin touched
               PROVE  /\ x \in ran' => x \in ready
                      /\ x \in ready /\ Apart(x) /\ x \notin Rest' => x \in ran'
    BY <1>1, <1>5 DEF Answered
  <2>1. CASE x = e
    BY <1>10, <1>11, <2>1
  <2>2. CASE x # e
    BY <1>4, <1>6, <1>12, <2>2 DEF Answered
  <2> QED BY <2>1, <2>2
<1>14. CASE PassOver(e)
  <2>1. n = 0 /\ n' = 0
    BY <1>14 DEF PassOver
  <2> QED BY <1>1, <1>4, <1>5, <1>6, <1>13, <2>1
<1>15. CASE n = 0 /\ ~PassOver(e)
  <2>1. n' = 0
    BY <1>15 DEF SkipSlot, Dispatch
  <2> QED BY <1>1, <1>4, <1>5, <1>6, <1>13, <1>15, <2>1
<1>16. CASE n > 0 /\ ~PassOver(e)
  <2>1. /\ i' = IF IsPolled(e) THEN i + 1 ELSE i
        /\ n' = n \/ (n' = n - 1 /\ IsPolled(e) /\ TRUE \in Shown(i))
    BY <1>16 DEF SkipSlot, Dispatch
  <2>2. \A x \in Rest' : Place(x)' = Place(x) /\ i' <= Place(x)
    BY <1>1, <2>1, ExaminedPlace
  <2>3. ASSUME NEW x \in Rest' \ touched'
        PROVE  /\ Found(x) /\ Place(x) \in Nat
               /\ Cardinality(Reported(i', Place(x))) <= n'
               /\ Cardinality(Reported(i', Place(x))) \in Nat
    <3>1. Found(x) /\ x \in Rest' /\ Place(x) \in Nat
      BY <1>1, <1>4, <1>6, <1>16, <2>3, EarlierFinite
    <3>2. /\ IsFiniteSet(Reported(i, Place(x))) /\ Cardinality(Reported(i, Place(x))) \in Nat
          /\ Cardinality(Reported(i', Place(x))) \in Nat
      <4>1. i \in Int /\ i' \in Int /\ Place(x) \in Int
        BY <1>2, <1>3, <3>1
      <4> QED BY <4>1, ReportedFinite
    <3>3. Reported(i', Place(x)) \subseteq Reported(i, Place(x))
      BY <1>2, <1>3, <3>1 DEF Reported
    <3>4. Cardinality(Reported(i, Place(x))) <= n
      BY <3>1 DEF Found
    <3>5. CASE n' = n
      <4>1. Cardinality(Reported(i', Place(x))) <= Cardinality(Reported(i, Place(x)))
        BY <3>2, <3>3, FS_Subset
      <4> QED BY <1>2, <3>1, <3>2, <3>4, <3>5, <4>1
    <3>6. CASE n' = n - 1 /\ IsPolled(e) /\ TRUE \in Shown(i)
      <4>1. i' = i + 1 /\ i + 1 <= Place(x)
        BY <2>1, <2>2, <3>1, <3>6
      <4>2. i \in DOMAIN pfd
        <5>1. Place(x) \in DOMAIN pfd /\ DOMAIN pfd = 1..Len(pfd) /\ Len(pfd) \in Nat
          BY <3>1 DEF Found, TypeOK
        <5> QED BY <1>2, <3>1, <4>1, <5>1
      <4>3. i \in Reported(i, Place(x))
        BY <1>2, <1>9, <3>1, <3>6, <4>1, <4>2 DEF Reported
      <4>4. Reported(i', Place(x)) \subseteq Reported(i, Place(x)) \ {i}
        BY <1>2, <3>1, <3>3, <4>1 DEF Reported
      <4>5. /\ IsFiniteSet(Reported(i, Place(x)) \ {i})
            /\ Cardinality(Reported(i, Place(x)) \ {i}) = Cardinality(Reported(i, Place(x))) - 1
        BY <3>2, <4>3, FS_RemoveElement
      <4>6. Cardinality(Reported(i', Place(x))) <= Cardinality(Reported(i, Place(x)) \ {i})
        BY <4>4, <4>5, FS_Subset
      <4> QED BY <1>2, <3>1, <3>2, <3>4, <3>6, <4>5, <4>6
    <3> QED BY <2>1, <3>1, <3>2, <3>5, <3>6
  <2>4. ASSUME NEW x \in Rest' \ touched' PROVE Found(x)'
    <3>1. /\ Found(x) /\ Place(x)' = Place(x)
          /\ Cardinality(Reported(i', Place(x))) <= n'
      BY <2>2, <2>3, <2>4
    <3>2. Reported(i, Place(x))' = Reported(i', Place(x))
      BY <1>1, <3>1 DEF Reported
    <3> QED BY <1>1, <1>5, <3>1, <3>2 DEF Found
  <2>5. ASSUME n' = 0, NEW x \in Rest' \ touched' PROVE ~(x \in ready' /\ Apart(x)')
    <3>1. Found(x) /\ Place(x) \in Nat /\ i' <= Place(x)
      BY <2>2, <2>3, <2>5
    <3>2. Cardinality(Reported(i', Place(x))) = 0
      BY <2>3, <2>5
    <3>3. IsFiniteSet(Reported(i', Place(x)))
      BY <1>2, <1>3, <3>1, ReportedFinite
    <3>4. Reported(i', Place(x)) = {}
      BY <3>2, <3>3, FS_EmptySet
    <3>5. ~Reports(pfd, Place(x))
      BY <1>2, <1>3, <3>1, <3>4 DEF Reported
    <3>6. Fd[x] \in Nat
      BY <2>5, FdAssumption DEF Rest
    <3>7. ~(x \in ready /\ Apart(x))
      BY <3>1, <3>5, <3>6 DEF Found, Reports
    <3> QED BY <1>1, <1>5, <3>7
  <2> QED BY <1>13, <2>4, <2>5
<1> QED BY <1>2, <1>14, <1>15, <1>16

\* The slots poll() is given are those of the polled events, in their order.
LEMMA SlotOrder ==
  ASSUME TypeOK, QueueOK
  PROVE  /\ \A k \in PolledIn(evs, type) : SlotOf(k) \in Nat
         /\ \A j, k \in PolledIn(evs, type) : j < k => SlotOf(j) < SlotOf(k)
         /\ \A j, k \in PolledIn(evs, type) : SlotOf(j) = SlotOf(k) => j = k
         /\ \A k \in PolledIn(evs, type) :
              SlotOf(k) <= Cardinality(PolledIn(evs, type)) /\ SlotOf(k) >= 1
<1> DEFINE P == PolledIn(evs, type)
           Upto(k) == {j \in P : j <= k}
<1>1. /\ IsFiniteSet(P) /\ Cardinality(P) \in Nat /\ P \subseteq DOMAIN evs
      /\ DOMAIN evs = 1..Len(evs) /\ Len(evs) \in Nat
  BY PolledFinite DEF TypeOK
<1>2. \A k : SlotOf(k) = Cardinality(Upto(k))
  BY DEF SlotOf
<1> HIDE DEF P
<1>3. \A k \in P : /\ IsFiniteSet(Upto(k)) /\ Cardinality(Upto(k)) \in Nat
                   /\ Cardinality(Upto(k)) <= Cardinality(P)
                   /\ k \in Upto(k)
  <2> SUFFICES ASSUME NEW k \in P
               PROVE  /\ IsFiniteSet(Upto(k)) /\ Cardinality(Upto(k)) \in Nat
                      /\ Cardinality(Upto(k)) <= Cardinality(P)
                      /\ k \in Upto(k)
    OBVIOUS
  <2>1. Upto(k) \subseteq P /\ k \in Upto(k)
    BY <1>1
  <2> QED BY <1>1, <2>1, FS_Subset, FS_CardinalityType
<1>4. \A k \in P : Cardinality(Upto(k)) >= 1
  <2> SUFFICES ASSUME NEW k \in P PROVE Cardinality(Upto(k)) >= 1
    OBVIOUS
  <2>1. Cardinality(Upto(k)) # 0
    BY <1>3, FS_EmptySet
  <2> QED BY <1>3, <2>1
<1>5. ASSUME NEW j \in P, NEW k \in P, j < k PROVE SlotOf(j) < SlotOf(k)
  <2>1. Upto(j) \subseteq Upto(k) \ {k}
    BY <1>1, <1>5
  <2>2. /\ IsFiniteSet(Upto(k) \ {k})
        /\ Cardinality(Upto(k) \ {k}) = Cardinality(Upto(k)) - 1
    BY <1>3, FS_RemoveElement
  <2>3. Cardinality(Upto(j)) <= Cardinality(Upto(k) \ {k})
    BY <2>1, <2>2, FS_Subset
  <2> HIDE DEF Upto
  <2> QED BY <1>2, <1>3, <2>2, <2>3
<1>6. ASSUME NEW j \in P, NEW k \in P, SlotOf(j) = SlotOf(k) PROVE j = k
  <2>1. SlotOf(j) \in Nat /\ j \in Int /\ k \in Int
    <3>1. SlotOf(j) \in Nat
      BY <1>2, <1>3
    <3>2. j \in 1..Len(evs) /\ k \in 1..Len(evs)
      BY <1>1
    <3> QED BY <1>1, <3>1, <3>2
  <2>2. ~(j < k) /\ ~(k < j)
    BY <1>5, <1>6, <2>1
  <2> QED BY <2>1, <2>2
<1> HIDE DEF Upto
<1> QED BY <1>2, <1>3, <1>4, <1>5, <1>6 DEF P

\* What poll() leaves in the slot of the k-th event.
LEMMA FilledSlot ==
  ASSUME TypeOK, QueueOK, PollArrayFits, NEW k \in PolledIn(evs, type),
         NEW R \in SUBSET {j \in PolledIn(evs, type) : evs[j] \notin held}
  PROVE  /\ SlotOf(k) \in DOMAIN Filled(R)
         /\ Filled(R)[SlotOf(k)] = IF evs[k] \in held THEN [fd |-> 0, revents |-> FALSE]
                                   ELSE [fd |-> Fd[evs[k]], revents |-> k \in R]
<1> DEFINE own == {j \in PolledIn(evs, type) : SlotOf(j) = SlotOf(k) /\ evs[j] \notin held}
<1>1. Len(pfd) \in Nat /\ DOMAIN pfd = 1..Len(pfd) /\ Cardinality(PolledIn(evs, type)) \in Nat
  BY PolledFinite DEF TypeOK
<1>2. SlotOf(k) \in DOMAIN pfd
  BY <1>1, SlotOrder DEF PollArrayFits
<1>3. own = IF evs[k] \in held THEN {} ELSE {k}
  BY SlotOrder
<1>4. Filled(R)[SlotOf(k)] =
        IF own = {} THEN [fd |-> 0, revents |-> FALSE]
        ELSE [fd |-> Fd[evs[CHOOSE j \in own : TRUE]], revents |-> (CHOOSE j \in own : TRUE) \in R]
  BY <1>2 DEF Filled
<1> HIDE DEF own
<1>5. CASE evs[k] \in held
  BY <1>2, <1>3, <1>4, <1>5 DEF Filled
<1>6. CASE evs[k] \notin held
  <2>1. own = {k} /\ (CHOOSE j \in own : TRUE) = k
    BY <1>3, <1>6
  <2> QED BY <1>2, <1>4, <1>6, <2>1 DEF Filled
<1> QED BY <1>5, <1>6

\* No more slots report than events are ready.
LEMMA FilledCount ==
  ASSUME TypeOK, QueueOK, NEW b \in Int,
         NEW R \in SUBSET {j \in PolledIn(evs, type) : evs[j] \notin held}
  PROVE  Cardinality({s \in 1..b : s \in DOMAIN Filled(R) /\ Reports(Filled(R), s)})
           <= Cardinality(R)
<1> DEFINE T == {s \in 1..b : s \in DOMAIN Filled(R) /\ Reports(Filled(R), s)}
           f == [k \in R |-> SlotOf(k)]
           U == {SlotOf(k) : k \in R}
<1>1. IsFiniteSet(R) /\ Cardinality(R) \in Nat
  BY PolledFinite, FS_Subset, FS_CardinalityType DEF TypeOK
<1>2. T \subseteq U
  <2> SUFFICES ASSUME NEW s \in 1..b, s \in DOMAIN Filled(R), Reports(Filled(R), s)
               PROVE  s \in U
    OBVIOUS
  <2> DEFINE own == {k \in PolledIn(evs, type) : SlotOf(k) = s /\ evs[k] \notin held}
  <2>1. s \in DOMAIN pfd
    BY DEF Filled
  <2>2. Filled(R)[s] =
          IF own = {} THEN [fd |-> 0, revents |-> FALSE]
          ELSE [fd |-> Fd[evs[CHOOSE j \in own : TRUE]], revents |-> (CHOOSE j \in own : TRUE) \in R]
    BY <2>1 DEF Filled
  <2>3. own # {} => (CHOOSE j \in own : TRUE) \in own
    OBVIOUS
  <2>4. own # {} /\ (CHOOSE j \in own : TRUE) \in R
    <3> HIDE DEF own
    <3>1. own # {}
      <4> SUFFICES ASSUME own = {} PROVE FALSE
        OBVIOUS
      <4>1. Filled(R)[s].revents = FALSE
        BY <2>2
      <4> QED BY <4>1 DEF Reports
    <3> DEFINE c == CHOOSE j \in own : TRUE
    <3> HIDE DEF c
    <3>2. Filled(R)[s] = [fd |-> Fd[evs[c]], revents |-> c \in R]
      BY <2>2, <3>1 DEF c
    <3>3. Filled(R)[s].revents = (c \in R)
      BY <3>2
    <3>4. c \in R
      BY <3>3 DEF Reports
    <3> QED BY <3>1, <3>4 DEF c
  <2> QED BY <2>3, <2>4
<1>3. f \in Surjection(R, U)
  BY DEF Surjection
<1>4. IsFiniteSet(U) /\ Cardinality(U) <= Cardinality(R)
  BY <1>1, <1>3, FS_Surjection
<1>5. IsFiniteSet(T) /\ Cardinality(T) <= Cardinality(U)
  BY <1>2, <1>4, FS_Subset
<1>6. Cardinality(T) \in Nat /\ Cardinality(U) \in Nat
  BY <1>4, <1>5, FS_CardinalityType
<1> HIDE DEF T, U
<1>7. Cardinality(T) <= Cardinality(R)
  BY <1>1, <1>4, <1>5, <1>6
<1> QED BY <1>7 DEF T

\* When the walk begins, the place of an event is its slot.
LEMMA FirstPlace ==
  ASSUME TypeOK, QueueOK, (Cursor = First(evs))', evs' = evs, type' = type, i' = 1,
         NEW k \in PolledIn(evs, type)
  PROVE  /\ evs[k] \in Rest' /\ Place(evs[k])' = SlotOf(k)
<1> DEFINE P == PolledIn(evs, type)
           L == {j \in P : j < k}
           E == Earlier(evs[k])'
           f == [j \in L |-> evs[j]]
<1>1. /\ evs \in Seq(Events) /\ Sorted(evs) /\ IsFiniteSet(P) /\ P \subseteq DOMAIN evs
      /\ DOMAIN evs = 1..Len(evs) /\ Len(evs) \in Nat
  BY PolledFinite DEF TypeOK, QueueOK
<1>2. /\ First(evs) # NULL => InQueue(First(evs), evs)
      /\ First(evs) = NULL => \A x : ~InQueue(x, evs)
      /\ \A x : First(evs) # NULL => ~Before(evs, x, First(evs))
  BY <1>1, BeforeFirst
<1>3. \A x \in Events : InQueue(x, evs) /\ IsPolled(x) <=> x \in Rest'
  BY <1>2 DEF Rest, IsPolled
<1>4. \A j \in DOMAIN evs : evs[j] \in Events /\ InQueue(evs[j], evs)
                            /\ (j \in P <=> IsPolled(evs[j]))
  BY <1>1 DEF InQueue, IsPolled, PolledIn
<1>5. \A j, l \in DOMAIN evs : evs[j] = evs[l] => j = l
  <2> SUFFICES ASSUME NEW j \in DOMAIN evs, NEW l \in DOMAIN evs, evs[j] = evs[l], j # l
               PROVE  FALSE
    OBVIOUS
  <2>1. j < l \/ l < j
    BY <1>1
  <2> QED BY <1>1, <2>1 DEF Sorted
<1>6. evs[k] \in Rest' /\ k \in DOMAIN evs
  BY <1>1, <1>3, <1>4
<1>7. \A y : y \in E <=> \E j \in L : evs[j] = y
  <2> SUFFICES ASSUME NEW y PROVE y \in E <=> \E j \in L : evs[j] = y
    OBVIOUS
  <2>1. ASSUME y \in E PROVE \E j \in L : evs[j] = y
    <3>1. y \in Rest' /\ Before(evs, y, evs[k])
      BY <2>1 DEF Earlier
    <3>2. PICK j \in DOMAIN evs, l \in DOMAIN evs : j < l /\ evs[j] = y /\ evs[l] = evs[k]
      BY <3>1 DEF Before
    <3>3. l = k /\ IsPolled(evs[j])
      BY <1>5, <1>6, <3>1, <3>2 DEF Rest, IsPolled
    <3> QED BY <1>4, <3>2, <3>3
  <2>2. ASSUME NEW j \in L, evs[j] = y PROVE y \in E
    <3>1. j \in DOMAIN evs /\ j \in P /\ j < k
      BY <1>1
    <3>2. y \in Rest' /\ Before(evs, y, evs[k])
      BY <1>3, <1>4, <1>6, <2>2, <3>1 DEF Before
    <3> QED BY <3>2 DEF Earlier
  <2> QED BY <2>1, <2>2
<1>8. f \in Surjection(L, E) /\ f \in Injection(L, E)
  <2> HIDE DEF E
  <2>1. f \in [L -> E]
    BY <1>7
  <2>2. \A a, b \in L : f[a] = f[b] => a = b
    BY <1>1, <1>5
  <2>3. \A y \in E : \E j \in L : f[j] = y
    BY <1>7
  <2> HIDE DEF f, L
  <2> QED BY <2>1, <2>2, <2>3 DEF Surjection, Injection, IsInjective
<1>9. IsFiniteSet(L) /\ Cardinality(L) \in Nat
  <2>1. L \subseteq P
    OBVIOUS
  <2> QED BY <1>1, <2>1, FS_Subset, FS_CardinalityType
<1>10. Cardinality(E) = Cardinality(L)
  <2> HIDE DEF E, L, f
  <2> QED BY <1>8, <1>9, FS_Surjection
<1>11. SlotOf(k) = Cardinality(L) + 1
  <2>1. {j \in P : j <= k} = L \cup {k} /\ k \notin L
    BY <1>1
  <2>2. SlotOf(k) = Cardinality(L \cup {k})
    BY <2>1 DEF SlotOf
  <2> HIDE DEF L
  <2> QED BY <1>9, <2>1, <2>2, FS_AddElement
<1>12. Place(evs[k])' = 1 + Cardinality(E)
  BY DEF Place
<1> HIDE DEF E, L
<1> QED BY <1>6, <1>9, <1>10, <1>11, <1>12

LEMMA PollSlots == ASSUME Inv, Inv', SlotInv, Poll PROVE SlotInv'
<1> USE DEF Inv
<1>1. PICK R \in SUBSET {k \in PolledIn(evs, type) : evs[k] \notin held} :
        /\ n' = Cardinality(R)
        /\ ready' = {evs[k] : k \in R}
        /\ \/ /\ pc' = "walk" /\ ev' = First(evs)
              /\ pfd' = Filled(R)
           \/ /\ R = {} /\ pc' = "timer"
  BY DEF Poll
<1>2. /\ pc = "poll" /\ touched = {} /\ ~shifted /\ i = 1 /\ ran = {}
      /\ UNCHANGED <<type, held, i, ops, ran, seen, touched, shifted, evs>>
  BY DEF Poll, SlotInv
<1>3. ready' \cap held = {}
  BY <1>1
<1>4. CASE R = {} /\ pc' = "timer"
  <2>1. n' = 0 /\ ready' = {} /\ ran' = {}
    BY <1>1, <1>2, <1>4, FS_EmptySet
  <2> QED BY <1>2, <1>4, <2>1 DEF SlotInv
<1>5. CASE pc' = "walk" /\ ev' = First(evs) /\ pfd' = Filled(R)
  <2>1. (Cursor = First(evs))'
    BY <1>2, <1>5 DEF Cursor
  <2>2. \A x \in Rest' : \E k \in PolledIn(evs, type) : evs[k] = x
    BY <1>2 DEF Rest, InQueue, IsPolled, PolledIn
  <2>3. ASSUME NEW x \in Rest' PROVE Found(x)'
    <3>1. PICK k \in PolledIn(evs, type) : evs[k] = x
      BY <2>2, <2>3
    <3>2. Place(x)' = SlotOf(k) /\ SlotOf(k) \in Nat
      BY <1>2, <2>1, <3>1, FirstPlace, SlotOrder
    <3>3. /\ SlotOf(k) \in DOMAIN pfd'
          /\ pfd'[SlotOf(k)] = IF x \in held THEN [fd |-> 0, revents |-> FALSE]
                               ELSE [fd |-> Fd[x], revents |-> k \in R]
      BY <1>5, <3>1, FilledSlot
    <3>4. x \in ready' <=> k \in R
      <4>1. \A j \in R : evs[j] = evs[k] => j = k
        <5> SUFFICES ASSUME NEW j \in R, evs[j] = evs[k], j # k PROVE FALSE
          OBVIOUS
        <5>1. /\ j \in DOMAIN evs /\ k \in DOMAIN evs /\ Sorted(evs)
              /\ DOMAIN evs = 1..Len(evs) /\ Len(evs) \in Nat
          BY PolledFinite DEF TypeOK, QueueOK
        <5>2. j < k \/ k < j
          BY <5>1
        <5> QED BY <5>1, <5>2 DEF Sorted
      <4> QED BY <1>1, <3>1, <4>1
    <3>5. k \in R => x \notin held
      BY <3>1
    <3>6. Reported(i, Place(x))' =
            {s \in 1..SlotOf(k) : s \in DOMAIN Filled(R) /\ Reports(Filled(R), s)}
      <4>1. /\ DOMAIN Filled(R) = 1..Len(pfd) /\ Len(pfd) \in Nat
        BY DEF Filled, TypeOK
      <4>2. 1..SlotOf(k) \subseteq DOMAIN Filled(R)
        BY <1>5, <3>2, <3>3, <4>1
      <4> QED BY <1>2, <1>5, <3>2, <4>2 DEF Reported
    <3>7. Cardinality(Reported(i, Place(x))') <= n'
      BY <1>1, <3>2, <3>6, FilledCount
    <3>8. Reports(pfd', SlotOf(k)) => x \in ready'
      <4> SUFFICES ASSUME Reports(pfd', SlotOf(k)) PROVE x \in ready'
        OBVIOUS
      <4>1. x \notin held
        BY <3>3 DEF Reports
      <4>2. pfd'[SlotOf(k)].revents = (k \in R)
        BY <3>3, <4>1
      <4> QED BY <3>4, <4>2 DEF Reports
    <3>9. x \in ready' => pfd'[SlotOf(k)] = [fd |-> Fd[x], revents |-> TRUE]
      <4> SUFFICES ASSUME x \in ready' PROVE pfd'[SlotOf(k)] = [fd |-> Fd[x], revents |-> TRUE]
        OBVIOUS
      <4>1. k \in R /\ x \notin held
        BY <3>4, <3>5
      <4>2. (k \in R) = TRUE
        BY <4>1
      <4> QED BY <3>3, <4>1, <4>2
    <3> QED BY <3>2, <3>3, <3>7, <3>8, <3>9 DEF Found
  <2>4. n' = 0 => ready' = {}
    <3>1. IsFiniteSet(R)
      BY PolledFinite, FS_Subset DEF TypeOK
    <3> QED BY <1>1, <3>1, FS_EmptySet
  <2>5. Answered'
    <3>1. \A x \in Events : InQueue(x, evs') /\ type'[x] \in PolledTypes => x \in Rest'
      BY <1>2, <2>1, FirstPlace DEF InQueue, PolledIn
    <3> QED BY <1>2, <3>1 DEF Answered, IsPolled
  <2> QED BY <1>2, <1>3, <1>5, <2>3, <2>4, <2>5 DEF SlotInv
<1> QED BY <1>1, <1>4, <1>5

LEMMA ReturnSlots == ASSUME Inv, SlotInv, HandlerReturn PROVE SlotInv'
<1> USE DEF Inv
<1>1. /\ UNCHANGED <<evs, type, held, pfd, i, n, nextev, ready, ran, touched, shifted>>
      /\ pc' = "walk" /\ pc \in {"handler", "timer"}
      /\ ev' = IF pc = "timer" THEN First(evs) ELSE nextev
  BY DEF HandlerReturn, queueVars, history, InHandler
<1>2. CASE pc = "timer"
  BY <1>1, <1>2 DEF SlotInv, Answered
<1>3. CASE pc = "handler"
  <2>1. Cursor' = Cursor
    BY <1>1, <1>3 DEF Cursor
  <2>2. Rest' = Rest
    BY <1>1, <2>1 DEF Rest, IsPolled
  <2>3. \A x : Place(x)' = Place(x)
    BY <1>1, <2>2 DEF Place, Earlier
  <2>4. \A x : Found(x)' = Found(x)
    BY <1>1, <2>3 DEF Found, Apart, Reported
  <2>5. Answered' = Answered
    BY <1>1, <2>2 DEF Answered, Apart, IsPolled
  <2> QED BY <1>1, <1>3, <2>2, <2>4, <2>5 DEF SlotInv, Apart
<1> QED BY <1>1, <1>2, <1>3

LEMMA SlotInvariance == Inv /\ Inv' /\ SlotInv /\ [Step]_vars => SlotInv'
<1> SUFFICES ASSUME Inv, Inv', SlotInv, [Step]_vars PROVE SlotInv'
  OBVIOUS
<1>1. CASE Poll
  BY <1>1, PollSlots
<1>2. CASE RoundEnd
  BY <1>2 DEF RoundEnd, SlotInv
<1>3. CASE HandlerReturn
  BY <1>3, ReturnSlots
<1>4. ASSUME NEW e \in Events, PassOver(e) \/ SkipSlot(e) \/ Dispatch(e) PROVE SlotInv'
  BY <1>4, ExamineSlots
<1>5. ASSUME NEW e \in Events, HandlerDeq(e) PROVE SlotInv'
  BY <1>5, HandlerDeqSlots
<1>6. ASSUME NEW e \in Events, HandlerEnq(e) PROVE SlotInv'
  BY <1>6, HandlerEnqSlots
<1>7. ASSUME NEW e \in Events, HandlerRetype(e) \/ HandlerCondition(e) PROVE SlotInv'
  BY <1>7, HandlerMarkSlots
<1>8. CASE UNCHANGED vars
  <2>1. /\ UNCHANGED <<evs, type, held, pfd, pc, i, n, ev, nextev, ready, ran, touched, shifted>>
    BY <1>8 DEF vars, queueVars, walkVars, history
  <2>2. Rest' = Rest
    BY <2>1 DEF Rest, IsPolled, Cursor
  <2>3. \A x : Place(x)' = Place(x)
    BY <2>1, <2>2 DEF Place, Earlier
  <2>4. \A x : Found(x)' = Found(x)
    BY <2>1, <2>3 DEF Found, Apart, Reported
  <2>5. Answered' = Answered
    BY <2>1, <2>2 DEF Answered, Apart, IsPolled
  <2> QED BY <2>1, <2>2, <2>4, <2>5 DEF SlotInv, Apart
<1> QED BY <1>1, <1>2, <1>3, <1>4, <1>5, <1>6, <1>7, <1>8 DEF Step

-----------------------------------------------------------------------------
(* The theorems                                                            *)

\* The invariant holds in every state of the scheduler (sched, evenq, evdeq).
THEOREM Invariance == Spec => []Inv
<1>1. Init => Inv
  BY InitInv
<1>2. Inv /\ [Step]_vars => Inv'
  <2> SUFFICES ASSUME Inv, [Step]_vars PROVE Inv'
    OBVIOUS
  <2>1. CASE Poll
    BY <2>1, PollInv
  <2>2. CASE RoundEnd
    BY <2>2, RoundEndInv
  <2>3. CASE HandlerReturn
    BY <2>3, HandlerReturnInv
  <2>4. ASSUME NEW e \in Events, PassOver(e) \/ SkipSlot(e) \/ Dispatch(e)
        PROVE  Inv'
    BY <2>4, ExamineInv
  <2>5. ASSUME NEW e \in Events, HandlerDeq(e) PROVE Inv'
    BY <2>5, HandlerDeqInv
  <2>6. ASSUME NEW e \in Events, HandlerEnq(e) PROVE Inv'
    BY <2>6, HandlerEnqInv
  <2>7. ASSUME NEW e \in Events, HandlerRetype(e) \/ HandlerCondition(e)
        PROVE  Inv'
    BY <2>7, HandlerMarkInv
  <2>8. CASE UNCHANGED vars
    BY <2>8 DEF vars, queueVars, walkVars, history, Inv, TypeOK, QueueOK,
                CursorSafe, WalkOrder, PollArrayFits, Cursor, InQueue, Sorted,
                Before, PolledIn, InHandler
  <2> QED BY <2>1, <2>2, <2>3, <2>4, <2>5, <2>6, <2>7, <2>8 DEF Step
<1> QED BY <1>1, <1>2, PTL DEF Spec

\* The variables keep their types.
THEOREM TypeCorrect == Spec => []TypeOK
<1>1. Inv => TypeOK
  BY DEF Inv
<1> QED BY <1>1, Invariance, PTL

\* Flags, types and queues agree, and the queues keep their order, whatever
\* handlers enqueue, dequeue and retype (evenq, evdeq).
THEOREM QueuesAgree == Spec => []QueueOK
<1>1. Inv => QueueOK
  BY DEF Inv
<1> QED BY <1>1, Invariance, PTL

\* The walk never follows an event that is off the queue (evdeq, sched).
THEOREM CursorIsSafe == Spec => []CursorSafe
<1>1. Inv => CursorSafe
  BY DEF Inv
<1> QED BY <1>1, Invariance, PTL

\* sched() never fills more slots than evenq allocated.
THEOREM ArrayFits == Spec => []PollArrayFits
<1>1. Inv => PollArrayFits
  BY DEF Inv
<1> QED BY <1>1, Invariance, PTL

\* Every round looks at every untouched event exactly once (sched, evdeq).
THEOREM RoundsAreComplete == Spec => []RoundComplete
<1>1. Inv => RoundComplete
  <2> SUFFICES ASSUME Inv, pc = "walk"
               PROVE  /\ ev = NULL =>
                           \A k \in DOMAIN evs : evs[k] \in seen \cup touched
                      /\ ev # NULL /\ ev \notin touched => ev \notin seen
    BY DEF RoundComplete
  <2>1. Cursor = ev /\ WalkOrder /\ CursorSafe
    BY DEF Cursor, Inv
  <2>2. ASSUME ev = NULL, NEW k \in DOMAIN evs PROVE evs[k] \in seen \cup touched
    BY <2>1, <2>2 DEF WalkOrder, InQueue
  <2>3. ASSUME ev # NULL, ev \notin touched PROVE ev \notin seen
    <3>1. InQueue(ev, evs)
      BY <2>1, <2>3 DEF CursorSafe
    <3>2. ~Before(evs, ev, ev)
      <4>1. evs \in Seq(Events) /\ Sorted(evs)
        BY DEF Inv, TypeOK, QueueOK
      <4> QED BY <4>1, BeforeFirst
    <3> QED BY <2>1, <2>3, <3>1, <3>2 DEF WalkOrder
  <2> QED BY <2>2, <2>3
<1> QED BY <1>1, Invariance, PTL

\* As long as the index and the queue do not drift apart, exactly the ready
\* handlers run (sched), those apart that share a descriptor with an event a
\* handler touched.
THEOREM DispatchIsExact == Spec => []DispatchExact
<1>1. Init => SlotInv
  BY DEF Init, SlotInv
<1>2. Inv /\ Inv' /\ SlotInv /\ [Step]_vars => SlotInv'
  BY SlotInvariance
<1>3. Inv /\ SlotInv => DispatchExact
  <2> SUFFICES ASSUME Inv, SlotInv, pc = "walk", ev = NULL, ~shifted,
                      NEW k \in DOMAIN evs, IsPolled(evs[k]), evs[k] \notin touched
               PROVE  /\ evs[k] \in ran => evs[k] \in ready
                      /\ evs[k] \in ready /\ (\A e \in touched : Fd[e] # Fd[evs[k]])
                           => evs[k] \in ran
    BY DEF DispatchExact
  <2>1. evs[k] \in Events /\ InQueue(evs[k], evs)
    BY DEF Inv, TypeOK, InQueue
  <2>2. Rest = {}
    BY DEF Rest, Cursor
  <2>3. Answered
    BY DEF SlotInv
  <2> QED BY <2>1, <2>2, <2>3 DEF Answered, Apart
<1> QED BY <1>1, <1>2, <1>3, Invariance, PTL DEF Spec

=============================================================================
