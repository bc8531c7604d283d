-------------------------- MODULE WindowsListProofs ---------------------------
(*****************************************************************************)
(* The two lists of windows, what every step on them does, and the commands  *)
(* on windows and groups, for any number of windows and displays.            *)
(*****************************************************************************)
EXTENDS Windows, FiniteSetTheorems, NaturalsInduction, WellFoundedInduction, TLAPS

USE WindowsAssumption

-----------------------------------------------------------------------------
(* Numbers                                                                 *)

Below == {p \in Nat \X Nat : p[1] < p[2]}

LEMMA BelowWellFounded == IsWellFoundedOn(Below, Nat)
  BY NatLessThanWellFounded DEF OpToRel, Below

\* A set of numbers that is not empty has a least one.
LEMMA Smallest ==
  ASSUME NEW S \in SUBSET Nat, S # {}
  PROVE  \E x \in S : \A y \in S : x <= y
<1>1. S \subseteq Nat
  OBVIOUS
<1>2. \E x \in S : \A y \in S : ~(<<y, x>> \in Below)
  BY <1>1, BelowWellFounded, WFMin, Zenon
<1>3. PICK x \in S : \A y \in S : ~(<<y, x>> \in Below)
  BY <1>2
<1>4. ASSUME NEW y \in S PROVE x <= y
  <2>1. x \in Nat /\ y \in Nat
    BY <1>1
  <2>2. y < x => <<y, x>> \in Below
    BY <2>1 DEF Below
  <2> QED BY <1>3, <2>1, <2>2
<1> QED BY <1>4

\* Min is that one.
LEMMA MinIsLeast ==
  ASSUME NEW S \in SUBSET Nat, S # {}
  PROVE  Min(S) \in S /\ \A y \in S : Min(S) <= y
  BY Smallest DEF Min

\* What holds of 0, and of the number after one it holds of, holds up to n.
LEMMA UpTo ==
  ASSUME NEW n \in Nat, NEW G \in SUBSET (0..n), 0 \in G,
         \A i \in 0..(n - 1) : i \in G => i + 1 \in G
  PROVE  G = 0..n
<1> SUFFICES ASSUME G # 0..n PROVE FALSE
  OBVIOUS
<1>1. PICK x \in (0..n) \ G : \A y \in (0..n) \ G : x <= y
  <2>1. PICK y \in 0..n : y \notin G
    OBVIOUS
  <2>2. (0..n) \ G \in SUBSET Nat /\ (0..n) \ G # {}
    BY <2>1
  <2> QED BY <2>2, Smallest
<1>2. x # 0 /\ x - 1 \in 0..(n - 1)
  BY <1>1
<1>3. x - 1 \in G
  BY <1>1, <1>2
<1> QED BY <1>1, <1>2, <1>3

-----------------------------------------------------------------------------
(* Lists and the pointers that make them                                   *)

Distinct(q) == \A i, j \in DOMAIN q : q[i] = q[j] => i = j
After(q, i) == IF i = Len(q) THEN NULL ELSE q[i + 1]
Before(q, i) == IF i = 1 THEN NULL ELSE q[i - 1]
EndOf(q) == IF q = <<>> THEN NULL ELSE q[Len(q)]

Tabs ==
  [first : Win \cup {NULL}, last : Win \cup {NULL}, mru : Win \cup {NULL},
   next : [Win -> Win \cup {NULL}], prev : [Win -> Win \cup {NULL}],
   prevmru : [Win -> Win \cup {NULL}], number : [Win -> Int]]

\* q is the list by number, u the list by use.
Numbered(t, q) ==
  /\ q \in Seq(Win) /\ Distinct(q)
  /\ t.first = HeadOf(q) /\ t.last = EndOf(q)
  /\ \A i \in DOMAIN q : t.next[q[i]] = After(q, i) /\ t.prev[q[i]] = Before(q, i)
Recent(t, u) ==
  /\ u \in Seq(Win) /\ Distinct(u)
  /\ t.mru = HeadOf(u) /\ \A i \in DOMAIN u : t.prevmru[u[i]] = After(u, i)
Rising(t, q) == \A i, j \in DOMAIN q : i < j => t.number[q[i]] < t.number[q[j]]

\* A list without its element k, and with w at place k.
Cut(q, k) == [i \in 1..(Len(q) - 1) |-> IF i < k THEN q[i] ELSE q[i + 1]]
Insert(q, k, w) == [i \in 1..(Len(q) + 1) |-> IF i < k THEN q[i] ELSE IF i = k THEN w ELSE q[i - 1]]

LEMMA CutIs ==
  ASSUME NEW q \in Seq(Win), Distinct(q), NEW k \in DOMAIN q
  PROVE  /\ Cut(q, k) \in Seq(Win) /\ Distinct(Cut(q, k))
         /\ Len(Cut(q, k)) = Len(q) - 1 /\ DOMAIN Cut(q, k) = 1..(Len(q) - 1)
         /\ \A i \in 1..(Len(q) - 1) : Cut(q, k)[i] = IF i < k THEN q[i] ELSE q[i + 1]
         /\ ToSet(Cut(q, k)) = ToSet(q) \ {q[k]}
<1>0. Len(q) \in Nat /\ k \in 1..Len(q) /\ DOMAIN q = 1..Len(q) /\ \A i \in 1..Len(q) : q[i] \in Win
  OBVIOUS
<1>1. /\ DOMAIN Cut(q, k) = 1..(Len(q) - 1)
      /\ \A i \in 1..(Len(q) - 1) : Cut(q, k)[i] = IF i < k THEN q[i] ELSE q[i + 1]
  BY DEF Cut
<1>2. Cut(q, k) \in [1..(Len(q) - 1) -> Win] /\ Len(q) - 1 \in Nat
  BY <1>0 DEF Cut
<1>3. Cut(q, k) \in Seq(Win) /\ Len(Cut(q, k)) = Len(q) - 1
  BY <1>2
<1>4. Distinct(Cut(q, k))
  <2>1. ASSUME NEW i \in 1..(Len(q) - 1), NEW j \in 1..(Len(q) - 1), i < j
        PROVE  Cut(q, k)[i] # Cut(q, k)[j]
    <3> DEFINE m == IF i < k THEN i ELSE i + 1
               n == IF j < k THEN j ELSE j + 1
    <3>1. m \in 1..Len(q) /\ n \in 1..Len(q) /\ m # n
      BY <1>0, <2>1
    <3>2. Cut(q, k)[i] = q[m] /\ Cut(q, k)[j] = q[n]
      BY <1>1
    <3> QED BY <1>0, <3>1, <3>2 DEF Distinct
  <2> QED BY <1>0, <1>1, <2>1 DEF Distinct
<1>5. ASSUME NEW w \in ToSet(q) \ {q[k]} PROVE w \in ToSet(Cut(q, k))
  <2>1. PICK i \in 1..Len(q) : q[i] = w /\ i # k
    BY <1>0 DEF ToSet
  <2>2. CASE i < k
    <3>1. i \in 1..(Len(q) - 1) /\ Cut(q, k)[i] = q[i]
      BY <1>0, <1>1, <2>2
    <3> QED BY <1>1, <2>1, <3>1 DEF ToSet
  <2>3. CASE i > k
    <3>1. i - 1 \in 1..(Len(q) - 1) /\ Cut(q, k)[i - 1] = q[i]
      BY <1>0, <1>1, <2>3
    <3> QED BY <1>1, <2>1, <3>1 DEF ToSet
  <2> QED BY <1>0, <2>1, <2>2, <2>3
<1>6. ASSUME NEW w \in ToSet(Cut(q, k)) PROVE w \in ToSet(q) \ {q[k]}
  <2>1. PICK i \in 1..(Len(q) - 1) : Cut(q, k)[i] = w
    BY <1>1 DEF ToSet
  <2> QED BY <1>0, <1>1, <2>1 DEF ToSet, Distinct
<1> QED BY <1>1, <1>3, <1>4, <1>5, <1>6

LEMMA InsertIs ==
  ASSUME NEW q \in Seq(Win), Distinct(q), NEW k \in 1..(Len(q) + 1), NEW w \in Win, w \notin ToSet(q)
  PROVE  /\ Insert(q, k, w) \in Seq(Win) /\ Distinct(Insert(q, k, w))
         /\ Len(Insert(q, k, w)) = Len(q) + 1 /\ DOMAIN Insert(q, k, w) = 1..(Len(q) + 1)
         /\ \A i \in 1..(Len(q) + 1) :
               Insert(q, k, w)[i] = IF i < k THEN q[i] ELSE IF i = k THEN w ELSE q[i - 1]
         /\ ToSet(Insert(q, k, w)) = ToSet(q) \cup {w}
<1>0. /\ Len(q) \in Nat /\ k \in 1..(Len(q) + 1) /\ DOMAIN q = 1..Len(q)
      /\ \A i \in 1..Len(q) : q[i] \in Win /\ q[i] # w
  BY DEF ToSet
<1>1. /\ DOMAIN Insert(q, k, w) = 1..(Len(q) + 1)
      /\ \A i \in 1..(Len(q) + 1) :
            Insert(q, k, w)[i] = IF i < k THEN q[i] ELSE IF i = k THEN w ELSE q[i - 1]
  BY DEF Insert
<1>2. Insert(q, k, w) \in [1..(Len(q) + 1) -> Win] /\ Len(q) + 1 \in Nat
  BY <1>0 DEF Insert
<1>3. Insert(q, k, w) \in Seq(Win) /\ Len(Insert(q, k, w)) = Len(q) + 1
  BY <1>2
<1>4. Distinct(Insert(q, k, w))
  <2> DEFINE r == Insert(q, k, w)
  <2>1. ASSUME NEW i \in 1..(Len(q) + 1), NEW j \in 1..(Len(q) + 1), i < j PROVE r[i] # r[j]
    <3>1. CASE j < k
      BY <1>0, <1>1, <2>1, <3>1 DEF Distinct
    <3>2. CASE j = k
      BY <1>0, <1>1, <2>1, <3>2
    <3>3. CASE j > k /\ i = k
      <4>1. j - 1 \in 1..Len(q) /\ r[j] = q[j - 1] /\ r[i] = w
        BY <1>0, <1>1, <3>3
      <4> QED BY <1>0, <4>1
    <3>4. CASE j > k /\ i # k
      <4> DEFINE m == IF i < k THEN i ELSE i - 1
      <4>1. j - 1 \in 1..Len(q) /\ r[j] = q[j - 1]
        BY <1>0, <1>1, <3>4
      <4>2. m \in 1..Len(q) /\ r[i] = q[m] /\ m # j - 1
        BY <1>0, <1>1, <2>1, <3>4
      <4> QED BY <1>0, <4>1, <4>2 DEF Distinct
    <3> QED BY <1>0, <3>1, <3>2, <3>3, <3>4
  <2> HIDE DEF r
  <2>2. DOMAIN r = 1..(Len(q) + 1)
    BY <1>1 DEF r
  <2>3. Distinct(r)
    BY <1>0, <2>1, <2>2 DEF Distinct
  <2> QED BY <2>3 DEF r
<1>5. ASSUME NEW v \in ToSet(q) \cup {w} PROVE v \in ToSet(Insert(q, k, w))
  <2>1. CASE v = w
    BY <1>0, <1>1, <2>1 DEF ToSet
  <2>2. CASE v # w
    <3>1. PICK i \in 1..Len(q) : q[i] = v
      BY <1>0, <2>2 DEF ToSet
    <3>2. CASE i < k
      BY <1>0, <1>1, <3>1, <3>2 DEF ToSet
    <3>3. CASE i >= k
      <4>1. i + 1 \in 1..(Len(q) + 1) /\ Insert(q, k, w)[i + 1] = q[i]
        BY <1>0, <1>1, <3>3
      <4> QED BY <1>1, <3>1, <4>1 DEF ToSet
    <3> QED BY <1>0, <3>2, <3>3
  <2> QED BY <2>1, <2>2
<1>6. ASSUME NEW v \in ToSet(Insert(q, k, w)) PROVE v \in ToSet(q) \cup {w}
  <2>1. PICK i \in 1..(Len(q) + 1) : Insert(q, k, w)[i] = v
    BY <1>1 DEF ToSet
  <2>2. CASE i < k
    <3>1. i \in 1..Len(q) /\ v = q[i]
      BY <1>0, <1>1, <2>1, <2>2
    <3> QED BY <1>0, <3>1 DEF ToSet
  <2>3. CASE i = k
    BY <1>1, <2>1, <2>3
  <2>4. CASE i > k
    <3>1. i - 1 \in 1..Len(q) /\ v = q[i - 1]
      BY <1>0, <1>1, <2>1, <2>4
    <3> QED BY <1>0, <3>1 DEF ToSet
  <2> QED BY <1>0, <2>2, <2>3, <2>4
<1> QED BY <1>1, <1>3, <1>4, <1>5, <1>6

\* A sequence without repetitions is not longer than there are windows.
LEMMA SizeBound ==
  ASSUME NEW T, IsFiniteSet(T), NEW q \in Seq(T), Distinct(q)
  PROVE  /\ Cardinality(T) \in Nat /\ Len(q) \in 0..Cardinality(T)
         /\ Cardinality(ToSet(q)) = Len(q)
<1>0. Len(q) \in Nat /\ DOMAIN q = 1..Len(q) /\ \A i \in 1..Len(q) : q[i] \in T
  OBVIOUS
<1>1. IsFiniteSet(1..Len(q)) /\ Cardinality(1..Len(q)) = Len(q)
  <2>1. 1 \in Int /\ Len(q) \in Int
    BY <1>0
  <2>2. /\ IsFiniteSet(1..Len(q))
        /\ Cardinality(1..Len(q)) = IF 1 > Len(q) THEN 0 ELSE Len(q) - 1 + 1
    BY <2>1, FS_Interval
  <2> QED BY <1>0, <2>2
<1>2. ToSet(q) \subseteq T /\ q \in [1..Len(q) -> ToSet(q)]
  BY <1>0 DEF ToSet
<1>3. IsFiniteSet(ToSet(q)) /\ Cardinality(ToSet(q)) <= Cardinality(T) /\ Cardinality(T) \in Nat
  BY <1>2, FS_Subset, FS_CardinalityType
<1>4. q \in Bijection(1..Len(q), ToSet(q))
  BY <1>0, <1>2 DEF Distinct, Bijection, Injection, Surjection, IsInjective, ToSet
<1>5. Cardinality(ToSet(q)) = Len(q)
  <2>1. ExistsBijection(1..Len(q), ToSet(q))
    BY <1>4 DEF ExistsBijection
  <2> QED BY <1>1, <1>3, <2>1, FS_Bijection
<1> QED BY <1>0, <1>3, <1>5

LEMMA LengthBound ==
  ASSUME NEW q \in Seq(Win), Distinct(q)
  PROVE  /\ Cardinality(Win) \in Nat /\ Len(q) \in 0..Cardinality(Win)
         /\ Cardinality(ToSet(q)) = Len(q)
  BY SizeBound

\* What a pointer leads through is the list it makes.
LEMMA ChainIs ==
  ASSUME NEW q \in Seq(Win), Distinct(q), NEW link,
         \A i \in DOMAIN q : link[q[i]] = After(q, i)
  PROVE  Chain(HeadOf(q), link) = q
<1> DEFINE N == Cardinality(Win)
           Met(n) == [i \in 1..(IF n < Len(q) THEN n + 1 ELSE Len(q)) |-> q[i]]
           Start == IF HeadOf(q) = NULL THEN <<>> ELSE <<HeadOf(q)>>
           met == CHOOSE f : f = [n \in 0..N |-> IF n = 0 THEN Start ELSE Follow(f[n - 1], link)]
           g == [n \in 0..N |-> Met(n)]
<1>0. /\ N \in Nat /\ Len(q) \in 0..N /\ DOMAIN q = 1..Len(q)
      /\ \A i \in 1..Len(q) : q[i] \in Win /\ q[i] # NULL
  BY LengthBound
<1>a. N \in Nat /\ Len(q) \in Nat
  BY <1>0
<1>1. ASSUME NEW n \in 0..N
      PROVE  /\ Met(n) \in Seq(Win) /\ Len(Met(n)) = IF n < Len(q) THEN n + 1 ELSE Len(q)
             /\ \A i \in 1..Len(Met(n)) : Met(n)[i] = q[i]
  <2> DEFINE m == IF n < Len(q) THEN n + 1 ELSE Len(q)
  <2>1. m \in Nat /\ m <= Len(q)
    BY <1>0
  <2>2. Met(n) = [i \in 1..m |-> q[i]]
    OBVIOUS
  <2> HIDE DEF m, Met
  <2>3. Met(n) \in [1..m -> Win] /\ \A i \in 1..m : Met(n)[i] = q[i]
    BY <1>0, <2>1, <2>2
  <2>4. Met(n) \in Seq(Win) /\ Len(Met(n)) = m
    BY <2>1, <2>3
  <2> QED BY <2>3, <2>4 DEF m
<1>2. Met(0) = Start
  <2>1. CASE q = <<>>
    <3>1. Met(0) = <<>>
      BY <2>1
    <3> QED BY <2>1, <3>1 DEF HeadOf
  <2>2. CASE q # <<>>
    <3>1. Len(q) > 0 /\ HeadOf(q) = q[1] /\ q[1] # NULL
      BY <1>0, <2>2 DEF HeadOf
    <3>2. Met(0) = [i \in 1..1 |-> q[i]]
      BY <1>0, <3>1
    <3> HIDE DEF Met
    <3>3. Met(0) = <<q[1]>>
      BY <1>0, <3>1, <3>2
    <3> QED BY <3>1, <3>3
  <2> QED BY <2>1, <2>2
<1>3. ASSUME NEW n \in 0..N, n # 0 PROVE Met(n) = Follow(Met(n - 1), link)
  <2>0. n - 1 \in 0..N
    BY <1>0, <1>3
  <2> HIDE DEF Met
  <2>1. CASE n > Len(q)
    <3>1. Met(n - 1) = q /\ Met(n) = q
      BY <1>0, <1>1, <2>0, <2>1 DEF Met
    <3>2. q # <<>> => link[Last(q)] = NULL
      BY <1>0 DEF Last, After
    <3> QED BY <3>1, <3>2 DEF Follow
  <2>2. CASE n <= Len(q)
    <3> DEFINE a == Met(n - 1)
               b == Met(n)
    <3>1. a \in Seq(Win) /\ Len(a) = n /\ a[n] = q[n] /\ a # <<>> /\ Last(a) = q[n]
      BY <1>0, <1>1, <1>3, <2>0, <2>2 DEF Last
    <3>2. link[Last(a)] = After(q, n)
      BY <1>0, <1>3, <2>2, <3>1
    <3>a. b \in Seq(Win) /\ Len(b) = IF n < Len(q) THEN n + 1 ELSE Len(q)
      BY <1>0, <1>1
    <3>b. (\A i \in 1..n : a[i] = q[i]) /\ (\A i \in 1..Len(b) : b[i] = q[i])
      BY <1>1, <2>0, <3>1
    <3>c. b = Follow(a, link) => Met(n) = Follow(Met(n - 1), link)
      OBVIOUS
    <3> HIDE DEF a, b
    <3>3. CASE n = Len(q)
      <4>1. b = a
        BY <1>0, <3>1, <3>3, <3>a, <3>b
      <4>2. link[Last(a)] = NULL
        BY <3>2, <3>3 DEF After
      <4> QED BY <3>1, <3>c, <4>1, <4>2 DEF Follow
    <3>4. CASE n < Len(q)
      <4>1. link[Last(a)] = q[n + 1] /\ q[n + 1] # NULL
        <5>1. n + 1 \in 1..Len(q) /\ n # Len(q)
          BY <1>a, <3>4
        <5> QED BY <1>0, <3>2, <5>1 DEF After
      <4>2. Len(b) = n + 1
        BY <1>0, <3>4, <3>a
      <4>3. b = Append(a, q[n + 1])
        BY <1>0, <3>1, <3>4, <3>a, <3>b, <4>2
      <4>4. b = Follow(a, link)
        BY <3>1, <4>1, <4>3 DEF Follow
      <4> QED BY <3>c, <4>4
    <3>5. n \in Int /\ Len(q) \in Int
      BY <1>a
    <3> HIDE DEF Met
    <3> QED BY <2>2, <3>3, <3>4, <3>5
  <2>3. n \in Int /\ Len(q) \in Int
    BY <1>a
  <2> QED BY <2>1, <2>2, <2>3
<1> HIDE DEF Met, Start
<1>4. g = [n \in 0..N |-> IF n = 0 THEN Start ELSE Follow(g[n - 1], link)]
  <2>1. ASSUME NEW n \in 0..N PROVE g[n] = IF n = 0 THEN Start ELSE Follow(g[n - 1], link)
    <3>1. n # 0 => n - 1 \in 0..N
      BY <1>0
    <3> QED BY <1>2, <1>3, <3>1
  <2> QED BY <2>1
<1>5. met = [n \in 0..N |-> IF n = 0 THEN Start ELSE Follow(met[n - 1], link)]
  BY <1>4
<1> HIDE DEF met
<1>6. ASSUME NEW n \in 0..N PROVE met[n] = Met(n)
  <2> DEFINE G == {k \in 0..N : met[k] = Met(k)}
  <2>1. 0 \in G
    BY <1>0, <1>2, <1>5
  <2>2. ASSUME NEW k \in 0..(N - 1), k \in G PROVE k + 1 \in G
    <3>1. k + 1 \in 0..N /\ k + 1 # 0 /\ (k + 1) - 1 = k
      BY <1>0
    <3>2. met[k + 1] = Follow(met[k], link)
      BY <1>5, <3>1
    <3> QED BY <1>3, <2>2, <3>1, <3>2
  <2> HIDE DEF G
  <2>3. G = 0..N
    <3>1. G \in SUBSET (0..N)
      BY DEF G
    <3> QED BY <1>0, <2>1, <2>2, <3>1, UpTo
  <2> QED BY <2>3 DEF G
<1>7. Met(N) = q
  <2>1. Met(N) \in Seq(Win) /\ Len(Met(N)) = Len(q) /\ \A i \in 1..Len(q) : Met(N)[i] = q[i]
    BY <1>0, <1>1
  <2> QED BY <2>1
<1>8. Chain(HeadOf(q), link) = met[N]
  BY DEF Chain, met, Start
<1> QED BY <1>0, <1>6, <1>7, <1>8

LEMMA NumberedChain ==
  ASSUME NEW t, NEW q, Numbered(t, q)
  PROVE  /\ ByNumber(t) = q /\ Backwards(t) = Reverse(q)
         /\ Reverse(q) \in Seq(Win) /\ DOMAIN Reverse(q) = 1..Len(q)
         /\ \A i \in 1..Len(q) : Reverse(q)[i] = q[Len(q) - i + 1]
<1>0. /\ q \in Seq(Win) /\ Distinct(q) /\ Len(q) \in Nat /\ DOMAIN q = 1..Len(q)
      /\ \A i \in 1..Len(q) : q[i] \in Win
      /\ \A i \in 1..Len(q) : t.next[q[i]] = After(q, i) /\ t.prev[q[i]] = Before(q, i)
  BY DEF Numbered
<1>1. ByNumber(t) = q
  <2>1. \A i \in DOMAIN q : t.next[q[i]] = After(q, i)
    BY <1>0
  <2>2. Chain(HeadOf(q), t.next) = q
    BY <1>0, <2>1, ChainIs
  <2> QED BY <2>2 DEF ByNumber, Numbered
<1> DEFINE r == Reverse(q)
<1>2. /\ r \in Seq(Win) /\ Len(r) = Len(q) /\ DOMAIN r = 1..Len(q)
      /\ \A i \in 1..Len(q) : r[i] = q[Len(q) - i + 1]
  <2>1. r = [i \in 1..Len(q) |-> q[Len(q) - i + 1]]
    BY DEF Reverse
  <2>2. \A i \in 1..Len(q) : Len(q) - i + 1 \in 1..Len(q)
    BY <1>0
  <2>3. r \in [1..Len(q) -> Win]
    BY <1>0, <2>1, <2>2
  <2> QED BY <1>0, <2>1, <2>3
<1> HIDE DEF r
<1>3. Distinct(r)
  <2>1. ASSUME NEW i \in 1..Len(q), NEW j \in 1..Len(q), i # j PROVE r[i] # r[j]
    <3>1. Len(q) - i + 1 \in 1..Len(q) /\ Len(q) - j + 1 \in 1..Len(q)
          /\ Len(q) - i + 1 # Len(q) - j + 1
      <4>1. Len(q) \in Nat
        BY <1>0
      <4> QED BY <2>1, <4>1
    <3> DEFINE a == Len(q) - i + 1
               b == Len(q) - j + 1
    <3>2. r[i] = q[a] /\ r[j] = q[b]
      BY <1>2
    <3> HIDE DEF a, b
    <3>3. a \in DOMAIN q /\ b \in DOMAIN q /\ a # b
      BY <1>0, <3>1 DEF a, b
    <3> QED BY <1>0, <3>2, <3>3 DEF Distinct
  <2> QED BY <1>2, <2>1 DEF Distinct
<1>4. ASSUME NEW i \in DOMAIN r PROVE t.prev[r[i]] = After(r, i)
  <2> DEFINE m == Len(q) - i + 1
  <2>1. m \in 1..Len(q) /\ r[i] = q[m] /\ (m = 1 <=> i = Len(q))
    BY <1>0, <1>2
  <2>2. t.prev[r[i]] = Before(q, m)
    BY <1>0, <2>1
  <2>3. CASE i = Len(q)
    BY <1>2, <2>1, <2>2, <2>3 DEF Before, After
  <2>4. CASE i # Len(q)
    <3>1. i + 1 \in 1..Len(q) /\ Len(q) - (i + 1) + 1 = m - 1
      BY <1>0, <1>2, <2>4
    <3>2. r[i + 1] = q[m - 1]
      BY <1>2, <3>1
    <3> QED BY <1>2, <2>1, <2>2, <2>4, <3>2 DEF Before, After
  <2> QED BY <2>3, <2>4
<1>5. HeadOf(r) = EndOf(q)
  <2>1. CASE q = <<>>
    <3>1. Len(q) = 0 /\ r = <<>>
      BY <1>2, <2>1
    <3> QED BY <2>1, <3>1 DEF HeadOf, EndOf
  <2>2. CASE q # <<>>
    <3>1. Len(q) > 0 /\ r # <<>> /\ 1 \in 1..Len(q) /\ Len(q) - 1 + 1 = Len(q)
      BY <1>0, <1>2, <2>2
    <3>2. r[1] = q[Len(q)]
      BY <1>2, <3>1
    <3> QED BY <2>2, <3>1, <3>2 DEF HeadOf, EndOf
  <2> QED BY <2>1, <2>2
<1>6. Chain(HeadOf(r), t.prev) = r
  BY <1>2, <1>3, <1>4, ChainIs
<1>7. Backwards(t) = r
  BY <1>5, <1>6 DEF Backwards, Numbered
<1> QED BY <1>1, <1>2, <1>7 DEF r

LEMMA RecentChain == ASSUME NEW t, NEW u, Recent(t, u) PROVE ByUse(t) = u
<1>1. u \in Seq(Win) /\ Distinct(u) /\ \A i \in DOMAIN u : t.prevmru[u[i]] = After(u, i)
  BY DEF Recent
<1>2. Chain(HeadOf(u), t.prevmru) = u
  BY <1>1, ChainIs
<1> QED BY <1>2 DEF ByUse, Recent

-----------------------------------------------------------------------------
(* What the operations on the lists do                                     *)

LEMMA ElementIs ==
  ASSUME NEW q \in Seq(Win), NEW w \in ToSet(q)
  PROVE  \E k \in DOMAIN q : q[k] = w
  BY DEF ToSet

LEMMA HeadIs ==
  ASSUME NEW q \in Seq(Win)
  PROVE  /\ HeadOf(q) = IF Len(q) = 0 THEN NULL ELSE q[1]
         /\ EndOf(q) = IF Len(q) = 0 THEN NULL ELSE q[Len(q)]
         /\ HeadOf(q) \in Win \cup {NULL} /\ EndOf(q) \in Win \cup {NULL}
<1>1. CASE q = <<>>
  BY <1>1 DEF HeadOf, EndOf
<1>2. CASE q # <<>>
  <2>1. Len(q) \in Nat /\ Len(q) > 0 /\ 1 \in DOMAIN q /\ Len(q) \in DOMAIN q
    BY <1>2
  <2> QED BY <1>2, <2>1 DEF HeadOf, EndOf
<1> QED BY <1>1, <1>2

\* What a list says of its elements, with the indices spelled out.
LEMMA ListFacts ==
  ASSUME NEW q \in Seq(Win)
  PROVE  /\ Len(q) \in Nat /\ DOMAIN q = 1..Len(q) /\ \A i \in 1..Len(q) : q[i] \in Win /\ q[i] # NULL
         /\ \A i \in 1..Len(q) : After(q, i) \in Win \cup {NULL} /\ Before(q, i) \in Win \cup {NULL}
         /\ \A i \in 1..Len(q) : After(q, i) = NULL <=> i = Len(q)
         /\ \A i \in 1..Len(q) : Before(q, i) = NULL <=> i = 1
<1>1. Len(q) \in Nat /\ DOMAIN q = 1..Len(q) /\ \A i \in 1..Len(q) : q[i] \in Win /\ q[i] # NULL
  OBVIOUS
<1>2. ASSUME NEW i \in 1..Len(q), i # Len(q) PROVE After(q, i) = q[i + 1] /\ q[i + 1] \in Win
  <2>1. i + 1 \in 1..Len(q)
    BY <1>2
  <2> QED BY <1>1, <1>2, <2>1 DEF After
<1>3. ASSUME NEW i \in 1..Len(q), i # 1 PROVE Before(q, i) = q[i - 1] /\ q[i - 1] \in Win
  <2>1. i - 1 \in 1..Len(q)
    BY <1>3
  <2> QED BY <1>1, <1>3, <2>1 DEF Before
<1>4. /\ \A i \in 1..Len(q) : i = Len(q) => After(q, i) = NULL
      /\ \A i \in 1..Len(q) : i = 1 => Before(q, i) = NULL
  BY DEF After, Before
<1> QED BY <1>1, <1>2, <1>3, <1>4

LEMMA CutLinks ==
  ASSUME NEW q \in Seq(Win), Distinct(q), NEW k \in DOMAIN q, NEW next, NEW prev,
         \A i \in DOMAIN q :
            i # k => /\ next[q[i]] = IF q[i] = Before(q, k) THEN After(q, k) ELSE After(q, i)
                     /\ prev[q[i]] = IF q[i] = After(q, k) THEN Before(q, k) ELSE Before(q, i)
  PROVE  /\ \A i \in DOMAIN Cut(q, k) :
               /\ next[Cut(q, k)[i]] = After(Cut(q, k), i)
               /\ prev[Cut(q, k)[i]] = Before(Cut(q, k), i)
         /\ HeadOf(Cut(q, k)) = IF k = 1 THEN After(q, k) ELSE HeadOf(q)
         /\ EndOf(Cut(q, k)) = IF k = Len(q) THEN Before(q, k) ELSE EndOf(q)
<1> DEFINE c == Cut(q, k)
<1>1. /\ Len(q) \in Nat /\ DOMAIN q = 1..Len(q) /\ k \in 1..Len(q) /\ c \in Seq(Win)
      /\ Len(c) = Len(q) - 1 /\ DOMAIN c = 1..(Len(q) - 1)
  BY CutIs, ListFacts
<1>2. \A i \in 1..(Len(q) - 1) : c[i] = IF i < k THEN q[i] ELSE q[i + 1]
  BY CutIs
<1>3. \A i, j \in 1..Len(q) : q[i] = q[j] => i = j
  BY <1>1 DEF Distinct
<1>a. \A i \in 1..Len(q) : q[i] # NULL
  BY ListFacts
<1> HIDE DEF c
<1>4. ASSUME NEW i \in 1..(Len(q) - 1) PROVE next[c[i]] = After(c, i)
  <2>1. CASE i < k - 1
    <3>1. i \in 1..Len(q) /\ i + 1 \in 1..(Len(q) - 1) /\ k - 1 \in 1..Len(q) /\ k # 1 /\ i # k
          /\ i # Len(q) /\ i + 1 < k /\ i < k /\ i # k - 1 /\ i # Len(q) - 1
      BY <1>1, <2>1
    <3>2. c[i] = q[i] /\ c[i + 1] = q[i + 1] /\ q[i] # q[k - 1]
      BY <1>2, <1>3, <3>1
    <3>3. Before(q, k) = q[k - 1] /\ After(q, i) = q[i + 1] /\ After(c, i) = c[i + 1]
      BY <1>1, <3>1 DEF Before, After
    <3> QED BY <1>1, <3>1, <3>2, <3>3
  <2>2. CASE i = k - 1
    <3>1. i \in 1..Len(q) /\ k # 1 /\ i # k /\ i < k
      BY <1>1, <2>2
    <3>2. c[i] = q[i] /\ Before(q, k) = q[i]
      BY <1>2, <2>2, <3>1 DEF Before
    <3>3. next[c[i]] = After(q, k)
      BY <1>1, <3>1, <3>2
    <3>4. CASE k = Len(q)
      BY <1>1, <2>2, <3>3, <3>4 DEF After
    <3>5. CASE k # Len(q)
      <4>1. i + 1 = k /\ k \in 1..(Len(q) - 1) /\ ~(k < k) /\ i # Len(q) - 1
        BY <1>1, <2>2, <3>5
      <4>2. c[i + 1] = q[k + 1]
        BY <1>2, <4>1
      <4> QED BY <1>1, <3>3, <3>5, <4>1, <4>2 DEF After
    <3> QED BY <3>4, <3>5
  <2>3. CASE i >= k
    <3>1. i + 1 \in 1..Len(q) /\ i + 1 # k /\ ~(i < k) /\ k - 1 # i + 1
      BY <1>1, <2>3
    <3>2. c[i] = q[i + 1]
      BY <1>2, <3>1
    <3>3. q[i + 1] # Before(q, k)
      <4>1. CASE k = 1
        BY <1>a, <3>1, <4>1 DEF Before
      <4>2. CASE k # 1
        <5>1. k - 1 \in 1..Len(q)
          BY <1>1, <4>2
        <5> QED BY <1>3, <3>1, <4>2, <5>1 DEF Before
      <4> QED BY <4>1, <4>2
    <3>4. next[c[i]] = After(q, i + 1)
      BY <1>1, <3>1, <3>2, <3>3
    <3>5. CASE i = Len(q) - 1
      BY <1>1, <3>4, <3>5 DEF After
    <3>6. CASE i # Len(q) - 1
      <4>1. i + 1 \in 1..(Len(q) - 1) /\ ~(i + 1 < k) /\ i + 1 # Len(q)
        BY <1>1, <2>3, <3>6
      <4>2. c[i + 1] = q[(i + 1) + 1]
        BY <1>2, <4>1
      <4> QED BY <1>1, <3>4, <3>6, <4>1, <4>2 DEF After
    <3> QED BY <3>5, <3>6
  <2>4. i \in Int /\ k \in Int
    BY <1>1
  <2> QED BY <2>1, <2>2, <2>3, <2>4
<1>5. ASSUME NEW i \in 1..(Len(q) - 1) PROVE prev[c[i]] = Before(c, i)
  <2>1. CASE i > k
    <3>1. i + 1 \in 1..Len(q) /\ k + 1 \in 1..Len(q) /\ k # Len(q) /\ i + 1 # k /\ i # k /\ k + 1 # i + 1
          /\ i # 1 /\ i + 1 # 1 /\ ~(i < k) /\ i - 1 \in 1..(Len(q) - 1) /\ ~(i - 1 < k) /\ (i + 1) - 1 = i
          /\ (i - 1) + 1 = i
      BY <1>1, <2>1
    <3>2. c[i] = q[i + 1] /\ c[i - 1] = q[i] /\ q[i + 1] # q[k + 1]
      BY <1>2, <1>3, <3>1
    <3>3. After(q, k) = q[k + 1] /\ Before(q, i + 1) = q[i] /\ Before(c, i) = c[i - 1]
      BY <3>1 DEF Before, After
    <3> QED BY <1>1, <3>1, <3>2, <3>3
  <2>2. CASE i = k
    <3>1. i + 1 \in 1..Len(q) /\ k # Len(q) /\ i + 1 # k /\ ~(i < k)
      BY <1>1, <2>2
    <3>2. c[i] = q[i + 1] /\ After(q, k) = q[i + 1]
      BY <1>2, <2>2, <3>1 DEF After
    <3>3. prev[c[i]] = Before(q, k)
      BY <1>1, <3>1, <3>2
    <3>4. CASE k = 1
      BY <2>2, <3>3, <3>4 DEF Before
    <3>5. CASE k # 1
      <4>1. k - 1 \in 1..(Len(q) - 1) /\ k - 1 < k
        BY <1>1, <2>2, <3>5
      <4>2. c[k - 1] = q[k - 1]
        BY <1>2, <4>1
      <4> QED BY <2>2, <3>3, <3>5, <4>2 DEF Before
    <3> QED BY <3>4, <3>5
  <2>3. CASE i < k
    <3>1. i \in 1..Len(q) /\ i # k /\ k + 1 # i
      BY <1>1, <2>3
    <3>2. c[i] = q[i]
      BY <1>2, <2>3
    <3>3. q[i] # After(q, k)
      <4>1. CASE k = Len(q)
        BY <1>a, <3>1, <4>1 DEF After
      <4>2. CASE k # Len(q)
        <5>1. k + 1 \in 1..Len(q)
          BY <1>1, <4>2
        <5> QED BY <1>3, <3>1, <4>2, <5>1 DEF After
      <4> QED BY <4>1, <4>2
    <3>4. prev[c[i]] = Before(q, i)
      BY <1>1, <3>1, <3>2, <3>3
    <3>5. CASE i = 1
      BY <3>4, <3>5 DEF Before
    <3>6. CASE i # 1
      <4>1. i - 1 \in 1..(Len(q) - 1) /\ i - 1 < k
        BY <1>1, <2>3, <3>6
      <4>2. c[i - 1] = q[i - 1]
        BY <1>2, <4>1
      <4> QED BY <3>4, <3>6, <4>2 DEF Before
    <3> QED BY <3>5, <3>6
  <2>4. i \in Int /\ k \in Int
    BY <1>1
  <2> QED BY <2>1, <2>2, <2>3, <2>4
<1>6. HeadOf(c) = IF k = 1 THEN After(q, k) ELSE HeadOf(q)
  <2>1. HeadOf(c) = IF Len(q) - 1 = 0 THEN NULL ELSE c[1]
    BY <1>1, HeadIs
  <2>2. HeadOf(q) = q[1]
    <3>1. Len(q) # 0
      BY <1>1
    <3> QED BY <3>1, HeadIs
  <2>3. CASE Len(q) = 1
    BY <1>1, <2>1, <2>3 DEF After
  <2>4. CASE Len(q) # 1
    <3>1. 1 \in 1..(Len(q) - 1) /\ Len(q) - 1 # 0
      BY <1>1, <2>4
    <3>2. c[1] = IF 1 < k THEN q[1] ELSE q[1 + 1]
      BY <1>2, <3>1
    <3> QED BY <1>1, <2>1, <2>2, <2>4, <3>1, <3>2 DEF After
  <2> QED BY <2>3, <2>4
<1>7. EndOf(c) = IF k = Len(q) THEN Before(q, k) ELSE EndOf(q)
  <2>1. EndOf(c) = IF Len(q) - 1 = 0 THEN NULL ELSE c[Len(q) - 1]
    BY <1>1, HeadIs
  <2>2. EndOf(q) = q[Len(q)]
    <3>1. Len(q) # 0
      BY <1>1
    <3> QED BY <3>1, HeadIs
  <2>3. CASE Len(q) = 1
    BY <1>1, <2>1, <2>3 DEF Before
  <2>4. CASE Len(q) # 1
    <3>1. Len(q) - 1 \in 1..(Len(q) - 1) /\ Len(q) - 1 # 0 /\ (Len(q) - 1) + 1 = Len(q)
          /\ (k = Len(q) <=> Len(q) - 1 < k)
      BY <1>1, <2>4
    <3>2. c[Len(q) - 1] = IF Len(q) - 1 < k THEN q[Len(q) - 1] ELSE q[(Len(q) - 1) + 1]
      BY <1>2, <3>1
    <3> QED BY <1>1, <2>1, <2>2, <2>4, <3>1, <3>2 DEF Before
  <2> QED BY <2>3, <2>4
<1> QED BY <1>1, <1>4, <1>5, <1>6, <1>7 DEF c

LEMMA InsertLinks ==
  ASSUME NEW q \in Seq(Win), Distinct(q), NEW k \in 1..(Len(q) + 1), NEW w \in Win, w \notin ToSet(q),
         NEW before, before = (IF k = 1 THEN NULL ELSE q[k - 1]),
         NEW after, after = (IF k = Len(q) + 1 THEN NULL ELSE q[k]),
         NEW next, NEW prev, next[w] = after, prev[w] = before,
         \A i \in DOMAIN q : /\ next[q[i]] = IF q[i] = before THEN w ELSE After(q, i)
                             /\ prev[q[i]] = IF q[i] = after THEN w ELSE Before(q, i)
  PROVE  /\ \A i \in DOMAIN Insert(q, k, w) :
               /\ next[Insert(q, k, w)[i]] = After(Insert(q, k, w), i)
               /\ prev[Insert(q, k, w)[i]] = Before(Insert(q, k, w), i)
         /\ HeadOf(Insert(q, k, w)) = IF k = 1 THEN w ELSE HeadOf(q)
         /\ EndOf(Insert(q, k, w)) = IF k = Len(q) + 1 THEN w ELSE EndOf(q)
<1> DEFINE c == Insert(q, k, w)
<1>1. /\ Len(q) \in Nat /\ DOMAIN q = 1..Len(q) /\ c \in Seq(Win)
      /\ Len(c) = Len(q) + 1 /\ DOMAIN c = 1..(Len(q) + 1)
  BY InsertIs, ListFacts
<1>2. \A i \in 1..(Len(q) + 1) : c[i] = IF i < k THEN q[i] ELSE IF i = k THEN w ELSE q[i - 1]
  BY InsertIs
<1>3. \A i, j \in 1..Len(q) : q[i] = q[j] => i = j
  BY <1>1 DEF Distinct
<1>a. \A i \in 1..Len(q) : q[i] # NULL
  BY ListFacts
<1>b. Len(q) \in Int /\ k \in Int /\ k >= 1 /\ k <= Len(q) + 1
  BY <1>1
<1> HIDE DEF c
<1>4. ASSUME NEW i \in 1..(Len(q) + 1) PROVE next[c[i]] = After(c, i)
  <2>0. i \in Int /\ i >= 1 /\ i <= Len(q) + 1
    BY <1>b
  <2>1. CASE i < k - 1
    <3>1. i \in 1..Len(q) /\ i + 1 \in 1..(Len(q) + 1) /\ k - 1 \in 1..Len(q) /\ k # 1 /\ k - 1 # i
          /\ i # Len(q) /\ i + 1 < k /\ i < k /\ i # Len(q) + 1
      BY <1>b, <2>0, <2>1
    <3>2. c[i] = q[i] /\ c[i + 1] = q[i + 1] /\ q[i] # q[k - 1]
      BY <1>2, <1>3, <3>1
    <3>3. After(q, i) = q[i + 1] /\ After(c, i) = c[i + 1]
      BY <1>1, <3>1 DEF After
    <3> QED BY <1>1, <3>1, <3>2, <3>3
  <2>2. CASE i = k - 1
    <3>1. i \in 1..Len(q) /\ k # 1 /\ i < k /\ i + 1 = k /\ k \in 1..(Len(q) + 1) /\ ~(k < k) /\ i # Len(q) + 1
      BY <1>b, <2>0, <2>2
    <3>2. c[i] = q[i] /\ before = q[i] /\ c[i + 1] = w
      BY <1>2, <2>2, <3>1
    <3> QED BY <1>1, <3>1, <3>2 DEF After
  <2>3. CASE i = k
    <3>1. ~(k < k) /\ c[i] = w
      BY <1>2, <1>b, <2>3
    <3>2. CASE k = Len(q) + 1
      BY <1>1, <2>3, <3>1, <3>2 DEF After
    <3>3. CASE k # Len(q) + 1
      <4>1. i + 1 \in 1..(Len(q) + 1) /\ ~(i + 1 < k) /\ i + 1 # k /\ (i + 1) - 1 = k
        BY <1>b, <2>3, <3>3
      <4>2. c[i + 1] = q[k]
        BY <1>2, <4>1
      <4> QED BY <1>1, <2>3, <3>1, <3>3, <4>2 DEF After
    <3> QED BY <3>2, <3>3
  <2>4. CASE i > k
    <3> DEFINE j == i - 1
    <3>1. j \in 1..Len(q) /\ ~(i < k) /\ i # k /\ j # k - 1 /\ j >= k /\ j \in Int
      BY <1>b, <2>0, <2>4
    <3>2. c[i] = q[j]
      BY <1>2, <3>1
    <3> HIDE DEF j
    <3>3. q[j] # before
      <4>1. CASE k = 1
        BY <1>a, <3>1, <4>1
      <4>2. CASE k # 1
        <5>1. k - 1 \in 1..Len(q)
          BY <1>b, <4>2
        <5> QED BY <1>3, <3>1, <4>2, <5>1
      <4> QED BY <4>1, <4>2
    <3>4. next[c[i]] = After(q, j)
      BY <1>1, <3>1, <3>2, <3>3
    <3>5. CASE i = Len(q) + 1
      <4>1. j = Len(q)
        BY <1>b, <3>5 DEF j
      <4> QED BY <1>1, <3>4, <3>5, <4>1 DEF After
    <3>6. CASE i # Len(q) + 1
      <4>1. i + 1 \in 1..(Len(q) + 1) /\ ~(i + 1 < k) /\ i + 1 # k /\ (i + 1) - 1 = j + 1 /\ j # Len(q)
        BY <1>b, <2>0, <2>4, <3>6 DEF j
      <4>2. c[i + 1] = q[j + 1]
        BY <1>2, <4>1
      <4> QED BY <1>1, <3>4, <3>6, <4>1, <4>2 DEF After
    <3> QED BY <3>5, <3>6
  <2> QED BY <1>b, <2>0, <2>1, <2>2, <2>3, <2>4
<1>5. ASSUME NEW i \in 1..(Len(q) + 1) PROVE prev[c[i]] = Before(c, i)
  <2>0. i \in Int /\ i >= 1 /\ i <= Len(q) + 1
    BY <1>b
  <2>1. CASE i > k + 1
    <3> DEFINE j == i - 1
    <3>1. j \in 1..Len(q) /\ ~(i < k) /\ i # k /\ j # k /\ j >= k /\ j \in Int /\ i # 1 /\ j # 1
          /\ j \in 1..(Len(q) + 1) /\ ~(j < k) /\ k \in 1..Len(q) /\ k # Len(q) + 1
      BY <1>b, <2>0, <2>1
    <3>2. c[i] = q[j] /\ c[j] = q[j - 1]
      BY <1>2, <3>1
    <3>3. q[j] # after
      BY <1>3, <3>1
    <3>4. prev[c[i]] = Before(q, j)
      <4> HIDE DEF j
      <4> QED BY <1>1, <3>1, <3>2, <3>3
    <3> QED BY <3>1, <3>2, <3>4 DEF Before
  <2>2. CASE i = k + 1
    <3>1. k \in 1..Len(q) /\ ~(i < k) /\ i # k /\ i - 1 = k /\ i # 1 /\ k # Len(q) + 1 /\ ~(k < k)
      BY <1>b, <2>0, <2>2
    <3>2. c[i] = q[k] /\ c[k] = w /\ after = q[k]
      BY <1>2, <3>1
    <3>3. prev[c[i]] = w
      BY <1>1, <3>1, <3>2
    <3> QED BY <3>1, <3>2, <3>3 DEF Before
  <2>3. CASE i = k
    <3>1. ~(k < k) /\ c[i] = w
      BY <1>2, <1>b, <2>3
    <3>2. CASE k = 1
      BY <2>3, <3>1, <3>2 DEF Before
    <3>3. CASE k # 1
      <4>1. k - 1 \in 1..(Len(q) + 1) /\ k - 1 < k
        BY <1>b, <3>3
      <4>2. c[k - 1] = q[k - 1]
        BY <1>2, <4>1
      <4> QED BY <2>3, <3>1, <3>3, <4>2 DEF Before
    <3> QED BY <3>2, <3>3
  <2>4. CASE i < k
    <3>1. i \in 1..Len(q) /\ i # k
      BY <1>b, <2>0, <2>4
    <3>2. c[i] = q[i]
      BY <1>2, <2>4
    <3>3. q[i] # after
      <4>1. CASE k = Len(q) + 1
        BY <1>a, <3>1, <4>1
      <4>2. CASE k # Len(q) + 1
        <5>1. k \in 1..Len(q)
          BY <1>b, <4>2
        <5> QED BY <1>3, <3>1, <4>2, <5>1
      <4> QED BY <4>1, <4>2
    <3>4. prev[c[i]] = Before(q, i)
      BY <1>1, <3>1, <3>2, <3>3
    <3>5. CASE i = 1
      BY <3>4, <3>5 DEF Before
    <3>6. CASE i # 1
      <4>1. i - 1 \in 1..(Len(q) + 1) /\ i - 1 < k
        BY <1>b, <2>0, <2>4, <3>6
      <4>2. c[i - 1] = q[i - 1]
        BY <1>2, <4>1
      <4> QED BY <3>4, <3>6, <4>2 DEF Before
    <3> QED BY <3>5, <3>6
  <2> QED BY <1>b, <2>0, <2>1, <2>2, <2>3, <2>4
<1>6. HeadOf(c) = IF k = 1 THEN w ELSE HeadOf(q)
  <2>1. HeadOf(c) = c[1]
    <3>1. Len(c) # 0
      BY <1>1
    <3> QED BY <1>1, <3>1, HeadIs
  <2>2. 1 \in 1..(Len(q) + 1)
    BY <1>b
  <2>3. CASE k = 1
    BY <1>2, <2>1, <2>2, <2>3
  <2>4. CASE k # 1
    <3>1. 1 < k /\ Len(q) # 0
      BY <1>b, <2>4
    <3>2. HeadOf(q) = q[1]
      BY <3>1, HeadIs
    <3> QED BY <1>2, <2>1, <2>2, <2>4, <3>1, <3>2
  <2> QED BY <2>3, <2>4
<1>7. EndOf(c) = IF k = Len(q) + 1 THEN w ELSE EndOf(q)
  <2>1. EndOf(c) = c[Len(q) + 1]
    <3>1. Len(c) # 0
      BY <1>1
    <3> QED BY <1>1, <3>1, HeadIs
  <2>2. Len(q) + 1 \in 1..(Len(q) + 1) /\ (Len(q) + 1) - 1 = Len(q)
    BY <1>b
  <2>3. CASE k = Len(q) + 1
    <3>1. ~(k < k)
      BY <1>b
    <3> QED BY <1>2, <2>1, <2>2, <2>3, <3>1
  <2>4. CASE k # Len(q) + 1
    <3>1. ~(Len(q) + 1 < k) /\ Len(q) # 0
      BY <1>b, <2>4
    <3>2. EndOf(q) = q[Len(q)]
      BY <3>1, HeadIs
    <3> QED BY <1>2, <2>1, <2>2, <2>4, <3>1, <3>2
  <2> QED BY <2>3, <2>4
<1> QED BY <1>1, <1>4, <1>5, <1>6, <1>7 DEF c

LEMMA UnlinkNumberIs ==
  ASSUME NEW t \in Tabs, NEW q, Numbered(t, q), NEW k \in DOMAIN q
  PROVE  LET r == UnlinkNumber(t, q[k])
         IN /\ r \in Tabs /\ Numbered(r, Cut(q, k))
            /\ r.mru = t.mru /\ r.prevmru = t.prevmru /\ r.number = t.number
<1> DEFINE r == UnlinkNumber(t, q[k])
           w == q[k]
<1>1. /\ q \in Seq(Win) /\ Distinct(q) /\ w \in Win /\ k \in 1..Len(q) /\ DOMAIN q = 1..Len(q)
      /\ t.first = HeadOf(q) /\ t.last = EndOf(q)
      /\ t.next[w] = After(q, k) /\ t.prev[w] = Before(q, k)
      /\ \A i \in DOMAIN q : q[i] \in Win /\ t.next[q[i]] = After(q, i) /\ t.prev[q[i]] = Before(q, i)
  BY ListFacts DEF Numbered
<1>2. /\ After(q, k) \in Win \cup {NULL} /\ Before(q, k) \in Win \cup {NULL}
      /\ After(q, k) = NULL <=> k = Len(q)
      /\ Before(q, k) = NULL <=> k = 1
  BY <1>1, ListFacts
<1>a. r = UnlinkNumber(t, w)
  OBVIOUS
<1> HIDE DEF w, r
<1> DEFINE nx == [v \in Win |-> IF v = t.prev[w] THEN t.next[w] ELSE t.next[v]]
           pv == [v \in Win |-> IF v = t.next[w] THEN t.prev[w] ELSE t.prev[v]]
<1>b. /\ t.first \in Win \cup {NULL} /\ t.last \in Win \cup {NULL}
      /\ t.next \in [Win -> Win \cup {NULL}] /\ t.prev \in [Win -> Win \cup {NULL}]
  BY DEF Tabs
<1>c. nx \in [Win -> Win \cup {NULL}] /\ pv \in [Win -> Win \cup {NULL}]
  BY <1>1, <1>b
<1> HIDE DEF nx, pv
<1>d. /\ r.first = IF t.prev[w] = NULL THEN t.next[w] ELSE t.first
      /\ r.last = IF t.next[w] = NULL THEN t.prev[w] ELSE t.last
      /\ r.next = nx /\ r.prev = pv
      /\ r.mru = t.mru /\ r.prevmru = t.prevmru /\ r.number = t.number
      /\ r \in Tabs
  <2> DEFINE a == IF t.prev[w] = NULL THEN t.next[w] ELSE t.first
             b == IF t.next[w] = NULL THEN t.prev[w] ELSE t.last
  <2>1. r = [first |-> a, last |-> b, mru |-> t.mru, next |-> nx, prev |-> pv, prevmru |-> t.prevmru, number |-> t.number]
    BY <1>a, Zenon DEF UnlinkNumber, nx, pv, Tabs
  <2>2. a \in Win \cup {NULL} /\ b \in Win \cup {NULL}
    BY <1>1, <1>b
  <2> HIDE DEF a, b
  <2>4. t.mru \in Win \cup {NULL} /\ t.prevmru \in [Win -> Win \cup {NULL}] /\ t.number \in [Win -> Int]
    BY DEF Tabs
  <2>3. /\ r \in Tabs /\ r.first = a /\ r.last = b /\ r.next = nx /\ r.prev = pv
        /\ r.mru = t.mru /\ r.prevmru = t.prevmru /\ r.number = t.number
    BY <1>c, <2>1, <2>2, <2>4 DEF Tabs
  <2> QED BY <2>3 DEF a, b
<1>3. /\ r.first = IF k = 1 THEN After(q, k) ELSE HeadOf(q)
      /\ r.last = IF k = Len(q) THEN Before(q, k) ELSE EndOf(q)
      /\ nx = [v \in Win |-> IF v = Before(q, k) THEN After(q, k) ELSE t.next[v]]
      /\ pv = [v \in Win |-> IF v = After(q, k) THEN Before(q, k) ELSE t.prev[v]]
  BY <1>1, <1>2, <1>d DEF nx, pv
<1>4. \A i \in DOMAIN q :
            i # k => /\ nx[q[i]] = IF q[i] = Before(q, k) THEN After(q, k) ELSE After(q, i)
                     /\ pv[q[i]] = IF q[i] = After(q, k) THEN Before(q, k) ELSE Before(q, i)
  BY <1>1, <1>3
<1>5. /\ \A i \in DOMAIN Cut(q, k) : /\ nx[Cut(q, k)[i]] = After(Cut(q, k), i)
                                     /\ pv[Cut(q, k)[i]] = Before(Cut(q, k), i)
      /\ HeadOf(Cut(q, k)) = IF k = 1 THEN After(q, k) ELSE HeadOf(q)
      /\ EndOf(Cut(q, k)) = IF k = Len(q) THEN Before(q, k) ELSE EndOf(q)
  <2>1. q \in Seq(Win) /\ Distinct(q) /\ k \in DOMAIN q
    BY <1>1
  <2> QED BY <2>1, <1>4, CutLinks
<1>6. Cut(q, k) \in Seq(Win) /\ Distinct(Cut(q, k))
  BY <1>1, CutIs
<1>7. Numbered(r, Cut(q, k))
  BY <1>d, <1>3, <1>5, <1>6 DEF Numbered
<1> QED BY <1>d, <1>7 DEF r

\* A function that gives each element of a list something by its place.
LEMMA ByPlace ==
  ASSUME NEW u \in Seq(Win), Distinct(u), NEW F
  PROVE  \E p : \A i \in DOMAIN u : p[u[i]] = F[i]
<1> DEFINE At(v) == CHOOSE i \in DOMAIN u : u[i] = v
           p == [v \in Win |-> F[At(v)]]
<1>1. ASSUME NEW i \in DOMAIN u PROVE p[u[i]] = F[i]
  <2>1. At(u[i]) \in DOMAIN u /\ u[At(u[i])] = u[i]
    OBVIOUS
  <2>2. At(u[i]) = i
    BY <2>1 DEF Distinct
  <2>3. u[i] \in Win
    OBVIOUS
  <2> QED BY <2>2, <2>3
<1> QED BY <1>1

\* The links lead past the place k.
Skips(link, u, k) ==
  \A i \in DOMAIN u : i # k => link[u[i]] = IF u[i] = Before(u, k) THEN After(u, k) ELSE After(u, i)

\* The links read u without the place k.
Reads(link, u, k) ==
  /\ \A i \in DOMAIN Cut(u, k) : link[Cut(u, k)[i]] = After(Cut(u, k), i)
  /\ HeadOf(Cut(u, k)) = IF k = 1 THEN After(u, k) ELSE HeadOf(u)

LEMMA CutChain ==
  ASSUME NEW u \in Seq(Win), Distinct(u), NEW k \in DOMAIN u, NEW link,
         Skips(link, u, k)
  PROVE  Reads(link, u, k)
<1> DEFINE F == [i \in DOMAIN u |-> IF u[i] = After(u, k) THEN Before(u, k) ELSE Before(u, i)]
<1>1. PICK p : \A i \in DOMAIN u : p[u[i]] = F[i]
  <2> HIDE DEF F
  <2> QED BY ByPlace
<1>2. \A i \in DOMAIN u :
         i # k => /\ link[u[i]] = IF u[i] = Before(u, k) THEN After(u, k) ELSE After(u, i)
                  /\ p[u[i]] = IF u[i] = After(u, k) THEN Before(u, k) ELSE Before(u, i)
  BY <1>1 DEF Skips
<1> QED BY <1>2, CutLinks DEF Reads

LEMMA InsertChain ==
  ASSUME NEW u \in Seq(Win), Distinct(u), NEW w \in Win, w \notin ToSet(u), NEW link,
         link[w] = HeadOf(u), \A i \in DOMAIN u : link[u[i]] = After(u, i)
  PROVE  /\ \A i \in DOMAIN Insert(u, 1, w) : link[Insert(u, 1, w)[i]] = After(Insert(u, 1, w), i)
         /\ HeadOf(Insert(u, 1, w)) = w
<1> DEFINE after == IF 1 = Len(u) + 1 THEN NULL ELSE u[1]
           p == [v \in Win |-> IF v = w THEN NULL ELSE
                    LET i == CHOOSE i \in DOMAIN u : u[i] = v IN IF v = after THEN w ELSE Before(u, i)]
<1>0. 1 \in 1..(Len(u) + 1) /\ after = HeadOf(u) /\ \A i \in DOMAIN u : u[i] # w /\ u[i] # NULL
  <2>1. Len(u) \in Nat /\ (Len(u) = 0 <=> 1 = Len(u) + 1)
    BY ListFacts
  <2> QED BY <2>1, HeadIs, ListFacts DEF ToSet
<1> HIDE DEF after
<1>1. p[w] = NULL
  OBVIOUS
<1>2. ASSUME NEW i \in DOMAIN u PROVE p[u[i]] = IF u[i] = after THEN w ELSE Before(u, i)
  <2>1. (CHOOSE j \in DOMAIN u : u[j] = u[i]) = i
    BY DEF Distinct
  <2>2. u[i] \in Win /\ u[i] # w
    BY <1>0
  <2> QED BY <2>1, <2>2
<1>3. \A i \in DOMAIN u : /\ link[u[i]] = IF u[i] = NULL THEN w ELSE After(u, i)
                          /\ p[u[i]] = IF u[i] = after THEN w ELSE Before(u, i)
  BY <1>0, <1>2
<1> HIDE DEF p
<1> QED BY <1>0, <1>1, <1>3, InsertLinks DEF after
-----------------------------------------------------------------------------
(* The order of use                                                        *)

Ahead(q, v, w) == \E i, j \in DOMAIN q : i < j /\ q[i] = v /\ q[j] = w

\* The windows of P have come ahead of the others, whose order stays.
Raised(u, v, P) ==
  /\ P \subseteq ToSet(v)
  /\ \A w \in ToSet(v) \ P : /\ \A x \in P : Ahead(v, x, w)
                             /\ \A x \in ToSet(v) \ P : Ahead(v, x, w) <=> Ahead(u, x, w)

LEMMA RaisedNone == ASSUME NEW u PROVE Raised(u, u, {})
  BY DEF Raised

\* What comes ahead twice.
LEMMA RaisedTwice ==
  ASSUME NEW u, NEW v, NEW x, NEW P, NEW Q, Raised(u, v, P), Raised(v, x, Q), ToSet(x) = ToSet(v)
  PROVE  Raised(u, x, P \cup Q)
<1>1. P \cup Q \subseteq ToSet(x)
  BY DEF Raised
<1>2. ASSUME NEW w \in ToSet(x) \ (P \cup Q)
      PROVE  /\ \A y \in P \cup Q : Ahead(x, y, w)
             /\ \A y \in ToSet(x) \ (P \cup Q) : Ahead(x, y, w) <=> Ahead(u, y, w)
  <2>1. w \in ToSet(x) \ Q /\ w \in ToSet(v) \ P
    OBVIOUS
  <2>2. \A y \in Q : Ahead(x, y, w)
    BY <2>1 DEF Raised
  <2>3. \A y \in ToSet(x) \ Q : Ahead(x, y, w) <=> Ahead(v, y, w)
    BY <2>1 DEF Raised
  <2>4. \A y \in P : Ahead(v, y, w) /\ y \in ToSet(v)
    BY <2>1 DEF Raised
  <2>5. \A y \in ToSet(v) \ P : Ahead(v, y, w) <=> Ahead(u, y, w)
    BY <2>1 DEF Raised
  <2> QED BY <2>2, <2>3, <2>4, <2>5
<1> QED BY <1>1, <1>2 DEF Raised

LEMMA CutOrder ==
  ASSUME NEW q \in Seq(Win), Distinct(q), NEW k \in DOMAIN q, NEW r, r = Cut(q, k),
         NEW v \in ToSet(r), NEW w \in ToSet(r)
  PROVE  Ahead(r, v, w) <=> Ahead(q, v, w)
<1>1. Len(q) \in Nat /\ DOMAIN q = 1..Len(q) /\ k \in 1..Len(q)
  OBVIOUS
<1>2. /\ DOMAIN r = 1..(Len(q) - 1) /\ ToSet(r) = ToSet(q) \ {q[k]}
      /\ \A i \in 1..(Len(q) - 1) : r[i] = IF i < k THEN q[i] ELSE q[i + 1]
  BY CutIs
<1>3. ASSUME NEW i \in 1..(Len(q) - 1), NEW j \in 1..(Len(q) - 1), i < j, r[i] = v, r[j] = w
      PROVE  Ahead(q, v, w)
  <2> DEFINE a == IF i < k THEN i ELSE i + 1
             b == IF j < k THEN j ELSE j + 1
  <2>1. a \in 1..Len(q) /\ b \in 1..Len(q) /\ a < b
    BY <1>1, <1>3
  <2>2. q[a] = v /\ q[b] = w
    BY <1>2, <1>3
  <2> QED BY <1>1, <2>1, <2>2 DEF Ahead
<1>4. ASSUME NEW i \in 1..Len(q), NEW j \in 1..Len(q), i < j, q[i] = v, q[j] = w
      PROVE  Ahead(r, v, w)
  <2> DEFINE a == IF i < k THEN i ELSE i - 1
             b == IF j < k THEN j ELSE j - 1
  <2>1. i # k /\ j # k
    BY <1>2, <1>4
  <2>2. a \in 1..(Len(q) - 1) /\ b \in 1..(Len(q) - 1) /\ a < b
    BY <1>1, <1>4, <2>1
  <2>3. (a < k <=> i < k) /\ (b < k <=> j < k) /\ (~(i < k) => a + 1 = i) /\ (~(j < k) => b + 1 = j)
    BY <1>1, <2>1
  <2>4. r[a] = v /\ r[b] = w
    BY <1>2, <1>4, <2>2, <2>3
  <2> QED BY <1>2, <2>2, <2>4 DEF Ahead
<1> QED BY <1>1, <1>2, <1>3, <1>4 DEF Ahead

LEMMA InsertOrder ==
  ASSUME NEW q \in Seq(Win), Distinct(q), NEW w \in Win, w \notin ToSet(q), NEW r, r = Insert(q, 1, w)
  PROVE  /\ ToSet(r) = ToSet(q) \cup {w}
         /\ \A x \in ToSet(q) : Ahead(r, w, x)
         /\ \A v, x \in ToSet(q) : Ahead(r, v, x) <=> Ahead(q, v, x)
<1>1. Len(q) \in Nat /\ DOMAIN q = 1..Len(q) /\ 1 \in 1..(Len(q) + 1)
  OBVIOUS
<1>2. /\ DOMAIN r = 1..(Len(q) + 1) /\ ToSet(r) = ToSet(q) \cup {w}
      /\ \A i \in 1..(Len(q) + 1) : r[i] = IF i < 1 THEN q[i] ELSE IF i = 1 THEN w ELSE q[i - 1]
  BY <1>1, InsertIs
<1>3. r[1] = w
  BY <1>1, <1>2
<1>4. ASSUME NEW i \in 1..Len(q) PROVE i + 1 \in 1..(Len(q) + 1) /\ r[i + 1] = q[i]
  <2>1. i + 1 \in 1..(Len(q) + 1) /\ ~(i + 1 < 1) /\ i + 1 # 1 /\ (i + 1) - 1 = i
    BY <1>1
  <2> QED BY <1>2, <2>1
<1>5. ASSUME NEW x \in ToSet(q) PROVE Ahead(r, w, x)
  <2>1. PICK i \in 1..Len(q) : q[i] = x
    BY <1>1 DEF ToSet
  <2>2. i + 1 \in 1..(Len(q) + 1) /\ r[i + 1] = x /\ 1 < i + 1
    BY <1>1, <1>4, <2>1
  <2> QED BY <1>1, <1>2, <1>3, <2>2 DEF Ahead
<1>6. ASSUME NEW v \in ToSet(q), NEW x \in ToSet(q) PROVE Ahead(r, v, x) <=> Ahead(q, v, x)
  <2>1. ASSUME NEW i \in 1..Len(q), NEW j \in 1..Len(q), i < j, q[i] = v, q[j] = x PROVE Ahead(r, v, x)
    <3>1. r[i + 1] = v /\ r[j + 1] = x /\ i + 1 \in DOMAIN r /\ j + 1 \in DOMAIN r
      BY <1>2, <1>4, <2>1
    <3>2. i + 1 < j + 1
      BY <1>1, <2>1
    <3> QED BY <3>1, <3>2 DEF Ahead
  <2>2. ASSUME NEW i \in 1..(Len(q) + 1), NEW j \in 1..(Len(q) + 1), i < j, r[i] = v, r[j] = x
        PROVE  Ahead(q, v, x)
    <3>1. i # 1 /\ j # 1
      BY <1>3, <2>2
    <3>2. i - 1 \in 1..Len(q) /\ j - 1 \in 1..Len(q) /\ i - 1 < j - 1 /\ ~(i < 1) /\ ~(j < 1)
      BY <1>1, <2>2, <3>1
    <3>3. q[i - 1] = v /\ q[j - 1] = x
      BY <1>2, <2>2, <3>1, <3>2
    <3> QED BY <1>1, <3>2, <3>3 DEF Ahead
  <2> QED BY <1>1, <1>2, <2>1, <2>2 DEF Ahead
<1> QED BY <1>2, <1>5, <1>6

\* A window that is taken out and one that is put first.
LEMMA CutRaised ==
  ASSUME NEW u, NEW P, NEW q \in Seq(Win), Distinct(q), Raised(u, q, P), NEW k \in DOMAIN q, q[k] \notin P,
         NEW r, r = Cut(q, k)
  PROVE  Raised(u, r, P)
<1>1. ToSet(r) = ToSet(q) \ {q[k]}
  BY CutIs
<1>2. \A v, w \in ToSet(r) : Ahead(r, v, w) <=> Ahead(q, v, w)
  BY CutOrder
<1>3. P \subseteq ToSet(r)
  BY <1>1 DEF Raised
<1>4. ASSUME NEW w \in ToSet(r) \ P
      PROVE  /\ \A x \in P : Ahead(r, x, w)
             /\ \A x \in ToSet(r) \ P : Ahead(r, x, w) <=> Ahead(u, x, w)
  <2>1. w \in ToSet(q) \ P
    BY <1>1
  <2>2. \A x \in P : Ahead(q, x, w)
    BY <2>1 DEF Raised
  <2>3. \A x \in ToSet(q) \ P : Ahead(q, x, w) <=> Ahead(u, x, w)
    BY <2>1 DEF Raised
  <2> QED BY <1>1, <1>2, <1>3, <2>2, <2>3
<1> QED BY <1>3, <1>4 DEF Raised

LEMMA InsertRaised ==
  ASSUME NEW u, NEW P, NEW q \in Seq(Win), Distinct(q), Raised(u, q, P), NEW w \in Win, w \notin ToSet(q),
         NEW r, r = Insert(q, 1, w)
  PROVE  Raised(u, r, P \cup {w})
<1>1. /\ ToSet(r) = ToSet(q) \cup {w}
      /\ \A x \in ToSet(q) : Ahead(r, w, x)
      /\ \A v, x \in ToSet(q) : Ahead(r, v, x) <=> Ahead(q, v, x)
  BY InsertOrder
<1>2. P \cup {w} \subseteq ToSet(r) /\ P \subseteq ToSet(q)
  BY <1>1 DEF Raised
<1>3. ASSUME NEW x \in ToSet(r) \ (P \cup {w})
      PROVE  /\ \A y \in P \cup {w} : Ahead(r, y, x)
             /\ \A y \in ToSet(r) \ (P \cup {w}) : Ahead(r, y, x) <=> Ahead(u, y, x)
  <2>1. x \in ToSet(q) \ P
    BY <1>1
  <2>2. \A y \in P : Ahead(q, y, x)
    BY <2>1 DEF Raised
  <2>3. \A y \in ToSet(q) \ P : Ahead(q, y, x) <=> Ahead(u, y, x)
    BY <2>1 DEF Raised
  <2> QED BY <1>1, <1>2, <2>1, <2>2, <2>3
<1> QED BY <1>2, <1>3 DEF Raised

\* The first is ahead of the others.
LEMMA HeadRaised ==
  ASSUME NEW u \in Seq(Win), Distinct(u), u # <<>>
  PROVE  Raised(u, u, {u[1]})
<1>1. Len(u) \in Nat /\ DOMAIN u = 1..Len(u) /\ 1 \in 1..Len(u)
  OBVIOUS
<1>2. ASSUME NEW w \in ToSet(u), w # u[1] PROVE Ahead(u, u[1], w)
  <2>1. PICK i \in 1..Len(u) : u[i] = w
    BY <1>1 DEF ToSet
  <2>2. 1 < i
    BY <1>1, <1>2, <2>1
  <2> QED BY <1>1, <2>1, <2>2 DEF Ahead
<1>3. u[1] \in ToSet(u)
  BY <1>1 DEF ToSet
<1> QED BY <1>2, <1>3 DEF Raised


LEMMA UnlinkUseIs ==
  ASSUME NEW t \in Tabs, NEW u, Recent(t, u), NEW k \in DOMAIN u, NEW r, r = UnlinkUse(t, u[k])
  PROVE  /\ r \in Tabs /\ Recent(r, Cut(u, k))
         /\ r.first = t.first /\ r.last = t.last /\ r.next = t.next /\ r.prev = t.prev
         /\ r.number = t.number
         /\ \A v \in Win : v \notin ToSet(u) \/ v = u[k] => r.prevmru[v] = t.prevmru[v]
         /\ t.mru # u[k] => r.mru = t.mru
<1> DEFINE w == u[k]
<1>1. /\ u \in Seq(Win) /\ Distinct(u) /\ w \in Win /\ k \in 1..Len(u) /\ DOMAIN u = 1..Len(u)
      /\ t.mru = HeadOf(u) /\ HeadOf(u) = u[1] /\ 1 \in DOMAIN u
      /\ t.prevmru[w] = After(u, k)
      /\ \A i \in DOMAIN u : u[i] \in Win /\ u[i] # NULL /\ t.prevmru[u[i]] = After(u, i)
  <2>1. u \in Seq(Win) /\ Distinct(u) /\ t.mru = HeadOf(u) /\ \A i \in DOMAIN u : t.prevmru[u[i]] = After(u, i)
    BY DEF Recent
  <2>2. Len(u) \in Nat /\ DOMAIN u = 1..Len(u) /\ \A i \in 1..Len(u) : u[i] \in Win /\ u[i] # NULL
    BY <2>1, ListFacts
  <2>3. Len(u) # 0 /\ 1 \in 1..Len(u)
    BY <2>2
  <2>4. HeadOf(u) = u[1]
    BY <2>1, <2>3, HeadIs
  <2> QED BY <2>1, <2>2, <2>3, <2>4
<1>2. After(u, k) \in Win \cup {NULL} /\ \A i \in DOMAIN u : After(u, i) = IF i = Len(u) THEN NULL ELSE u[i + 1]
  BY <1>1, ListFacts DEF After
<1>3. ByUse(t) = u
  BY RecentChain
<1>4. r = UnlinkUse(t, w)
  OBVIOUS
<1>5. Cut(u, k) \in Seq(Win) /\ Distinct(Cut(u, k))
  BY <1>1, CutIs
<1>6. t.mru \in Win \cup {NULL} /\ t.prevmru \in [Win -> Win \cup {NULL}]
  BY DEF Tabs
<1> HIDE DEF w
<1>7. CASE k = 1
  <2>1. t.mru = w
    BY <1>1, <1>7 DEF w
  <2>2. r = [t EXCEPT !.mru = After(u, k)]
    BY <1>1, <1>4, <2>1 DEF UnlinkUse
  <2>3. /\ r \in Tabs /\ r.mru = After(u, k) /\ r.prevmru = t.prevmru
        /\ r.first = t.first /\ r.last = t.last /\ r.next = t.next /\ r.prev = t.prev /\ r.number = t.number
    <3> DEFINE x == After(u, k)
    <3>1. t \in Tabs /\ x \in Win \cup {NULL}
      BY <1>2
    <3>2. r = [t EXCEPT !.mru = x]
      BY <2>2
    <3> HIDE DEF x
    <3>3. /\ r \in Tabs /\ r.mru = x /\ r.prevmru = t.prevmru
          /\ r.first = t.first /\ r.last = t.last /\ r.next = t.next /\ r.prev = t.prev /\ r.number = t.number
      BY ONLY <3>1, <3>2 DEF Tabs
    <3> QED BY <3>3 DEF x
  <2>4. Before(u, k) = NULL
    BY <1>7 DEF Before
  <2>5. \A i \in DOMAIN u :
           i # k => t.prevmru[u[i]] = IF u[i] = Before(u, k) THEN After(u, k) ELSE After(u, i)
    BY <1>1, <2>4
  <2>6. /\ \A i \in DOMAIN Cut(u, k) : t.prevmru[Cut(u, k)[i]] = After(Cut(u, k), i)
        /\ HeadOf(Cut(u, k)) = After(u, k)
    <3>1. u \in Seq(Win) /\ Distinct(u) /\ k \in DOMAIN u
      BY <1>1
    <3>2. Skips(t.prevmru, u, k)
      BY <2>5 DEF Skips
    <3>3. Reads(t.prevmru, u, k)
      BY ONLY <3>1, <3>2, CutChain
    <3> QED BY <1>7, <3>3 DEF Reads
  <2>7. Recent(r, Cut(u, k))
    BY <1>5, <2>3, <2>6 DEF Recent
  <2> QED BY <2>1, <2>3, <2>7 DEF w
<1>8. CASE k # 1
  <2> DEFINE x == u[k - 1]
             p == [t.prevmru EXCEPT ![x] = After(u, k)]
             found == {i \in DOMAIN u : t.prevmru[u[i]] = w}
  <2>1. k - 1 \in 1..Len(u) /\ k - 1 # Len(u) /\ (k - 1) + 1 = k /\ k - 1 \in Nat
    BY <1>1, <1>8
  <2>2. t.mru # w
    BY <1>1, <1>8 DEF Distinct, w
  <2>3. found = {k - 1}
    <3>1. k - 1 \in found
      BY <1>1, <1>2, <2>1 DEF w
    <3>2. ASSUME NEW i \in found PROVE i = k - 1
      <4>1. i \in 1..Len(u) /\ After(u, i) = w /\ w # NULL
        BY <1>1
      <4>2. i # Len(u) /\ u[i + 1] = w
        BY <1>2, <1>1, <4>1
      <4>3. Len(u) \in Int
        BY <1>1
      <4>4. i + 1 \in DOMAIN u
        BY <1>1, <4>1, <4>2, <4>3
      <4>5. i + 1 = k
        BY <1>1, <4>2, <4>4 DEF Distinct, w
      <4> QED BY <4>1, <4>5
    <3> QED BY <3>1, <3>2
  <2>4. Min({k - 1}) = k - 1
    BY <2>1, MinIsLeast
  <2>5. FirstOf(ByUse(t), LAMBDA v : t.prevmru[v] = w) = x
    BY <1>3, <2>3, <2>4 DEF FirstOf
  <2>6. x \in Win /\ x # NULL /\ x = Before(u, k)
    BY <1>1, <1>8, <2>1 DEF Before
  <2>7. r = [t EXCEPT !.prevmru[x] = t.prevmru[w]]
    BY <1>4, <2>2, <2>5, <2>6 DEF UnlinkUse
  <2>8. p \in [Win -> Win \cup {NULL}] /\ \A v \in Win : p[v] = IF v = x THEN After(u, k) ELSE t.prevmru[v]
    BY <1>2, <1>6, <2>6
  <2>9. r = [t EXCEPT !.prevmru = p]
    BY <1>1, <2>7
  <2> HIDE DEF x, p, found
  <2>10. /\ r \in Tabs /\ r.mru = t.mru /\ r.prevmru = p
         /\ r.first = t.first /\ r.last = t.last /\ r.next = t.next /\ r.prev = t.prev /\ r.number = t.number
    BY <2>8, <2>9 DEF Tabs
  <2>11. \A i \in DOMAIN u :
            i # k => p[u[i]] = IF u[i] = Before(u, k) THEN After(u, k) ELSE After(u, i)
    BY <1>1, <2>6, <2>8
  <2>12. /\ \A i \in DOMAIN Cut(u, k) : p[Cut(u, k)[i]] = After(Cut(u, k), i)
         /\ HeadOf(Cut(u, k)) = HeadOf(u)
    <3>1. u \in Seq(Win) /\ Distinct(u) /\ k \in DOMAIN u
      BY <1>1
    <3>2. Skips(p, u, k)
      BY <2>11 DEF Skips
    <3>3. Reads(p, u, k)
      BY ONLY <3>1, <3>2, CutChain
    <3> QED BY <1>8, <3>3 DEF Reads
  <2>13. Recent(r, Cut(u, k))
    BY <1>1, <1>5, <2>10, <2>12 DEF Recent
  <2>14. ASSUME NEW v \in Win, v \notin ToSet(u) \/ v = u[k] PROVE r.prevmru[v] = t.prevmru[v]
    <3>1. v # x
      <4>1. x = u[k - 1] /\ k - 1 \in DOMAIN u
        BY <1>1, <2>1 DEF x
      <4>2. k - 1 # k
        BY <1>1
      <4> QED BY <1>1, <2>14, <4>1, <4>2 DEF ToSet, Distinct
    <3> QED BY <2>8, <2>10, <3>1
  <2> QED BY <2>10, <2>13, <2>14
<1> QED BY <1>7, <1>8

LEMMA ClearedIs ==
  ASSUME NEW t \in Tabs, NEW w \in Win, NEW q, NEW u, Numbered(t, q), Recent(t, u),
         w \notin ToSet(q), w \notin ToSet(u), NEW r, r = Cleared(t, w)
  PROVE  r \in Tabs /\ Numbered(r, q) /\ Recent(r, u) /\ r.number = t.number
<1> DEFINE nx == [t.next EXCEPT ![w] = NULL]
           pv == [t.prev EXCEPT ![w] = NULL]
           pm == [t.prevmru EXCEPT ![w] = NULL]
<1>1. /\ t.next \in [Win -> Win \cup {NULL}] /\ t.prev \in [Win -> Win \cup {NULL}]
      /\ t.prevmru \in [Win -> Win \cup {NULL}] /\ t.number \in [Win -> Int]
      /\ t.first \in Win \cup {NULL} /\ t.last \in Win \cup {NULL} /\ t.mru \in Win \cup {NULL}
  BY DEF Tabs
<1>2. r = [first |-> t.first, last |-> t.last, mru |-> t.mru, next |-> nx, prev |-> pv, prevmru |-> pm, number |-> t.number]
  BY Zenon DEF Cleared, Tabs
<1>3. /\ nx \in [Win -> Win \cup {NULL}] /\ pv \in [Win -> Win \cup {NULL}] /\ pm \in [Win -> Win \cup {NULL}]
      /\ \A v \in Win : v # w => nx[v] = t.next[v] /\ pv[v] = t.prev[v] /\ pm[v] = t.prevmru[v]
  BY <1>1
<1> HIDE DEF nx, pv, pm
<1>4. r \in Tabs /\ r.first = t.first /\ r.last = t.last /\ r.mru = t.mru /\ r.next = nx /\ r.prev = pv
      /\ r.prevmru = pm /\ r.number = t.number
  BY <1>1, <1>2, <1>3 DEF Tabs
<1>5. \A i \in DOMAIN q : q[i] \in Win /\ q[i] # w
  BY ListFacts DEF Numbered, ToSet
<1>6. \A i \in DOMAIN u : u[i] \in Win /\ u[i] # w
  BY ListFacts DEF Recent, ToSet
<1>7. Numbered(r, q)
  BY <1>3, <1>4, <1>5 DEF Numbered
<1>8. Recent(r, u)
  BY <1>3, <1>4, <1>6 DEF Recent
<1> QED BY <1>4, <1>7, <1>8

LEMMA CutRises ==
  ASSUME NEW t, NEW q \in Seq(Win), Distinct(q), NEW k \in DOMAIN q, Rising(t, q)
  PROVE  Rising(t, Cut(q, k))
<1> DEFINE c == Cut(q, k)
<1>1. /\ Len(q) \in Nat /\ DOMAIN q = 1..Len(q) /\ k \in 1..Len(q) /\ DOMAIN c = 1..(Len(q) - 1)
  BY CutIs, ListFacts
<1>2. \A i \in 1..(Len(q) - 1) : c[i] = IF i < k THEN q[i] ELSE q[i + 1]
  BY DEF Cut
<1> HIDE DEF c
<1>3. ASSUME NEW i \in 1..(Len(q) - 1), NEW j \in 1..(Len(q) - 1), i < j
      PROVE  t.number[c[i]] < t.number[c[j]]
  <2> DEFINE a == IF i < k THEN i ELSE i + 1
             b == IF j < k THEN j ELSE j + 1
  <2>1. a \in 1..Len(q) /\ b \in 1..Len(q) /\ a < b
    BY <1>1, <1>3
  <2>2. c[i] = q[a] /\ c[j] = q[b]
    BY <1>2
  <2> HIDE DEF a, b
  <2> QED BY <1>1, <2>1, <2>2 DEF Rising
<1> QED BY <1>1, <1>3 DEF Rising, c

\* k is the place of w by its number.
LEMMA InsertRises ==
  ASSUME NEW t \in Tabs, NEW q \in Seq(Win), Distinct(q), NEW k \in 1..(Len(q) + 1), NEW w \in Win,
         w \notin ToSet(q), Rising(t, q),
         \A i \in 1..Len(q) : i < k => t.number[q[i]] < t.number[w],
         \A i \in 1..Len(q) : i >= k => t.number[q[i]] > t.number[w]
  PROVE  Rising(t, Insert(q, k, w))
<1> DEFINE c == Insert(q, k, w)
<1>1. /\ Len(q) \in Nat /\ DOMAIN q = 1..Len(q) /\ DOMAIN c = 1..(Len(q) + 1)
  BY InsertIs, ListFacts
<1>2. \A i \in 1..(Len(q) + 1) : c[i] = IF i < k THEN q[i] ELSE IF i = k THEN w ELSE q[i - 1]
  BY InsertIs
<1>3. \A i \in 1..Len(q) : t.number[q[i]] \in Int
  BY <1>1, ListFacts DEF Tabs
<1>4. Len(q) \in Int /\ k \in Int /\ t.number[w] \in Int
  BY <1>1 DEF Tabs
<1> HIDE DEF c
<1>5. ASSUME NEW i \in 1..(Len(q) + 1), NEW j \in 1..(Len(q) + 1), i < j
      PROVE  t.number[c[i]] < t.number[c[j]]
  <2>1. CASE i < k /\ j < k
    <3>1. i \in 1..Len(q) /\ j \in 1..Len(q)
      BY <1>4, <2>1
    <3> QED BY <1>1, <1>2, <1>5, <2>1, <3>1 DEF Rising
  <2>2. CASE i < k /\ j = k
    <3>1. i \in 1..Len(q) /\ ~(j < k)
      BY <1>4, <2>2
    <3> QED BY <1>2, <2>2, <3>1
  <2>3. CASE i < k /\ j > k
    <3>1. i \in 1..Len(q) /\ j - 1 \in 1..Len(q) /\ i < j - 1 /\ ~(j < k) /\ j # k
      BY <1>4, <2>3
    <3> QED BY <1>1, <1>2, <2>3, <3>1 DEF Rising
  <2>4. CASE i = k /\ j > k
    <3>1. j - 1 \in 1..Len(q) /\ j - 1 >= k /\ ~(j < k) /\ j # k /\ ~(i < k)
      BY <1>4, <2>4
    <3>2. c[i] = w /\ c[j] = q[j - 1]
      BY <1>2, <2>4, <3>1
    <3>3. t.number[q[j - 1]] > t.number[w] /\ t.number[q[j - 1]] \in Int
      BY <1>3, <3>1
    <3> QED BY <1>4, <3>2, <3>3
  <2>5. CASE i > k /\ j > k
    <3>1. i - 1 \in 1..Len(q) /\ j - 1 \in 1..Len(q) /\ i - 1 < j - 1 /\ ~(j < k) /\ j # k /\ ~(i < k) /\ i # k
      BY <1>4, <1>5, <2>5
    <3> QED BY <1>1, <1>2, <3>1 DEF Rising
  <2>6. i \in Int /\ j \in Int
    BY <1>4
  <2> QED BY <1>4, <1>5, <2>1, <2>2, <2>3, <2>4, <2>5, <2>6
<1> QED BY <1>1, <1>5 DEF Rising, c

-----------------------------------------------------------------------------
(* The table as a whole                                                    *)

\* The windows of S, and no others, are in both lists.
Good(t, S) ==
  /\ t \in Tabs
  /\ \E q, u : Numbered(t, q) /\ Recent(t, u) /\ Rising(t, q) /\ ToSet(q) = S /\ ToSet(u) = S

\* w has left the list by use, or come to its front.
Drops(r, t, w) == \E m \in DOMAIN ByUse(t) : ByUse(t)[m] = w /\ ByUse(r) = Cut(ByUse(t), m)
Heads(r, t, w) == ByUse(r) = Insert(ByUse(t), 1, w)

\* A window that leaves both lists.
LEMMA RemoveIs ==
  ASSUME NEW t, NEW S, Good(t, S), NEW w \in S, NEW r, r = remove_window_from_list(t, w)
  PROVE  Good(r, S \ {w}) /\ r.number = t.number /\ Drops(r, t, w)
<1>1. PICK q, u : Numbered(t, q) /\ Recent(t, u) /\ Rising(t, q) /\ ToSet(q) = S /\ ToSet(u) = S
  BY DEF Good
<1>2. t \in Tabs /\ q \in Seq(Win) /\ Distinct(q) /\ u \in Seq(Win) /\ Distinct(u)
  BY <1>1 DEF Good, Numbered, Recent
<1>3. PICK k \in DOMAIN q : q[k] = w
  BY <1>1 DEF ToSet
<1>4. PICK m \in DOMAIN u : u[m] = w
  BY <1>1 DEF ToSet
<1> DEFINE t1 == UnlinkNumber(t, w)
           t2 == UnlinkUse(t1, w)
<1>5. w \in Win
  BY <1>2, <1>3
<1>6. t1 \in Tabs /\ Numbered(t1, Cut(q, k)) /\ t1.mru = t.mru /\ t1.prevmru = t.prevmru /\ t1.number = t.number
  BY <1>1, <1>2, <1>3, UnlinkNumberIs
<1>7. Recent(t1, u)
  BY <1>1, <1>6 DEF Recent
<1> HIDE DEF t1
<1>8. /\ t2 \in Tabs /\ Recent(t2, Cut(u, m)) /\ t2.number = t1.number
      /\ t2.first = t1.first /\ t2.last = t1.last /\ t2.next = t1.next /\ t2.prev = t1.prev
  BY <1>4, <1>6, <1>7, UnlinkUseIs
<1>9. Numbered(t2, Cut(q, k))
  BY <1>6, <1>8 DEF Numbered
<1>10. r = Cleared(t2, w)
  BY DEF remove_window_from_list, t1
<1> HIDE DEF t2
<1>11. ToSet(Cut(q, k)) = S \ {w} /\ ToSet(Cut(u, m)) = S \ {w}
  BY <1>1, <1>2, <1>3, <1>4, CutIs
<1>12. r \in Tabs /\ Numbered(r, Cut(q, k)) /\ Recent(r, Cut(u, m)) /\ r.number = t2.number
  BY <1>5, <1>8, <1>9, <1>10, <1>11, ClearedIs
<1>13. Rising(t, Cut(q, k))
  BY <1>1, <1>2, CutRises
<1>14. Rising(r, Cut(q, k)) /\ r.number = t.number
  BY <1>6, <1>8, <1>12, <1>13 DEF Rising
<1>15. Drops(r, t, w)
  <2>1. ByUse(t) = u /\ ByUse(r) = Cut(u, m)
    BY <1>1, <1>12, RecentChain
  <2> QED BY <1>4, <2>1 DEF Drops
<1> QED BY <1>11, <1>12, <1>14, <1>15 DEF Good

\* The window at place k, or none behind the end.
Here(q, k) == IF k = Len(q) + 1 THEN NULL ELSE q[k]
\* p belongs ahead of place k by its number.
Fits(t, q, k, p) ==
  /\ \A i \in 1..Len(q) : i < k => t.number[q[i]] < t.number[p]
  /\ \A i \in 1..Len(q) : i >= k => t.number[q[i]] > t.number[p]

\* The first place of F in q, or the place behind the end.
LEMMA FirstPlace ==
  ASSUME NEW q \in Seq(Win), NEW F \in SUBSET (DOMAIN q)
  PROVE  \E k \in 1..(Len(q) + 1) :
           /\ (IF F = {} THEN NULL ELSE q[Min(F)]) = (IF k = Len(q) + 1 THEN NULL ELSE q[k])
           /\ \A i \in F : i >= k
           /\ k # Len(q) + 1 => k \in F
<1>1. Len(q) \in Nat /\ DOMAIN q = 1..Len(q)
  BY ListFacts
<1>2. CASE F = {}
  <2>1. Len(q) + 1 \in 1..(Len(q) + 1)
    BY <1>1
  <2> QED BY <1>2, <2>1
<1>3. CASE F # {}
  <2>1. F \in SUBSET Nat
    BY <1>1
  <2>2. Min(F) \in F /\ \A i \in F : i >= Min(F)
    BY <1>3, <2>1, MinIsLeast
  <2>3. Min(F) \in 1..(Len(q) + 1) /\ Min(F) # Len(q) + 1
    BY <1>1, <2>2
  <2> QED BY <1>3, <2>2, <2>3
<1> QED BY <1>2, <1>3

\* The window p has joined those of t, which are q by number and u by use.
Added(r, t, q, u, p) ==
  Good(r, ToSet(q) \cup {p}) /\ r.number = t.number /\ r.mru = p /\ ByUse(r) = Insert(u, 1, p)

\* A window that enters both lists, ahead of the one at place k of the list by
\* number.
LEMMA AddAt ==
  ASSUME NEW t \in Tabs, NEW q, NEW u, Numbered(t, q), Recent(t, u), Rising(t, q), ToSet(q) = ToSet(u),
         NEW p \in Win, p \notin ToSet(q), NEW k \in 1..(Len(q) + 1),
         Fits(t, q, k, p), NEW win, win = Here(q, k),
         NEW r, r = add_window_to_list(t, p, win)
  PROVE  Added(r, t, q, u, p)
<1>0. win = (IF k = Len(q) + 1 THEN NULL ELSE q[k])
  BY DEF Here
<1>1. /\ q \in Seq(Win) /\ Distinct(q) /\ t.first = HeadOf(q) /\ t.last = EndOf(q)
      /\ u \in Seq(Win) /\ Distinct(u) /\ t.mru = HeadOf(u)
      /\ \A i \in DOMAIN q : t.next[q[i]] = After(q, i) /\ t.prev[q[i]] = Before(q, i)
      /\ \A i \in DOMAIN u : t.prevmru[u[i]] = After(u, i)
  BY DEF Numbered, Recent
<1>2. Len(q) \in Nat /\ DOMAIN q = 1..Len(q) /\ \A i \in 1..Len(q) : q[i] \in Win /\ q[i] # NULL /\ q[i] # p
  BY <1>1, ListFacts DEF ToSet
<1>3. \A i \in DOMAIN u : u[i] \in Win /\ u[i] # p
  <2>1. \A i \in DOMAIN u : u[i] \in Win
    BY <1>1
  <2> QED BY <2>1 DEF ToSet
<1> DEFINE before == IF k = 1 THEN NULL ELSE q[k - 1]
<1>4. (IF win = NULL THEN t.last ELSE IF win = t.first THEN NULL ELSE t.prev[win]) = before
  <2>1. CASE k = Len(q) + 1
    <3>1. CASE Len(q) = 0
      <4>1. EndOf(q) = NULL
        BY <1>1, <3>1, HeadIs
      <4> QED BY <1>0, <1>1, <2>1, <3>1, <4>1
    <3>2. CASE Len(q) # 0
      <4>1. EndOf(q) = q[Len(q)]
        BY <1>1, <3>2, HeadIs
      <4>2. k # 1 /\ k - 1 = Len(q)
        BY <1>2, <2>1, <3>2
      <4> QED BY <1>0, <1>1, <2>1, <4>1, <4>2
    <3> QED BY <3>1, <3>2
  <2>2. CASE k # Len(q) + 1
    <3>1. k \in 1..Len(q) /\ 1 \in 1..Len(q) /\ Len(q) # 0
      BY <1>2, <2>2
    <3>2. win = q[k] /\ win # NULL /\ t.first = q[1] /\ t.prev[win] = Before(q, k)
      BY <1>0, <1>1, <1>2, <2>2, <3>1, HeadIs
    <3>3. win = t.first <=> k = 1
      BY <1>1, <1>2, <3>1, <3>2 DEF Distinct
    <3> QED BY <3>2, <3>3 DEF Before
  <2> QED BY <2>1, <2>2
<1>5. r = Link(t, p, before, win)
  BY <1>4 DEF add_window_to_list
<1>6. before \in Win \cup {NULL} /\ win \in Win \cup {NULL} /\ (before = NULL <=> k = 1) /\ (win = NULL <=> k = Len(q) + 1)
  <2>1. k # 1 => k - 1 \in 1..Len(q)
    BY <1>2
  <2>2. k # Len(q) + 1 => k \in 1..Len(q)
    BY <1>2
  <2> QED BY <1>0, <1>2, <2>1, <2>2
<1>7. before = (IF k = 1 THEN NULL ELSE q[k - 1])
  OBVIOUS
<1> HIDE DEF before
<1> DEFINE nx == [v \in Win |-> IF v = p THEN win ELSE IF v = before THEN p ELSE t.next[v]]
           pv == [v \in Win |-> IF v = p THEN before ELSE IF v = win THEN p ELSE t.prev[v]]
           pm == [t.prevmru EXCEPT ![p] = t.mru]
           a == IF before = NULL THEN p ELSE t.first
           b == IF win = NULL THEN p ELSE t.last
<1>8. /\ t.next \in [Win -> Win \cup {NULL}] /\ t.prev \in [Win -> Win \cup {NULL}]
      /\ t.prevmru \in [Win -> Win \cup {NULL}] /\ t.number \in [Win -> Int]
      /\ t.first \in Win \cup {NULL} /\ t.last \in Win \cup {NULL} /\ t.mru \in Win \cup {NULL}
  BY DEF Tabs
<1>9. r = [first |-> a, last |-> b, mru |-> p, next |-> nx, prev |-> pv, prevmru |-> pm, number |-> t.number]
  BY <1>5, Zenon DEF Link, Tabs
<1>10. /\ nx \in [Win -> Win \cup {NULL}] /\ pv \in [Win -> Win \cup {NULL}] /\ pm \in [Win -> Win \cup {NULL}]
       /\ a \in Win \cup {NULL} /\ b \in Win \cup {NULL}
  BY <1>6, <1>8
<1>11. /\ \A v \in Win : v # p => nx[v] = (IF v = before THEN p ELSE t.next[v])
       /\ \A v \in Win : v # p => pv[v] = (IF v = win THEN p ELSE t.prev[v])
       /\ \A v \in Win : v # p => pm[v] = t.prevmru[v]
       /\ nx[p] = win /\ pv[p] = before /\ pm[p] = t.mru
  BY <1>8
<1> HIDE DEF nx, pv, pm
<1>12. /\ r \in Tabs /\ r.first = a /\ r.last = b /\ r.mru = p /\ r.next = nx /\ r.prev = pv
       /\ r.prevmru = pm /\ r.number = t.number
  <2> HIDE DEF a, b
  <2> QED BY <1>8, <1>9, <1>10 DEF Tabs
<1> DEFINE c == Insert(q, k, p)
           d == Insert(u, 1, p)
<1>13. /\ \A i \in DOMAIN c : nx[c[i]] = After(c, i) /\ pv[c[i]] = Before(c, i)
       /\ HeadOf(c) = (IF k = 1 THEN p ELSE HeadOf(q))
       /\ EndOf(c) = (IF k = Len(q) + 1 THEN p ELSE EndOf(q))
  <2>1. /\ q \in Seq(Win) /\ Distinct(q) /\ k \in 1..(Len(q) + 1) /\ p \in Win /\ p \notin ToSet(q)
        /\ win = (IF k = Len(q) + 1 THEN NULL ELSE q[k])
    BY <1>0, <1>1
  <2>2. \A i \in DOMAIN q : /\ nx[q[i]] = IF q[i] = before THEN p ELSE After(q, i)
                            /\ pv[q[i]] = IF q[i] = win THEN p ELSE Before(q, i)
    BY <1>1, <1>2, <1>11
  <2>3. nx[p] = win /\ pv[p] = before
    BY <1>11
  <2> QED BY ONLY <2>1, <2>2, <2>3, <1>7, InsertLinks
<1>14. c \in Seq(Win) /\ Distinct(c) /\ ToSet(c) = ToSet(q) \cup {p}
  BY <1>1, InsertIs
<1>15. Numbered(r, c)
  <2>1. r.first = HeadOf(c) /\ r.last = EndOf(c)
    BY <1>1, <1>6, <1>12, <1>13
  <2> HIDE DEF c, a, b
  <2> QED BY <1>12, <1>13, <1>14, <2>1 DEF Numbered
<1>16. d \in Seq(Win) /\ Distinct(d) /\ ToSet(d) = ToSet(u) \cup {p}
  <2>1. 1 \in 1..(Len(u) + 1)
    BY <1>1, ListFacts
  <2> QED BY <1>1, <2>1, InsertIs
<1>17. /\ \A i \in DOMAIN d : pm[d[i]] = After(d, i)
       /\ HeadOf(d) = p
  <2>1. u \in Seq(Win) /\ Distinct(u) /\ pm[p] = HeadOf(u)
    BY <1>1, <1>11
  <2>2. \A i \in DOMAIN u : pm[u[i]] = After(u, i)
    BY <1>1, <1>3, <1>11
  <2> QED BY <2>1, <2>2, InsertChain
<1>18. Recent(r, d)
  <2> HIDE DEF d
  <2> QED BY <1>12, <1>16, <1>17 DEF Recent
<1>19. Rising(r, c)
  <2>1. Rising(t, c)
    BY <1>1, InsertRises DEF Fits
  <2> QED BY <1>12, <2>1 DEF Rising
<1>20. ByUse(r) = d
  BY <1>18, RecentChain
<1> HIDE DEF c
<1>21. Good(r, ToSet(q) \cup {p})
  <2> HIDE DEF d
  <2> QED BY <1>12, <1>14, <1>15, <1>16, <1>18, <1>19 DEF Good
<1> QED BY <1>12, <1>20, <1>21 DEF Added

\* w leads the windows of S by use, and nothing else differs.
Leads(r, t, S, w) ==
  /\ Good(r, S) /\ r.number = t.number /\ Raised(ByUse(t), ByUse(r), {w})
  /\ \A v \in Win \ S : r.prevmru[v] = t.prevmru[v]

\* A window that is used.
LEMMA ToHeadIs ==
  ASSUME NEW t, NEW S, Good(t, S), NEW w \in S, NEW r, r = ToHead(t, w)
  PROVE  Leads(r, t, S, w)
<1>1. PICK q, u : Numbered(t, q) /\ Recent(t, u) /\ Rising(t, q) /\ ToSet(q) = S /\ ToSet(u) = S
  BY DEF Good
<1>2. t \in Tabs /\ u \in Seq(Win) /\ Distinct(u)
  BY <1>1 DEF Good, Recent
<1>3. PICK k \in DOMAIN u : u[k] = w
  BY <1>1 DEF ToSet
<1>a. ByUse(t) = u
  BY <1>1, RecentChain
<1>4. CASE t.mru = w
  <2>1. Len(u) # 0
    BY <1>2, <1>3
  <2>2. u # <<>> /\ u[1] = w
    BY <1>1, <1>2, <1>4, <2>1, HeadIs DEF Recent
  <2>3. Raised(u, u, {w})
    BY <1>2, <2>2, HeadRaised
  <2>4. r = t
    BY <1>4 DEF ToHead
  <2> QED BY <1>a, <2>3, <2>4 DEF Leads
<1>5. CASE t.mru # w
  <2> DEFINE s == UnlinkUse(t, w)
             c == Cut(u, k)
  <2>1. r = [s EXCEPT !.prevmru[w] = t.mru, !.mru = w]
    BY <1>5 DEF ToHead
  <2>2. /\ s \in Tabs /\ Recent(s, c) /\ s.mru = t.mru
        /\ s.first = t.first /\ s.last = t.last /\ s.next = t.next /\ s.prev = t.prev
        /\ s.number = t.number
        /\ \A v \in Win : v \notin ToSet(u) \/ v = u[k] => s.prevmru[v] = t.prevmru[v]
    BY <1>1, <1>2, <1>3, <1>5, UnlinkUseIs
  <2>3. c \in Seq(Win) /\ Distinct(c) /\ ToSet(c) = S \ {w} /\ w \in Win
    BY <1>1, <1>2, <1>3, CutIs
  <2>4. s.mru = HeadOf(c) /\ \A i \in DOMAIN c : s.prevmru[c[i]] = After(c, i)
    BY <2>2 DEF Recent
  <2> HIDE DEF s, c
  <2> DEFINE pm == [s.prevmru EXCEPT ![w] = t.mru]
  <2>5. /\ s.next \in [Win -> Win \cup {NULL}] /\ s.prev \in [Win -> Win \cup {NULL}]
        /\ s.prevmru \in [Win -> Win \cup {NULL}] /\ s.number \in [Win -> Int]
        /\ s.first \in Win \cup {NULL} /\ s.last \in Win \cup {NULL} /\ s.mru \in Win \cup {NULL}
    BY <2>2 DEF Tabs
  <2>6. r = [first |-> s.first, last |-> s.last, mru |-> w, next |-> s.next, prev |-> s.prev, prevmru |-> pm, number |-> s.number]
    BY <2>1, <2>2, Zenon DEF Tabs
  <2>7. pm \in [Win -> Win \cup {NULL}] /\ pm[w] = HeadOf(c) /\ \A v \in Win : v # w => pm[v] = s.prevmru[v]
    BY <2>2, <2>3, <2>4, <2>5
  <2> HIDE DEF pm
  <2>8. /\ r \in Tabs /\ r.first = t.first /\ r.last = t.last /\ r.next = t.next /\ r.prev = t.prev
        /\ r.number = t.number /\ r.mru = w /\ r.prevmru = pm
    BY <2>2, <2>3, <2>5, <2>6, <2>7 DEF Tabs
  <2>9. \A i \in DOMAIN c : c[i] \in Win /\ c[i] # w
    <3>1. \A i \in DOMAIN c : c[i] \in Win
      BY <2>3
    <3> QED BY <2>3, <3>1 DEF ToSet
  <2> DEFINE d == Insert(c, 1, w)
  <2>10. /\ \A i \in DOMAIN d : pm[d[i]] = After(d, i)
         /\ HeadOf(d) = w
    <3>1. c \in Seq(Win) /\ Distinct(c) /\ w \in Win /\ w \notin ToSet(c)
      BY <2>3
    <3>2. pm[w] = HeadOf(c) /\ \A i \in DOMAIN c : pm[c[i]] = After(c, i)
      BY <2>4, <2>7, <2>9
    <3> QED BY ONLY <3>1, <3>2, InsertChain
  <2>11. d \in Seq(Win) /\ Distinct(d) /\ ToSet(d) = S
    <3>1. 1 \in 1..(Len(c) + 1)
      BY <2>3, ListFacts
    <3>2. d \in Seq(Win) /\ Distinct(d) /\ ToSet(d) = ToSet(c) \cup {w}
      BY <2>3, <3>1, InsertIs
    <3> QED BY <2>3, <3>2
  <2> HIDE DEF d
  <2>12. Recent(r, d)
    BY <2>8, <2>10, <2>11 DEF Recent
  <2>13. Numbered(r, q) /\ Rising(r, q)
    BY <1>1, <2>8 DEF Numbered, Rising
  <2>14. Good(r, S)
    BY <1>1, <2>8, <2>11, <2>12, <2>13 DEF Good
  <2>15. \A v \in Win \ S : v # w /\ v \notin ToSet(u)
    BY <1>1
  <2>16. Raised(u, d, {w})
    <3>1. Raised(u, c, {})
      <4>1. Raised(u, u, {})
        BY RaisedNone
      <4> QED BY <1>2, <4>1, CutRaised DEF c
    <3>2. Raised(u, d, {} \cup {w})
      BY <2>3, <3>1, InsertRaised DEF d
    <3> QED BY <3>2
  <2>17. ByUse(r) = d
    BY <2>12, RecentChain
  <2>18. \A v \in Win \ S : r.prevmru[v] = t.prevmru[v]
    BY <1>1, <2>2, <2>7, <2>8, <2>15
  <2> QED BY <1>a, <2>8, <2>14, <2>16, <2>17, <2>18 DEF Leads
<1> QED BY <1>4, <1>5

\* What Good says about the lists and the pointers of their windows.
LEMMA GoodLists ==
  ASSUME NEW t, NEW S, Good(t, S)
  PROVE  /\ t \in Tabs /\ S \subseteq Win /\ ToSet(ByUse(t)) = S /\ ToSet(ByNumber(t)) = S
         /\ ByUse(t) \in Seq(Win) /\ ByNumber(t) \in Seq(Win)
         /\ Distinct(ByUse(t)) /\ Distinct(ByNumber(t)) /\ Rising(t, ByNumber(t))
         /\ Numbered(t, ByNumber(t)) /\ Recent(t, ByUse(t))
         /\ Backwards(t) = Reverse(ByNumber(t))
         /\ \A w \in S : t.prevmru[w] \in S \cup {NULL}
         /\ t.mru \in S \cup {NULL} /\ t.first \in S \cup {NULL} /\ t.last \in S \cup {NULL}
         /\ Len(ByUse(t)) = Cardinality(S) /\ Len(ByNumber(t)) = Cardinality(S)
<1>1. PICK q, u : Numbered(t, q) /\ Recent(t, u) /\ Rising(t, q) /\ ToSet(q) = S /\ ToSet(u) = S
  BY DEF Good
<1>2. /\ t \in Tabs /\ q \in Seq(Win) /\ Distinct(q) /\ u \in Seq(Win) /\ Distinct(u)
      /\ t.mru = HeadOf(u) /\ t.first = HeadOf(q) /\ t.last = EndOf(q)
      /\ \A i \in DOMAIN u : t.prevmru[u[i]] = After(u, i)
  BY <1>1 DEF Good, Numbered, Recent
<1>3. ByNumber(t) = q /\ Backwards(t) = Reverse(q)
  BY <1>1, NumberedChain
<1>4. ByUse(t) = u
  BY <1>1, RecentChain
<1>5. Len(u) = Cardinality(S) /\ Len(q) = Cardinality(S)
  BY <1>1, <1>2, LengthBound
<1>6. ASSUME NEW i \in DOMAIN u PROVE After(u, i) \in S \cup {NULL}
  <2>1. Len(u) \in Nat /\ DOMAIN u = 1..Len(u)
    BY <1>2, ListFacts
  <2>2. i # Len(u) => i + 1 \in DOMAIN u
    BY <2>1
  <2>3. \A j \in DOMAIN u : u[j] \in S
    BY <1>1 DEF ToSet
  <2> QED BY <2>2, <2>3 DEF After
<1>7. \A w \in S : t.prevmru[w] \in S \cup {NULL}
  BY <1>1, <1>2, <1>6 DEF ToSet
<1>8. \A v \in Seq(Win) : Len(v) # 0 => v[1] \in ToSet(v) /\ v[Len(v)] \in ToSet(v)
  <2> SUFFICES ASSUME NEW v \in Seq(Win), Len(v) # 0 PROVE v[1] \in ToSet(v) /\ v[Len(v)] \in ToSet(v)
    OBVIOUS
  <2>1. Len(v) \in Nat /\ DOMAIN v = 1..Len(v)
    BY ListFacts
  <2>2. 1 \in DOMAIN v /\ Len(v) \in DOMAIN v
    BY <2>1
  <2> QED BY <2>2 DEF ToSet
<1>9. \A v \in Seq(Win) : HeadOf(v) \in ToSet(v) \cup {NULL} /\ EndOf(v) \in ToSet(v) \cup {NULL}
  <2> SUFFICES ASSUME NEW v \in Seq(Win) PROVE HeadOf(v) \in ToSet(v) \cup {NULL} /\ EndOf(v) \in ToSet(v) \cup {NULL}
    OBVIOUS
  <2> QED BY <1>8, HeadIs
<1>10. S \subseteq Win
  <2>1. \A i \in DOMAIN u : u[i] \in Win
    BY <1>2
  <2> QED BY <1>1, <2>1 DEF ToSet
<1> QED BY <1>1, <1>2, <1>3, <1>4, <1>5, <1>7, <1>9, <1>10

\* A window that is killed leaves both lists, and its own pointers stay.
LEMMA KilledIs ==
  ASSUME NEW t, NEW S, Good(t, S), NEW w \in S, ByUse(UnlinkUse(t, w)) # <<>>,
         NEW r, r = Killed(UnlinkUse(t, w), w)
  PROVE  Good(r, S \ {w}) /\ r.number = t.number /\ r.prevmru[w] \in (S \ {w}) \cup {NULL} /\ Drops(r, t, w)
<1>1. PICK q, u : Numbered(t, q) /\ Recent(t, u) /\ Rising(t, q) /\ ToSet(q) = S /\ ToSet(u) = S
  BY DEF Good
<1>2. t \in Tabs /\ q \in Seq(Win) /\ Distinct(q) /\ u \in Seq(Win) /\ Distinct(u)
  BY <1>1 DEF Good, Numbered, Recent
<1>3. PICK k \in DOMAIN q : q[k] = w
  BY <1>1 DEF ToSet
<1>4. PICK m \in DOMAIN u : u[m] = w
  BY <1>1 DEF ToSet
<1> DEFINE s == UnlinkUse(t, w)
<1>5. /\ s \in Tabs /\ Recent(s, Cut(u, m)) /\ s.number = t.number /\ s.prevmru[w] = t.prevmru[w]
      /\ s.first = t.first /\ s.last = t.last /\ s.next = t.next /\ s.prev = t.prev
  <2>1. w \in Win
    BY <1>2, <1>4
  <2> QED BY <1>1, <1>2, <1>4, <2>1, UnlinkUseIs
<1>6. /\ Cut(u, m) \in Seq(Win) /\ Distinct(Cut(u, m)) /\ ToSet(Cut(u, m)) = S \ {w} /\ Len(Cut(u, m)) = Len(u) - 1
      /\ Cut(q, k) \in Seq(Win) /\ Distinct(Cut(q, k)) /\ ToSet(Cut(q, k)) = S \ {w}
  BY <1>1, <1>2, <1>3, <1>4, CutIs
<1>7. ByUse(s) = Cut(u, m)
  BY <1>5, RecentChain
<1>8. Len(q) = Len(u) /\ Len(u) # 1
  <2>1. Len(q) = Cardinality(S) /\ Len(u) = Cardinality(S)
    BY <1>1, <1>2, LengthBound
  <2>2. Len(Cut(u, m)) # 0
    <3>1. Cut(u, m) # <<>>
      BY <1>7
    <3> QED BY <1>6, <3>1
  <2> QED BY <1>6, <2>1, <2>2
<1>9. Numbered(s, q)
  BY <1>1, <1>5 DEF Numbered
<1>10. r = Killed(s, w)
  OBVIOUS
<1> HIDE DEF s
<1>11. /\ Len(q) \in Nat /\ DOMAIN q = 1..Len(q) /\ k \in 1..Len(q)
       /\ \A i \in 1..Len(q) : q[i] \in Win /\ q[i] # NULL
       /\ After(q, k) \in Win \cup {NULL} /\ Before(q, k) \in Win \cup {NULL}
       /\ (After(q, k) = NULL <=> k = Len(q)) /\ (Before(q, k) = NULL <=> k = 1)
  BY <1>2, ListFacts
<1>12. Len(q) # 0 /\ 1 \in DOMAIN q /\ Len(q) \in DOMAIN q /\ 1 # Len(q)
  BY <1>8, <1>11
<1>13. s.first = q[1] /\ s.last = q[Len(q)] /\ s.first # s.last
  <2>1. s.first = q[1] /\ s.last = q[Len(q)]
    BY <1>2, <1>9, <1>12, HeadIs DEF Numbered
  <2> QED BY <1>2, <1>12, <2>1 DEF Distinct
<1>14. (w = s.first <=> k = 1) /\ (w = s.last <=> k = Len(q)) /\ w \in Win /\ w # NULL
  BY <1>2, <1>3, <1>11, <1>12, <1>13 DEF Distinct
<1>15. \A i \in DOMAIN q : s.next[q[i]] = After(q, i) /\ s.prev[q[i]] = Before(q, i)
  BY <1>9 DEF Numbered
<1>16. s.next[w] = After(q, k) /\ s.prev[w] = Before(q, k)
  BY <1>3, <1>15
<1> DEFINE a == IF w = s.first THEN s.next[w] ELSE s.first
           b == IF w # s.first /\ w = s.last THEN s.prev[w] ELSE s.last
           nx == [v \in Win |-> IF w # s.first /\ v = s.prev[w] THEN
                                   IF w = s.last THEN NULL ELSE s.next[w]
                                ELSE s.next[v]]
           pv == [v \in Win |-> IF v = s.next[w] /\ (w = s.first \/ w # s.last) THEN
                                   IF w = s.first THEN NULL ELSE s.prev[w]
                                ELSE s.prev[v]]
<1>17. r = [first |-> a, last |-> b, mru |-> s.mru, next |-> nx, prev |-> pv, prevmru |-> s.prevmru, number |-> s.number]
  <2>1. r = [s EXCEPT !.first = a, !.last = b, !.next = nx, !.prev = pv]
    BY <1>10, <1>13 DEF Killed
  <2> HIDE DEF a, b, nx, pv
  <2> QED BY <1>5, <2>1, Zenon DEF Tabs
<1>18. /\ s.next \in [Win -> Win \cup {NULL}] /\ s.prev \in [Win -> Win \cup {NULL}]
       /\ s.prevmru \in [Win -> Win \cup {NULL}] /\ s.number \in [Win -> Int]
       /\ s.first \in Win \cup {NULL} /\ s.last \in Win \cup {NULL} /\ s.mru \in Win \cup {NULL}
  BY <1>5 DEF Tabs
<1>19. /\ \A v \in Win : nx[v] = IF v = Before(q, k) THEN After(q, k) ELSE s.next[v]
       /\ \A v \in Win : pv[v] = IF v = After(q, k) THEN Before(q, k) ELSE s.prev[v]
       /\ a = IF k = 1 THEN After(q, k) ELSE HeadOf(q)
       /\ b = IF k = Len(q) THEN Before(q, k) ELSE EndOf(q)
  <2>1. s.first = HeadOf(q) /\ s.last = EndOf(q)
    BY <1>9 DEF Numbered
  <2>2. ASSUME NEW v \in Win PROVE nx[v] = IF v = Before(q, k) THEN After(q, k) ELSE s.next[v]
    BY <1>11, <1>14, <1>16
  <2>3. ASSUME NEW v \in Win PROVE pv[v] = IF v = After(q, k) THEN Before(q, k) ELSE s.prev[v]
    BY <1>11, <1>14, <1>16
  <2>4. a = IF k = 1 THEN After(q, k) ELSE HeadOf(q)
    BY <1>14, <1>16, <2>1
  <2>5. b = IF k = Len(q) THEN Before(q, k) ELSE EndOf(q)
    BY <1>12, <1>14, <1>16, <2>1
  <2> QED BY <2>2, <2>3, <2>4, <2>5
<1>20. /\ nx \in [Win -> Win \cup {NULL}] /\ pv \in [Win -> Win \cup {NULL}]
       /\ a \in Win \cup {NULL} /\ b \in Win \cup {NULL}
  BY <1>11, <1>14, <1>16, <1>18
<1> HIDE DEF nx, pv, a, b
<1>21. /\ r \in Tabs /\ r.first = a /\ r.last = b /\ r.mru = s.mru /\ r.next = nx /\ r.prev = pv
       /\ r.prevmru = s.prevmru /\ r.number = s.number
  BY <1>17, <1>18, <1>20 DEF Tabs
<1>22. \A i \in DOMAIN q :
          i # k => /\ nx[q[i]] = IF q[i] = Before(q, k) THEN After(q, k) ELSE After(q, i)
                   /\ pv[q[i]] = IF q[i] = After(q, k) THEN Before(q, k) ELSE Before(q, i)
  BY <1>11, <1>15, <1>19
<1>23. /\ \A i \in DOMAIN Cut(q, k) : nx[Cut(q, k)[i]] = After(Cut(q, k), i) /\ pv[Cut(q, k)[i]] = Before(Cut(q, k), i)
       /\ HeadOf(Cut(q, k)) = IF k = 1 THEN After(q, k) ELSE HeadOf(q)
       /\ EndOf(Cut(q, k)) = IF k = Len(q) THEN Before(q, k) ELSE EndOf(q)
  <2>1. q \in Seq(Win) /\ Distinct(q) /\ k \in DOMAIN q
    BY <1>2
  <2> QED BY ONLY <2>1, <1>22, CutLinks
<1>24. Numbered(r, Cut(q, k))
  BY <1>6, <1>19, <1>21, <1>23 DEF Numbered
<1>25. Recent(r, Cut(u, m))
  BY <1>5, <1>21 DEF Recent
<1>26. Rising(r, Cut(q, k))
  <2>1. Rising(t, Cut(q, k))
    BY <1>1, <1>2, CutRises
  <2> QED BY <1>5, <1>21, <2>1 DEF Rising
<1>27. r.prevmru[w] \in (S \ {w}) \cup {NULL}
  <2>1. r.prevmru[w] = After(u, m)
    BY <1>1, <1>4, <1>5, <1>21 DEF Recent
  <2>2. Len(u) \in Nat /\ DOMAIN u = 1..Len(u)
    BY <1>2, ListFacts
  <2>3. m # Len(u) => m + 1 \in DOMAIN u /\ m + 1 # m
    BY <2>2
  <2>4. m # Len(u) => u[m + 1] \in S /\ u[m + 1] # w
    BY <1>1, <1>2, <1>4, <2>3 DEF ToSet, Distinct
  <2> QED BY <2>1, <2>4 DEF After
<1>28. Drops(r, t, w)
  <2>1. ByUse(t) = u /\ ByUse(r) = Cut(u, m)
    BY <1>1, <1>25, RecentChain
  <2> QED BY <1>4, <2>1 DEF Drops
<1> QED BY <1>5, <1>6, <1>21, <1>24, <1>25, <1>26, <1>27, <1>28 DEF Good

\* The last window.
LEMMA OnlyOne ==
  ASSUME NEW t, NEW S, Good(t, S), NEW w \in S
  PROVE  ByUse(UnlinkUse(t, w)) = <<>> <=> S = {w}
<1>1. PICK u : Recent(t, u) /\ ToSet(u) = S
  BY DEF Good
<1>2. t \in Tabs /\ u \in Seq(Win) /\ Distinct(u)
  BY <1>1 DEF Good, Recent
<1>3. PICK m \in DOMAIN u : u[m] = w
  BY <1>1 DEF ToSet
<1>4. Recent(UnlinkUse(t, w), Cut(u, m))
  BY <1>1, <1>2, <1>3, UnlinkUseIs
<1>5. ByUse(UnlinkUse(t, w)) = Cut(u, m)
  BY <1>4, RecentChain
<1>6. Cut(u, m) \in Seq(Win) /\ ToSet(Cut(u, m)) = S \ {w}
  BY <1>1, <1>2, <1>3, CutIs
<1>7. Cut(u, m) = <<>> <=> ToSet(Cut(u, m)) = {}
  <2>1. Cut(u, m) = <<>> => DOMAIN Cut(u, m) = {}
    OBVIOUS
  <2>2. Cut(u, m) # <<>> => 1 \in DOMAIN Cut(u, m)
    BY <1>6
  <2> QED BY <2>1, <2>2 DEF ToSet
<1> QED BY <1>5, <1>6, <1>7

-----------------------------------------------------------------------------
(* Windows by their numbers                                                *)

LEMMA NumbersDiffer ==
  ASSUME NEW t, NEW S, Good(t, S), NEW v \in S, NEW w \in S, v # w
  PROVE  t.number[v] # t.number[w] /\ t.number[v] \in Int /\ t.number[w] \in Int
<1>1. PICK q : q \in Seq(Win) /\ Rising(t, q) /\ ToSet(q) = S
  BY DEF Good, Numbered
<1>2. Len(q) \in Nat /\ DOMAIN q = 1..Len(q)
  BY <1>1, ListFacts
<1>3. PICK i \in 1..Len(q), j \in 1..Len(q) : q[i] = v /\ q[j] = w
  BY <1>1, <1>2 DEF ToSet
<1>4. q[i] \in Win /\ q[j] \in Win
  BY <1>1, <1>2
<1>5. t.number[v] \in Int /\ t.number[w] \in Int
  BY <1>3, <1>4 DEF Good, Tabs
<1>6. i < j \/ j < i
  BY <1>2, <1>3
<1>7. t.number[v] < t.number[w] \/ t.number[w] < t.number[v]
  BY <1>1, <1>2, <1>3, <1>6 DEF Rising
<1> QED BY <1>5, <1>7

\* The window with a number, or none if there is none.
LEMMA GetIs ==
  ASSUME NEW t, NEW S, Good(t, S), NEW n \in Int, NEW r, r = GetWindowByNumber(t, n)
  PROVE  /\ r \in S \cup {NULL}
         /\ r # NULL => t.number[r] = n
         /\ r = NULL => \A v \in S : t.number[v] # n
<1>1. PICK q : Numbered(t, q) /\ Rising(t, q) /\ ToSet(q) = S
  BY DEF Good
<1> DEFINE N == Len(q)
           rev == Reverse(q)
           F == {i \in DOMAIN q : t.number[q[i]] >= n}
           G == {i \in DOMAIN rev : t.number[rev[i]] <= n}
           a == IF F = {} THEN NULL ELSE q[Min(F)]
           b == IF G = {} THEN NULL ELSE rev[Min(G)]
           lo == t.number[t.first]
           hi == t.number[t.last]
           w == IF lo + (hi - lo) \div 2 > n THEN a ELSE b
<1>2. /\ q \in Seq(Win) /\ Distinct(q) /\ t.first = HeadOf(q) /\ t.last = EndOf(q)
      /\ N \in Nat /\ N \in Int /\ DOMAIN q = 1..N /\ \A i \in 1..N : q[i] \in Win /\ q[i] # NULL
  BY <1>1, ListFacts DEF Numbered
<1>3. /\ ByNumber(t) = q /\ Backwards(t) = rev /\ rev \in Seq(Win) /\ DOMAIN rev = 1..N
      /\ \A i \in 1..N : rev[i] = q[N - i + 1]
  BY <1>1, NumberedChain
<1>4. \A i \in 1..N : t.number[q[i]] \in Int /\ q[i] \in S
  BY <1>1, <1>2 DEF Good, Tabs, ToSet
<1>5. r = IF n \in lo..hi /\ t.number[w] = n THEN w ELSE NULL
  BY <1>3 DEF GetWindowByNumber, FirstOf
<1>6. a = NULL \/ (\E k \in 1..N : a = q[k] /\ t.number[q[k]] >= n /\ \A i \in F : i >= k)
  <2>1. PICK k \in 1..(N + 1) :
           /\ a = (IF k = N + 1 THEN NULL ELSE q[k])
           /\ \A i \in F : i >= k
           /\ k # N + 1 => k \in F
    <3> HIDE DEF F
    <3>1. F \in SUBSET (DOMAIN q)
      BY DEF F
    <3> QED BY <1>2, <3>1, FirstPlace
  <2> QED BY <1>2, <2>1
<1>7. b = NULL \/ (\E k \in 1..N : b = rev[k] /\ t.number[rev[k]] <= n /\ \A i \in G : i >= k)
  <2>1. PICK k \in 1..(Len(rev) + 1) :
           /\ b = (IF k = Len(rev) + 1 THEN NULL ELSE rev[k])
           /\ \A i \in G : i >= k
           /\ k # Len(rev) + 1 => k \in G
    <3> HIDE DEF G, rev
    <3>1. G \in SUBSET (DOMAIN rev)
      BY DEF G
    <3> QED BY <1>3, <3>1, FirstPlace
  <2>2. Len(rev) = N
    BY <1>2, <1>3
  <2>3. CASE k = N + 1
    BY <2>1, <2>2, <2>3
  <2>4. CASE k # N + 1
    <3>1. k \in G /\ b = rev[k]
      <4> HIDE DEF N, rev, G, b
      <4> QED BY <2>1, <2>2, <2>4
    <3>2. k \in 1..N /\ t.number[rev[k]] <= n
      <4>1. k \in DOMAIN rev /\ t.number[rev[k]] <= n
        <5> HIDE DEF rev
        <5> QED BY <3>1
      <4> QED BY <1>3, <4>1
    <3> QED
      <4> HIDE DEF rev, b, G
      <4>1. \A i \in G : i >= k
        BY <2>1
      <4> QED BY <3>1, <3>2, <4>1
  <2> QED BY <2>3, <2>4
<1>8. \A i \in 1..N : N - i + 1 \in 1..N
  BY <1>2
<1>9. a \in S \cup {NULL} /\ b \in S \cup {NULL}
  <2> HIDE DEF a, b, F, G
  <2>1. a \in S \cup {NULL}
    BY <1>4, <1>6
  <2>2. \A i \in 1..N : rev[i] \in S
    BY <1>3, <1>4, <1>8
  <2> QED BY <1>7, <2>1, <2>2
<1>10. r \in S \cup {NULL} /\ (r # NULL => t.number[r] = n)
  <2> HIDE DEF a, b, lo, hi
  <2> QED BY <1>5, <1>9
<1>11. ASSUME NEW v \in S, t.number[v] = n PROVE r # NULL
  <2>1. PICK j \in 1..N : q[j] = v
    BY <1>1, <1>2 DEF ToSet
  <2>2. v \in Win /\ v # NULL
    BY <1>2, <2>1
  <2>3. \A i \in 1..N, k \in 1..N : i < k => t.number[q[i]] < t.number[q[k]]
    BY <1>1, <1>2 DEF Rising
  <2>4. n \in lo..hi
    <3>1. 1 \in 1..N /\ N \in 1..N /\ N # 0 /\ (1 = j \/ 1 < j) /\ (j = N \/ j < N)
      <4>1. N \in Nat /\ j \in 1..N
        BY <1>2
      <4> HIDE DEF N
      <4> QED BY <4>1
    <3>2. t.first = q[1] /\ t.last = q[N]
      BY <1>2, <3>1, HeadIs
    <3>3. lo \in Int /\ hi \in Int /\ lo <= n /\ n <= hi
      <4>1. t.number[q[1]] = t.number[q[j]] \/ t.number[q[1]] < t.number[q[j]]
        BY <2>1, <2>3, <3>1
      <4>2. t.number[q[j]] = t.number[q[N]] \/ t.number[q[j]] < t.number[q[N]]
        BY <2>1, <2>3, <3>1
      <4>3. t.number[q[1]] \in Int /\ t.number[q[N]] \in Int /\ t.number[q[j]] = n
        BY <1>4, <2>1, <3>1, <1>11
      <4> QED BY <3>2, <4>1, <4>2, <4>3
    <3> QED BY <3>3
  <2>5. a = v
    <3>1. j \in F
      BY <1>2, <2>1, <1>11
    <3>2. a # NULL
      <4>1. \A i \in F : q[i] \in Win
        BY <1>2
      <4>2. F \in SUBSET Nat /\ F # {}
        BY <1>2, <3>1
      <4>3. Min(F) \in F
        <5> HIDE DEF F
        <5> QED BY <4>2, MinIsLeast
      <4> HIDE DEF F
      <4> QED BY <4>1, <4>2, <4>3
    <3>3. PICK k \in 1..N : a = q[k] /\ t.number[q[k]] >= n /\ \A i \in F : i >= k
      BY <1>6, <3>2
    <3>4. j >= k /\ j \in Int /\ k \in Int
      BY <1>2, <3>1, <3>3
    <3>5. ~(k < j)
      <4> SUFFICES ASSUME k < j PROVE FALSE
        OBVIOUS
      <4>1. t.number[q[k]] < t.number[q[j]]
        BY <2>3
      <4>2. t.number[q[k]] \in Int /\ t.number[q[j]] = n
        BY <1>4, <1>11, <2>1
      <4> QED BY <3>3, <4>1, <4>2
    <3>6. k = j
      BY <3>4, <3>5
    <3> QED BY <2>1, <3>3, <3>6
  <2>6. b = v
    <3> DEFINE m == N - j + 1
    <3>1. m \in 1..N /\ rev[m] = v /\ N - m + 1 = j
      BY <1>2, <1>3, <2>1
    <3>2. m \in G
      BY <1>3, <3>1, <1>11
    <3> HIDE DEF m
    <3>3. b # NULL
      <4>1. \A i \in G : rev[i] \in Win
        BY <1>3
      <4>2. G \in SUBSET Nat /\ G # {}
        BY <1>3, <3>2
      <4>3. Min(G) \in G
        <5> HIDE DEF G
        <5> QED BY <4>2, MinIsLeast
      <4> HIDE DEF G
      <4> QED BY <4>1, <4>2, <4>3
    <3>4. PICK k \in 1..N : b = rev[k] /\ t.number[rev[k]] <= n /\ \A i \in G : i >= k
      BY <1>7, <3>3
    <3>5. m >= k /\ m \in Int /\ k \in Int /\ N - k + 1 \in 1..N
      BY <1>2, <3>1, <3>2, <3>4
    <3>6. ~(k < m)
      <4> SUFFICES ASSUME k < m PROVE FALSE
        OBVIOUS
      <4> DEFINE x == N - k + 1
      <4>1. j < x /\ x \in 1..N
        BY <1>2, <3>1, <3>5
      <4>2. rev[k] = q[x]
        BY <1>3, <3>4
      <4> HIDE DEF x
      <4>3. t.number[q[j]] < t.number[q[x]]
        BY <2>1, <2>3, <4>1
      <4>4. t.number[q[x]] \in Int /\ t.number[q[j]] = n
        BY <1>4, <1>11, <2>1, <4>1
      <4> QED BY <3>4, <4>2, <4>3, <4>4
    <3>7. k = m
      BY <3>5, <3>6
    <3> QED BY <3>1, <3>4, <3>7
  <2>7. w = v
    <3> HIDE DEF a, b, lo, hi
    <3> QED BY <2>5, <2>6
  <2> HIDE DEF w, lo, hi
  <2> QED BY <1>5, <1>11, <2>2, <2>4, <2>7
<1> QED BY <1>10, <1>11
LEMMA DropRaised ==
  ASSUME NEW u, NEW P, NEW t, NEW S, Good(t, S), Raised(u, ByUse(t), P), NEW w, w \notin P,
         NEW r, Drops(r, t, w)
  PROVE  Raised(u, ByUse(r), P)
<1>1. ByUse(t) \in Seq(Win) /\ Distinct(ByUse(t))
  BY GoodLists
<1>2. PICK m \in DOMAIN ByUse(t) : ByUse(t)[m] = w /\ ByUse(r) = Cut(ByUse(t), m)
  BY DEF Drops
<1> QED BY <1>1, <1>2, CutRaised

LEMMA HeadsRaised ==
  ASSUME NEW u, NEW P, NEW t, NEW S, Good(t, S), Raised(u, ByUse(t), P), NEW w \in Win \ S,
         NEW r, Heads(r, t, w)
  PROVE  Raised(u, ByUse(r), P \cup {w})
<1>1. ByUse(t) \in Seq(Win) /\ Distinct(ByUse(t)) /\ w \notin ToSet(ByUse(t))
  BY GoodLists
<1> QED BY <1>1, InsertRaised DEF Heads


\* No window of S has the number of w.
Unique(t, S, w) == \A v \in S : t.number[v] # t.number[w]

\* A window put where its number belongs.
LEMMA PlacedIs ==
  ASSUME NEW t, NEW S, Good(t, S), NEW w \in Win \ S, Unique(t, S, w),
         NEW r, r = Placed(t, w)
  PROVE  Good(r, S \cup {w}) /\ r.number = t.number /\ Heads(r, t, w)
<1>1. PICK q, u : Numbered(t, q) /\ Recent(t, u) /\ Rising(t, q) /\ ToSet(q) = S /\ ToSet(u) = S
  BY DEF Good
<1> DEFINE F == {i \in DOMAIN q : t.number[q[i]] >= t.number[w]}
           win == IF F = {} THEN NULL ELSE q[Min(F)]
<1>2. t \in Tabs /\ q \in Seq(Win) /\ Len(q) \in Nat /\ DOMAIN q = 1..Len(q) /\ ByNumber(t) = q
  BY <1>1, ListFacts, NumberedChain DEF Good, Numbered
<1>3. \A i \in 1..Len(q) : t.number[q[i]] \in Int /\ t.number[q[i]] # t.number[w]
  <2>1. \A i \in 1..Len(q) : q[i] \in Win /\ q[i] \in S
    BY <1>1, <1>2 DEF ToSet
  <2> QED BY <1>2, <2>1 DEF Tabs, Unique
<1>4. t.number[w] \in Int
  BY <1>2 DEF Tabs
<1>5. r = add_window_to_list(t, w, win)
  BY <1>2 DEF Placed, FirstOf
<1>6. PICK k \in 1..(Len(q) + 1) :
         /\ win = (IF k = Len(q) + 1 THEN NULL ELSE q[k])
         /\ \A i \in F : i >= k
         /\ k # Len(q) + 1 => k \in F
  <2> HIDE DEF F
  <2>1. F \in SUBSET (DOMAIN q)
    BY DEF F
  <2> QED BY <1>2, <2>1, FirstPlace
<1>7. ASSUME NEW i \in 1..Len(q), i < k PROVE t.number[q[i]] < t.number[w]
  <2>1. i \notin F
    <3> HIDE DEF F
    <3> SUFFICES ASSUME i \in F PROVE FALSE
      OBVIOUS
    <3>1. i >= k /\ i \in Int /\ k \in Int
      BY <1>2, <1>6
    <3> QED BY <1>7, <3>1
  <2>2. ~(t.number[q[i]] >= t.number[w])
    BY <1>2, <2>1
  <2> QED BY <1>3, <1>4, <2>2
<1>8. ASSUME NEW i \in 1..Len(q), i >= k PROVE t.number[q[i]] > t.number[w]
  <2>1. k # Len(q) + 1 /\ k \in 1..Len(q)
    BY <1>2, <1>8
  <2>2. k \in F
    BY <1>6, <2>1
  <2>3. t.number[q[k]] >= t.number[w]
    BY <2>2
  <2>4. i = k \/ t.number[q[k]] < t.number[q[i]]
    BY <1>1, <1>2, <1>8, <2>1 DEF Rising
  <2>5. t.number[q[k]] \in Int /\ t.number[q[i]] \in Int /\ t.number[q[i]] # t.number[w]
    BY <1>3, <2>1
  <2> QED BY <1>4, <2>3, <2>4, <2>5
<1> HIDE DEF F, win
<1>9. Good(r, ToSet(q) \cup {w}) /\ r.number = t.number /\ ByUse(r) = Insert(u, 1, w)
  <2>1. /\ Numbered(t, q) /\ Recent(t, u) /\ Rising(t, q) /\ ToSet(q) = ToSet(u) /\ w \in Win /\ w \notin ToSet(q)
        /\ win = Here(q, k) /\ k \in 1..(Len(q) + 1) /\ t \in Tabs
    BY <1>1, <1>2, <1>6 DEF Here
  <2>2. Fits(t, q, k, w)
    BY <1>7, <1>8 DEF Fits
  <2>3. Added(r, t, q, u, w)
    BY ONLY <2>1, <2>2, <1>5, AddAt
  <2> QED BY <2>3 DEF Added
<1>10. ByUse(t) = u
  BY <1>1, RecentChain
<1> QED BY <1>1, <1>9, <1>10 DEF Heads

\* Nothing has changed that concerns the windows of S.
Same(r, t, S) ==
  /\ r.mru = t.mru /\ r.first = t.first /\ r.last = t.last
  /\ \A v \in S : /\ r.next[v] = t.next[v] /\ r.prev[v] = t.prev[v]
                  /\ r.prevmru[v] = t.prevmru[v] /\ r.number[v] = t.number[v]

LEMMA OffList ==
  ASSUME NEW t, NEW S, Good(t, S), NEW r \in Tabs, Same(r, t, S)
  PROVE  Good(r, S)
<1>1. PICK q, u : Numbered(t, q) /\ Recent(t, u) /\ Rising(t, q) /\ ToSet(q) = S /\ ToSet(u) = S
  BY DEF Good
<1>2. \A i \in DOMAIN q : q[i] \in S
  BY <1>1 DEF ToSet
<1>3. \A i \in DOMAIN u : u[i] \in S
  BY <1>1 DEF ToSet
<1>4. Numbered(r, q)
  BY <1>1, <1>2 DEF Numbered, Same
<1>5. Recent(r, u)
  BY <1>1, <1>3 DEF Recent, Same
<1>6. Rising(r, q)
  BY <1>1, <1>2 DEF Rising, Same
<1> QED BY <1>1, <1>4, <1>5, <1>6 DEF Good

LEMMA RenumberedIs ==
  ASSUME NEW t, NEW S, Good(t, S), NEW w \in S, NEW n \in Int, NEW r, r = Renumbered(t, w, n)
  PROVE  Good(r, S \ {w}) /\ r.number = [t.number EXCEPT ![w] = n] /\ Drops(r, t, w)
<1> DEFINE s == remove_window_from_list(t, w)
<1>1. Good(s, S \ {w}) /\ s.number = t.number /\ Drops(s, t, w)
  BY RemoveIs
<1>2. r = [s EXCEPT !.number[w] = n]
  BY DEF Renumbered
<1>3. w \in Win /\ S \subseteq Win
  BY GoodLists
<1> HIDE DEF s
<1>4. s \in Tabs /\ s.number \in [Win -> Int]
  BY <1>1 DEF Good, Tabs
<1>5. /\ r \in Tabs /\ r.number = [s.number EXCEPT ![w] = n] /\ r.mru = s.mru /\ r.prevmru = s.prevmru
      /\ r.first = s.first /\ r.last = s.last /\ r.next = s.next /\ r.prev = s.prev
  BY <1>2, <1>4 DEF Tabs
<1>6. \A v \in S \ {w} : r.number[v] = s.number[v]
  BY <1>3, <1>4, <1>5
<1>7. Good(r, S \ {w})
  <2>1. Same(r, s, S \ {w})
    BY <1>5, <1>6 DEF Same
  <2> QED BY <1>1, <1>5, <2>1, OffList
<1>8. Drops(r, t, w)
  BY <1>1, <1>5 DEF Drops, ByUse
<1> QED BY <1>1, <1>5, <1>7, <1>8

\* a has the number n, and the window that had n the one of a; they were used last.
Traded(r, t, S, a, n) ==
  /\ \A v \in S : r.number[v] = IF v = a THEN n ELSE IF t.number[v] = n THEN t.number[a] ELSE t.number[v]
  /\ Raised(ByUse(t), ByUse(r), {v \in S : v = a \/ t.number[v] = n})

\* A window takes a number, and the one that had it takes the other's.
LEMMA SwapIs ==
  ASSUME NEW t, NEW S, Good(t, S), NEW a \in S, NEW old, old = t.number[a], NEW n \in Int,
         NEW r, r = SwapWindows(t, old, n)
  PROVE  Good(r, S) /\ (old = n => r = t) /\ (old # n => Traded(r, t, S, a, n))
<1>1. CASE old = n
  BY <1>1 DEF SwapWindows
<1>2. CASE old # n
  <2> DEFINE b == GetWindowByNumber(t, n)
             a1 == GetWindowByNumber(t, old)
  <2>1. a \in Win /\ t.number \in [Win -> Int] /\ old \in Int /\ S \subseteq Win
    BY GoodLists DEF Tabs
  <2>2. /\ a1 \in S \cup {NULL} /\ (a1 # NULL => t.number[a1] = old)
        /\ (a1 = NULL => \A v \in S : t.number[v] # old)
    BY <2>1, GetIs
  <2>3. a1 = a
    BY <2>2, NumbersDiffer
  <2>4. /\ b \in S \cup {NULL} /\ (b # NULL => t.number[b] = n)
        /\ (b = NULL => \A v \in S : t.number[v] # n)
    BY GetIs
  <2>5. r = Exchanged(t, a, b, old, n)
    BY <1>2, <2>3 DEF SwapWindows
  <2> HIDE DEF a1, b
  <2> DEFINE t1 == Renumbered(t, a, n)
  <2>6. Good(t1, S \ {a}) /\ t1.number = [t.number EXCEPT ![a] = n] /\ Drops(t1, t, a)
    BY RenumberedIs
  <2> DEFINE u == ByUse(t)
             P == {v \in S : v = a \/ t.number[v] = n}
  <2>a. Raised(u, ByUse(t1), {})
    BY <2>6, RaisedNone, DropRaised
  <2>7. CASE b = NULL
    <3>1. r = Placed(t1, a)
      BY <2>5, <2>7 DEF Exchanged
    <3>2. Unique(t1, S \ {a}, a)
      BY <2>1, <2>4, <2>6, <2>7 DEF Unique
    <3>3. a \in Win \ (S \ {a}) /\ (S \ {a}) \cup {a} = S
      BY <2>1
    <3> HIDE DEF t1
    <3>4. Good(r, (S \ {a}) \cup {a}) /\ r.number = t1.number /\ Heads(r, t1, a)
      BY <2>6, <3>1, <3>2, <3>3, PlacedIs
    <3>5. Raised(u, ByUse(r), P)
      <4>1. Raised(u, ByUse(r), {} \cup {a})
        BY <2>6, <2>a, <3>3, <3>4, HeadsRaised
      <4>2. P = {} \cup {a}
        BY <2>4, <2>7
      <4> QED BY <4>1, <4>2
    <3>6. \A v \in S : r.number[v] = IF v = a THEN n ELSE IF t.number[v] = n THEN t.number[a] ELSE t.number[v]
      BY <2>1, <2>4, <2>6, <2>7, <3>4
    <3>7. Traded(r, t, S, a, n)
      BY <3>5, <3>6 DEF Traded
    <3> QED BY <1>2, <3>3, <3>4, <3>7
  <2>8. CASE b # NULL
    <3> DEFINE t2 == Renumbered(t1, b, old)
               t3 == Placed(t2, a)
    <3>1. r = Placed(t3, b)
      BY <2>5, <2>8 DEF Exchanged
    <3>2. b \in S \ {a} /\ b \in Win /\ t.number[b] = n
      BY <1>2, <2>1, <2>4, <2>8
    <3> HIDE DEF t1
    <3>3. Good(t2, (S \ {a}) \ {b}) /\ t2.number = [t1.number EXCEPT ![b] = old] /\ Drops(t2, t1, b)
      BY ONLY <2>1, <2>6, <3>2, RenumberedIs
    <3>4. t2.number[a] = n /\ t2.number[b] = old /\ \A v \in (S \ {a}) \ {b} : t2.number[v] = t.number[v]
      BY <2>1, <2>6, <3>2, <3>3
    <3>5. \A v \in (S \ {a}) \ {b} : t.number[v] # old /\ t.number[v] # n
      BY <3>2, NumbersDiffer
    <3> HIDE DEF t2
    <3>a. Raised(u, ByUse(t2), {})
      BY <2>6, <2>a, <3>3, DropRaised
    <3>6. Good(t3, ((S \ {a}) \ {b}) \cup {a}) /\ t3.number = t2.number /\ Heads(t3, t2, a)
      <4>1. a \in Win \ ((S \ {a}) \ {b})
        BY <2>1
      <4>2. Unique(t2, (S \ {a}) \ {b}, a)
        BY <3>4, <3>5 DEF Unique
      <4> QED BY ONLY <3>3, <4>1, <4>2, PlacedIs
    <3>7. ((S \ {a}) \ {b}) \cup {a} = S \ {b} /\ (S \ {b}) \cup {b} = S /\ b \in Win \ (S \ {b})
      BY <2>1, <3>2
    <3> HIDE DEF t3
    <3>8. Good(t3, S \ {b})
      BY <3>6, <3>7
    <3>9. Unique(t3, S \ {b}, b)
      BY <1>2, <3>2, <3>4, <3>5, <3>6 DEF Unique
    <3>10. Good(r, (S \ {b}) \cup {b}) /\ r.number = t3.number /\ Heads(r, t3, b)
      BY ONLY <3>1, <3>7, <3>8, <3>9, PlacedIs
    <3>11. Raised(u, ByUse(r), P)
      <4>1. a \in Win \ ((S \ {a}) \ {b})
        BY <2>1
      <4>2. Raised(u, ByUse(t3), {} \cup {a})
        BY ONLY <3>a, <3>3, <3>6, <4>1, HeadsRaised
      <4>3. Raised(u, ByUse(r), ({} \cup {a}) \cup {b})
        BY ONLY <4>2, <3>7, <3>8, <3>10, HeadsRaised
      <4>4. P = ({} \cup {a}) \cup {b}
        BY <3>2, <3>5
      <4> QED BY <4>3, <4>4
    <3>12. ASSUME NEW v \in S
           PROVE  r.number[v] = IF v = a THEN n ELSE IF t.number[v] = n THEN t.number[a] ELSE t.number[v]
      <4>1. r.number[v] = t2.number[v]
        BY <3>6, <3>10
      <4> QED BY <3>2, <3>4, <3>5, <4>1
    <3>13. Traded(r, t, S, a, n)
      BY <3>11, <3>12 DEF Traded
    <3> QED BY <1>2, <3>7, <3>10, <3>13
  <2> QED BY <2>7, <2>8
<1> QED BY <1>1, <1>2

-----------------------------------------------------------------------------
(* Steps that are repeated                                                 *)

\* g goes on from a by the steps of F, inside D.
Iterates(g, N, D, a, F) ==
  g \in [0..N -> D] /\ g[0] = a /\ \A k \in 1..N : g[k] = F[k][g[k - 1]]

LEMMA Iterated ==
  ASSUME NEW N \in Nat, NEW D, NEW a \in D, NEW F \in [1..N -> [D -> D]]
  PROVE  \E g : Iterates(g, N, D, a, F)
<1> DEFINE Upto(m) == \E g \in [0..m -> D] : g[0] = a /\ \A k \in 1..m : g[k] = F[k][g[k - 1]]
           G == {m \in 0..N : Upto(m)}
<1>1. 0 \in G
  <2>1. [k \in 0..0 |-> a] \in [0..0 -> D] /\ [k \in 0..0 |-> a][0] = a /\ 1..0 = {}
    OBVIOUS
  <2>2. Upto(0)
    BY <2>1
  <2> QED BY <2>2
<1>2. ASSUME NEW m \in 0..(N - 1), m \in G PROVE m + 1 \in G
  <2>1. PICK g \in [0..m -> D] : g[0] = a /\ \A k \in 1..m : g[k] = F[k][g[k - 1]]
    BY <1>2
  <2> DEFINE h == [k \in 0..(m + 1) |-> IF k = m + 1 THEN F[m + 1][g[m]] ELSE g[k]]
  <2>2. m + 1 \in 1..N /\ m \in 0..m /\ m + 1 \in 0..N /\ m \in Nat
    OBVIOUS
  <2>3. F[m + 1][g[m]] \in D
    <3>1. F[m + 1] \in [D -> D] /\ g[m] \in D
      BY <2>2
    <3> QED BY <3>1
  <2>4. h \in [0..(m + 1) -> D]
    <3>1. \A k \in 0..(m + 1) : k # m + 1 => k \in 0..m
      BY <2>2
    <3> QED BY <2>3, <3>1
  <2>5. h[0] = a
    BY <2>1, <2>2
  <2>6. ASSUME NEW k \in 1..(m + 1) PROVE h[k] = F[k][h[k - 1]]
    <3>1. CASE k = m + 1
      <4>1. h[k] = F[m + 1][g[m]] /\ k - 1 = m /\ h[m] = g[m]
        BY <2>2, <3>1
      <4> QED BY <3>1, <4>1
    <3>2. CASE k # m + 1
      <4>1. k \in 1..m /\ k - 1 \in 0..m /\ k \in 0..(m + 1) /\ k - 1 \in 0..(m + 1) /\ k - 1 # m + 1
        BY <2>2, <3>2
      <4>2. h[k] = g[k] /\ h[k - 1] = g[k - 1]
        BY <3>2, <4>1
      <4> QED BY <2>1, <4>1, <4>2
    <3> QED BY <3>1, <3>2
  <2> HIDE DEF h
  <2>7. Upto(m + 1)
    BY <2>4, <2>5, <2>6
  <2> QED BY <2>2, <2>7
<1> HIDE DEF Upto
<1>3. G = 0..N
  <2>1. G \in SUBSET (0..N)
    OBVIOUS
  <2> HIDE DEF G
  <2> QED BY <1>1, <1>2, <2>1, UpTo
<1>4. N \in G
  BY <1>3
<1> QED BY <1>4 DEF Upto, Iterates

\* What each step keeps is kept by all of them.
LEMMA Kept ==
  ASSUME NEW N \in Nat, NEW D, NEW f, f[0] \in D, \A k \in 1..N : f[k - 1] \in D => f[k] \in D
  PROVE  \A k \in 0..N : f[k] \in D
<1> DEFINE G == {m \in 0..N : f[m] \in D}
<1>1. 0 \in G
  OBVIOUS
<1>2. ASSUME NEW m \in 0..(N - 1), m \in G PROVE m + 1 \in G
  <2>1. m + 1 \in 1..N /\ (m + 1) - 1 = m /\ m + 1 \in 0..N
    OBVIOUS
  <2> QED BY <1>2, <2>1
<1>3. G = 0..N
  <2>1. G \in SUBSET (0..N)
    OBVIOUS
  <2> HIDE DEF G
  <2> QED BY <1>1, <1>2, <2>1, UpTo
<1> QED BY <1>3

LEMMA PairsAre ==
  ASSUME NEW n \in Nat, NEW k \in 1..(n * n)
  PROVE  Pairs(n)[k][1] \in 1..n /\ Pairs(n)[k][2] \in 1..n
<1>1. n * n \in Int /\ n > 0
  OBVIOUS
<1> DEFINE d == (k - 1) \div n
<1>2. d \in Int /\ (k - 1) % n \in 0..(n - 1) /\ k - 1 = n * d + ((k - 1) % n)
  BY <1>1
<1>3. d >= 0
  BY <1>1
<1>a. Pairs(n)[k] = <<d + 1, ((k - 1) % n) + 1>>
  BY DEF Pairs
<1> HIDE DEF d
<1>4. n * d < n * n
  BY <1>1, <1>2
<1>5. d < n
  <2>1. d >= n => n * d >= n * n
    BY <1>1, <1>2, <1>3
  <2> QED BY <1>1, <1>2, <1>4, <2>1
<1>6. d + 1 \in 1..n /\ ((k - 1) % n) + 1 \in 1..n
  BY <1>2, <1>3, <1>5
<1> QED BY <1>a, <1>6

\* The numbers of windows.
NumbersOf(t, S) == {t.number[w] : w \in S}

LEMMA TradedNumbers ==
  ASSUME NEW t, NEW S, Good(t, S), NEW a \in S, NEW b \in S, NEW n, n = t.number[b],
         NEW r, t.number[a] = n => r = t, t.number[a] # n => Traded(r, t, S, a, n)
  PROVE  NumbersOf(r, S) = NumbersOf(t, S)
<1>1. CASE t.number[a] = n
  BY <1>1
<1>2. CASE t.number[a] # n
  <2>1. \A v \in S : r.number[v] = IF v = a THEN n ELSE IF t.number[v] = n THEN t.number[a] ELSE t.number[v]
    BY <1>2 DEF Traded
  <2>2. \A v \in S : t.number[v] = n => v = b
    BY NumbersDiffer
  <2>3. r.number[a] = n /\ r.number[b] = t.number[a] /\ \A v \in S \ {a, b} : r.number[v] = t.number[v]
    BY <1>2, <2>1, <2>2
  <2>4. ASSUME NEW v \in S PROVE r.number[v] \in NumbersOf(t, S) /\ t.number[v] \in NumbersOf(r, S)
    BY <2>3 DEF NumbersOf
  <2> QED BY <2>4 DEF NumbersOf
<1> QED BY <1>1, <1>2

\* One comparison of sort.
LEMMA ComparedIs ==
  ASSUME NEW t, NEW S, Good(t, S), NEW title,
         NEW i \in 1..Cardinality(S), NEW j \in 1..Cardinality(S), NEW r, r = Compared(t, title, i, j)
  PROVE  Good(r, S) /\ NumbersOf(r, S) = NumbersOf(t, S)
<1> DEFINE q == ByNumber(t)
<1>1. q \in Seq(Win) /\ ToSet(q) = S /\ Len(q) = Cardinality(S) /\ t \in Tabs
  BY GoodLists
<1>2. r = IF title[q[j]] < title[q[i]] THEN SwapWindows(t, t.number[q[i]], t.number[q[j]]) ELSE t
  BY DEF Compared
<1> HIDE DEF q
<1>3. i \in DOMAIN q /\ j \in DOMAIN q
  BY <1>1
<1>4. q[i] \in S /\ q[j] \in Win
  BY <1>1, <1>3 DEF ToSet
<1>5. t.number[q[j]] \in Int
  BY <1>1, <1>4 DEF Tabs
<1> DEFINE n == t.number[q[j]]
           x == SwapWindows(t, t.number[q[i]], n)
<1>6. Good(x, S) /\ (t.number[q[i]] = n => x = t) /\ (t.number[q[i]] # n => Traded(x, t, S, q[i], n))
  BY <1>4, <1>5, SwapIs
<1>7. r = IF title[q[j]] < title[q[i]] THEN x ELSE t
  BY <1>2
<1>8. q[j] \in S /\ t.number[q[j]] = n
  BY <1>1, <1>3 DEF ToSet
<1> HIDE DEF x, n
<1>9. NumbersOf(x, S) = NumbersOf(t, S)
  BY <1>4, <1>6, <1>8, TradedNumbers
<1> QED BY <1>6, <1>7, <1>9

LEMMA SortedIs ==
  ASSUME NEW t, NEW S, Good(t, S), NEW title, NEW n, n = Cardinality(S), NEW r, r = SortedBy(t, title, n)
  PROVE  Good(r, S) /\ NumbersOf(r, S) = NumbersOf(t, S)
<1>1. n \in Nat
  <2>1. ByUse(t) \in Seq(Win) /\ Len(ByUse(t)) = n
    BY GoodLists
  <2> QED BY <2>1
<1> DEFINE N == n * n
<1>2. N \in Nat
  BY <1>1
<1> DEFINE D == {x \in Tabs : Good(x, S) /\ NumbersOf(x, S) = NumbersOf(t, S)}
           Step(k, x) == LET p == Pairs(n)[k] IN IF p[1] < p[2] THEN Compared(x, title, p[1], p[2]) ELSE x
           F == [k \in 1..N |-> [x \in D |-> Step(k, x)]]
           f == CHOOSE f : f = [k \in 0..N |-> IF k = 0 THEN t ELSE Step(k, f[k - 1])]
<1>3. ASSUME NEW k \in 1..N, NEW x \in D PROVE Step(k, x) \in D
  <2> DEFINE p == Pairs(n)[k]
  <2>1. p[1] \in 1..n /\ p[2] \in 1..n
    BY <1>1, PairsAre
  <2> HIDE DEF p
  <2>2. Good(x, S) /\ NumbersOf(x, S) = NumbersOf(t, S)
    OBVIOUS
  <2>3. /\ Good(Compared(x, title, p[1], p[2]), S)
        /\ NumbersOf(Compared(x, title, p[1], p[2]), S) = NumbersOf(x, S)
    BY <2>1, <2>2, ComparedIs
  <2>4. Compared(x, title, p[1], p[2]) \in D
    BY <2>2, <2>3 DEF Good
  <2> HIDE DEF D
  <2> QED BY <2>4 DEF p
<1>4. t \in D
  BY DEF Good
<1> HIDE DEF D, Step, N
<1>a. PICK g : Iterates(g, N, D, t, F)
  <2>1. F \in [1..N -> [D -> D]]
    BY <1>3
  <2> HIDE DEF F
  <2> QED BY ONLY <1>2, <1>4, <2>1, Iterated
<1>5. g \in [0..N -> D] /\ g[0] = t /\ \A k \in 1..N : g[k] = F[k][g[k - 1]]
  <2> HIDE DEF F
  <2> QED BY <1>a DEF Iterates
<1>6. g = [k \in 0..N |-> IF k = 0 THEN t ELSE Step(k, g[k - 1])]
  <2>1. ASSUME NEW k \in 0..N PROVE g[k] = IF k = 0 THEN t ELSE Step(k, g[k - 1])
    <3>1. k # 0 => k \in 1..N /\ k - 1 \in 0..N
      BY <1>2
    <3>2. \A m \in 1..N, x \in D : F[m][x] = Step(m, x)
      OBVIOUS
    <3> HIDE DEF F
    <3>3. k # 0 => g[k - 1] \in D
      BY <1>5, <3>1
    <3>4. CASE k = 0
      BY <1>5, <3>4
    <3>5. CASE k # 0
      <4>1. k \in 1..N /\ g[k - 1] \in D
        BY <3>1, <3>3, <3>5
      <4>2. g[k] = F[k][g[k - 1]]
        BY <1>5, <4>1
      <4> QED BY <3>2, <3>5, <4>1, <4>2
    <3> QED BY <3>4, <3>5
  <2> QED BY <1>5, <2>1
<1>7. f = [k \in 0..N |-> IF k = 0 THEN t ELSE Step(k, f[k - 1])]
  BY <1>6
<1>8. r = f[N]
  BY DEF SortedBy, Step, N
<1> HIDE DEF f
<1>9. \A k \in 0..N : f[k] \in D
  <2>1. f[0] \in D
    BY <1>2, <1>4, <1>7
  <2>2. ASSUME NEW k \in 1..N, f[k - 1] \in D PROVE f[k] \in D
    <3>1. k \in 0..N /\ k # 0
      BY <1>2
    <3>2. f[k] = Step(k, f[k - 1])
      BY <1>7, <3>1
    <3> QED BY <1>3, <2>2, <3>2
  <2> QED BY <1>2, <2>1, <2>2, Kept
<1>10. r \in D
  BY <1>2, <1>8, <1>9
<1> QED BY <1>10 DEF D

\* The numbers closed up.
LEMMA CollapsedIs ==
  ASSUME NEW t, NEW S, Good(t, S), NEW N, N = [w \in Win |-> IF w \in S THEN Place(ByNumber(t), w) - 1 ELSE 0],
         NEW r, r = [t EXCEPT !.number = N]
  PROVE  Good(r, S)
<1> DEFINE q == ByNumber(t)
           u == ByUse(t)
<1>1. /\ q \in Seq(Win) /\ Distinct(q) /\ ToSet(q) = S /\ Numbered(t, q) /\ t \in Tabs /\ S \subseteq Win
      /\ Recent(t, u) /\ ToSet(u) = S
  BY GoodLists
<1>2. \A w \in Win : N[w] = IF w \in S THEN Place(q, w) - 1 ELSE 0
  OBVIOUS
<1>a. N = [w \in Win |-> N[w]]
  OBVIOUS
<1> HIDE DEF q, u
<1>3. Len(q) \in Nat /\ DOMAIN q = 1..Len(q) /\ \A i \in 1..Len(q) : q[i] \in S /\ q[i] \in Win
  BY <1>1, ListFacts DEF ToSet
<1>4. ASSUME NEW i \in 1..Len(q) PROVE Place(q, q[i]) = i
  BY <1>1, <1>3 DEF Place, Distinct
<1>5. \A i \in 1..Len(q) : N[q[i]] = i - 1
  BY <1>2, <1>3, <1>4
<1>6. ASSUME NEW w \in Win PROVE N[w] \in Int
  <2>1. CASE w \in S
    <3>1. PICK i \in 1..Len(q) : q[i] = w
      BY <1>1, <1>3, <2>1 DEF ToSet
    <3> QED BY <1>5, <3>1
  <2>2. CASE w \notin S
    BY <1>2, <2>2
  <2> QED BY <2>1, <2>2
<1>7. N \in [Win -> Int]
  BY <1>a, <1>6
<1>b. r = [t EXCEPT !.number = N]
  OBVIOUS
<1>8. /\ r \in Tabs /\ r.number = N /\ r.mru = t.mru /\ r.prevmru = t.prevmru
      /\ r.first = t.first /\ r.last = t.last /\ r.next = t.next /\ r.prev = t.prev
  <2>1. t \in Tabs
    BY <1>1
  <2> QED BY ONLY <1>b, <1>7, <2>1 DEF Tabs
<1>9. Numbered(r, q) /\ Recent(r, u)
  BY <1>1, <1>8 DEF Numbered, Recent
<1>10. Rising(r, q)
  <2>1. ASSUME NEW i \in 1..Len(q), NEW j \in 1..Len(q), i < j PROVE N[q[i]] < N[q[j]]
    <3>1. N[q[i]] = i - 1 /\ N[q[j]] = j - 1
      BY <1>5
    <3>2. i \in Int /\ j \in Int
      BY <1>3
    <3> QED BY ONLY <2>1, <3>1, <3>2
  <2> QED BY <1>3, <1>8, <2>1 DEF Rising
<1> QED BY <1>1, <1>8, <1>9, <1>10 DEF Good

LEMMA PlacesOf ==
  ASSUME NEW t, NEW S, Good(t, S), NEW w \in S
  PROVE  Place(ByNumber(t), w) \in DOMAIN ByNumber(t) /\ ByNumber(t)[Place(ByNumber(t), w)] = w
<1>1. ToSet(ByNumber(t)) = S
  BY GoodLists
<1>2. \E i \in DOMAIN ByNumber(t) : ByNumber(t)[i] = w
  BY <1>1 DEF ToSet
<1> QED BY <1>2 DEF Place

\* A new window in the table.
\* p is with the windows of S, has the number n and is the one used last.
Enlisted(r, t, p, n, S) ==
  Good(r, S \cup {p}) /\ r.number = [t.number EXCEPT ![p] = n] /\ r.mru = p /\ Heads(r, t, p)

LEMMA ListedIs ==
  ASSUME NEW s, NEW t, t = s.tab, NEW S, Good(t, S), NEW p \in Win \ S, NEW n \in Int,
         \A v \in S : t.number[v] # n, NEW r, r = Listed(s, p, n)
  PROVE  Enlisted(r, t, p, n, S)
<1> DEFINE q == ByNumber(t)
           u == ByUse(t)
           F == {i \in DOMAIN q : t.number[q[i]] > n}
           win == IF F = {} THEN NULL ELSE q[Min(F)]
           t1 == [t EXCEPT !.number[p] = n]
<1>1. /\ q \in Seq(Win) /\ Distinct(q) /\ ToSet(q) = S /\ Numbered(t, q) /\ Rising(t, q) /\ t \in Tabs
      /\ Recent(t, u) /\ ToSet(u) = S
  BY GoodLists
<1>2. r = add_window_to_list(t1, p, win)
  BY DEF Listed, FirstOf
<1>3. t.number \in [Win -> Int]
  BY <1>1 DEF Tabs
<1>4. /\ t1 \in Tabs /\ t1.number = [t.number EXCEPT ![p] = n] /\ t1.mru = t.mru /\ t1.prevmru = t.prevmru
      /\ t1.first = t.first /\ t1.last = t.last /\ t1.next = t.next /\ t1.prev = t.prev
  <2> DEFINE m == [t.number EXCEPT ![p] = n]
  <2>1. m \in [Win -> Int]
    BY <1>3
  <2>2. t \in Tabs /\ t1 = [t EXCEPT !.number = m]
    BY <1>1
  <2> HIDE DEF t1, m
  <2>3. /\ t1 \in Tabs /\ t1.number = m /\ t1.mru = t.mru /\ t1.prevmru = t.prevmru
        /\ t1.first = t.first /\ t1.last = t.last /\ t1.next = t.next /\ t1.prev = t.prev
    BY ONLY <2>1, <2>2 DEF Tabs
  <2> QED BY <2>3 DEF m
<1> HIDE DEF t1, q, u
<1>5. Numbered(t1, q) /\ Recent(t1, u)
  BY <1>1, <1>4 DEF Numbered, Recent
<1>6. Len(q) \in Nat /\ DOMAIN q = 1..Len(q) /\ \A i \in 1..Len(q) : q[i] \in S /\ q[i] \in Win /\ q[i] # p
  BY <1>1, ListFacts DEF ToSet
<1>7. \A i \in 1..Len(q) : /\ t1.number[q[i]] = t.number[q[i]] /\ t.number[q[i]] \in Int
                           /\ t.number[q[i]] # n
  BY <1>3, <1>4, <1>6
<1>8. t1.number[p] = n
  BY <1>3, <1>4
<1>9. Rising(t1, q)
  BY <1>1, <1>6, <1>7 DEF Rising
<1>10. PICK k \in 1..(Len(q) + 1) :
         /\ win = (IF k = Len(q) + 1 THEN NULL ELSE q[k])
         /\ \A i \in F : i >= k
         /\ k # Len(q) + 1 => k \in F
  <2> HIDE DEF F
  <2>1. F \in SUBSET (DOMAIN q)
    BY DEF F
  <2> QED BY <1>1, <2>1, FirstPlace
<1>11. ASSUME NEW i \in 1..Len(q), i < k PROVE t.number[q[i]] < n
  <2>1. i \notin F
    <3> HIDE DEF F
    <3> SUFFICES ASSUME i \in F PROVE FALSE
      OBVIOUS
    <3>1. i >= k /\ i \in Int /\ k \in Int
      BY <1>6, <1>10
    <3> QED BY <1>11, <3>1
  <2>2. ~(t.number[q[i]] > n)
    BY <1>6, <2>1
  <2> QED BY <1>7, <2>2
<1>12. ASSUME NEW i \in 1..Len(q), i >= k PROVE t.number[q[i]] > n
  <2>1. k # Len(q) + 1 /\ k \in 1..Len(q)
    BY <1>6, <1>12
  <2>2. k \in F
    BY <1>10, <2>1
  <2>3. t.number[q[k]] > n
    BY <2>2
  <2>4. i = k \/ t.number[q[k]] < t.number[q[i]]
    BY <1>1, <1>6, <1>12, <2>1 DEF Rising
  <2>5. t.number[q[k]] \in Int /\ t.number[q[i]] \in Int
    BY <1>7, <2>1
  <2> QED BY <2>3, <2>4, <2>5
<1> HIDE DEF F, win
<1>13. Fits(t1, q, k, p)
  BY <1>7, <1>8, <1>11, <1>12 DEF Fits
<1>14. win = Here(q, k) /\ k \in 1..(Len(q) + 1) /\ p \in Win /\ p \notin ToSet(q) /\ ToSet(q) = ToSet(u) /\ t1 \in Tabs
  BY <1>1, <1>4, <1>10 DEF Here
<1>15. Good(r, ToSet(q) \cup {p}) /\ r.number = t1.number /\ r.mru = p /\ ByUse(r) = Insert(u, 1, p)
  <2>1. Added(r, t1, q, u, p)
    BY ONLY <1>2, <1>5, <1>9, <1>13, <1>14, AddAt
  <2> QED BY <2>1 DEF Added
<1> QED BY <1>1, <1>4, <1>15 DEF Heads, Enlisted, u

\* There are more numbers than windows.
LEMMA FreeNumberIs ==
  ASSUME NEW start \in Nat, Live \subseteq Win
  PROVE  FreeNumber(start) \in Nat /\ \A w \in Live : tab.number[w] # FreeNumber(start)
<1> DEFINE C == Cardinality(Win)
           R == start..(start + C)
           M == {n \in R : \A w \in Live : tab.number[w] # n}
           f == [n \in R |-> CHOOSE w \in Win : tab.number[w] = n]
<1>1. C \in Nat /\ IsFiniteSet(Win)
  BY FS_CardinalityType
<1>2. IsFiniteSet(R) /\ Cardinality(R) = C + 1 /\ R \subseteq Nat
  <2>1. start \in Int /\ start + C \in Int /\ ~(start > start + C)
    BY <1>1
  <2>2. /\ IsFiniteSet(start..(start + C))
        /\ Cardinality(start..(start + C)) = IF start > start + C THEN 0 ELSE (start + C) - start + 1
    BY <2>1, FS_Interval
  <2> QED BY <1>1, <2>1, <2>2
<1> HIDE DEF C, R
<1>3. M # {}
  <2> SUFFICES ASSUME M = {} PROVE FALSE
    OBVIOUS
  <2>1. \A n \in R : f[n] \in Win /\ tab.number[f[n]] = n
    <3>1. \A n \in R : \E w \in Win : tab.number[w] = n
      OBVIOUS
    <3> QED BY <3>1
  <2>2. f \in [R -> Win]
    <3> QED BY <2>1
  <2> HIDE DEF f
  <2>3. \E x, y \in R : x # y /\ f[x] = f[y]
    <3>1. Cardinality(Win) < Cardinality(R)
      BY <1>1, <1>2 DEF C
    <3>2. IsFiniteSet(R) /\ IsFiniteSet(Win)
      BY <1>1, <1>2
    <3> QED BY ONLY <2>2, <3>1, <3>2, FS_PigeonHole
  <2> QED BY <2>1, <2>3
<1>4. M \in SUBSET Nat
  BY <1>2
<1>5. FreeNumber(start) = Min(M)
  BY DEF FreeNumber, C, R
<1>6. Min(M) \in M
  <2> HIDE DEF M
  <2> QED BY <1>3, <1>4, MinIsLeast
<1> QED BY <1>2, <1>5, <1>6

\* No windows at all.
LEMMA NothingIs == Good(Nothing.tab, {})
<1> DEFINE t == Nothing.tab
<1>1. /\ t \in Tabs /\ t.first = NULL /\ t.last = NULL /\ t.mru = NULL
  BY DEF Nothing, Tabs
<1>2. /\ <<>> \in Seq(Win) /\ Distinct(<<>>) /\ ToSet(<<>>) = {} /\ HeadOf(<<>>) = NULL /\ EndOf(<<>>) = NULL
  BY DEF Distinct, ToSet, HeadOf, EndOf
<1>3. DOMAIN <<>> = {}
  OBVIOUS
<1> HIDE DEF t
<1>4. Numbered(t, <<>>) /\ Recent(t, <<>>) /\ Rising(t, <<>>)
  BY <1>1, <1>2, <1>3 DEF Numbered, Recent, Rising
<1> QED BY <1>1, <1>2, <1>4 DEF Good, t
\* The place of a window on the list by number: those with lower numbers are ahead.
LEMMA RankIs ==
  ASSUME NEW t, NEW S, Good(t, S), NEW w \in S
  PROVE  Place(ByNumber(t), w) - 1 = Cardinality({v \in S : t.number[v] < t.number[w]})
<1> DEFINE q == ByNumber(t)
           k == Place(q, w)
<1>1. q \in Seq(Win) /\ Distinct(q) /\ ToSet(q) = S /\ Rising(t, q) /\ t \in Tabs /\ S \subseteq Win
  BY GoodLists
<1>2. k \in DOMAIN q /\ q[k] = w
  BY PlacesOf
<1> HIDE DEF q, k
<1>3. Len(q) \in Nat /\ DOMAIN q = 1..Len(q) /\ k \in 1..Len(q) /\ \A i \in 1..Len(q) : q[i] \in Win
  BY <1>1, <1>2
<1> DEFINE c == [i \in 1..(k - 1) |-> q[i]]
<1>4. c \in Seq(Win) /\ Len(c) = k - 1 /\ DOMAIN c = 1..(k - 1)
  <2>1. k - 1 \in Nat /\ \A i \in 1..(k - 1) : i \in 1..Len(q)
    BY <1>3
  <2> QED BY <1>3, <2>1
<1>5. \A i \in 1..(k - 1) : c[i] = q[i] /\ i \in 1..Len(q)
  BY <1>3
<1> HIDE DEF c
<1>6. Distinct(c)
  BY <1>1, <1>3, <1>4, <1>5 DEF Distinct
<1>7. \A v \in S : t.number[v] \in Int
  BY <1>1 DEF Tabs
<1>8. ASSUME NEW v \in S PROVE v \in ToSet(c) <=> t.number[v] < t.number[w]
  <2>1. PICK i \in 1..Len(q) : q[i] = v
    BY <1>1, <1>3 DEF ToSet
  <2>2. CASE i < k
    <3>1. t.number[v] < t.number[w]
      BY <1>1, <1>2, <1>3, <2>1, <2>2 DEF Rising
    <3>2. i \in 1..(k - 1)
      BY <1>3, <2>1, <2>2
    <3>3. v \in ToSet(c)
      BY <1>4, <1>5, <2>1, <3>2 DEF ToSet
    <3> QED BY <3>1, <3>3
  <2>3. CASE ~(i < k)
    <3>1. i = k \/ k < i
      BY <1>3, <2>1, <2>3
    <3>2. v = w \/ t.number[w] < t.number[v]
      BY <1>1, <1>2, <1>3, <2>1, <3>1 DEF Rising
    <3>3. ~(t.number[v] < t.number[w])
      BY <1>7, <3>2
    <3>4. ASSUME v \in ToSet(c) PROVE FALSE
      <4>1. PICK j \in 1..(k - 1) : q[j] = v
        BY <1>4, <1>5, <3>4 DEF ToSet
      <4>2. j = i
        BY <1>1, <1>3, <1>5, <2>1, <4>1 DEF Distinct
      <4> QED BY <1>3, <2>3, <4>1, <4>2
    <3> QED BY <3>3, <3>4
  <2> QED BY <2>2, <2>3
<1>9. ToSet(c) \subseteq S
  BY <1>1, <1>3, <1>4, <1>5 DEF ToSet
<1>10. ToSet(c) = {v \in S : t.number[v] < t.number[w]}
  BY <1>8, <1>9
<1>11. Cardinality(ToSet(c)) = k - 1
  BY <1>4, <1>6, LengthBound
<1> QED BY <1>10, <1>11 DEF q, k


-----------------------------------------------------------------------------
(* States as records                                                       *)

Disps == [cvs : Seq(Win \cup {NULL}), focus : Nat, fore : Win \cup {NULL},
          other : Win \cup {NULL}, layout : Layout \cup {NULL}]

Lays == [cvs : Seq(Win \cup {NULL}), focus : Nat, autosave : BOOLEAN]

Memories == [last : Layout \cup {NULL}, attach : Layout \cup {NULL, "last"}, win : Int, other : Int]

States ==
  [tab : Tabs, kind : [Win -> {"free", "pty", "zombie", "group"}], group : [Win -> Win \cup {NULL}],
   disp : [Display -> Disps], displays : Seq(Display), fore : Win \cup {NULL},
   lay : [Layout -> Lays], layouts : Seq(Layout), memory : Memories, ghosts : SUBSET Win]

\* s with other lists, displays and window to work on; the rest is s's.
With3(s, t, D, f) ==
  [tab |-> t, kind |-> s.kind, group |-> s.group, disp |-> D, displays |-> s.displays, fore |-> f,
   lay |-> s.lay, layouts |-> s.layouts, memory |-> s.memory, ghosts |-> s.ghosts]

LEMMA With3Is ==
  ASSUME NEW s \in States, NEW t \in Tabs, NEW D \in [Display -> Disps], NEW f \in Win \cup {NULL},
         NEW r, r = With3(s, t, D, f)
  PROVE  /\ r \in States /\ r.tab = t /\ r.disp = D /\ r.fore = f
         /\ r.kind = s.kind /\ r.group = s.group /\ r.displays = s.displays /\ r.lay = s.lay
         /\ r.layouts = s.layouts /\ r.memory = s.memory /\ r.ghosts = s.ghosts
<1>1. /\ s.kind \in [Win -> {"free", "pty", "zombie", "group"}] /\ s.group \in [Win -> Win \cup {NULL}]
      /\ s.displays \in Seq(Display) /\ s.lay \in [Layout -> Lays]
      /\ s.layouts \in Seq(Layout) /\ s.memory \in Memories /\ s.ghosts \in SUBSET Win
  BY DEF States
<1> QED BY <1>1 DEF States, With3

Rec(t, k, g, D, ds, f, ly, ls, m, h) ==
  [tab |-> t, kind |-> k, group |-> g, disp |-> D, displays |-> ds, fore |-> f,
   lay |-> ly, layouts |-> ls, memory |-> m, ghosts |-> h]

LEMMA RecIs ==
  ASSUME NEW t \in Tabs, NEW k \in [Win -> {"free", "pty", "zombie", "group"}],
         NEW g \in [Win -> Win \cup {NULL}], NEW D \in [Display -> Disps], NEW ds \in Seq(Display),
         NEW f \in Win \cup {NULL}, NEW ly \in [Layout -> Lays], NEW ls \in Seq(Layout),
         NEW m \in Memories, NEW h \in SUBSET Win, NEW r, r = Rec(t, k, g, D, ds, f, ly, ls, m, h)
  PROVE  /\ r \in States /\ r.tab = t /\ r.kind = k /\ r.group = g /\ r.disp = D /\ r.displays = ds
         /\ r.fore = f /\ r.lay = ly /\ r.layouts = ls /\ r.memory = m /\ r.ghosts = h
  BY DEF States, Rec

LEMMA StateFields ==
  ASSUME NEW s \in States
  PROVE  /\ s = Rec(s.tab, s.kind, s.group, s.disp, s.displays, s.fore, s.lay, s.layouts, s.memory, s.ghosts)
         /\ s.tab \in Tabs /\ s.kind \in [Win -> {"free", "pty", "zombie", "group"}]
         /\ s.group \in [Win -> Win \cup {NULL}] /\ s.disp \in [Display -> Disps]
         /\ s.displays \in Seq(Display) /\ s.fore \in Win \cup {NULL} /\ s.lay \in [Layout -> Lays]
         /\ s.layouts \in Seq(Layout) /\ s.memory \in Memories /\ s.ghosts \in SUBSET Win
  BY DEF States, Rec

\* The record of a display.
View(v, n, f, o, l) == [cvs |-> v, focus |-> n, fore |-> f, other |-> o, layout |-> l]

LEMMA ViewIs ==
  ASSUME NEW c \in Disps, NEW x
  PROVE  /\ [c EXCEPT !.fore = x] = View(c.cvs, c.focus, x, c.other, c.layout)
         /\ [c EXCEPT !.other = x] = View(c.cvs, c.focus, c.fore, x, c.layout)
         /\ [c EXCEPT !.cvs = x] = View(x, c.focus, c.fore, c.other, c.layout)
         /\ [c EXCEPT !.focus = x] = View(c.cvs, x, c.fore, c.other, c.layout)
         /\ [c EXCEPT !.layout = x] = View(c.cvs, c.focus, c.fore, c.other, x)
         /\ c = View(c.cvs, c.focus, c.fore, c.other, c.layout)
  BY DEF Disps, View

LEMMA ViewType ==
  ASSUME NEW v \in Seq(Win \cup {NULL}), NEW n \in Nat, NEW f \in Win \cup {NULL},
         NEW o \in Win \cup {NULL}, NEW l \in Layout \cup {NULL}, NEW c, c = View(v, n, f, o, l)
  PROVE  /\ c \in Disps /\ c.cvs = v /\ c.focus = n /\ c.fore = f /\ c.other = o /\ c.layout = l
  BY DEF Disps, View

LEMMA ViewTwo ==
  ASSUME NEW c \in Disps, NEW x, NEW y
  PROVE  /\ [c EXCEPT !.other = x, !.fore = y] = View(c.cvs, c.focus, y, x, c.layout)
         /\ [c EXCEPT !.cvs = x, !.other = y] = View(x, c.focus, c.fore, y, c.layout)
<1>1. [c EXCEPT !.other = x, !.fore = y] = [[c EXCEPT !.other = x] EXCEPT !.fore = y]
  OBVIOUS
<1>2. [c EXCEPT !.other = x] = View(c.cvs, c.focus, c.fore, x, c.layout)
  BY ViewIs
<1>3. [View(c.cvs, c.focus, c.fore, x, c.layout) EXCEPT !.fore = y] = View(c.cvs, c.focus, y, x, c.layout)
  BY DEF View
<1>4. [c EXCEPT !.cvs = x, !.other = y] = [[c EXCEPT !.cvs = x] EXCEPT !.other = y]
  OBVIOUS
<1>5. [c EXCEPT !.cvs = x] = View(x, c.focus, c.fore, c.other, c.layout)
  BY ViewIs
<1>6. [View(x, c.focus, c.fore, c.other, c.layout) EXCEPT !.other = y] = View(x, c.focus, c.fore, y, c.layout)
  BY DEF View
<1> QED BY <1>1, <1>2, <1>3, <1>4, <1>5, <1>6

\* s with another record for the display d.
Redone(s, d, c, t, f) == With3(s, t, [s.disp EXCEPT ![d] = c], f)

LEMMA RedoneIs ==
  ASSUME NEW s \in States, NEW d \in Display, NEW c \in Disps, NEW t \in Tabs, NEW f \in Win \cup {NULL},
         NEW r, r = Redone(s, d, c, t, f)
  PROVE  /\ r \in States /\ r.tab = t /\ r.fore = f /\ r.disp[d] = c
         /\ \A e \in Display : e # d => r.disp[e] = s.disp[e]
         /\ r.kind = s.kind /\ r.group = s.group /\ r.displays = s.displays /\ r.lay = s.lay
         /\ r.layouts = s.layouts /\ r.memory = s.memory /\ r.ghosts = s.ghosts
<1> DEFINE D == [s.disp EXCEPT ![d] = c]
<1>1. s.disp \in [Display -> Disps]
  BY DEF States
<1>2. D \in [Display -> Disps] /\ D[d] = c /\ \A e \in Display : e # d => D[e] = s.disp[e]
  BY <1>1
<1>3. r = With3(s, t, D, f)
  BY DEF Redone
<1> HIDE DEF D
<1> QED BY <1>2, <1>3, With3Is

\* Twice.
LEMMA RedoneTwice ==
  ASSUME NEW s \in States, NEW d \in Display, NEW c, NEW t, NEW f, NEW e, NEW u, NEW g
  PROVE  Redone(Redone(s, d, c, t, f), d, e, u, g) = Redone(s, d, e, u, g)
<1>1. s.disp \in [Display -> Disps]
  BY DEF States
<1>2. [[s.disp EXCEPT ![d] = c] EXCEPT ![d] = e] = [s.disp EXCEPT ![d] = e]
  BY <1>1
<1> QED BY <1>2 DEF Redone, With3

LEMMA SetIs ==
  ASSUME NEW s \in States, NEW d \in Display, NEW x
  PROVE  /\ [s EXCEPT !.disp[d] = x] = Redone(s, d, x, s.tab, s.fore)
         /\ [s EXCEPT !.disp = [s.disp EXCEPT ![d] = x]] = Redone(s, d, x, s.tab, s.fore)
<1>1. [s EXCEPT !.disp[d] = x] = [s EXCEPT !.disp = [s.disp EXCEPT ![d] = x]]
  OBVIOUS
<1>2. \A D : [s EXCEPT !.disp = D] = With3(s, s.tab, D, s.fore)
  <2>1. s = Rec(s.tab, s.kind, s.group, s.disp, s.displays, s.fore, s.lay, s.layouts, s.memory, s.ghosts)
    BY StateFields
  <2> QED BY ONLY <2>1 DEF Rec, With3
<1>3. [s EXCEPT !.disp = [s.disp EXCEPT ![d] = x]] = Redone(s, d, x, s.tab, s.fore)
  BY <1>2 DEF Redone
<1> QED BY <1>1, <1>3

\* The display that SetCanvasWindow leaves.
Left(s, d, i) ==
  LET c == s.disp[d]
      b == c.cvs[i] # NULL /\ i = c.focus
  IN View(c.cvs, c.focus, IF b THEN NULL ELSE c.fore, IF b THEN s.fore ELSE c.other, c.layout)

LEMMA LeaveIs ==
  ASSUME NEW s \in States, NEW d \in Display, NEW i
  PROVE  Leave(s, d, i) = Redone(s, d, Left(s, d, i), s.tab, s.fore) /\ Left(s, d, i) \in Disps
<1> DEFINE c == s.disp[d]
           b == c.cvs[i] # NULL /\ i = c.focus
<1>1. c \in Disps
  BY DEF States
<1>2. CASE b
  <2> DEFINE c1 == View(c.cvs, c.focus, NULL, s.fore, c.layout)
  <2>0. Left(s, d, i) = c1
    BY <1>2 DEF Left
  <2>1. [s EXCEPT !.disp[d].other = s.fore, !.disp[d].fore = NULL]
        = [s EXCEPT !.disp = [s.disp EXCEPT ![d] = [c EXCEPT !.other = s.fore, !.fore = NULL]]]
    <3> DEFINE e == [c EXCEPT !.other = s.fore]
               D == [s.disp EXCEPT ![d] = e]
               g == [e EXCEPT !.fore = NULL]
               E == [D EXCEPT ![d] = g]
               y == [s EXCEPT !.disp = D]
    <3>1. s = Rec(s.tab, s.kind, s.group, s.disp, s.displays, s.fore, s.lay, s.layouts, s.memory, s.ghosts)
          /\ s.disp \in [Display -> Disps]
      BY StateFields
    <3>2. D[d] = e /\ E = [s.disp EXCEPT ![d] = g]
      BY <3>1
    <3>3. [s EXCEPT !.disp[d].other = s.fore] = y
      OBVIOUS
    <3>4. [s EXCEPT !.disp[d].other = s.fore, !.disp[d].fore = NULL]
          = [y EXCEPT !.disp = [y.disp EXCEPT ![d] = [y.disp[d] EXCEPT !.fore = NULL]]]
      BY <3>3
    <3>5. y = [s EXCEPT !.disp = D]
      OBVIOUS
    <3>6. g = [e EXCEPT !.fore = NULL] /\ E = [D EXCEPT ![d] = g]
      OBVIOUS
    <3>7. [c EXCEPT !.other = s.fore, !.fore = NULL] = g
      OBVIOUS
    <3> HIDE DEF c, e, D, g, E, y
    <3>8. y.disp = D
      BY ONLY <3>1, <3>5 DEF Rec
    <3>9. [y EXCEPT !.disp = E] = [s EXCEPT !.disp = E]
      BY ONLY <3>1, <3>5 DEF Rec
    <3>10. [s EXCEPT !.disp[d].other = s.fore, !.disp[d].fore = NULL] = [y EXCEPT !.disp = E]
      BY <3>2, <3>4, <3>6, <3>8
    <3> QED BY <3>2, <3>7, <3>9, <3>10
  <2>2. [c EXCEPT !.other = s.fore, !.fore = NULL] = c1
    <3> HIDE DEF c
    <3> QED BY <1>1, ViewTwo
  <2>3. Leave(s, d, i) = [s EXCEPT !.disp = [s.disp EXCEPT ![d] = c1]]
    BY <1>2, <2>1, <2>2 DEF Leave
  <2>4. c1 \in Disps
    BY <1>1 DEF Disps, View, States
  <2> HIDE DEF c, c1
  <2>5. [s EXCEPT !.disp = [s.disp EXCEPT ![d] = c1]] = Redone(s, d, c1, s.tab, s.fore)
    BY SetIs
  <2> QED BY <2>0, <2>3, <2>4, <2>5
<1>3. CASE ~b
  <2>0. Left(s, d, i) = View(c.cvs, c.focus, c.fore, c.other, c.layout)
    BY <1>3 DEF Left
  <2>1. Left(s, d, i) = c
    BY <1>1, <2>0, ViewIs
  <2>2. Leave(s, d, i) = s
    BY <1>3 DEF Leave
  <2>3. s = Redone(s, d, c, s.tab, s.fore)
    <3>1. [s.disp EXCEPT ![d] = c] = s.disp
      BY DEF States
    <3>2. s = With3(s, s.tab, s.disp, s.fore)
      <4>1. s = Rec(s.tab, s.kind, s.group, s.disp, s.displays, s.fore, s.lay, s.layouts, s.memory, s.ghosts)
        BY StateFields
      <4> QED BY ONLY <4>1 DEF Rec, With3
    <3> QED BY <3>1, <3>2 DEF Redone
  <2> QED BY <1>1, <2>1, <2>2, <2>3
<1> QED BY <1>2, <1>3

\* The display that shows w in region i.
Showing(s, d, i, w) ==
  LET c == s.disp[d]
  IN View([c.cvs EXCEPT ![i] = w], c.focus, c.fore,
          IF w # NULL /\ c.other = w THEN s.tab.prevmru[w] ELSE c.other, c.layout)

LEMMA ShowIs ==
  ASSUME NEW s \in States, NEW d \in Display, NEW i, NEW w \in Win \cup {NULL}
  PROVE  Show(s, d, i, w) = Redone(s, d, Showing(s, d, i, w), s.tab, s.fore) /\ Showing(s, d, i, w) \in Disps
<1> DEFINE c == s.disp[d]
           v == [c.cvs EXCEPT ![i] = w]
           o == IF w # NULL /\ c.other = w THEN s.tab.prevmru[w] ELSE c.other
           c1 == View(v, c.focus, c.fore, o, c.layout)
<1>1. c \in Disps
  BY DEF States
<1>2. o \in Win \cup {NULL}
  <2>1. c.other \in Win \cup {NULL}
    BY <1>1 DEF Disps
  <2>2. w # NULL => s.tab.prevmru[w] \in Win \cup {NULL}
    BY DEF States, Tabs
  <2> QED BY <2>1, <2>2
<1>3. v \in Seq(Win \cup {NULL})
  <2>1. c.cvs \in Seq(Win \cup {NULL})
    BY <1>1 DEF Disps
  <2> HIDE DEF c
  <2>2. Len(c.cvs) \in Nat /\ c.cvs \in [1..Len(c.cvs) -> Win \cup {NULL}]
    BY <2>1
  <2>3. v \in [1..Len(c.cvs) -> Win \cup {NULL}]
    BY <2>2
  <2> HIDE DEF v
  <2> QED BY <2>2, <2>3
<1>4. Show(s, d, i, w) = [s EXCEPT !.disp = [s.disp EXCEPT ![d] = [c EXCEPT !.cvs = v, !.other = o]]]
  <2>1. s \in States /\ d \in Display
    OBVIOUS
  <2> QED BY ONLY <2>1 DEF Show, States, Disps, c, v, o
<1>5. Showing(s, d, i, w) = c1
  BY DEF Showing
<1> HIDE DEF c, v, o
<1>6. [c EXCEPT !.cvs = v, !.other = o] = c1
  BY <1>1, ViewTwo
<1>7. c1 \in Disps
  BY <1>1, <1>2, <1>3 DEF Disps, View
<1> HIDE DEF c1
<1> QED BY <1>4, <1>5, <1>6, <1>7, SetIs

\* The display that has w to the fore.
Facing(s, d, w) ==
  LET c == s.disp[d] IN View(c.cvs, c.focus, w, c.other, c.layout)

LEMMA SetForeIs ==
  ASSUME NEW s \in States, NEW d \in Display, NEW w \in Win \cup {NULL}
  PROVE  /\ SetFore(s, d, w) = Redone(s, d, Facing(s, d, w), IF w = NULL THEN s.tab ELSE ToHead(s.tab, w), w)
         /\ Facing(s, d, w) \in Disps
<1> DEFINE c == s.disp[d]
           c1 == View(c.cvs, c.focus, w, c.other, c.layout)
           t == IF w = NULL THEN s.tab ELSE ToHead(s.tab, w)
<1>1. c \in Disps
  BY DEF States
<1>2. SetFore(s, d, w) = [s EXCEPT !.disp = [s.disp EXCEPT ![d] = [c EXCEPT !.fore = w]], !.fore = w, !.tab = t]
  BY DEF SetFore, States, Disps
<1>3. Facing(s, d, w) = c1
  BY DEF Facing
<1> HIDE DEF c, t
<1>4. [c EXCEPT !.fore = w] = c1
  BY <1>1 DEF Disps, View
<1>5. c1 \in Disps
  BY <1>1 DEF Disps, View
<1> HIDE DEF c1
<1>6. ASSUME NEW D PROVE [s EXCEPT !.disp = D, !.fore = w, !.tab = t] = With3(s, t, D, w)
  <2>1. [s EXCEPT !.disp = D, !.fore = w, !.tab = t]
        = [[[s EXCEPT !.disp = D] EXCEPT !.fore = w] EXCEPT !.tab = t]
    OBVIOUS
  <2>2. [s EXCEPT !.disp = D] = With3(s, s.tab, D, s.fore)
    <3>1. s = Rec(s.tab, s.kind, s.group, s.disp, s.displays, s.fore, s.lay, s.layouts, s.memory, s.ghosts)
      BY StateFields
    <3> QED BY ONLY <3>1 DEF Rec, With3
  <2>3. [With3(s, s.tab, D, s.fore) EXCEPT !.fore = w] = With3(s, s.tab, D, w)
    BY DEF With3
  <2>4. [With3(s, s.tab, D, w) EXCEPT !.tab = t] = With3(s, t, D, w)
    BY DEF With3
  <2> QED BY <2>1, <2>2, <2>3, <2>4
<1>7. SetFore(s, d, w) = Redone(s, d, c1, t, w)
  BY <1>2, <1>4, <1>6 DEF Redone
<1> QED BY <1>3, <1>5, <1>7 DEF t

-----------------------------------------------------------------------------
(* Types, whether the lists are in order or not                            *)

StartOf(start) == IF start = NULL THEN <<>> ELSE <<start>>

LEMMA ChainSteps ==
  ASSUME NEW start \in Win \cup {NULL}, NEW link \in [Win -> Win \cup {NULL}]
  PROVE  \E h : /\ h[0] = StartOf(start)
                /\ \A k \in 1..Cardinality(Win) : h[k] = Follow(h[k - 1], link)
                /\ \A k \in 0..Cardinality(Win) : h[k] \in Seq(Win)
                /\ Chain(start, link) = h[Cardinality(Win)]
<1> DEFINE N == Cardinality(Win)
           D == Seq(Win)
           a == IF start = NULL THEN <<>> ELSE <<start>>
           F == [k \in 1..N |-> [x \in D |-> Follow(x, link)]]
           f == CHOOSE f : f = [n \in 0..N |-> IF n = 0 THEN a ELSE Follow(f[n - 1], link)]
<1>1. N \in Nat
  BY FS_CardinalityType
<1>2. a \in D
  OBVIOUS
<1>3. ASSUME NEW x \in D PROVE Follow(x, link) \in D
  <2>1. CASE x = <<>>
    BY <2>1 DEF Follow
  <2>2. CASE x # <<>>
    <3>1. Last(x) \in Win
      <4>1. Len(x) \in DOMAIN x
        BY <2>2
      <4> QED BY <4>1 DEF Last
    <3>2. link[Last(x)] \in Win \cup {NULL}
      BY <3>1
    <3>3. link[Last(x)] # NULL => Append(x, link[Last(x)]) \in D
      BY <3>2
    <3> QED BY <3>3 DEF Follow
  <2> QED BY <2>1, <2>2
<1> HIDE DEF D, a, N
<1>4. PICK g : Iterates(g, N, D, a, F)
  <2>1. F \in [1..N -> [D -> D]]
    BY <1>3
  <2> HIDE DEF F
  <2> QED BY ONLY <1>1, <1>2, <2>1, Iterated
<1>5. g \in [0..N -> D] /\ g[0] = a /\ \A k \in 1..N : g[k] = F[k][g[k - 1]]
  <2> HIDE DEF F
  <2> QED BY <1>4 DEF Iterates
<1>6. g = [k \in 0..N |-> IF k = 0 THEN a ELSE Follow(g[k - 1], link)]
  <2>1. ASSUME NEW k \in 0..N PROVE g[k] = IF k = 0 THEN a ELSE Follow(g[k - 1], link)
    <3>1. k # 0 => k \in 1..N /\ k - 1 \in 0..N
      BY <1>1
    <3>2. \A m \in 1..N, x \in D : F[m][x] = Follow(x, link)
      OBVIOUS
    <3> HIDE DEF F
    <3> QED BY <1>5, <3>1, <3>2
  <2> QED BY <1>5, <2>1
<1>7. f = [k \in 0..N |-> IF k = 0 THEN a ELSE Follow(f[k - 1], link)]
  BY <1>6
<1>8. Chain(start, link) = f[N]
  BY DEF Chain, a, N
<1> HIDE DEF f
<1>9. \A k \in 0..N : f[k] \in D
  <2>1. f[0] \in D
    BY <1>1, <1>2, <1>7
  <2>2. ASSUME NEW k \in 1..N, f[k - 1] \in D PROVE f[k] \in D
    <3>1. k \in 0..N /\ k # 0
      BY <1>1
    <3>2. f[k] = Follow(f[k - 1], link)
      BY <1>7, <3>1
    <3> QED BY <1>3, <2>2, <3>2
  <2> QED BY <1>1, <2>1, <2>2, Kept
<1>10. \A k \in 1..N : f[k] = Follow(f[k - 1], link)
  <2>1. \A k \in 1..N : k \in 0..N /\ k # 0
    BY <1>1
  <2> QED BY <1>7, <2>1
<1>11. f[0] = StartOf(start)
  BY <1>1, <1>7 DEF a, StartOf
<1> QED BY <1>8, <1>9, <1>10, <1>11 DEF D, N

LEMMA ChainType ==
  ASSUME NEW start \in Win \cup {NULL}, NEW link \in [Win -> Win \cup {NULL}]
  PROVE  Chain(start, link) \in Seq(Win)
<1> DEFINE N == Cardinality(Win)
<1>1. PICK h : (\A k \in 0..N : h[k] \in Seq(Win)) /\ Chain(start, link) = h[N]
  BY ChainSteps
<1>2. N \in 0..N
  BY FS_CardinalityType
<1> QED BY <1>1, <1>2

LEMMA ListTypes ==
  ASSUME NEW t \in Tabs
  PROVE  ByUse(t) \in Seq(Win) /\ ByNumber(t) \in Seq(Win) /\ Backwards(t) \in Seq(Win)
<1>1. /\ t.mru \in Win \cup {NULL} /\ t.first \in Win \cup {NULL} /\ t.last \in Win \cup {NULL}
      /\ t.prevmru \in [Win -> Win \cup {NULL}] /\ t.next \in [Win -> Win \cup {NULL}]
      /\ t.prev \in [Win -> Win \cup {NULL}]
  BY DEF Tabs
<1> QED BY <1>1, ChainType DEF ByUse, ByNumber, Backwards

\* The first that is found is one of them.
LEMMA FoundIs ==
  ASSUME NEW q \in Seq(Win), NEW F \in SUBSET (DOMAIN q), NEW r,
         r = IF F = {} THEN NULL ELSE q[Min(F)]
  PROVE  /\ r \in Win \cup {NULL} /\ r \in ToSet(q) \cup {NULL}
         /\ r # NULL => \E i \in F : r = q[i]
         /\ r = NULL => F = {}
<1>1. Len(q) \in Nat /\ DOMAIN q = 1..Len(q) /\ \A i \in 1..Len(q) : q[i] \in Win /\ q[i] # NULL
  BY ListFacts
<1>2. CASE F = {}
  BY <1>2
<1>3. CASE F # {}
  <2>1. F \in SUBSET Nat
    BY <1>1
  <2>2. Min(F) \in F
    BY <1>3, <2>1, MinIsLeast
  <2>3. r = q[Min(F)] /\ Min(F) \in DOMAIN q
    BY <1>3, <2>2
  <2>4. q[Min(F)] \in ToSet(q)
    BY <2>3 DEF ToSet
  <2> QED BY <1>1, <2>2, <2>3, <2>4
<1> QED BY <1>2, <1>3

LEMMA UnlinkUseType ==
  ASSUME NEW t \in Tabs, NEW w \in Win
  PROVE  UnlinkUse(t, w) \in Tabs
<1> DEFINE q == ByUse(t)
           F == {i \in DOMAIN q : t.prevmru[q[i]] = w}
           newer == IF F = {} THEN NULL ELSE q[Min(F)]
           p == t.prevmru[w]
<1>1. q \in Seq(Win)
  BY ListTypes
<1>2. newer \in Win \cup {NULL}
  <2> HIDE DEF F, q
  <2>1. F \in SUBSET (DOMAIN q)
    BY DEF F
  <2> QED BY <1>1, <2>1, FoundIs
<1>3. UnlinkUse(t, w) = IF t.mru = w THEN [t EXCEPT !.mru = p]
                        ELSE IF newer = NULL THEN t ELSE [t EXCEPT !.prevmru[newer] = p]
  BY DEF UnlinkUse, FirstOf
<1>4. p \in Win \cup {NULL}
  BY DEF Tabs
<1> HIDE DEF newer, p
<1>5. [t EXCEPT !.mru = p] \in Tabs
  BY <1>4 DEF Tabs
<1>6. [t EXCEPT !.prevmru[newer] = p] \in Tabs
  BY <1>4 DEF Tabs
<1> QED BY <1>3, <1>5, <1>6

LEMMA ToHeadType ==
  ASSUME NEW t \in Tabs, NEW w \in Win
  PROVE  ToHead(t, w) \in Tabs
<1> DEFINE s == UnlinkUse(t, w)
           m == t.mru
<1>1. s \in Tabs
  BY UnlinkUseType
<1>2. ToHead(t, w) = IF m = w THEN t ELSE [s EXCEPT !.prevmru[w] = m, !.mru = w]
  BY DEF ToHead
<1>3. m \in Win \cup {NULL}
  BY DEF Tabs
<1> HIDE DEF s, m
<1>4. [s EXCEPT !.prevmru[w] = m, !.mru = w] = [[s EXCEPT !.prevmru[w] = m] EXCEPT !.mru = w]
  OBVIOUS
<1>5. [s EXCEPT !.prevmru[w] = m] \in Tabs
  BY <1>1, <1>3 DEF Tabs
<1>6. \A x \in Tabs : [x EXCEPT !.mru = w] \in Tabs
  BY DEF Tabs
<1> QED BY <1>2, <1>4, <1>5, <1>6

\* What SetCanvasWindow does to a display.
OtherNow(s, d, i, w) ==
  LET c == s.disp[d]
      o == IF c.cvs[i] # NULL /\ i = c.focus THEN s.fore ELSE c.other
  IN IF w # NULL /\ o = w THEN s.tab.prevmru[w] ELSE o

LEMMA SetCanvasIs ==
  ASSUME NEW s \in States, NEW d \in Display, NEW i, NEW w \in Win \cup {NULL}, NEW c, c = s.disp[d],
         NEW r, r = SetCanvasWindow(s, d, i, w)
  PROVE  /\ r \in States
         /\ r.tab = IF i = c.focus /\ w # NULL THEN ToHead(s.tab, w) ELSE s.tab
         /\ r.fore = IF i = c.focus THEN w ELSE s.fore
         /\ r.disp[d].cvs = [c.cvs EXCEPT ![i] = w] /\ r.disp[d].focus = c.focus
         /\ r.disp[d].fore = IF i = c.focus THEN w ELSE c.fore
         /\ r.disp[d].other = OtherNow(s, d, i, w) /\ r.disp[d].layout = c.layout
         /\ \A e \in Display : e # d => r.disp[e] = s.disp[e]
         /\ r.kind = s.kind /\ r.group = s.group /\ r.displays = s.displays /\ r.lay = s.lay
         /\ r.layouts = s.layouts /\ r.memory = s.memory /\ r.ghosts = s.ghosts
<1> DEFINE b == c.cvs[i] # NULL /\ i = c.focus
           o == IF b THEN s.fore ELSE c.other
           c1 == Left(s, d, i)
           x == Leave(s, d, i)
           c2 == Showing(x, d, i, w)
           y == Show(x, d, i, w)
           c3 == Facing(y, d, w)
           t == IF w = NULL THEN s.tab ELSE ToHead(s.tab, w)
<1>1. r = IF i = y.disp[d].focus THEN SetFore(y, d, w) ELSE y
  BY DEF SetCanvasWindow, Shown
<1>2. /\ s.tab \in Tabs /\ s.fore \in Win \cup {NULL} /\ t \in Tabs /\ c \in Disps
  <2>1. s.tab \in Tabs
    BY DEF States
  <2> QED BY <2>1, ToHeadType DEF States
<1>3. c1 = View(c.cvs, c.focus, IF b THEN NULL ELSE c.fore, o, c.layout)
  BY DEF Left
<1>4. OtherNow(s, d, i, w) = IF w # NULL /\ o = w THEN s.tab.prevmru[w] ELSE o
  BY DEF OtherNow
<1>5. x = Redone(s, d, c1, s.tab, s.fore) /\ c1 \in Disps
  BY LeaveIs
<1> HIDE DEF x, c1, y
<1>6. /\ x \in States /\ x.tab = s.tab /\ x.fore = s.fore /\ x.disp[d] = c1
      /\ \A e \in Display : e # d => x.disp[e] = s.disp[e]
      /\ x.kind = s.kind /\ x.group = s.group /\ x.displays = s.displays /\ x.lay = s.lay
      /\ x.layouts = s.layouts /\ x.memory = s.memory /\ x.ghosts = s.ghosts
  BY ONLY <1>2, <1>5, RedoneIs, d \in Display, s \in States
<1>7. c1.cvs = c.cvs /\ c1.focus = c.focus /\ c1.other = o /\ c1.layout = c.layout
      /\ c1.fore = (IF b THEN NULL ELSE c.fore)
  BY <1>3 DEF View
<1>8. y = Redone(x, d, c2, s.tab, s.fore) /\ c2 \in Disps
  BY <1>6, ShowIs DEF y
<1>9. c2 = View([c.cvs EXCEPT ![i] = w], c.focus, IF b THEN NULL ELSE c.fore,
                OtherNow(s, d, i, w), c.layout)
  BY <1>4, <1>6, <1>7 DEF Showing
<1>10. /\ c2.cvs = [c.cvs EXCEPT ![i] = w] /\ c2.focus = c.focus /\ c2.other = OtherNow(s, d, i, w)
       /\ c2.layout = c.layout /\ c2.fore = (IF b THEN NULL ELSE c.fore)
  BY <1>9 DEF View
<1> HIDE DEF c2
<1>11. /\ y \in States /\ y.tab = s.tab /\ y.fore = s.fore /\ y.disp[d] = c2
       /\ \A e \in Display : e # d => y.disp[e] = s.disp[e]
       /\ y.kind = s.kind /\ y.group = s.group /\ y.displays = s.displays /\ y.lay = s.lay
       /\ y.layouts = s.layouts /\ y.memory = s.memory /\ y.ghosts = s.ghosts
  <2>1. /\ y \in States /\ y.tab = s.tab /\ y.fore = s.fore /\ y.disp[d] = c2
        /\ \A e \in Display : e # d => y.disp[e] = x.disp[e]
        /\ y.kind = x.kind /\ y.group = x.group /\ y.displays = x.displays /\ y.lay = x.lay
        /\ y.layouts = x.layouts /\ y.memory = x.memory /\ y.ghosts = x.ghosts
    BY ONLY <1>2, <1>6, <1>8, RedoneIs, d \in Display
  <2> QED BY <1>6, <2>1
<1>12. CASE i # c.focus
  <2>1. r = y
    BY <1>1, <1>10, <1>11, <1>12
  <2> QED BY <1>10, <1>11, <1>12, <2>1
<1>13. CASE i = c.focus
  <2>1. r = SetFore(y, d, w)
    BY <1>1, <1>10, <1>11, <1>13
  <2>2. r = Redone(y, d, c3, t, w) /\ c3 \in Disps
    BY <1>11, <2>1, SetForeIs
  <2>3. c3 = View([c.cvs EXCEPT ![i] = w], c.focus, w, OtherNow(s, d, i, w), c.layout)
    BY <1>10, <1>11 DEF Facing
  <2>4. /\ c3.cvs = [c.cvs EXCEPT ![i] = w] /\ c3.focus = c.focus /\ c3.other = OtherNow(s, d, i, w)
        /\ c3.layout = c.layout /\ c3.fore = w
    BY <2>3 DEF View
  <2> HIDE DEF c3, t
  <2>5. /\ r \in States /\ r.tab = t /\ r.fore = w /\ r.disp[d] = c3
        /\ \A e \in Display : e # d => r.disp[e] = y.disp[e]
        /\ r.kind = y.kind /\ r.group = y.group /\ r.displays = y.displays /\ r.lay = y.lay
        /\ r.layouts = y.layouts /\ r.memory = y.memory /\ r.ghosts = y.ghosts
    <3>1. w \in Win \cup {NULL}
      OBVIOUS
    <3>2. y \in States /\ d \in Display /\ c3 \in Disps /\ t \in Tabs
      BY <1>2, <1>11, <2>2
    <3>3. r = Redone(y, d, c3, t, w)
      BY <2>2
    <3> QED BY ONLY <3>1, <3>2, <3>3, RedoneIs
  <2> QED BY <1>11, <1>13, <2>4, <2>5 DEF t
<1> QED BY <1>12, <1>13

TabSet(r, s, d, i, w) ==
  r.tab = IF i = s.disp[d].focus /\ w # NULL THEN ToHead(s.tab, w) ELSE s.tab

LEMMA SetCanvasTab ==
  ASSUME NEW s \in States, NEW d \in Display, NEW i, NEW w \in Win \cup {NULL},
         NEW r, r = SetCanvasWindow(s, d, i, w)
  PROVE  TabSet(r, s, d, i, w)
<1> DEFINE c == s.disp[d]
<1>1. c = s.disp[d]
  OBVIOUS
<1> HIDE DEF c
<1>2. /\ r \in States
      /\ r.tab = IF i = c.focus /\ w # NULL THEN ToHead(s.tab, w) ELSE s.tab
      /\ r.disp[d].cvs = [c.cvs EXCEPT ![i] = w]
  BY <1>1, SetCanvasIs
<1> QED BY <1>2 DEF TabSet, c

-----------------------------------------------------------------------------
(* What displays and layouts show                                          *)

LEMMA ExceptIs ==
  ASSUME NEW q \in Seq(Win \cup {NULL}), NEW i, NEW w \in Win \cup {NULL}, NEW r, r = [q EXCEPT ![i] = w]
  PROVE  /\ r \in Seq(Win \cup {NULL}) /\ Len(r) = Len(q) /\ DOMAIN r = DOMAIN q /\ DOMAIN q = 1..Len(q)
         /\ Len(q) \in Nat
         /\ \A j \in DOMAIN q : r[j] = IF j = i THEN w ELSE q[j]
         /\ ToSet(r) \subseteq ToSet(q) \cup {w}
<1>1. Len(q) \in Nat /\ DOMAIN q = 1..Len(q) /\ q \in [1..Len(q) -> Win \cup {NULL}]
  OBVIOUS
<1>2. r \in [1..Len(q) -> Win \cup {NULL}]
  BY <1>1
<1>3. r \in Seq(Win \cup {NULL}) /\ Len(r) = Len(q) /\ DOMAIN r = DOMAIN q
  BY <1>1, <1>2
<1>4. \A j \in DOMAIN q : r[j] = IF j = i THEN w ELSE q[j]
  BY <1>1
<1> QED BY <1>1, <1>3, <1>4 DEF ToSet

Lives(s) == {w \in Win : s.kind[w] # "free"}

\* A display that shows windows of V, and remembers one of O.
Sees(c, V, O) ==
  ToSet(c.cvs) \subseteq V \cup {NULL} /\ c.fore \in V \cup {NULL} /\ c.other \in O \cup {NULL}

\* The lists have the windows of L; displays and layouts show those of V, which
\* has a window more while it is killed; those of O may be remembered.
Fine(s, L, V, O) ==
  /\ s \in States /\ Good(s.tab, L) /\ L \subseteq V /\ V \subseteq O /\ O \subseteq Win
  /\ \A v \in V : s.tab.prevmru[v] \in L \cup {NULL}
  /\ s.fore \in O \cup {NULL}
  /\ \A d \in Display : Sees(s.disp[d], V, O)
  /\ \A l \in Layout : ToSet(s.lay[l].cvs) \subseteq V \cup {NULL}

LEMMA SetCanvasFine ==
  ASSUME NEW s, NEW L, NEW V, NEW O, Fine(s, L, V, O), NEW d \in Display, NEW i,
         NEW w \in L \cup {NULL}, NEW r, r = SetCanvasWindow(s, d, i, w)
  PROVE  Fine(r, L, V, O)
<1> DEFINE c == s.disp[d]
<1>1. /\ s \in States /\ L \subseteq Win /\ w \in Win \cup {NULL} /\ c \in Disps /\ s.tab \in Tabs
  BY DEF Fine, States
<1> HIDE DEF c
<1>2. /\ r \in States
      /\ r.tab = IF i = c.focus /\ w # NULL THEN ToHead(s.tab, w) ELSE s.tab
      /\ r.fore = IF i = c.focus THEN w ELSE s.fore
      /\ r.disp[d].cvs = [c.cvs EXCEPT ![i] = w]
      /\ r.disp[d].fore = IF i = c.focus THEN w ELSE c.fore
      /\ r.disp[d].other = OtherNow(s, d, i, w)
      /\ \A e \in Display : e # d => r.disp[e] = s.disp[e]
      /\ r.lay = s.lay
  BY <1>1, SetCanvasIs DEF c
<1>3. Good(r.tab, L) /\ \A v \in V : r.tab.prevmru[v] \in L \cup {NULL}
  <2>1. CASE ~(i = c.focus /\ w # NULL)
    BY <1>2, <2>1 DEF Fine
  <2>2. CASE i = c.focus /\ w # NULL
    <3>1. r.tab = ToHead(s.tab, w) /\ w \in L /\ Good(s.tab, L)
      BY <1>2, <2>2 DEF Fine
    <3>2. Good(r.tab, L) /\ \A v \in Win \ L : r.tab.prevmru[v] = s.tab.prevmru[v]
      <4>1. Leads(r.tab, s.tab, L, w)
        BY ONLY <3>1, ToHeadIs
      <4> QED BY <4>1 DEF Leads
    <3>3. \A v \in L : r.tab.prevmru[v] \in L \cup {NULL}
      BY <3>2, GoodLists
    <3>4. V \subseteq Win
      BY DEF Fine
    <3> QED BY <3>2, <3>3, <3>4 DEF Fine
  <2> QED BY <2>1, <2>2
<1>4. Sees(c, V, O) /\ c = s.disp[d]
  BY DEF Fine, c
<1>5. OtherNow(s, d, i, w) \in O \cup {NULL}
  <2>1. c.other \in O \cup {NULL} /\ s.fore \in O \cup {NULL}
    BY <1>4 DEF Sees, Fine
  <2>2. w # NULL => s.tab.prevmru[w] \in O \cup {NULL}
    BY DEF Fine
  <2> QED BY <1>4, <2>1, <2>2 DEF OtherNow
<1>6. ToSet(r.disp[d].cvs) \subseteq V \cup {NULL}
  <2>1. c.cvs \in Seq(Win \cup {NULL})
    BY <1>1 DEF Disps
  <2>2. ToSet([c.cvs EXCEPT ![i] = w]) \subseteq ToSet(c.cvs) \cup {w}
    BY <1>1, <2>1, ExceptIs
  <2> QED BY <1>2, <1>4, <2>2 DEF Sees, Fine
<1>7. Sees(r.disp[d], V, O)
  <2>1. r.disp[d].fore \in V \cup {NULL}
    BY <1>2, <1>4 DEF Sees, Fine
  <2> QED BY <1>2, <1>5, <1>6, <2>1 DEF Sees
<1>8. \A e \in Display : Sees(r.disp[e], V, O)
  BY <1>2, <1>7 DEF Fine
<1>9. r.fore \in O \cup {NULL}
  BY <1>2 DEF Fine
<1> QED BY <1>2, <1>3, <1>8, <1>9 DEF Fine

\* The window in the region in focus is the one to the fore.
Lit(c) == c.focus \in DOMAIN c.cvs /\ c.fore = c.cvs[c.focus]

\* Displays, layouts and what points to layouts.
Arranged(s) ==
  /\ Distinct(s.displays) /\ Distinct(s.layouts)
  /\ \A d \in Display : d \notin ToSet(s.displays) => s.disp[d] = Blank
  /\ \A l \in Layout : IF l \in ToSet(s.layouts) THEN s.lay[l].focus \in DOMAIN s.lay[l].cvs
                                                ELSE s.lay[l] = NoLayout
  /\ \A d \in Display : s.disp[d].layout \in ToSet(s.layouts) \cup {NULL}
  /\ s.memory.last \in ToSet(s.layouts) \cup {NULL}
  /\ s.memory.attach \in ToSet(s.layouts) \cup {NULL, "last"}

Whole(s, G) ==
  LET L == Lives(s)
  IN Fine(s, L, L, L \cup G) /\ s.ghosts = G /\ G \cap L = {} /\ Arranged(s)

\* The invariant.
Sound(s) == Whole(s, s.ghosts) /\ \A d \in ToSet(s.displays) : Lit(s.disp[d])

\* Region i of the display d has got a window, and nothing else has changed much.
Moved(r, s, G, d, i) ==
  /\ Whole(r, G) /\ r.displays = s.displays /\ r.kind = s.kind /\ r.group = s.group
  /\ r.layouts = s.layouts /\ r.lay = s.lay /\ r.memory = s.memory
  /\ \A e \in Display : e # d => r.disp[e] = s.disp[e]
  /\ r.disp[d].focus = s.disp[d].focus /\ DOMAIN r.disp[d].cvs = DOMAIN s.disp[d].cvs
  /\ Len(r.disp[d].cvs) = Len(s.disp[d].cvs)
  /\ (i = s.disp[d].focus /\ i \in DOMAIN s.disp[d].cvs) \/ Lit(s.disp[d]) => Lit(r.disp[d])

LEMMA SetCanvasWhole ==
  ASSUME NEW s, NEW G, Whole(s, G), NEW d \in ToSet(s.displays), NEW i,
         NEW w \in Lives(s) \cup {NULL}, NEW r, r = SetCanvasWindow(s, d, i, w)
  PROVE  Moved(r, s, G, d, i)
<1> DEFINE L == Lives(s)
           c == s.disp[d]
<1>1. s \in States /\ L \subseteq Win /\ Fine(s, L, L, L \cup G)
  BY DEF Whole, Fine
<1>2. d \in Display /\ w \in Win \cup {NULL} /\ c \in Disps /\ c.cvs \in Seq(Win \cup {NULL})
  <2>1. s.displays \in Seq(Display) /\ s.disp \in [Display -> Disps]
    BY <1>1 DEF States
  <2>2. d \in Display
    BY <2>1 DEF ToSet
  <2> QED BY <1>1, <2>1, <2>2 DEF Disps
<1>3. /\ r \in States /\ r.disp[d].cvs = [c.cvs EXCEPT ![i] = w] /\ r.disp[d].focus = c.focus
      /\ r.disp[d].fore = IF i = c.focus THEN w ELSE c.fore
      /\ r.disp[d].layout = c.layout
      /\ \A e \in Display : e # d => r.disp[e] = s.disp[e]
      /\ r.kind = s.kind /\ r.group = s.group /\ r.displays = s.displays /\ r.lay = s.lay
      /\ r.layouts = s.layouts /\ r.memory = s.memory /\ r.ghosts = s.ghosts
  BY <1>1, <1>2, SetCanvasIs
<1>4. Fine(r, L, L, L \cup G)
  BY <1>1, <1>2, SetCanvasFine
<1>5. Lives(r) = L
  BY <1>3 DEF Lives
<1> HIDE DEF c, L
<1>6. Arranged(r)
  BY <1>2, <1>3 DEF Whole, Arranged, c
<1>7. Whole(r, G)
  BY <1>3, <1>4, <1>5, <1>6 DEF Whole, L
<1> DEFINE v == [c.cvs EXCEPT ![i] = w]
<1>8. /\ DOMAIN v = DOMAIN c.cvs /\ \A j \in DOMAIN c.cvs : v[j] = IF j = i THEN w ELSE c.cvs[j]
      /\ Len(v) = Len(c.cvs)
  BY <1>2, ExceptIs
<1>9. r.disp[d].cvs = v
  BY <1>3
<1> HIDE DEF v
<1>10. (i = c.focus /\ i \in DOMAIN c.cvs) \/ Lit(c) => Lit(r.disp[d])
  BY <1>3, <1>8, <1>9 DEF Lit
<1> QED BY <1>3, <1>7, <1>8, <1>9, <1>10 DEF c, Moved

-----------------------------------------------------------------------------
(* Commands on windows                                                     *)

\* What no command on windows that there are changes.
Only(r, s) ==
  r.kind = s.kind /\ r.group = s.group /\ r.displays = s.displays /\ r.ghosts = s.ghosts

\* At most the window w, or one window, has come to the head of the list by use.
Fronted(r, t, w) == r = t \/ (w # NULL /\ r = ToHead(t, w))
Touched(r, t) == r = t \/ \E w \in Win : r = ToHead(t, w)

LEMMA OnlyTwice ==
  ASSUME NEW q, NEW r, NEW s, Only(q, r), Only(r, s)
  PROVE  Only(q, s)
  BY DEF Only

LEMMA OnlyLives ==
  ASSUME NEW r, NEW s, Only(r, s)
  PROVE  Lives(r) = Lives(s) /\ r.displays = s.displays /\ r.ghosts = s.ghosts
  BY DEF Only, Lives

\* Other lists and another window to work on.
LEMMA With3Whole ==
  ASSUME NEW s, NEW G, Whole(s, G), NEW t, Good(t, Lives(s)), NEW f \in Lives(s) \cup G \cup {NULL},
         NEW r, r = With3(s, t, s.disp, f)
  PROVE  /\ Whole(r, G) /\ Only(r, s) /\ r.disp = s.disp /\ r.lay = s.lay /\ r.layouts = s.layouts
         /\ r.memory = s.memory /\ r.tab = t /\ r.fore = f
<1> DEFINE L == Lives(s)
<1>1. Fine(s, L, L, L \cup G) /\ s \in States /\ L \subseteq Win /\ G \subseteq Win
  BY DEF Whole, Fine
<1>2. t \in Tabs /\ s.disp \in [Display -> Disps] /\ f \in Win \cup {NULL}
  BY <1>1 DEF Good, States
<1>3. /\ r \in States /\ r.tab = t /\ r.disp = s.disp /\ r.fore = f
      /\ r.kind = s.kind /\ r.group = s.group /\ r.displays = s.displays /\ r.lay = s.lay
      /\ r.layouts = s.layouts /\ r.memory = s.memory /\ r.ghosts = s.ghosts
  BY <1>1, <1>2, With3Is
<1>4. Lives(r) = L
  BY <1>3 DEF Lives
<1> HIDE DEF L
<1>5. \A v \in L : t.prevmru[v] \in L \cup {NULL}
  BY GoodLists DEF L
<1>6. Fine(r, L, L, L \cup G)
  BY <1>1, <1>3, <1>5 DEF Fine, L
<1>7. Arranged(r)
  BY <1>3 DEF Whole, Arranged
<1> QED BY <1>3, <1>4, <1>6, <1>7 DEF Whole, Only, L

LEMMA With3Sound ==
  ASSUME NEW s, Sound(s), NEW t, Good(t, Lives(s)), NEW f \in Lives(s) \cup s.ghosts \cup {NULL},
         NEW r, r = With3(s, t, s.disp, f)
  PROVE  Sound(r) /\ Only(r, s) /\ r.disp = s.disp /\ r.tab = t
<1>1. Whole(s, s.ghosts) /\ \A d \in ToSet(s.displays) : Lit(s.disp[d])
  BY DEF Sound
<1>2. Whole(r, s.ghosts) /\ Only(r, s) /\ r.disp = s.disp /\ r.tab = t
  BY <1>1, With3Whole
<1>3. r.ghosts = s.ghosts /\ r.displays = s.displays
  BY <1>2 DEF Only
<1> QED BY <1>1, <1>2, <1>3 DEF Sound

LEMMA SoundFacts ==
  ASSUME NEW s, Sound(s)
  PROVE  /\ s \in States /\ Whole(s, s.ghosts) /\ Good(s.tab, Lives(s)) /\ Lives(s) \subseteq Win
         /\ s.fore \in Lives(s) \cup s.ghosts \cup {NULL} /\ ToSet(s.displays) \subseteq Display
         /\ \A d \in Display : Sees(s.disp[d], Lives(s), Lives(s) \cup s.ghosts)
         /\ \A d \in ToSet(s.displays) : Lit(s.disp[d])
<1>1. s \in States
  BY DEF Sound, Whole, Fine
<1>2. ToSet(s.displays) \subseteq Display
  BY <1>1 DEF States, ToSet
<1> QED BY <1>1, <1>2 DEF Sound, Whole, Fine

LEMMA ForeIs ==
  ASSUME NEW s, Sound(s), NEW f \in Lives(s) \cup s.ghosts \cup {NULL}, NEW r, r = [s EXCEPT !.fore = f]
  PROVE  Sound(r) /\ Only(r, s) /\ r.disp = s.disp /\ r.tab = s.tab
<1>1. s \in States /\ Good(s.tab, Lives(s))
  BY SoundFacts
<1>2. [s EXCEPT !.fore = f] = With3(s, s.tab, s.disp, f)
  BY <1>1 DEF States, With3
<1>3. r = With3(s, s.tab, s.disp, f)
  BY <1>2
<1> QED BY ONLY <1>1, <1>3, Sound(s), f \in Lives(s) \cup s.ghosts \cup {NULL}, With3Sound

LEMMA TabIs ==
  ASSUME NEW s, Sound(s), NEW t, Good(t, Lives(s)), NEW r, r = [s EXCEPT !.tab = t]
  PROVE  Sound(r) /\ Only(r, s) /\ r.tab = t
<1>1. s \in States /\ s.fore \in Lives(s) \cup s.ghosts \cup {NULL}
  BY SoundFacts
<1>2. [s EXCEPT !.tab = t] = With3(s, t, s.disp, s.fore)
  BY <1>1 DEF States, With3
<1>3. r = With3(s, t, s.disp, s.fore)
  BY <1>2
<1> QED BY ONLY <1>1, <1>3, Sound(s), Good(t, Lives(s)), With3Sound

LEMMA ActivateIs ==
  ASSUME NEW s, Sound(s), NEW d \in Display \cup {NULL}, NEW r, r = Activate(s, d)
  PROVE  Sound(r) /\ Only(r, s) /\ r.tab = s.tab
<1>1. CASE d = NULL
  BY <1>1 DEF Activate, Only
<1>2. CASE d # NULL
  <2>1. s.disp[d].fore \in Lives(s) \cup s.ghosts \cup {NULL}
    BY <1>2, SoundFacts DEF Sees
  <2>2. r = [s EXCEPT !.fore = s.disp[d].fore]
    BY <1>2 DEF Activate
  <2> DEFINE f == s.disp[d].fore
  <2>3. f \in Lives(s) \cup s.ghosts \cup {NULL} /\ r = [s EXCEPT !.fore = f]
    BY <2>1, <2>2
  <2> HIDE DEF f
  <2> QED BY <2>3, ForeIs
<1> QED BY <1>1, <1>2

LEMMA SetCanvasSound ==
  ASSUME NEW s, Sound(s), NEW d \in ToSet(s.displays), NEW i,
         NEW w \in Lives(s) \cup {NULL}, NEW r, r = SetCanvasWindow(s, d, i, w)
  PROVE  Sound(r) /\ Only(r, s) /\ Fronted(r.tab, s.tab, w)
<1>1. Whole(s, s.ghosts) /\ \A e \in ToSet(s.displays) : e \in Display /\ Lit(s.disp[e])
  BY SoundFacts
<1>2. /\ Whole(r, s.ghosts) /\ r.displays = s.displays /\ r.kind = s.kind /\ r.group = s.group
      /\ \A e \in Display : e # d => r.disp[e] = s.disp[e]
      /\ Lit(s.disp[d]) => Lit(r.disp[d])
  BY <1>1, SetCanvasWhole DEF Moved
<1>3. r.ghosts = s.ghosts
  BY <1>2 DEF Whole
<1>4. Fronted(r.tab, s.tab, w)
  <2>1. d \in Display /\ w \in Win \cup {NULL} /\ s \in States
    BY SoundFacts
  <2>2. r.tab = IF i = s.disp[d].focus /\ w # NULL THEN ToHead(s.tab, w) ELSE s.tab
    <3>1. TabSet(r, s, d, i, w)
      BY <2>1, SetCanvasTab
    <3> QED BY <3>1 DEF TabSet
  <2> QED BY <2>1, <2>2 DEF Fronted
<1> QED BY <1>1, <1>2, <1>3, <1>4 DEF Sound, Only

LEMMA SetForeWindowIs ==
  ASSUME NEW s, Sound(s), NEW d \in ToSet(s.displays) \cup {NULL}, NEW w \in Lives(s) \cup {NULL},
         NEW r, r = SetForeWindow(s, d, w)
  PROVE  Sound(r) /\ Only(r, s) /\ Fronted(r.tab, s.tab, w)
<1>1. CASE d = NULL
  <2>1. r = [s EXCEPT !.fore = w] /\ w \in Lives(s) \cup s.ghosts \cup {NULL}
    BY <1>1 DEF SetForeWindow
  <2> QED BY <2>1, ForeIs DEF Fronted
<1>2. CASE d # NULL
  <2>1. r = SetCanvasWindow(s, d, s.disp[d].focus, w) /\ d \in ToSet(s.displays)
    BY <1>2 DEF SetForeWindow
  <2> QED BY <2>1, SetCanvasSound
<1> QED BY <1>1, <1>2

LEMMA SetActive ==
  ASSUME NEW s, Sound(s), NEW d \in ToSet(s.displays) \cup {NULL}, NEW w \in Lives(s) \cup {NULL},
         NEW r, r = Activate(SetForeWindow(s, d, w), d)
  PROVE  Sound(r) /\ Only(r, s) /\ Fronted(r.tab, s.tab, w)
<1> DEFINE x == SetForeWindow(s, d, w)
<1>1. Sound(x) /\ Only(x, s) /\ Fronted(x.tab, s.tab, w)
  BY SetForeWindowIs
<1>2. d \in Display \cup {NULL}
  BY SoundFacts
<1> HIDE DEF x
<1>3. r = Activate(x, d)
  BY DEF x
<1>4. Sound(r) /\ Only(r, x) /\ r.tab = x.tab
  BY <1>1, <1>2, <1>3, ActivateIs
<1> QED BY <1>1, <1>4, OnlyTwice

LEMMA SwitchIs ==
  ASSUME NEW s, Sound(s), NEW d \in ToSet(s.displays) \cup {NULL}, NEW w \in Lives(s) \cup {NULL},
         NEW r, r = SwitchWindow(s, d, w)
  PROVE  Sound(r) /\ Only(r, s) /\ Touched(r.tab, s.tab)
<1>1. CASE w = NULL \/ (d # NULL /\ w = s.disp[d].fore)
  BY <1>1 DEF SwitchWindow, Only, Touched
<1>2. CASE w # NULL /\ d = NULL
  <2>1. r = [s EXCEPT !.fore = w] /\ w \in Lives(s) \cup s.ghosts \cup {NULL}
    BY <1>2 DEF SwitchWindow
  <2> QED BY <2>1, ForeIs DEF Touched
<1>3. CASE w # NULL /\ d # NULL /\ w # s.disp[d].fore
  <2>1. r = Activate(SetForeWindow(s, d, w), d)
    BY <1>3 DEF SwitchWindow
  <2>2. Sound(r) /\ Only(r, s) /\ Fronted(r.tab, s.tab, w)
    BY <2>1, SetActive
  <2> QED BY <2>2, SoundFacts DEF Fronted, Touched
<1> QED BY <1>1, <1>2, <1>3

\* No number is another, and at most n windows of S have been used.
Uses(r, t, S, n) ==
  /\ Good(t, S) /\ Good(r, S) /\ r.number = t.number
  /\ \E P \in SUBSET S : Cardinality(P) <= n /\ Raised(ByUse(t), ByUse(r), P)

LEMMA UsesNone ==
  ASSUME NEW t, NEW S, Good(t, S), NEW n \in Nat
  PROVE  Uses(t, t, S, n)
<1>1. {} \in SUBSET S /\ Cardinality({}) <= n
  BY FS_EmptySet
<1>2. Raised(ByUse(t), ByUse(t), {})
  BY RaisedNone
<1> QED BY <1>1, <1>2 DEF Uses

LEMMA UsesOne ==
  ASSUME NEW t, NEW S, Good(t, S), NEW r, Good(r, S), Touched(r, t)
  PROVE  Uses(r, t, S, 1)
<1>1. CASE r = t
  BY <1>1, UsesNone
<1>2. CASE r # t
  <2>1. PICK w \in Win : r = ToHead(t, w)
    BY <1>2 DEF Touched
  <2>2. t \in Tabs /\ r.mru \in S \cup {NULL} /\ w # NULL
    BY GoodLists
  <2>3. r = [UnlinkUse(t, w) EXCEPT !.prevmru[w] = t.mru, !.mru = w]
    BY <1>2, <2>1 DEF ToHead
  <2>4. UnlinkUse(t, w) \in Tabs
    BY <2>2, UnlinkUseType
  <2> DEFINE x == UnlinkUse(t, w)
  <2> HIDE DEF x
  <2>5. r = [x EXCEPT !.prevmru[w] = t.mru, !.mru = w] /\ x \in Tabs
    BY <2>3, <2>4 DEF x
  <2>6. r.mru = w
    BY ONLY <2>5 DEF Tabs
  <2>7. w \in S
    BY <2>2, <2>6
  <2>8. r.number = t.number /\ Raised(ByUse(t), ByUse(r), {w})
    BY <2>1, <2>7, ToHeadIs DEF Leads
  <2>9. {w} \in SUBSET S /\ Cardinality({w}) <= 1
    <3>1. Cardinality({w}) = 1
      BY FS_Singleton
    <3> QED BY <2>7, <3>1
  <2> QED BY <2>8, <2>9 DEF Uses
<1> QED BY <1>1, <1>2

LEMMA UsesTwice ==
  ASSUME NEW r, NEW q, NEW t, NEW S, NEW m \in Nat, NEW n \in Nat, Uses(q, t, S, m), Uses(r, q, S, n)
  PROVE  Uses(r, t, S, m + n)
<1>1. PICK P \in SUBSET S : Cardinality(P) <= m /\ Raised(ByUse(t), ByUse(q), P)
  BY DEF Uses
<1>2. PICK Q \in SUBSET S : Cardinality(Q) <= n /\ Raised(ByUse(q), ByUse(r), Q)
  BY DEF Uses
<1>3. Good(t, S) /\ Good(q, S) /\ Good(r, S) /\ r.number = t.number
  BY DEF Uses
<1>4. S \subseteq Win /\ ToSet(ByUse(q)) = S /\ ToSet(ByUse(r)) = S
  BY <1>3, GoodLists
<1>5. IsFiniteSet(P) /\ IsFiniteSet(Q)
  BY <1>4, FS_Subset
<1>6. /\ Cardinality(P \cup Q) = Cardinality(P) + Cardinality(Q) - Cardinality(P \cap Q)
      /\ IsFiniteSet(P \cap Q)
  BY <1>5, FS_Union, FS_Subset
<1>7. Cardinality(P) \in Nat /\ Cardinality(Q) \in Nat /\ Cardinality(P \cap Q) \in Nat
  BY <1>5, <1>6, FS_CardinalityType
<1>8. Cardinality(P \cup Q) <= m + n
  BY <1>1, <1>2, <1>6, <1>7
<1>9. Raised(ByUse(t), ByUse(r), P \cup Q)
  BY <1>1, <1>2, <1>4, RaisedTwice
<1> QED BY <1>3, <1>8, <1>9 DEF Uses

LEMMA UsesMore ==
  ASSUME NEW r, NEW t, NEW S, NEW m \in Nat, NEW n \in Nat, m <= n, Uses(r, t, S, m)
  PROVE  Uses(r, t, S, n)
<1>1. PICK P \in SUBSET S : Cardinality(P) <= m /\ Raised(ByUse(t), ByUse(r), P)
  BY DEF Uses
<1>2. S \subseteq Win
  BY GoodLists DEF Uses
<1>3. Cardinality(P) \in Nat
  BY <1>2, FS_Subset, FS_CardinalityType
<1> QED BY <1>1, <1>3 DEF Uses

LEMMA BecomesIs ==
  ASSUME NEW k \in States, Becomes(k)
  PROVE  State' = k
  BY DEF Becomes, State, States

LEMMA StepIs ==
  ASSUME NEW k, Becomes(k)
  PROVE  tab' = k.tab /\ Live' = Lives(k)
  BY DEF Becomes, Live, Lives

LEMMA LiveIs == Live = Lives(State)
  BY DEF Live, Lives, State

\* What follows f on the list, and around its end.
LEMMA RingIs ==
  ASSUME NEW S \in SUBSET Win, NEW q \in Seq(Win), ToSet(q) = S, NEW f \in S
  PROVE  /\ Ring(q, f) \in Seq(S) /\ Ring(q, f) \in Seq(Win)
         /\ \E i \in DOMAIN Ring(q, f) : Ring(q, f)[i] = f
<1> DEFINE n == Place(q, f)
<1>1. Len(q) \in Nat /\ DOMAIN q = 1..Len(q) /\ \A i \in 1..Len(q) : q[i] \in S
  BY DEF ToSet
<1>2. n \in 1..Len(q) /\ q[n] = f
  <2>1. \E i \in DOMAIN q : q[i] = f
    BY DEF ToSet
  <2> QED BY <1>1, <2>1 DEF Place
<1>3. q \in Seq(S)
  BY <1>1
<1>4. Ring(q, f) = SubSeq(q, n + 1, Len(q)) \o SubSeq(q, 1, n)
  BY DEF Ring
<1> HIDE DEF n
<1>5. SubSeq(q, n + 1, Len(q)) \in Seq(S)
  BY <1>1, <1>2, <1>3
<1>6. SubSeq(q, 1, n) \in Seq(S) /\ Len(SubSeq(q, 1, n)) = n /\ SubSeq(q, 1, n)[n] = f
  BY <1>1, <1>2, <1>3
<1> DEFINE a == SubSeq(q, n + 1, Len(q))
           b == SubSeq(q, 1, n)
<1> HIDE DEF a, b
<1>7. a \in Seq(S) /\ b \in Seq(S) /\ Len(b) = n /\ b[n] = f /\ Ring(q, f) = a \o b
  BY <1>4, <1>5, <1>6 DEF a, b
<1>8. /\ a \o b \in Seq(S) /\ Len(a \o b) = Len(a) + n /\ Len(a) \in Nat
      /\ DOMAIN (a \o b) = 1..Len(a) + n /\ (a \o b)[Len(a) + n] = f
  <2>1. n \in Nat /\ n >= 1 /\ Len(a) \in Nat
    BY <1>1, <1>2, <1>7
  <2>2. /\ a \o b \in Seq(S) /\ Len(a \o b) = Len(a) + Len(b)
        /\ \A i \in 1..(Len(a) + Len(b)) : (a \o b)[i] = IF i <= Len(a) THEN a[i] ELSE b[i - Len(a)]
    <3>1. a \in Seq(S) /\ b \in Seq(S)
      BY <1>7
    <3>2. a \o b \in Seq(S) /\ Len(a \o b) = Len(a) + Len(b)
      BY ONLY <3>1
    <3>3. ASSUME NEW i \in 1..(Len(a) + Len(b)) PROVE (a \o b)[i] = IF i <= Len(a) THEN a[i] ELSE b[i - Len(a)]
      BY ONLY <3>1, i \in 1..(Len(a) + Len(b))
    <3> QED BY <3>2, <3>3
  <2>3. Len(a) + n \in 1..(Len(a) + Len(b)) /\ ~(Len(a) + n <= Len(a)) /\ (Len(a) + n) - Len(a) = n
    BY <1>7, <2>1
  <2> QED BY <1>7, <2>1, <2>2, <2>3
<1>9. Len(a) + n \in DOMAIN Ring(q, f)
  BY <1>1, <1>2, <1>7, <1>8
<1> QED BY <1>7, <1>8, <1>9

LEMMA NextIs ==
  ASSUME NEW S \in SUBSET Win, NEW q \in Seq(Win), ToSet(q) = S, NEW f \in S \cup {NULL}
  PROVE  NextIn(q, f) \in S \cup {NULL} /\ (f # NULL => NextIn(q, f) # NULL)
<1>1. CASE f = NULL
  <2>1. q # <<>> => q[1] \in S
    BY DEF ToSet
  <2> QED BY <1>1, <2>1 DEF NextIn
<1>2. CASE f # NULL
  <2> DEFINE a == Ring(q, f)
             F == {i \in DOMAIN a : group[a[i]] = group[f]}
             r == IF F = {} THEN NULL ELSE a[Min(F)]
  <2>1. a \in Seq(S) /\ a \in Seq(Win) /\ \E i \in DOMAIN a : a[i] = f
    BY <1>2, RingIs
  <2>2. NextIn(q, f) = r
    BY <1>2 DEF NextIn, FirstOf
  <2> HIDE DEF a
  <2>3. F \in SUBSET (DOMAIN a) /\ F # {}
    BY <2>1
  <2> HIDE DEF F
  <2>4. r \in ToSet(a) \cup {NULL} /\ r # NULL
    BY <2>1, <2>3, FoundIs
  <2>5. ToSet(a) \subseteq S
    BY <2>1 DEF ToSet
  <2> QED BY <2>2, <2>4, <2>5
<1> QED BY <1>1, <1>2

LEMMA ReverseIs ==
  ASSUME NEW t, NEW S, Good(t, S)
  PROVE  Backwards(t) \in Seq(Win) /\ ToSet(Backwards(t)) = S
<1> DEFINE q == ByNumber(t)
           b == Reverse(q)
<1>1. q \in Seq(Win) /\ ToSet(q) = S /\ Numbered(t, q) /\ Backwards(t) = b
  BY GoodLists
<1> HIDE DEF q
<1>2. b \in Seq(Win) /\ DOMAIN b = 1..Len(q) /\ \A i \in 1..Len(q) : b[i] = q[Len(q) - i + 1]
  BY <1>1, NumberedChain
<1> HIDE DEF b
<1>3. Len(q) \in Nat /\ DOMAIN q = 1..Len(q)
  BY <1>1
<1>4. \A i \in 1..Len(q) : Len(q) - i + 1 \in 1..Len(q) /\ Len(q) - (Len(q) - i + 1) + 1 = i
  BY <1>3
<1>5. ASSUME NEW i \in 1..Len(q) PROVE q[i] \in ToSet(b) /\ b[i] \in ToSet(q)
  <2>1. Len(q) - i + 1 \in 1..Len(q) /\ b[Len(q) - i + 1] = q[i] /\ b[i] = q[Len(q) - i + 1]
    BY <1>2, <1>4
  <2> QED BY <1>2, <1>3, <2>1 DEF ToSet
<1>6. ToSet(b) = ToSet(q)
  BY <1>2, <1>3, <1>5 DEF ToSet
<1> QED BY <1>1, <1>2, <1>6

LEMMA NeighboursAre ==
  ASSUME Sound(State), NEW f \in Live \cup {NULL}
  PROVE  /\ NextWindow(f) \in Live \cup {NULL} /\ PreviousWindow(f) \in Live \cup {NULL}
         /\ f # NULL => NextWindow(f) # NULL /\ PreviousWindow(f) # NULL
<1>1. Good(tab, Live) /\ Live \subseteq Win
  BY SoundFacts, LiveIs DEF State
<1>2. ByNumber(tab) \in Seq(Win) /\ ToSet(ByNumber(tab)) = Live
  BY <1>1, GoodLists
<1>3. Backwards(tab) \in Seq(Win) /\ ToSet(Backwards(tab)) = Live
  BY <1>1, ReverseIs
<1> QED BY <1>1, <1>2, <1>3, NextIs DEF NextWindow, PreviousWindow

\* The display a command works on, and the window.
LEMMA ContextIs ==
  ASSUME Sound(State), NEW c \in Keys \cup Remote
  PROVE  /\ c[1] \in ToSet(displays) \cup {NULL} /\ c[2] \in Live \cup {NULL}
         /\ c[1] # NULL => c[1] \in ToSet(displays) /\ c[1] \in Display
<1>1. /\ \A d \in Display : Sees(disp[d], Live, Live \cup ghosts)
      /\ ToSet(displays) \subseteq Display /\ displays \in Seq(Display)
  <2>1. State.disp = disp /\ State.displays = displays /\ State.ghosts = ghosts
    BY DEF State
  <2>2. /\ State \in States /\ ToSet(State.displays) \subseteq Display
        /\ \A d \in Display : Sees(State.disp[d], Lives(State), Lives(State) \cup State.ghosts)
    BY SoundFacts
  <2>3. State.displays \in Seq(Display)
    BY <2>2 DEF States
  <2> HIDE DEF State
  <2> QED BY <2>1, <2>2, <2>3, LiveIs
<1>2. displays # <<>> => displays[1] \in ToSet(displays)
  BY <1>1 DEF ToSet
<1>3. CASE c \in Keys
  <2>1. PICK d \in ToSet(displays) : c = <<d, disp[d].fore>>
    BY <1>3 DEF Keys
  <2> QED BY <1>1, <2>1 DEF Sees
<1>4. CASE c \in Remote
  <2>1. c[1] = (IF displays = <<>> THEN NULL ELSE displays[1])
    BY <1>4 DEF Remote
  <2>2. c[2] \in Live \cup {NULL}
    BY <1>4 DEF Remote
  <2> QED BY <1>1, <1>2, <2>1, <2>2
<1> QED BY <1>3, <1>4

LEMMA WithIs ==
  ASSUME Sound(State), NEW f \in Live \cup {NULL}
  PROVE  Sound(With(f)) /\ Only(With(f), State) /\ With(f).fore = f /\ With(f) \in States
         /\ With(f).disp = disp /\ With(f).tab = tab
<1>1. f \in Lives(State) \cup State.ghosts \cup {NULL}
  BY LiveIs
<1>2. Sound(With(f)) /\ Only(With(f), State) /\ With(f).disp = State.disp
  BY <1>1, ForeIs DEF With
<1> QED BY <1>2, SoundFacts DEF With, State

\* Every command keeps what Sound says, and changes none of the rest.
Sure == Sound(State') /\ Only(State', State)

\* At most one window has been used.
Light == Sure /\ Touched(tab', tab)

LEMMA SureIs ==
  ASSUME NEW s, Sound(s), NEW r, Sound(r), Only(r, s), Only(s, State), Becomes(r)
  PROVE  Sure /\ tab' = r.tab
<1>1. r \in States
  BY SoundFacts
<1>2. State' = r
  BY <1>1, BecomesIs
<1>3. Only(r, State)
  BY OnlyTwice
<1>4. tab' = r.tab
  BY DEF Becomes
<1> QED BY <1>2, <1>3, <1>4 DEF Sure

LEMMA SwitchSure ==
  ASSUME Sound(State), NEW d \in ToSet(displays) \cup {NULL}, NEW f \in Live \cup {NULL},
         NEW w \in Live \cup {NULL}, Becomes(SwitchWindow(With(f), d, w))
  PROVE  Light
<1> DEFINE s == With(f)
           r == SwitchWindow(s, d, w)
<1>1. Sound(s) /\ Only(s, State) /\ s.tab = tab
  BY WithIs
<1>2. d \in ToSet(s.displays) \cup {NULL} /\ w \in Lives(s) \cup {NULL}
  <2>1. s.displays = displays /\ Lives(s) = Live
    BY <1>1, OnlyLives, LiveIs DEF State
  <2> QED BY <2>1
<1> HIDE DEF s
<1>3. Sound(r) /\ Only(r, s) /\ Touched(r.tab, s.tab)
  BY <1>1, <1>2, SwitchIs
<1>4. Becomes(r)
  BY DEF s
<1> HIDE DEF r
<1> QED BY <1>1, <1>3, <1>4, SureIs DEF Light

LEMMA SetSure ==
  ASSUME Sound(State), NEW d \in ToSet(displays) \cup {NULL}, NEW f \in Live \cup {NULL},
         NEW w \in Live \cup {NULL}, Becomes(Activate(SetForeWindow(With(f), d, w), d))
  PROVE  Light
<1> DEFINE s == With(f)
           r == Activate(SetForeWindow(s, d, w), d)
<1>1. Sound(s) /\ Only(s, State) /\ s.tab = tab
  BY WithIs
<1>2. d \in ToSet(s.displays) \cup {NULL} /\ w \in Lives(s) \cup {NULL}
  <2>1. s.displays = displays /\ Lives(s) = Live
    BY <1>1, OnlyLives, LiveIs DEF State
  <2> QED BY <2>1
<1> HIDE DEF s
<1>3. Sound(r) /\ Only(r, s) /\ Touched(r.tab, s.tab)
  <2>1. Sound(r) /\ Only(r, s) /\ Fronted(r.tab, s.tab, w)
    BY <1>1, <1>2, SetActive
  <2> QED BY <2>1, SoundFacts, LiveIs DEF Fronted, Touched
<1>4. Becomes(r)
  BY DEF s
<1> HIDE DEF r
<1> QED BY <1>1, <1>3, <1>4, SureIs DEF Light

LEMMA TabSure ==
  ASSUME Sound(State), NEW f \in Live \cup {NULL}, NEW t, Good(t, Live),
         Becomes([With(f) EXCEPT !.tab = t])
  PROVE  Sure /\ tab' = t
<1> DEFINE s == With(f)
           r == [s EXCEPT !.tab = t]
<1>1. Sound(s) /\ Only(s, State)
  BY WithIs
<1>2. Good(t, Lives(s))
  BY <1>1, OnlyLives, LiveIs
<1>3. Becomes(r)
  OBVIOUS
<1> HIDE DEF s
<1>4. Sound(r) /\ Only(r, s) /\ r.tab = t
  BY <1>1, <1>2, TabIs
<1> HIDE DEF r
<1> QED BY <1>1, <1>3, <1>4, SureIs

LEMMA TabFacts ==
  ASSUME Sound(State)
  PROVE  Good(tab, Live) /\ Live \subseteq Win /\ \A f : With(f).tab = tab
<1>1. Good(State.tab, Lives(State)) /\ Lives(State) \subseteq Win
  BY SoundFacts
<1> QED BY <1>1, LiveIs DEF With, State

LEMMA NextSure ==
  ASSUME Sound(State), NEW d \in ToSet(displays) \cup {NULL}, NEW f \in Live \cup {NULL},
         DoCommandNext(d, f) \/ DoCommandPrev(d, f) \/ DoCommandOther(d, f)
  PROVE  Light
<1> DEFINE o == IF d = NULL THEN NULL ELSE disp[d].other
<1>1. CASE DoCommandNext(d, f)
  BY <1>1, NeighboursAre, SwitchSure DEF DoCommandNext
<1>2. CASE DoCommandPrev(d, f)
  BY <1>2, NeighboursAre, SwitchSure DEF DoCommandPrev
<1>3. CASE DoCommandOther(d, f)
  <2> DEFINE w == IF o = NULL THEN NextWindow(f) ELSE o
  <2>1. o \in Live \cup {NULL} /\ Becomes(SwitchWindow(With(f), d, w))
    BY <1>3 DEF DoCommandOther
  <2>2. w \in Live \cup {NULL}
    BY <2>1, NeighboursAre
  <2> HIDE DEF w
  <2> QED BY <2>1, <2>2, SwitchSure
<1> QED BY <1>1, <1>2, <1>3

LEMMA SelectSure ==
  ASSUME Sound(State), NEW d \in ToSet(displays) \cup {NULL}, NEW f \in Live \cup {NULL},
         DoCommandSelect(d, f)
  PROVE  Light
<1>1. CASE \E n \in Positions : tab.first # NULL /\ Becomes(SwitchWindow(With(f), d, GetWindowByNumber(tab, n)))
  <2>1. PICK n \in Positions : Becomes(SwitchWindow(With(f), d, GetWindowByNumber(tab, n)))
    BY <1>1
  <2>2. n \in Int
    OBVIOUS
  <2>3. GetWindowByNumber(tab, n) \in Live \cup {NULL}
    BY <2>2, TabFacts, GetIs
  <2> QED BY <2>1, <2>3, SwitchSure
<1>2. CASE Becomes(Activate(SetForeWindow(With(f), d, NULL), d))
  BY <1>2, SetSure
<1>3. CASE f # NULL /\ Becomes(Activate(SetForeWindow(With(f), d, f), d))
  BY <1>3, SetSure
<1> QED BY <1>1, <1>2, <1>3 DEF DoCommandSelect

LEMMA NumberSure ==
  ASSUME Sound(State), NEW f \in Live \cup {NULL}, DoCommandNumber(f) \/ DoCommandBump(f)
  PROVE  Sure /\ f # NULL /\ \E n \in Int : tab' = SwapWindows(tab, tab.number[f], n)
<1>1. Good(tab, Live) /\ With(f).tab = tab /\ tab.number \in [Win -> Int] /\ Live \subseteq Win
  BY TabFacts DEF Good, Tabs
<1>2. ASSUME NEW n \in Int, f # NULL PROVE Good(SwapWindows(tab, tab.number[f], n), Live)
  BY <1>1, <1>2, SwapIs
<1>3. CASE DoCommandNumber(f)
  <2>1. PICK n \in Positions : f # NULL /\ Becomes([With(f) EXCEPT !.tab = SwapWindows(@, tab.number[f], n)])
    BY <1>3 DEF DoCommandNumber
  <2> DEFINE t == SwapWindows(tab, tab.number[f], n)
  <2>2. n \in Int
    OBVIOUS
  <2>3. Good(t, Live)
    BY <1>2, <2>1, <2>2
  <2>4. Becomes([With(f) EXCEPT !.tab = t])
    BY <1>1, <2>1
  <2>5. t = SwapWindows(tab, tab.number[f], n)
    OBVIOUS
  <2> HIDE DEF t
  <2> QED BY <2>1, <2>2, <2>3, <2>4, <2>5, TabSure
<1>4. ASSUME NEW w \in Live \cup {NULL}, f # NULL, Becomes(Bumped(f, w)), w # NULL
      PROVE  Sure /\ \E n \in Int : tab' = SwapWindows(tab, tab.number[f], n)
  <2> DEFINE t == SwapWindows(tab, tab.number[f], tab.number[w])
  <2>1. tab.number[w] \in Int
    BY <1>1, <1>4
  <2>2. Good(t, Live)
    BY <1>2, <1>4, <2>1
  <2>3. Becomes([With(f) EXCEPT !.tab = t])
    BY <1>1, <1>4 DEF Bumped
  <2>4. t = SwapWindows(tab, tab.number[f], tab.number[w])
    OBVIOUS
  <2> HIDE DEF t
  <2> QED BY <2>1, <2>2, <2>3, <2>4, TabSure
<1>5. CASE DoCommandBump(f)
  <2>1. /\ NextWindow(f) \in Live \cup {NULL} /\ PreviousWindow(f) \in Live \cup {NULL}
        /\ f # NULL => NextWindow(f) # NULL /\ PreviousWindow(f) # NULL
    BY NeighboursAre
  <2> QED BY <1>4, <1>5, <2>1 DEF DoCommandBump
<1> QED BY <1>3, <1>5

LEMMA CollapseSure ==
  ASSUME Sound(State), NEW f \in Live \cup {NULL}, CollapseWindowlist(f)
  PROVE  /\ Sure /\ ByUse(tab') = ByUse(tab)
         /\ \A w \in Live : tab'.number[w] = Place(ByNumber(tab), w) - 1
<1> DEFINE N == [w \in Win |-> IF w \in Live THEN Place(ByNumber(tab), w) - 1 ELSE 0]
           t == [tab EXCEPT !.number = N]
<1>1. Good(tab, Live) /\ With(f).tab = tab
  BY TabFacts
<1>2. [w \in Win |-> IF kind[w] = "free" THEN 0 ELSE Place(ByNumber(tab), w) - 1] = N
  BY DEF Live
<1>3. Becomes([With(f) EXCEPT !.tab.number = N])
  BY <1>2 DEF CollapseWindowlist
<1>4. N = [w \in Win |-> IF w \in Live THEN Place(ByNumber(tab), w) - 1 ELSE 0]
  OBVIOUS
<1> HIDE DEF N
<1>5. Good(t, Live)
  <2>1. t = [tab EXCEPT !.number = N]
    OBVIOUS
  <2> HIDE DEF t
  <2> QED BY ONLY <1>1, <1>4, <2>1, CollapsedIs
<1>7. ByUse(t) = ByUse(tab) /\ t.number = N
  <2>1. tab \in Tabs
    BY <1>1 DEF Good
  <2> HIDE DEF N
  <2>2. t.mru = tab.mru /\ t.prevmru = tab.prevmru /\ t.number = N
    BY <2>1 DEF Tabs
  <2> QED BY <2>2 DEF ByUse
<1>8. \A w \in Live : N[w] = Place(ByNumber(tab), w) - 1
  BY <1>4 DEF Live
<1>6. [With(f) EXCEPT !.tab.number = N] = [With(f) EXCEPT !.tab = t]
  BY <1>1
<1> HIDE DEF t
<1>9. Sure /\ tab' = t
  BY <1>3, <1>5, <1>6, TabSure
<1> QED BY <1>7, <1>8, <1>9

LEMMA SortSure ==
  ASSUME Sound(State), NEW f \in Live \cup {NULL}, DoCommandSort(f)
  PROVE  Sure /\ NumbersOf(tab', Live) = NumbersOf(tab, Live)
<1>1. Good(tab, Live) /\ With(f).tab = tab
  BY TabFacts
<1>2. PICK title \in [Live -> Titles] :
         Becomes([With(f) EXCEPT !.tab = SortedBy(@, title, Cardinality(Live))])
  BY DEF DoCommandSort
<1> DEFINE t == SortedBy(tab, title, Cardinality(Live))
<1>3. Becomes([With(f) EXCEPT !.tab = t])
  BY <1>1, <1>2
<1>4. Good(t, Live) /\ NumbersOf(t, Live) = NumbersOf(tab, Live)
  BY <1>1, SortedIs
<1> HIDE DEF t
<1> QED BY <1>3, <1>4, TabSure

-----------------------------------------------------------------------------
(* Groups                                                                  *)

\* Windows are in groups that there are, and none in a ring: of any of them one
\* is in none of the others.
Groups(s) ==
  /\ \A w \in Lives(s) : s.group[w] # NULL => s.group[w] \in Lives(s) /\ s.kind[s.group[w]] = "group"
  /\ \A S \in SUBSET Lives(s) : S # {} => \E w \in S : s.group[w] \notin S

Invar == Sound(State) /\ Groups(State)

LEMMA OnlyGroups ==
  ASSUME NEW r, NEW s, Only(r, s), Groups(s)
  PROVE  Groups(r)
<1>1. Lives(r) = Lives(s)
  BY OnlyLives
<1> QED BY <1>1 DEF Only, Groups

LEMMA SureInvar ==
  ASSUME Groups(State), Sure
  PROVE  Invar'
<1>1. Groups(State')
  BY OnlyGroups DEF Sure
<1> QED BY <1>1 DEF Sure, Invar

LEMMA ParentSure ==
  ASSUME Invar, NEW d \in ToSet(displays) \cup {NULL}, NEW f \in Live \cup {NULL}, DoCommandParent(d, f)
  PROVE  Light
<1>1. f # NULL /\ Becomes(SwitchWindow(With(f), d, group[f]))
  BY DEF DoCommandParent
<1>2. group[f] \in Live \cup {NULL}
  BY <1>1, LiveIs DEF Invar, Groups, State
<1> QED BY <1>1, <1>2, SwitchSure DEF Invar

\* Other kinds of windows, or other groups.
LEMMA KindsIs ==
  ASSUME NEW s, Sound(s), NEW k \in [Win -> {"free", "pty", "zombie", "group"}],
         NEW g \in [Win -> Win \cup {NULL}], \A w \in Win : k[w] = "free" <=> s.kind[w] = "free",
         NEW r, r = Rec(s.tab, k, g, s.disp, s.displays, s.fore, s.lay, s.layouts, s.memory, s.ghosts)
  PROVE  /\ Sound(r) /\ Lives(r) = Lives(s) /\ r.kind = k /\ r.group = g
         /\ r.displays = s.displays /\ r.ghosts = s.ghosts /\ r.tab = s.tab
<1>1. s \in States
  BY SoundFacts
<1>3. /\ r \in States /\ r.tab = s.tab /\ r.kind = k /\ r.group = g /\ r.disp = s.disp
      /\ r.displays = s.displays /\ r.fore = s.fore /\ r.lay = s.lay /\ r.layouts = s.layouts
      /\ r.memory = s.memory /\ r.ghosts = s.ghosts
  <2>1. r = Rec(s.tab, k, g, s.disp, s.displays, s.fore, s.lay, s.layouts, s.memory, s.ghosts)
    OBVIOUS
  <2>2. /\ s.tab \in Tabs /\ s.disp \in [Display -> Disps]
        /\ s.displays \in Seq(Display) /\ s.fore \in Win \cup {NULL} /\ s.lay \in [Layout -> Lays]
        /\ s.layouts \in Seq(Layout) /\ s.memory \in Memories /\ s.ghosts \in SUBSET Win
    BY <1>1, StateFields
  <2>3. k \in [Win -> {"free", "pty", "zombie", "group"}] /\ g \in [Win -> Win \cup {NULL}]
    BY Zenon
  <2> QED BY ONLY <2>1, <2>2, <2>3 DEF States, Rec
<1>4. Lives(r) = Lives(s)
  BY <1>3 DEF Lives
<1> HIDE DEF Lives
<1>5. Arranged(r)
  BY <1>3 DEF Sound, Whole, Arranged
<1>6. Fine(r, Lives(s), Lives(s), Lives(s) \cup s.ghosts)
  BY <1>3 DEF Sound, Whole, Fine
<1>7. Whole(r, s.ghosts)
  BY <1>3, <1>4, <1>5, <1>6 DEF Sound, Whole
<1> QED BY <1>3, <1>4, <1>7 DEF Sound

LEMMA RecKind ==
  ASSUME NEW s \in States, NEW w, NEW x
  PROVE  [s EXCEPT !.kind[w] = x]
         = Rec(s.tab, [s.kind EXCEPT ![w] = x], s.group, s.disp, s.displays, s.fore, s.lay, s.layouts,
               s.memory, s.ghosts)
<1>1. [s EXCEPT !.kind[w] = x] = [s EXCEPT !.kind = [s.kind EXCEPT ![w] = x]]
  OBVIOUS
<1>2. s = Rec(s.tab, s.kind, s.group, s.disp, s.displays, s.fore, s.lay, s.layouts, s.memory, s.ghosts)
  BY StateFields
<1>3. \A y : [s EXCEPT !.kind = y] = Rec(s.tab, y, s.group, s.disp, s.displays, s.fore, s.lay, s.layouts,
                                       s.memory, s.ghosts)
  BY ONLY <1>2 DEF Rec
<1> QED BY <1>1, <1>3

LEMMA RecGroup ==
  ASSUME NEW s \in States, NEW w, NEW x
  PROVE  [s EXCEPT !.group[w] = x]
         = Rec(s.tab, s.kind, [s.group EXCEPT ![w] = x], s.disp, s.displays, s.fore, s.lay, s.layouts,
               s.memory, s.ghosts)
<1>1. [s EXCEPT !.group[w] = x] = [s EXCEPT !.group = [s.group EXCEPT ![w] = x]]
  OBVIOUS
<1>2. s = Rec(s.tab, s.kind, s.group, s.disp, s.displays, s.fore, s.lay, s.layouts, s.memory, s.ghosts)
  BY StateFields
<1>3. \A y : [s EXCEPT !.group = y] = Rec(s.tab, s.kind, y, s.disp, s.displays, s.fore, s.lay, s.layouts,
                                       s.memory, s.ghosts)
  BY ONLY <1>2 DEF Rec
<1> QED BY <1>1, <1>3

\* The table stays as it is.
Resting == Live' = Live /\ tab' = tab

\* A window that becomes a zombie or is remade.
LEMMA ZombieInvar ==
  ASSUME Invar, NEW w \in Win, NEW x \in {"pty", "zombie"}, kind[w] \in {"pty", "zombie"},
         Becomes([State EXCEPT !.kind[w] = x])
  PROVE  Invar' /\ Resting
<1> DEFINE s == State
           k == [s.kind EXCEPT ![w] = x]
           r == [s EXCEPT !.kind[w] = x]
<1>1. Sound(s) /\ Groups(s) /\ s.kind[w] \in {"pty", "zombie"} /\ Becomes(r)
  BY DEF Invar, State
<1>0. s.tab = tab /\ Lives(s) = Live
  BY LiveIs DEF State
<1> HIDE DEF s
<1>2. s \in States
  BY <1>1, SoundFacts
<1>3. /\ r = Rec(s.tab, k, s.group, s.disp, s.displays, s.fore, s.lay, s.layouts, s.memory, s.ghosts)
      /\ s.kind \in [Win -> {"free", "pty", "zombie", "group"}] /\ s.group \in [Win -> Win \cup {NULL}]
  <2>1. r = Rec(s.tab, k, s.group, s.disp, s.displays, s.fore, s.lay, s.layouts, s.memory, s.ghosts)
    BY <1>2, RecKind
  <2>2. s.kind \in [Win -> {"free", "pty", "zombie", "group"}] /\ s.group \in [Win -> Win \cup {NULL}]
    BY <1>2, StateFields
  <2> QED BY <2>1, <2>2
<1>4. k \in [Win -> {"free", "pty", "zombie", "group"}] /\ \A v \in Win : k[v] = IF v = w THEN x ELSE s.kind[v]
  BY <1>3
<1> HIDE DEF k, r
<1>5. \A v \in Win : (k[v] = "free" <=> s.kind[v] = "free") /\ (s.kind[v] = "group" => k[v] = "group")
  BY <1>1, <1>4
<1>6. Sound(r) /\ Lives(r) = Lives(s) /\ r.kind = k /\ r.group = s.group /\ r.tab = s.tab
  BY <1>1, <1>3, <1>4, <1>5, KindsIs
<1>7. Groups(r)
  <2>1. Lives(s) \subseteq Win
    BY DEF Lives
  <2> QED BY <1>1, <1>5, <1>6, <2>1 DEF Groups
<1>8. State' = r
  BY <1>1, <1>6, SoundFacts, BecomesIs
<1>9. tab' = r.tab /\ Live' = Lives(r)
  BY <1>1, StepIs
<1> QED BY <1>0, <1>6, <1>7, <1>8, <1>9 DEF Invar, Resting

\* What a chain goes through: it ends, or is longer than there are windows.
Trail(q, start, link) ==
  /\ q \in Seq(Win) /\ Len(q) >= 1 /\ q[1] = start
  /\ \A i \in 1..(Len(q) - 1) : link[q[i]] = q[i + 1]
  /\ Len(q) = Cardinality(Win) + 1 \/ link[q[Len(q)]] = NULL

LEMMA ChainLinks ==
  ASSUME NEW start \in Win, NEW link \in [Win -> Win \cup {NULL}], NEW q, q = Chain(start, link)
  PROVE  Trail(q, start, link)
<1> DEFINE N == Cardinality(Win)
           P(n, x) == /\ x \in Seq(Win) /\ Len(x) >= 1 /\ x[1] = start
                      /\ \A i \in 1..(Len(x) - 1) : link[x[i]] = x[i + 1]
                      /\ Len(x) = n + 1 \/ link[x[Len(x)]] = NULL
<1>1. N \in Nat
  BY FS_CardinalityType
<1>2. PICK h : /\ h[0] = <<start>> /\ \A k \in 1..N : h[k] = Follow(h[k - 1], link)
               /\ \A k \in 0..N : h[k] \in Seq(Win)
               /\ q = h[N]
  <2>1. <<start>> = StartOf(start)
    BY DEF StartOf
  <2> QED BY <2>1, ChainSteps
<1> HIDE DEF N
<1> DEFINE G == {n \in 0..N : P(n, h[n])}
<1>3. 0 \in G
  <2>1. P(0, h[0])
    BY <1>2
  <2> HIDE DEF P
  <2> QED BY <1>1, <2>1
<1>4. ASSUME NEW n \in 0..(N - 1), n \in G PROVE n + 1 \in G
  <2> DEFINE x == h[n]
             y == h[n + 1]
  <2>1. n + 1 \in 0..N /\ n + 1 \in 1..N /\ (n + 1) - 1 = n /\ n \in Nat
    BY <1>1
  <2>2. y = Follow(x, link) /\ P(n, x)
    BY <1>2, <1>4, <2>1
  <2> HIDE DEF x, y
  <2>3. x \in Seq(Win) /\ Len(x) \in Nat /\ Len(x) >= 1 /\ x # <<>> /\ Last(x) = x[Len(x)]
    BY <2>2 DEF Last
  <2>4. CASE link[x[Len(x)]] = NULL
    <3>1. y = x
      BY <2>2, <2>3, <2>4 DEF Follow
    <3> QED BY <2>1, <2>2, <2>4, <3>1 DEF y
  <2>5. CASE link[x[Len(x)]] # NULL
    <3> DEFINE z == link[x[Len(x)]]
    <3>1. z \in Win
      BY <2>3, <2>5
    <3>2. y = Append(x, z) /\ Len(x) = n + 1
      BY <2>2, <2>3, <2>5 DEF Follow
    <3>3. z = link[x[Len(x)]]
      OBVIOUS
    <3> HIDE DEF z
    <3>4. y \in Seq(Win) /\ Len(y) = n + 2 /\ y[n + 2] = z /\ \A i \in 1..(n + 1) : y[i] = x[i]
      BY <2>1, <2>3, <3>1, <3>2
    <3>5. ASSUME NEW i \in 1..(Len(y) - 1) PROVE link[y[i]] = y[i + 1]
      <4>1. CASE i = n + 1
        BY <2>1, <3>2, <3>3, <3>4, <4>1
      <4>2. CASE i # n + 1
        <5>1. i \in 1..(Len(x) - 1) /\ i \in 1..(n + 1) /\ i + 1 \in 1..(n + 1)
          BY <2>1, <3>2, <3>4, <4>2
        <5> QED BY <2>2, <3>4, <5>1
      <4> QED BY <4>1, <4>2
    <3>6. P(n + 1, y)
      <4>1. Len(y) >= 1 /\ Len(y) = (n + 1) + 1 /\ 1 \in 1..(n + 1)
        BY <2>1, <3>4
      <4> QED BY <2>2, <3>4, <3>5, <4>1
    <3> HIDE DEF P
    <3> QED BY <2>1, <3>6 DEF y
  <2> QED BY <2>4, <2>5
<1>5. G = 0..N
  <2>1. G \in SUBSET (0..N)
    OBVIOUS
  <2> HIDE DEF G
  <2> QED BY <1>1, <1>3, <1>4, <2>1, UpTo
<1>6. P(N, q)
  <2> HIDE DEF P
  <2> QED BY <1>1, <1>2, <1>5
<1> QED BY <1>6 DEF N, Trail

\* Groups without a ring stay so when f is put into g, from which f is not found.
LEMMA NoRing ==
  ASSUME NEW L \in SUBSET Win, NEW link \in [Win -> Win \cup {NULL}],
         \A w \in L : link[w] \in L \cup {NULL},
         \A S \in SUBSET L : S # {} => \E w \in S : link[w] \notin S,
         NEW f \in L, NEW g \in L, f \notin ToSet(Chain(g, link)),
         NEW S \in SUBSET L, S # {}, \A w \in S : w # f => link[w] \in S, f \in S => g \in S
  PROVE  FALSE
<1> DEFINE q == Chain(g, link)
           N == Cardinality(Win)
<1>1. /\ q \in Seq(Win) /\ Len(q) >= 1 /\ q[1] = g
      /\ \A i \in 1..(Len(q) - 1) : link[q[i]] = q[i + 1]
      /\ Len(q) = N + 1 \/ link[q[Len(q)]] = NULL
  <2>1. Trail(q, g, link)
    BY ChainLinks
  <2> QED BY <2>1 DEF Trail
<1>2. N \in Nat /\ IsFiniteSet(Win)
  BY FS_CardinalityType
<1>3. f \notin ToSet(q)
  OBVIOUS
<1> HIDE DEF q, N
<1>4. Len(q) \in Nat /\ DOMAIN q = 1..Len(q) /\ \A i \in 1..Len(q) : q[i] \in Win /\ q[i] # NULL
  BY <1>1
<1>5. f \in S /\ g \in S
  OBVIOUS
<1>6. CASE link[q[Len(q)]] = NULL
  <2> DEFINE T == S \cap ToSet(q)
  <2>1. g \in T
    BY <1>1, <1>4, <1>5 DEF ToSet
  <2>2. ASSUME NEW w \in T PROVE link[w] \in T
    <3>1. PICK i \in 1..Len(q) : w = q[i]
      BY <1>4 DEF ToSet
    <3>2. w # f /\ link[w] \in S
      BY <1>3
    <3>3. i # Len(q)
      BY <1>6, <3>1, <3>2
    <3>4. i \in 1..(Len(q) - 1) /\ i + 1 \in 1..Len(q)
      <4>1. Len(q) \in Nat /\ i \in 1..Len(q)
        BY <1>4
      <4> QED BY ONLY <4>1, <3>3
    <3>5. link[w] = q[i + 1]
      BY <1>1, <3>1, <3>4
    <3> QED BY <1>4, <3>2, <3>4, <3>5 DEF ToSet
  <2>3. T \in SUBSET L /\ T # {}
    BY <2>1
  <2> HIDE DEF T
  <2> QED BY <2>2, <2>3
<1>7. CASE Len(q) = N + 1
  <2> DEFINE I == 1..(N + 1)
             h == [i \in I |-> q[i]]
  <2>1. \E i, j \in I : i # j /\ h[i] = h[j]
    <3>1. IsFiniteSet(I) /\ Cardinality(I) = N + 1
      <4>1. 1 \in Int /\ N + 1 \in Int /\ ~(1 > N + 1)
        BY <1>2
      <4>2. IsFiniteSet(1..(N + 1)) /\ Cardinality(1..(N + 1)) = IF 1 > N + 1 THEN 0 ELSE (N + 1) - 1 + 1
        BY <4>1, FS_Interval
      <4> QED BY <1>2, <4>1, <4>2
    <3>2. h \in [I -> Win]
      BY <1>4, <1>7
    <3> HIDE DEF h, I
    <3>3. Cardinality(Win) < Cardinality(I)
      BY <1>2, <3>1 DEF N
    <3> QED BY ONLY <1>2, <3>1, <3>2, <3>3, FS_PigeonHole
  <2>2. PICK i \in I, j \in I : i < j /\ q[i] = q[j]
    <3>1. PICK x \in I, y \in I : x # y /\ h[x] = h[y]
      BY <2>1
    <3>2. x < y \/ y < x
      BY <1>2, <3>1
    <3>3. q[x] = q[y]
      BY <3>1
    <3> QED BY <3>2, <3>3
  <2>3. ASSUME NEW k \in 1..Len(q) PROVE q[k] \in L
    <3> DEFINE G == {m \in 0..(Len(q) - 1) : q[m + 1] \in L}
    <3>1. 0 \in G
      BY <1>1, <1>4
    <3>2. ASSUME NEW m \in 0..((Len(q) - 1) - 1), m \in G PROVE m + 1 \in G
      <4>1. m + 1 \in 1..(Len(q) - 1) /\ m + 1 \in 0..(Len(q) - 1) /\ (m + 1) + 1 \in 1..Len(q)
        BY <1>4
      <4>2. link[q[m + 1]] = q[(m + 1) + 1] /\ q[(m + 1) + 1] # NULL
        BY <1>1, <1>4, <4>1
      <4> QED BY <3>2, <4>1, <4>2
    <3>3. G = 0..(Len(q) - 1)
      <4>1. G \in SUBSET (0..(Len(q) - 1)) /\ Len(q) - 1 \in Nat
        BY <1>1, <1>4
      <4> HIDE DEF G
      <4> QED BY <3>1, <3>2, <4>1, UpTo
    <3>4. k - 1 \in 0..(Len(q) - 1) /\ (k - 1) + 1 = k
      <4>1. Len(q) \in Nat /\ k \in 1..Len(q)
        BY <1>4
      <4> QED BY ONLY <4>1
    <3> QED BY <3>3, <3>4
  <2> DEFINE T == {q[k] : k \in i..(j - 1)}
  <2>4. i \in 1..Len(q) /\ j \in 1..Len(q) /\ i \in Int /\ j \in Int
    BY <1>2, <1>7
  <2>5. ASSUME NEW w \in T PROVE link[w] \in T
    <3>1. PICK k \in i..(j - 1) : w = q[k]
      OBVIOUS
    <3>2. k \in 1..(Len(q) - 1)
      BY <1>4, <2>4
    <3>3. link[w] = q[k + 1]
      BY <1>1, <3>1, <3>2
    <3>4. CASE k = j - 1
      <4>1. k + 1 = j
        BY <2>4, <3>4
      <4>2. link[w] = q[i] /\ i \in i..(j - 1)
        BY <2>2, <2>4, <3>3, <4>1
      <4> QED BY <4>2
    <3>5. CASE k # j - 1
      <4>1. k + 1 \in i..(j - 1)
        BY <2>4, <3>5
      <4> QED BY <3>3, <4>1
    <3> QED BY <3>4, <3>5
  <2>6. T \in SUBSET L
    <3>1. \A k \in i..(j - 1) : k \in 1..Len(q)
      BY <1>4, <2>4
    <3> QED BY <2>3, <3>1
  <2>7. T # {}
    <3>1. i \in i..(j - 1)
      BY <2>2, <2>4
    <3> QED BY <3>1
  <2> HIDE DEF T
  <2> QED BY <2>5, <2>6, <2>7
<1> QED BY <1>1, <1>6, <1>7

\* Groups from other groups g and kinds k of the windows L.
Grouping(L, k, g) ==
  /\ \A w \in L : g[w] # NULL => g[w] \in L /\ k[g[w]] = "group"
  /\ \A S \in SUBSET L : S # {} => \E w \in S : g[w] \notin S

LEMMA GroupingIs ==
  ASSUME NEW s
  PROVE  Groups(s) <=> Grouping(Lives(s), s.kind, s.group)
  BY DEF Groups, Grouping

LEMMA PutInto ==
  ASSUME NEW L \in SUBSET Win, NEW k, NEW link \in [Win -> Win \cup {NULL}], Grouping(L, k, link),
         NEW f \in L, NEW g \in L \cup {NULL}, g # NULL => k[g] = "group" /\ f \notin ToSet(Chain(g, link)),
         NEW new, new = [link EXCEPT ![f] = g]
  PROVE  Grouping(L, k, new)
<1>1. \A w \in Win : new[w] = IF w = f THEN g ELSE link[w]
  OBVIOUS
<1>2. \A w \in L : link[w] \in L \cup {NULL}
  BY DEF Grouping
<1>3. \A w \in L : new[w] # NULL => new[w] \in L /\ k[new[w]] = "group"
  BY <1>1 DEF Grouping
<1>4. ASSUME NEW S \in SUBSET L, S # {} PROVE \E w \in S : new[w] \notin S
  <2> SUFFICES ASSUME \A w \in S : new[w] \in S PROVE FALSE
    OBVIOUS
  <2>1. \A w \in S : w # f => link[w] \in S
    BY <1>1
  <2>2. f \in S => g \in S /\ g \in L
    BY <1>1
  <2>3. CASE f \notin S
    BY <1>4, <2>1, <2>3 DEF Grouping
  <2>4. CASE f \in S
    <3>1. g \in L /\ f \notin ToSet(Chain(g, link)) /\ g \in S
      BY <2>2, <2>4
    <3>2. \A T \in SUBSET L : T # {} => \E w \in T : link[w] \notin T
      BY DEF Grouping
    <3> QED BY ONLY <1>2, <1>4, <2>1, <3>1, <3>2, L \in SUBSET Win, link \in [Win -> Win \cup {NULL}],
                    f \in L, NoRing
  <2> QED BY <2>3, <2>4
<1> QED BY <1>3, <1>4 DEF Grouping

\* A window that is made is in a group that there is.
LEMMA MadeGroup ==
  ASSUME NEW L \in SUBSET Win, NEW k, NEW link \in [Win -> Win \cup {NULL}], Grouping(L, k, link),
         NEW p \in Win \ L, NEW g \in L \cup {NULL}, g # NULL => k[g] = "group",
         NEW new, new = [link EXCEPT ![p] = g], NEW kn, \A w \in L : kn[w] = k[w]
  PROVE  Grouping(L \cup {p}, kn, new)
<1>1. \A w \in Win : new[w] = IF w = p THEN g ELSE link[w]
  OBVIOUS
<1>2. \A w \in L : link[w] \in L \cup {NULL} /\ w # p
  BY DEF Grouping
<1>3. ASSUME NEW w \in L \cup {p}, new[w] # NULL PROVE new[w] \in L \cup {p} /\ kn[new[w]] = "group"
  BY <1>1, <1>2, <1>3 DEF Grouping
<1>4. ASSUME NEW S \in SUBSET (L \cup {p}), S # {} PROVE \E w \in S : new[w] \notin S
  <2>1. CASE S \ {p} = {}
    <3>1. S = {p} /\ new[p] = g /\ g # p
      BY <1>1, <1>4, <2>1
    <3> QED BY <3>1
  <2>2. CASE S \ {p} # {}
    <3> DEFINE T == S \ {p}
    <3>1. T \in SUBSET L /\ T # {}
      BY <2>2
    <3> HIDE DEF T
    <3>2. PICK w \in T : link[w] \notin T
      BY <3>1 DEF Grouping
    <3>3. w \in L /\ w # p /\ link[w] # p /\ new[w] = link[w]
      BY <1>1, <1>2, <3>1, <3>2
    <3> QED BY <3>2, <3>3 DEF T
  <2> QED BY <2>1, <2>2
<1> QED BY <1>3, <1>4 DEF Grouping

\* A window that goes leaves its windows to its own group.
LEMMA LeftGroup ==
  ASSUME NEW L \in SUBSET Win, NEW k, NEW link \in [Win -> Win \cup {NULL}], Grouping(L, k, link),
         NEW w \in L, NEW new, \A v \in L \ {w} : new[v] = IF link[v] = w THEN link[w] ELSE link[v],
         NEW kn, \A v \in L \ {w} : kn[v] = k[v]
  PROVE  Grouping(L \ {w}, kn, new)
<1>1. \A v \in L : link[v] \in L \cup {NULL} /\ (link[v] # NULL => k[link[v]] = "group")
  BY DEF Grouping
<1>2. link[w] # w
  <2>1. {w} \in SUBSET L /\ {w} # {}
    OBVIOUS
  <2>2. \E v \in {w} : link[v] \notin {w}
    BY <2>1 DEF Grouping
  <2> QED BY <2>2
<1>3. ASSUME NEW v \in L \ {w}, new[v] # NULL PROVE new[v] \in L \ {w} /\ kn[new[v]] = "group"
  BY <1>1, <1>2, <1>3
<1>4. ASSUME NEW S \in SUBSET (L \ {w}), S # {} PROVE \E v \in S : new[v] \notin S
  <2> SUFFICES ASSUME \A v \in S : new[v] \in S PROVE FALSE
    OBVIOUS
  <2>1. CASE \E v \in S : link[v] = w
    <3> DEFINE T == S \cup {w}
    <3>1. link[w] \in S
      BY <2>1
    <3>2. \A v \in T : link[v] \in T
      BY <3>1
    <3>3. T \in SUBSET L /\ T # {}
      OBVIOUS
    <3> HIDE DEF T
    <3> QED BY <3>2, <3>3 DEF Grouping
  <2>2. CASE \A v \in S : link[v] # w
    <3>1. \A v \in S : link[v] \in S
      BY <2>2
    <3> QED BY <1>4, <3>1 DEF Grouping
  <2> QED BY <2>1, <2>2
<1> QED BY <1>3, <1>4 DEF Grouping

LEMMA GroupSure ==
  ASSUME ~Rings, Invar, NEW f \in Live \cup {NULL}, DoCommandGroup(f)
  PROVE  Invar' /\ Resting
<1> DEFINE s == With(f)
<1>1. PICK g \in {NULL} \cup {w \in Live : kind[w] = "group" /\ w # f} :
         f \notin ToSet(Chain(g, group)) /\ Becomes([With(f) EXCEPT !.group[f] = g])
  BY DEF DoCommandGroup
<1>2. Sound(s) /\ Only(s, State) /\ s \in States
  BY WithIs DEF Invar
<1>0. s.tab = tab
  BY TabFacts DEF Invar
<1>3. s.kind = kind /\ s.group = group /\ Lives(s) = Live /\ f \in Live
  BY <1>2, OnlyLives, LiveIs DEF Only, State, DoCommandGroup
<1> DEFINE new == [s.group EXCEPT ![f] = g]
           r == [s EXCEPT !.group[f] = g]
<1>4. Becomes(r)
  BY <1>1
<1> HIDE DEF s
<1>5. /\ r = Rec(s.tab, s.kind, new, s.disp, s.displays, s.fore, s.lay, s.layouts, s.memory, s.ghosts)
      /\ s.kind \in [Win -> {"free", "pty", "zombie", "group"}] /\ s.group \in [Win -> Win \cup {NULL}]
  BY <1>2, StateFields, RecGroup
<1>6. Live \in SUBSET Win /\ g \in Live \cup {NULL} /\ (g # NULL => s.kind[g] = "group")
  BY <1>1, <1>3 DEF Live
<1>7. new \in [Win -> Win \cup {NULL}] /\ new = [s.group EXCEPT ![f] = g]
  BY <1>5, <1>6
<1> HIDE DEF r, new
<1>8. Sound(r) /\ Lives(r) = Lives(s) /\ r.kind = s.kind /\ r.group = new /\ r.tab = s.tab
  BY <1>2, <1>5, <1>7, KindsIs
<1>9. Grouping(Live, s.kind, s.group)
  BY <1>2, <1>3, OnlyGroups, GroupingIs DEF Invar
<1>10. Grouping(Live, s.kind, new)
  BY <1>1, <1>3, <1>5, <1>6, <1>7, <1>9, PutInto
<1>11. Groups(r)
  BY <1>3, <1>8, <1>10, GroupingIs
<1>12. State' = r
  BY <1>4, <1>8, SoundFacts, BecomesIs
<1>13. tab' = r.tab /\ Live' = Lives(r)
  BY <1>4, StepIs
<1> QED BY <1>0, <1>3, <1>8, <1>11, <1>12, <1>13 DEF Invar, Resting

===============================================================================
