---------------------------- MODULE WindowsProofs -----------------------------
(*****************************************************************************)
(* Layouts, regions, the death of windows, displays that leave and come; what *)
(* holds of the table of windows for any number of windows, displays and     *)
(* layouts; and that it implements WindowList.                               *)
(*****************************************************************************)
EXTENDS WindowsListProofs

USE WindowsAssumption

-----------------------------------------------------------------------------
(* Layouts                                                                 *)

\* s with other things saved in the layouts.
Shelved(s, y) ==
  Rec(s.tab, s.kind, s.group, s.disp, s.displays, s.fore, y, s.layouts, s.memory, s.ghosts)

LEMMA ShelvedIs ==
  ASSUME NEW s \in States, NEW y \in [Layout -> Lays], NEW r, r = Shelved(s, y)
  PROVE  /\ r \in States /\ r.tab = s.tab /\ r.kind = s.kind /\ r.group = s.group /\ r.disp = s.disp
         /\ r.displays = s.displays /\ r.fore = s.fore /\ r.lay = y /\ r.layouts = s.layouts
         /\ r.memory = s.memory /\ r.ghosts = s.ghosts
<1>1. /\ s.tab \in Tabs /\ s.kind \in [Win -> {"free", "pty", "zombie", "group"}]
      /\ s.group \in [Win -> Win \cup {NULL}] /\ s.disp \in [Display -> Disps]
      /\ s.displays \in Seq(Display) /\ s.fore \in Win \cup {NULL}
      /\ s.layouts \in Seq(Layout) /\ s.memory \in Memories /\ s.ghosts \in SUBSET Win
  BY StateFields
<1> QED BY <1>1 DEF Shelved, Rec, States

\* What a layout holds is on a display there, and it is listed.
Stored(y, s) ==
  /\ y \in [Layout -> Lays]
  /\ \A l \in Layout : ToSet(y[l].cvs) \subseteq Lives(s) \cup {NULL}
  /\ \A l \in Layout : IF l \in ToSet(s.layouts) THEN y[l].focus \in DOMAIN y[l].cvs ELSE y[l] = NoLayout

LEMMA ShelvedWhole ==
  ASSUME NEW s, NEW G, Whole(s, G), NEW y, Stored(y, s), NEW r, r = Shelved(s, y)
  PROVE  /\ Whole(r, G) /\ Only(r, s) /\ r.disp = s.disp /\ r.lay = y /\ r.layouts = s.layouts
         /\ r.memory = s.memory /\ r.tab = s.tab /\ r.fore = s.fore
<1>1. s \in States
  BY DEF Whole, Fine
<1>2. y \in [Layout -> Lays]
  BY DEF Stored
<1>3. /\ r \in States /\ r.tab = s.tab /\ r.kind = s.kind /\ r.group = s.group /\ r.disp = s.disp
      /\ r.displays = s.displays /\ r.fore = s.fore /\ r.lay = y /\ r.layouts = s.layouts
      /\ r.memory = s.memory /\ r.ghosts = s.ghosts
  BY <1>1, <1>2, ShelvedIs
<1>4. Lives(r) = Lives(s)
  BY <1>3 DEF Lives
<1> HIDE DEF Lives
<1>5. Arranged(r)
  BY <1>3 DEF Whole, Arranged, Stored
<1>6. Fine(r, Lives(s), Lives(s), Lives(s) \cup G)
  BY <1>3 DEF Whole, Fine, Stored
<1>7. Whole(r, G)
  BY <1>3, <1>4, <1>5, <1>6 DEF Whole
<1> QED BY <1>3, <1>7 DEF Only

LEMMA StoredNow ==
  ASSUME NEW s, NEW G, Whole(s, G)
  PROVE  Stored(s.lay, s)
<1>1. s \in States
  BY DEF Whole, Fine
<1>2. s.lay \in [Layout -> Lays]
  BY <1>1, StateFields
<1> QED BY <1>2 DEF Stored, Whole, Fine, Arranged

Store(v, n, a) == [cvs |-> v, focus |-> n, autosave |-> a]

LEMMA SavedIs ==
  ASSUME NEW s \in States, NEW d \in Display, NEW l \in Layout
  PROVE  Saved(s, d, l)
         = Shelved(s, [s.lay EXCEPT ![l] = Store(s.disp[d].cvs, s.disp[d].focus, s.lay[l].autosave)])
<1> DEFINE a == s.disp[d].cvs
           b == s.disp[d].focus
           c == s.lay[l]
<1>1. s.lay \in [Layout -> Lays] /\ c \in Lays
  BY StateFields
<1>2. Saved(s, d, l) = [s EXCEPT !.lay = [s.lay EXCEPT ![l] = [c EXCEPT !.cvs = a, !.focus = b]]]
  <2>1. ASSUME NEW x, NEW z
        PROVE  [s EXCEPT !.lay[l].cvs = x, !.lay[l].focus = z]
               = [s EXCEPT !.lay = [s.lay EXCEPT ![l] = [s.lay[l] EXCEPT !.cvs = x, !.focus = z]]]
    BY ZenonT(60) DEF States, Lays
  <2> QED BY <2>1 DEF Saved
<1> HIDE DEF a, b, c
<1>3. [c EXCEPT !.cvs = a, !.focus = b] = Store(a, b, c.autosave)
  <2>1. [c EXCEPT !.cvs = a, !.focus = b] = [[c EXCEPT !.cvs = a] EXCEPT !.focus = b]
    OBVIOUS
  <2>2. [c EXCEPT !.cvs = a] = Store(a, c.focus, c.autosave)
    BY <1>1 DEF Lays, Store
  <2>3. [Store(a, c.focus, c.autosave) EXCEPT !.focus = b] = Store(a, b, c.autosave)
    BY DEF Store
  <2> QED BY <2>1, <2>2, <2>3
<1>4. \A y : [s EXCEPT !.lay = y] = Shelved(s, y)
  BY ONLY s \in States DEF States, Rec, Shelved
<1> QED BY <1>2, <1>3, <1>4 DEF a, b, c

LEMMA SavedWhole ==
  ASSUME NEW s, NEW G, Whole(s, G), NEW d \in Display, s.disp[d].focus \in DOMAIN s.disp[d].cvs,
         NEW l \in ToSet(s.layouts), NEW r, r = Saved(s, d, l)
  PROVE  /\ Whole(r, G) /\ Only(r, s) /\ r.disp = s.disp /\ r.layouts = s.layouts
         /\ r.memory = s.memory /\ r.tab = s.tab /\ r.fore = s.fore
<1> DEFINE z == Store(s.disp[d].cvs, s.disp[d].focus, s.lay[l].autosave)
           y == [s.lay EXCEPT ![l] = z]
<1>1. s \in States /\ s.lay \in [Layout -> Lays] /\ s.disp[d] \in Disps /\ l \in Layout
  <2>1. s \in States
    BY DEF Whole, Fine
  <2>2. s.layouts \in Seq(Layout) /\ s.lay \in [Layout -> Lays] /\ s.disp \in [Display -> Disps]
    BY <2>1, StateFields
  <2>3. l \in Layout
    BY <2>2 DEF ToSet
  <2> QED BY <2>1, <2>2, <2>3
<1>2. z \in Lays /\ z.cvs = s.disp[d].cvs /\ z.focus = s.disp[d].focus
  <2>1. s.lay[l] \in Lays
    BY <1>1
  <2>2. s.lay[l].autosave \in BOOLEAN /\ s.disp[d].cvs \in Seq(Win \cup {NULL}) /\ s.disp[d].focus \in Nat
    BY <1>1, <2>1 DEF Lays, Disps
  <2> QED BY <2>2 DEF Lays, Store
<1>3. ToSet(s.disp[d].cvs) \subseteq Lives(s) \cup {NULL}
  BY DEF Whole, Fine, Sees
<1>4. r = Shelved(s, y)
  BY <1>1, SavedIs
<1> HIDE DEF z
<1>5. y \in [Layout -> Lays] /\ \A m \in Layout : y[m] = IF m = l THEN z ELSE s.lay[m]
  BY <1>1, <1>2
<1> HIDE DEF y
<1>6. Stored(y, s)
  <2>1. Stored(s.lay, s)
    BY StoredNow
  <2> QED BY <1>2, <1>3, <1>5, <2>1 DEF Stored
<1> QED BY <1>4, <1>6, ShelvedWhole

LEMMA AutosaveWhole ==
  ASSUME NEW s, NEW G, Whole(s, G), NEW d \in Display, s.disp[d].focus \in DOMAIN s.disp[d].cvs,
         NEW r, r = AutosaveLayout(s, d)
  PROVE  /\ Whole(r, G) /\ Only(r, s) /\ r.disp = s.disp /\ r.layouts = s.layouts
         /\ r.memory = s.memory /\ r.tab = s.tab /\ r.fore = s.fore
<1> DEFINE l == s.disp[d].layout
<1>1. l \in ToSet(s.layouts) \cup {NULL}
  BY DEF Whole, Arranged
<1>2. r = IF l = NULL \/ ~s.lay[l].autosave THEN s ELSE Saved(s, d, l)
  BY DEF AutosaveLayout
<1> HIDE DEF l
<1>3. CASE r = s
  BY <1>3 DEF Only
<1>4. CASE l # NULL /\ r = Saved(s, d, l)
  <2>1. l \in ToSet(s.layouts) /\ r = Saved(s, d, l)
    BY <1>1, <1>4
  <2> QED BY <2>1, SavedWhole
<1> QED BY <1>2, <1>3, <1>4

\* What the loading of a layout leaves of everything else.
Beside(r, s, d) ==
  /\ Only(r, s) /\ r.layouts = s.layouts /\ r.lay = s.lay /\ r.memory = s.memory
  /\ \A e \in Display : e # d => r.disp[e] = s.disp[e]

LEMMA BesideTwice ==
  ASSUME NEW q, NEW r, NEW s, NEW d, Beside(q, r, d), Beside(r, s, d)
  PROVE  Beside(q, s, d)
  BY DEF Beside, Only

\* A record that an attached display may have, and what it is given.
May(c, f, s, G) ==
  /\ c \in Disps /\ Sees(c, Lives(s), Lives(s) \cup G) /\ c.layout \in ToSet(s.layouts) \cup {NULL}
  /\ f \in Lives(s) \cup G \cup {NULL}

Given(r, s, G, d, c, f) ==
  Whole(r, G) /\ Beside(r, s, d) /\ r.disp[d] = c /\ r.tab = s.tab /\ r.fore = f

LEMMA RedoneWhole ==
  ASSUME NEW s, NEW G, Whole(s, G), NEW d \in ToSet(s.displays), NEW c,
         NEW f, May(c, f, s, G), NEW r, r = Redone(s, d, c, s.tab, f)
  PROVE  Given(r, s, G, d, c, f)
<1>0. /\ c \in Disps /\ Sees(c, Lives(s), Lives(s) \cup G) /\ c.layout \in ToSet(s.layouts) \cup {NULL}
      /\ f \in Lives(s) \cup G \cup {NULL}
  BY DEF May
<1>1. s \in States /\ Lives(s) \subseteq Win /\ G \subseteq Win
  BY DEF Whole, Fine
<1>2. d \in Display /\ s.tab \in Tabs /\ f \in Win \cup {NULL}
  <2>1. s.displays \in Seq(Display) /\ s.tab \in Tabs
    BY <1>1, StateFields
  <2> QED BY <1>0, <1>1, <2>1 DEF ToSet
<1>3. /\ r \in States /\ r.tab = s.tab /\ r.fore = f /\ r.disp[d] = c
      /\ \A e \in Display : e # d => r.disp[e] = s.disp[e]
      /\ r.kind = s.kind /\ r.group = s.group /\ r.displays = s.displays /\ r.lay = s.lay
      /\ r.layouts = s.layouts /\ r.memory = s.memory /\ r.ghosts = s.ghosts
  BY <1>0, <1>1, <1>2, RedoneIs
<1>4. Lives(r) = Lives(s)
  BY <1>3 DEF Lives
<1> HIDE DEF Lives
<1>5. Arranged(r)
  BY <1>0, <1>3 DEF Whole, Arranged
<1>6. Fine(r, Lives(s), Lives(s), Lives(s) \cup G)
  BY <1>0, <1>3, ZenonT(60) DEF Whole, Fine
<1>7. Whole(r, G)
  BY <1>3, <1>4, <1>5, <1>6 DEF Whole
<1> QED BY <1>3, <1>7 DEF Only, Beside, Given

LEMMA BlanksAre ==
  ASSUME NEW n \in Nat, NEW b, b = <<>> \o [i \in 1..n |-> NULL]
  PROVE  b \in Seq(Win \cup {NULL}) /\ Len(b) = n /\ ToSet(b) \subseteq {NULL}
<1> DEFINE c == [i \in 1..n |-> NULL]
<1>1. c \in Seq({NULL}) /\ Len(c) = n
  OBVIOUS
<1>2. b = <<>> \o c
  OBVIOUS
<1> HIDE DEF c
<1>3. b \in Seq({NULL}) /\ Len(b) = n
  <2>1. <<>> \in Seq({NULL}) /\ Len(<<>>) = 0
    OBVIOUS
  <2>2. <<>> \o c \in Seq({NULL}) /\ Len(<<>> \o c) = Len(<<>>) + Len(c)
    BY ONLY <1>1, <2>1
  <2> QED BY <1>1, <1>2, <2>1, <2>2
<1>4. DOMAIN b = 1..n /\ \A i \in 1..n : b[i] = NULL
  BY <1>3
<1>5. b \in Seq(Win \cup {NULL})
  BY <1>3
<1> QED BY <1>3, <1>4, <1>5 DEF ToSet

LEMMA EmptiedWhole ==
  ASSUME NEW s, NEW G, Whole(s, G), NEW d \in ToSet(s.displays), NEW n \in Nat, NEW focus \in Nat,
         NEW r, r = Emptied(s, d, n, focus)
  PROVE  /\ Whole(r, G) /\ Beside(r, s, d) /\ r.disp[d].focus = focus /\ Len(r.disp[d].cvs) = n
         /\ r.tab = s.tab
<1> DEFINE b == <<>> \o [i \in 1..n |-> NULL]
           c == s.disp[d]
           c1 == View(b, focus, c.fore, c.other, c.layout)
<1>1. s \in States /\ d \in Display /\ c \in Disps
  <2>1. s \in States
    BY DEF Whole, Fine
  <2>2. s.displays \in Seq(Display) /\ s.disp \in [Display -> Disps]
    BY <2>1, StateFields
  <2> QED BY <2>1, <2>2 DEF ToSet
<1>2. b \in Seq(Win \cup {NULL}) /\ Len(b) = n /\ ToSet(b) \subseteq {NULL}
  BY BlanksAre
<1>3. r = [s EXCEPT !.disp = [s.disp EXCEPT ![d] = [c EXCEPT !.cvs = b, !.focus = focus]]]
  <2>1. ASSUME NEW x, NEW z
        PROVE  [s EXCEPT !.disp[d].cvs = x, !.disp[d].focus = z]
               = [s EXCEPT !.disp = [s.disp EXCEPT ![d] = [s.disp[d] EXCEPT !.cvs = x, !.focus = z]]]
    <3>1. s \in States /\ d \in Display
      BY <1>1
    <3> QED BY ONLY <3>1 DEF States, Disps
  <2> QED BY <2>1 DEF Emptied
<1>4. Sees(c, Lives(s), Lives(s) \cup G) /\ c.layout \in ToSet(s.layouts) \cup {NULL}
  BY <1>1 DEF Whole, Fine, Arranged
<1> HIDE DEF b
<1>5. [c EXCEPT !.cvs = b, !.focus = focus] = c1
  <2> HIDE DEF c
  <2>1. [c EXCEPT !.cvs = b, !.focus = focus] = [[c EXCEPT !.cvs = b] EXCEPT !.focus = focus]
    OBVIOUS
  <2>2. [c EXCEPT !.cvs = b] = View(b, c.focus, c.fore, c.other, c.layout)
    BY <1>1, ViewIs
  <2>3. [View(b, c.focus, c.fore, c.other, c.layout) EXCEPT !.focus = focus] = c1
    BY DEF View
  <2> QED BY <2>1, <2>2, <2>3
<1>6. c1 \in Disps /\ c1.cvs = b /\ c1.focus = focus /\ c1.fore = c.fore /\ c1.other = c.other /\ c1.layout = c.layout
  <2> HIDE DEF c
  <2> QED BY <1>1, <1>2 DEF Disps, View
<1> HIDE DEF c1
<1>7. r = Redone(s, d, c1, s.tab, s.fore)
  BY <1>1, <1>3, <1>5, SetIs
<1>8. Sees(c1, Lives(s), Lives(s) \cup G) /\ c1.layout \in ToSet(s.layouts) \cup {NULL}
  BY <1>2, <1>4, <1>6 DEF Sees
<1>9. s.fore \in Lives(s) \cup G \cup {NULL}
  BY DEF Whole, Fine
<1> HIDE DEF c
<1>10. Whole(r, G) /\ Beside(r, s, d) /\ r.disp[d] = c1 /\ r.tab = s.tab
  <2> DEFINE f == s.fore
  <2>1. Whole(s, G) /\ d \in ToSet(s.displays)
    OBVIOUS
  <2>2. May(c1, f, s, G)
    BY <1>6, <1>8, <1>9 DEF May
  <2>3. r = Redone(s, d, c1, s.tab, f)
    BY <1>7
  <2> HIDE DEF f
  <2>4. Given(r, s, G, d, c1, f)
    BY ONLY <2>1, <2>2, <2>3, RedoneWhole
  <2> QED BY <2>4 DEF Given
<1> QED BY <1>2, <1>6, <1>10

\* The windows put into the regions, one after the other.
LEMMA PutSteps ==
  ASSUME NEW s \in States, NEW d \in Display, NEW v \in Seq(Win \cup {NULL}), NEW r, r = PutWindowCv(s, d, v)
  PROVE  \E h : /\ h[0] = s /\ h[Len(v)] = r
                /\ \A k \in 1..Len(v) : h[k] = SetCanvasWindow(h[k - 1], d, k, v[k])
<1> DEFINE N == Len(v)
           F == [k \in 1..N |-> [x \in States |-> SetCanvasWindow(x, d, k, v[k])]]
           f == CHOOSE f : f = [k \in 0..N |-> IF k = 0 THEN s ELSE SetCanvasWindow(f[k - 1], d, k, v[k])]
<1>1. N \in Nat /\ \A k \in 1..N : v[k] \in Win \cup {NULL}
  OBVIOUS
<1> HIDE DEF N
<1>2. ASSUME NEW k \in 1..N, NEW x \in States PROVE SetCanvasWindow(x, d, k, v[k]) \in States
  BY <1>1, SetCanvasIs
<1>3. PICK g : Iterates(g, N, States, s, F)
  <2>1. F \in [1..N -> [States -> States]]
    BY <1>2
  <2>2. s \in States
    OBVIOUS
  <2> HIDE DEF F
  <2> QED BY ONLY <1>1, <2>1, <2>2, Iterated
<1>4. g \in [0..N -> States] /\ g[0] = s /\ \A k \in 1..N : g[k] = F[k][g[k - 1]]
  <2> HIDE DEF F
  <2> QED BY <1>3 DEF Iterates
<1>5. g = [k \in 0..N |-> IF k = 0 THEN s ELSE SetCanvasWindow(g[k - 1], d, k, v[k])]
  <2>1. ASSUME NEW k \in 0..N PROVE g[k] = IF k = 0 THEN s ELSE SetCanvasWindow(g[k - 1], d, k, v[k])
    <3>1. k # 0 => k \in 1..N /\ k - 1 \in 0..N
      BY <1>1
    <3>2. \A m \in 1..N, x \in States : F[m][x] = SetCanvasWindow(x, d, m, v[m])
      OBVIOUS
    <3> HIDE DEF F
    <3> QED BY <1>4, <3>1, <3>2
  <2> QED BY <1>4, <2>1
<1>6. f = [k \in 0..N |-> IF k = 0 THEN s ELSE SetCanvasWindow(f[k - 1], d, k, v[k])]
  BY <1>5
<1>7. r = f[N]
  BY DEF PutWindowCv, N
<1> HIDE DEF f
<1>8. f[0] = s /\ \A k \in 1..N : f[k] = SetCanvasWindow(f[k - 1], d, k, v[k])
  <2>1. 0 \in 0..N /\ \A k \in 1..N : k \in 0..N /\ k # 0
    BY <1>1
  <2> QED BY <1>6, <2>1
<1> QED BY <1>7, <1>8 DEF N

LEMMA PutWhole ==
  ASSUME NEW s, NEW G, Whole(s, G), NEW d \in ToSet(s.displays), NEW v \in Seq(Win \cup {NULL}),
         ToSet(v) \subseteq Lives(s) \cup {NULL}, Len(s.disp[d].cvs) = Len(v),
         s.disp[d].focus \in DOMAIN v, NEW r, r = PutWindowCv(s, d, v)
  PROVE  Whole(r, G) /\ Beside(r, s, d) /\ Lit(r.disp[d]) /\ Touched(r.tab, s.tab)
<1> DEFINE N == Len(v)
           j == s.disp[d].focus
           P(k, x) == /\ Whole(x, G) /\ Beside(x, s, d) /\ x.disp[d].focus = j /\ Len(x.disp[d].cvs) = N
                      /\ j <= k => Lit(x.disp[d])
                      /\ Touched(x.tab, s.tab) /\ (k < j => x.tab = s.tab)
<1>1. s \in States /\ d \in Display
  <2>1. s \in States
    BY DEF Whole, Fine
  <2>2. s.displays \in Seq(Display)
    BY <2>1, StateFields
  <2> QED BY <2>1, <2>2 DEF ToSet
<1>2. PICK h : /\ h[0] = s /\ h[N] = r
               /\ \A k \in 1..N : h[k] = SetCanvasWindow(h[k - 1], d, k, v[k])
  BY <1>1, PutSteps
<1>3. N \in Nat /\ DOMAIN v = 1..N /\ j \in 1..N /\ \A k \in 1..N : v[k] \in Lives(s) \cup {NULL}
  BY DEF ToSet
<1>4. P(0, h[0])
  BY <1>2, <1>3 DEF Beside, Only, Touched
<1>5. ASSUME NEW k \in 0..(N - 1), P(k, h[k]) PROVE P(k + 1, h[k + 1])
  <2> DEFINE x == h[k]
             y == h[k + 1]
  <2>1. k + 1 \in 1..N /\ (k + 1) - 1 = k /\ k \in Int
    BY <1>3
  <2>2. y = SetCanvasWindow(x, d, k + 1, v[k + 1])
    BY <1>2, <2>1
  <2>3. P(k, x) /\ Lives(x) = Lives(s) /\ x.displays = s.displays
    BY <1>5, OnlyLives DEF Beside
  <2>4. x.disp[d].cvs \in Seq(Win \cup {NULL})
    <3>1. x \in States
      BY <2>3 DEF Whole, Fine
    <3>2. x.disp \in [Display -> Disps]
      BY <3>1, StateFields
    <3> QED BY <1>1, <3>2 DEF Disps
  <2>5. DOMAIN x.disp[d].cvs = 1..N
    BY <2>3, <2>4
  <2> HIDE DEF x, y
  <2>6. d \in ToSet(x.displays) /\ v[k + 1] \in Lives(x) \cup {NULL} /\ Whole(x, G)
    BY <1>3, <2>1, <2>3
  <2>7. /\ Whole(y, G) /\ y.displays = x.displays /\ y.kind = x.kind /\ y.group = x.group
        /\ y.layouts = x.layouts /\ y.lay = x.lay /\ y.memory = x.memory
        /\ \A e \in Display : e # d => y.disp[e] = x.disp[e]
        /\ y.disp[d].focus = x.disp[d].focus
        /\ Len(y.disp[d].cvs) = Len(x.disp[d].cvs)
        /\ (k + 1 = x.disp[d].focus /\ k + 1 \in DOMAIN x.disp[d].cvs) \/ Lit(x.disp[d]) => Lit(y.disp[d])
    <3>1. Moved(y, x, G, d, k + 1)
      BY ONLY <2>2, <2>6, SetCanvasWhole
    <3> QED BY <3>1 DEF Moved
  <2>8. Beside(y, x, d)
    BY <2>6, <2>7 DEF Beside, Only, Whole
  <2>9. Beside(y, s, d)
    BY <2>3, <2>8, BesideTwice
  <2>10. j <= k + 1 => Lit(y.disp[d])
    <3>1. CASE j = k + 1
      BY <2>1, <2>3, <2>5, <2>7, <3>1
    <3>2. CASE j # k + 1
      <4>1. j \in Int
        BY <1>3
      <4>2. j <= k + 1 => j <= k
        BY ONLY <2>1, <3>2, <4>1
      <4> QED BY <2>3, <2>7, <4>2
    <3> QED BY <3>1, <3>2
  <2>11. Touched(y.tab, s.tab) /\ (k + 1 < j => y.tab = s.tab)
    <3>1. x \in States /\ v[k + 1] \in Win \cup {NULL}
      BY <2>1, <2>6 DEF Whole, Fine
    <3>2. y.tab = IF k + 1 = j /\ v[k + 1] # NULL THEN ToHead(x.tab, v[k + 1]) ELSE x.tab
      <4>1. TabSet(y, x, d, k + 1, v[k + 1])
        BY <1>1, <2>2, <3>1, SetCanvasTab
      <4> QED BY <2>3, <4>1 DEF TabSet
    <3>3. j \in Int
      BY <1>3
    <3>4. k + 1 = j => k < j
      BY <2>1, <3>3
    <3>5. CASE k + 1 = j
      <4>1. x.tab = s.tab /\ ~(k + 1 < j)
        BY <2>1, <2>3, <3>3, <3>4, <3>5
      <4>2. Touched(y.tab, s.tab)
        BY <3>1, <3>2, <4>1 DEF Touched
      <4> QED BY <4>1, <4>2
    <3>6. CASE k + 1 # j
      <4>1. k + 1 < j => k < j
        BY <2>1, <3>3
      <4>2. y.tab = x.tab
        BY <3>2, <3>6
      <4> QED BY <2>3, <4>1, <4>2
    <3> QED BY <3>5, <3>6
  <2> QED BY <2>3, <2>7, <2>9, <2>10, <2>11 DEF y
<1> DEFINE M == {k \in 0..N : P(k, h[k])}
<1>6. M = 0..N
  <2> HIDE DEF P
  <2>1. M \in SUBSET (0..N) /\ 0 \in M
    BY <1>3, <1>4
  <2>2. ASSUME NEW k \in 0..(N - 1), k \in M PROVE k + 1 \in M
    <3>1. k + 1 \in 0..N
      BY <1>3
    <3> QED BY <1>5, <2>2, <3>1
  <2> HIDE DEF M, N
  <2> QED BY <1>3, <2>1, <2>2, UpTo
<1>7. P(N, r)
  <2> HIDE DEF P
  <2>1. N \in M
    BY <1>3, <1>6
  <2> QED BY <1>2, <2>1
<1> QED BY <1>3, <1>7

\* Other layouts, other pointers to them, and nothing else.
Laid(s, D, y, ls, m) ==
  /\ D \in [Display -> Disps] /\ y \in [Layout -> Lays] /\ ls \in Seq(Layout) /\ m \in Memories
  /\ Distinct(ls)
  /\ \A d \in Display : /\ D[d].cvs = s.disp[d].cvs /\ D[d].focus = s.disp[d].focus
                        /\ D[d].fore = s.disp[d].fore /\ D[d].other = s.disp[d].other
                        /\ D[d].layout \in ToSet(ls) \cup {NULL}
  /\ \A d \in Display : d \notin ToSet(s.displays) => D[d] = Blank
  /\ \A l \in Layout : ToSet(y[l].cvs) \subseteq Lives(s) \cup {NULL}
  /\ \A l \in Layout : IF l \in ToSet(ls) THEN y[l].focus \in DOMAIN y[l].cvs ELSE y[l] = NoLayout
  /\ m.last \in ToSet(ls) \cup {NULL} /\ m.attach \in ToSet(ls) \cup {NULL, "last"}

LEMMA LaidWhole ==
  ASSUME NEW s, NEW G, Whole(s, G), NEW D, NEW y, NEW ls, NEW m, Laid(s, D, y, ls, m),
         NEW r, r = Rec(s.tab, s.kind, s.group, D, s.displays, s.fore, y, ls, m, s.ghosts)
  PROVE  /\ Whole(r, G) /\ Only(r, s) /\ r.disp = D /\ r.lay = y /\ r.layouts = ls /\ r.memory = m
         /\ r.tab = s.tab /\ r.fore = s.fore
         /\ \A d \in Display : Lit(s.disp[d]) <=> Lit(r.disp[d])
<1>1. s \in States
  BY DEF Whole, Fine
<1>2. D \in [Display -> Disps] /\ y \in [Layout -> Lays] /\ ls \in Seq(Layout) /\ m \in Memories
  BY DEF Laid
<1>3. /\ r \in States /\ r.tab = s.tab /\ r.kind = s.kind /\ r.group = s.group /\ r.disp = D
      /\ r.displays = s.displays /\ r.fore = s.fore /\ r.lay = y /\ r.layouts = ls
      /\ r.memory = m /\ r.ghosts = s.ghosts
  <2>1. /\ s.tab \in Tabs /\ s.kind \in [Win -> {"free", "pty", "zombie", "group"}]
        /\ s.group \in [Win -> Win \cup {NULL}] /\ s.displays \in Seq(Display)
        /\ s.fore \in Win \cup {NULL} /\ s.ghosts \in SUBSET Win
    BY <1>1, StateFields
  <2>2. r = Rec(s.tab, s.kind, s.group, D, s.displays, s.fore, y, ls, m, s.ghosts)
    OBVIOUS
  <2> QED BY ONLY <1>2, <2>1, <2>2 DEF States, Rec
<1>4. Lives(r) = Lives(s)
  BY <1>3 DEF Lives
<1> HIDE DEF Lives
<1>5. Arranged(r)
  BY <1>3 DEF Whole, Arranged, Laid
<1>6. Fine(r, Lives(s), Lives(s), Lives(s) \cup G)
  BY <1>3 DEF Whole, Fine, Laid, Sees
<1>7. Whole(r, G)
  BY <1>3, <1>4, <1>5, <1>6 DEF Whole
<1>8. \A d \in Display : Lit(s.disp[d]) <=> Lit(r.disp[d])
  BY <1>3 DEF Laid, Lit
<1> QED BY <1>3, <1>7, <1>8 DEF Only

LEMMA LaidNow ==
  ASSUME NEW s, NEW G, Whole(s, G)
  PROVE  Laid(s, s.disp, s.lay, s.layouts, s.memory)
<1>1. s \in States
  BY DEF Whole, Fine
<1>2. /\ s.disp \in [Display -> Disps] /\ s.lay \in [Layout -> Lays] /\ s.layouts \in Seq(Layout)
      /\ s.memory \in Memories
  BY <1>1, StateFields
<1> QED BY <1>2 DEF Laid, Whole, Fine, Arranged

Relit(r, s, d, l) ==
  (Lit(s.disp[d]) => Lit(r.disp[d])) /\ r.disp[d].layout = l /\ r.disp[d].fore = s.disp[d].fore

Relaid(r, s, G, d, l) == Whole(r, G) /\ Beside(r, s, d) /\ Relit(r, s, d, l) /\ r.tab = s.tab

\* D_layout is set.
LEMMA LayoutWhole ==
  ASSUME NEW s, NEW G, Whole(s, G), NEW d \in ToSet(s.displays), NEW l \in ToSet(s.layouts) \cup {NULL},
         NEW r, r = [s EXCEPT !.disp[d].layout = l]
  PROVE  Relaid(r, s, G, d, l)
<1> DEFINE c == s.disp[d]
           c1 == View(c.cvs, c.focus, c.fore, c.other, l)
<1>1. s \in States /\ d \in Display /\ c \in Disps /\ l \in Layout \cup {NULL}
  <2>1. s \in States
    BY DEF Whole, Fine
  <2>2. s.displays \in Seq(Display) /\ s.disp \in [Display -> Disps] /\ s.layouts \in Seq(Layout)
    BY <2>1, StateFields
  <2> QED BY <2>1, <2>2 DEF ToSet
<1>2. r = [s EXCEPT !.disp = [s.disp EXCEPT ![d] = [c EXCEPT !.layout = l]]]
  BY <1>1 DEF States, Disps
<1>3. Sees(c, Lives(s), Lives(s) \cup G)
  BY <1>1 DEF Whole, Fine
<1> HIDE DEF c
<1>4. [c EXCEPT !.layout = l] = c1
  BY <1>1, ViewIs
<1>5. c1 \in Disps /\ c1.cvs = c.cvs /\ c1.focus = c.focus /\ c1.fore = c.fore /\ c1.other = c.other
      /\ c1.layout = l
  BY <1>1 DEF Disps, View
<1> HIDE DEF c1
<1>6. r = Redone(s, d, c1, s.tab, s.fore)
  BY <1>1, <1>2, <1>4, SetIs
<1>7. May(c1, s.fore, s, G)
  BY <1>3, <1>5 DEF Sees, Whole, Fine, May
<1>8. Whole(r, G) /\ Beside(r, s, d) /\ r.disp[d] = c1 /\ r.tab = s.tab
  <2> DEFINE f == s.fore
  <2>1. Whole(s, G) /\ d \in ToSet(s.displays) /\ May(c1, f, s, G) /\ r = Redone(s, d, c1, s.tab, f)
    BY <1>6, <1>7
  <2> HIDE DEF f
  <2>2. Given(r, s, G, d, c1, f)
    BY ONLY <2>1, RedoneWhole
  <2> QED BY <2>2 DEF Given
<1> QED BY <1>5, <1>8 DEF Relit, Relaid, Lit, c

LEMMA LoadedWhole ==
  ASSUME NEW s, NEW G, Whole(s, G), NEW d \in ToSet(s.displays), NEW l \in ToSet(s.layouts) \cup {NULL},
         NEW v \in Seq(Win \cup {NULL}), ToSet(v) \subseteq Lives(s) \cup {NULL}, NEW n \in DOMAIN v,
         NEW r, r = Loaded(s, d, l, v, n)
  PROVE  /\ Whole(r, G) /\ Beside(r, s, d) /\ Lit(r.disp[d]) /\ r.disp[d].layout = l
         /\ Touched(r.tab, s.tab)
<1> DEFINE x == Emptied(s, d, Len(v), n)
           y == PutWindowCv(x, d, v)
<1>1. n \in Nat /\ Len(v) \in Nat
  OBVIOUS
<1>2. Whole(x, G) /\ Beside(x, s, d) /\ x.disp[d].focus = n /\ Len(x.disp[d].cvs) = Len(v)
      /\ x.tab = s.tab
  BY <1>1, EmptiedWhole
<1>3. r = [y EXCEPT !.disp[d].layout = l]
  BY DEF Loaded
<1>4. y = PutWindowCv(x, d, v)
  OBVIOUS
<1> HIDE DEF x, y
<1>5. Lives(x) = Lives(s) /\ x.displays = s.displays /\ x.layouts = s.layouts
  BY <1>2, OnlyLives DEF Beside
<1>6. Whole(y, G) /\ Beside(y, x, d) /\ Lit(y.disp[d]) /\ Touched(y.tab, x.tab)
  <2>1. /\ Whole(x, G) /\ d \in ToSet(x.displays) /\ v \in Seq(Win \cup {NULL})
        /\ ToSet(v) \subseteq Lives(x) \cup {NULL} /\ Len(x.disp[d].cvs) = Len(v)
        /\ x.disp[d].focus \in DOMAIN v
    BY <1>2, <1>5
  <2> QED BY ONLY <1>4, <2>1, PutWhole
<1>7. Beside(y, s, d)
  BY <1>2, <1>6, BesideTwice
<1>8. y.displays = s.displays /\ y.layouts = s.layouts
  BY <1>7 DEF Beside, Only
<1>9. Relaid(r, y, G, d, l)
  <2>1. Whole(y, G) /\ d \in ToSet(y.displays) /\ l \in ToSet(y.layouts) \cup {NULL}
    BY <1>6, <1>8
  <2> QED BY ONLY <1>3, <2>1, LayoutWhole
<1>10. Beside(r, s, d)
  BY <1>7, <1>9, BesideTwice DEF Relaid
<1> QED BY <1>2, <1>6, <1>9, <1>10 DEF Relit, Relaid

LEMMA LoadSavedWhole ==
  ASSUME NEW s, NEW G, Whole(s, G), NEW d \in ToSet(s.displays), NEW l \in ToSet(s.layouts) \cup {NULL},
         NEW r, r = LoadSaved(s, d, l)
  PROVE  /\ Whole(r, G) /\ Beside(r, s, d) /\ Lit(r.disp[d]) /\ r.disp[d].layout = l
         /\ Touched(r.tab, s.tab)
<1>1. CASE l = NULL
  <2> DEFINE v == <<NULL>>
  <2>1. v \in Seq(Win \cup {NULL}) /\ ToSet(v) \subseteq Lives(s) \cup {NULL} /\ 1 \in DOMAIN v
    BY DEF ToSet
  <2>2. r = Loaded(s, d, l, v, 1)
    BY <1>1 DEF LoadSaved
  <2> HIDE DEF v
  <2> QED BY <2>1, <2>2, LoadedWhole
<1>2. CASE l # NULL
  <2> DEFINE v == s.lay[l].cvs
             n == s.lay[l].focus
  <2>1. l \in ToSet(s.layouts) /\ l \in Layout /\ s.lay[l] \in Lays
    <3>1. s \in States
      BY DEF Whole, Fine
    <3>2. s.layouts \in Seq(Layout) /\ s.lay \in [Layout -> Lays]
      BY <3>1, StateFields
    <3> QED BY <1>2, <3>2 DEF ToSet
  <2>2. v \in Seq(Win \cup {NULL}) /\ ToSet(v) \subseteq Lives(s) \cup {NULL} /\ n \in DOMAIN v
    BY <2>1 DEF Lays, Whole, Fine, Arranged
  <2>3. r = Loaded(s, d, l, v, n)
    BY <1>2 DEF LoadSaved
  <2> HIDE DEF v, n
  <2> QED BY <2>2, <2>3, LoadedWhole
<1> QED BY <1>1, <1>2

\* What commands on layouts leave of everything else.
LEMMA LoadIs ==
  ASSUME NEW s, Sound(s), NEW d \in ToSet(s.displays) \cup {NULL}, NEW l \in ToSet(s.layouts) \cup {NULL},
         NEW r, r = LoadLayout(s, d, l)
  PROVE  /\ Sound(r) /\ Only(r, s) /\ r.layouts = s.layouts /\ r.memory = s.memory
         /\ Touched(r.tab, s.tab) /\ (d # NULL => r.disp[d].layout = l)
<1>1. CASE d = NULL
  BY <1>1 DEF LoadLayout, Only, Touched
<1>2. CASE d # NULL
  <2> DEFINE x == AutosaveLayout(s, d)
  <2>1. Whole(s, s.ghosts) /\ d \in Display /\ \A e \in ToSet(s.displays) : e \in Display /\ Lit(s.disp[e])
    BY <1>2, SoundFacts
  <2>2. s.disp[d].focus \in DOMAIN s.disp[d].cvs
    BY <1>2, <2>1 DEF Lit
  <2>3. Whole(x, s.ghosts) /\ Only(x, s) /\ x.disp = s.disp /\ x.layouts = s.layouts /\ x.memory = s.memory
        /\ x.tab = s.tab
    BY <2>1, <2>2, AutosaveWhole
  <2>4. r = LoadSaved(x, d, l)
    BY <1>2 DEF LoadLayout
  <2> HIDE DEF x
  <2>5. d \in ToSet(x.displays) /\ l \in ToSet(x.layouts) \cup {NULL}
    BY <1>2, <2>3 DEF Only
  <2>6. Whole(r, s.ghosts) /\ Beside(r, x, d) /\ Lit(r.disp[d]) /\ r.disp[d].layout = l /\ Touched(r.tab, x.tab)
    BY <2>3, <2>4, <2>5, LoadSavedWhole
  <2>7. Only(r, s) /\ r.layouts = s.layouts /\ r.memory = s.memory
    BY <2>3, <2>6, OnlyTwice DEF Beside
  <2>8. r.ghosts = s.ghosts /\ r.displays = s.displays
    BY <2>7 DEF Only
  <2>9. \A e \in ToSet(r.displays) : Lit(r.disp[e])
    BY <2>1, <2>3, <2>6, <2>8 DEF Beside
  <2> QED BY <2>3, <2>6, <2>7, <2>8, <2>9 DEF Sound
<1> QED BY <1>1, <1>2

\* A list with one more layout, or one less.
LEMMA OneMore ==
  ASSUME NEW q \in Seq(Layout), Distinct(q), NEW l \in Layout \ ToSet(q)
  PROVE  /\ Append(q, l) \in Seq(Layout) /\ Distinct(Append(q, l)) /\ ToSet(Append(q, l)) = ToSet(q) \cup {l}
<1> DEFINE r == Append(q, l)
<1>1. Len(q) \in Nat /\ DOMAIN q = 1..Len(q) /\ \A i \in 1..Len(q) : q[i] # l
  BY DEF ToSet
<1>2. /\ r \in Seq(Layout) /\ DOMAIN r = 1..(Len(q) + 1) /\ r[Len(q) + 1] = l
      /\ \A i \in 1..Len(q) : r[i] = q[i]
  OBVIOUS
<1> HIDE DEF r
<1>3. \A i \in 1..(Len(q) + 1) : i \in 1..Len(q) \/ i = Len(q) + 1
  BY <1>1
<1>4. Distinct(r)
  BY <1>1, <1>2, <1>3 DEF Distinct
<1>5. Len(q) + 1 \in 1..(Len(q) + 1) /\ \A i \in 1..Len(q) : i \in 1..(Len(q) + 1)
  BY <1>1
<1>6. ToSet(r) = ToSet(q) \cup {l}
  BY <1>1, <1>2, <1>3, <1>5 DEF ToSet
<1> QED BY <1>2, <1>4, <1>6 DEF r

\* r is q without its element k.
Shorter(r, q, k, S) ==
  /\ r \in Seq(S) /\ Len(r) = Len(q) - 1 /\ DOMAIN r = 1..(Len(q) - 1)
  /\ \A i \in 1..(Len(q) - 1) : r[i] = IF i < k THEN q[i] ELSE q[i + 1]

LEMMA CutAtIs ==
  ASSUME NEW S, NEW q \in Seq(S), NEW k \in 1..Len(q), NEW r, r = RemoveAt(q, k)
  PROVE  Shorter(r, q, k, S)
<1>1. Len(q) \in Nat /\ DOMAIN q = 1..Len(q) /\ \A i \in 1..Len(q) : q[i] \in S
  OBVIOUS
<1>2. k \in 1..Len(q)
  OBVIOUS
<1>3. r = [i \in 1..(Len(q) - 1) |-> IF i < k THEN q[i] ELSE q[i + 1]]
  <2>1. r = SubSeq(q, 1, k - 1) \o SubSeq(q, k + 1, Len(q))
    BY DEF RemoveAt
  <2> DEFINE a == SubSeq(q, 1, k - 1)
             b == SubSeq(q, k + 1, Len(q))
  <2>2. a \in Seq(S) /\ Len(a) = k - 1 /\ \A i \in 1..(k - 1) : a[i] = q[i]
    BY <1>1, <1>2
  <2>3. b \in Seq(S) /\ Len(b) = Len(q) - k /\ \A i \in 1..(Len(q) - k) : b[i] = q[i + k]
    <3>1. k \in Int /\ Len(q) \in Int /\ k + 1 \in Int /\ 1 <= k /\ k <= Len(q)
      BY <1>1, <1>2
    <3>2. b \in Seq(S)
      BY <1>1, <1>2
    <3>3. Len(b) = Len(q) - k
      BY <3>1
    <3>4. ASSUME NEW i \in 1..(Len(q) - k) PROVE b[i] = q[i + k]
      BY <3>1
    <3> QED BY <3>2, <3>3, <3>4
  <2>4. r = a \o b
    BY <2>1
  <2> HIDE DEF a, b
  <2>5. DOMAIN r = 1..(Len(q) - 1) /\ r \in Seq(S) /\ Len(r) = Len(q) - 1
    <3>1. a \in Seq(S) /\ b \in Seq(S)
      BY <2>2, <2>3
    <3>2. a \o b \in Seq(S) /\ Len(a \o b) = Len(a) + Len(b)
      BY ONLY <3>1
    <3>3. Len(a \o b) = Len(q) - 1
      BY <1>1, <1>2, <2>2, <2>3, <3>2
    <3> QED BY <2>4, <3>2, <3>3
  <2>6. ASSUME NEW i \in 1..(Len(q) - 1) PROVE r[i] = IF i < k THEN q[i] ELSE q[i + 1]
    <3>1. i \in 1..(Len(a) + Len(b))
      BY <1>1, <1>2, <2>2, <2>3
    <3>0. a \in Seq(S) /\ b \in Seq(S)
      BY <2>2, <2>3
    <3>2. (a \o b)[i] = IF i <= Len(a) THEN a[i] ELSE b[i - Len(a)]
      BY ONLY <3>0, <3>1
    <3>3. CASE i < k
      BY <1>1, <1>2, <2>2, <2>4, <3>2, <3>3
    <3>4. CASE ~(i < k)
      <4>1. i - (k - 1) \in 1..(Len(q) - k) /\ (i - (k - 1)) + k = i + 1 /\ ~(i <= k - 1)
        BY <1>1, <1>2, <3>4
      <4> QED BY <2>2, <2>3, <2>4, <3>2, <3>4, <4>1
    <3> QED BY <3>3, <3>4
  <2> QED BY <2>5, <2>6
<1>4. DOMAIN r = 1..(Len(q) - 1) /\ \A i \in 1..(Len(q) - 1) : r[i] = IF i < k THEN q[i] ELSE q[i + 1]
  BY <1>3
<1>5. r \in Seq(S)
  <2>1. r \in [1..(Len(q) - 1) -> S]
    BY <1>1, <1>2, <1>3
  <2>2. Len(q) - 1 \in Nat
    BY <1>1, <1>2
  <2> QED BY <2>1, <2>2
<1>6. Len(r) = Len(q) - 1
  <2>1. Len(q) - 1 \in Nat
    BY <1>1, <1>2
  <2>2. r \in Seq(S) /\ DOMAIN r = 1..(Len(q) - 1)
    BY <1>4, <1>5
  <2>3. Len(r) \in Nat /\ DOMAIN r = 1..Len(r)
    BY <2>2
  <2> HIDE DEF Shorter
  <2> QED BY ONLY <2>1, <2>2, <2>3
<1> QED BY <1>4, <1>5, <1>6 DEF Shorter

\* The list without its element k; the lists of layouts and of displays.
LEMMA OneLess ==
  ASSUME NEW S, NEW q \in Seq(S), Distinct(q), NEW w \in ToSet(q), NEW r, r = Without(q, w)
  PROVE  r \in Seq(S) /\ Distinct(r) /\ ToSet(r) = ToSet(q) \ {w}
<1> DEFINE k == Place(q, w)
<1>1. Len(q) \in Nat /\ DOMAIN q = 1..Len(q) /\ \A i \in 1..Len(q) : q[i] \in S
  OBVIOUS
<1>2. k \in 1..Len(q) /\ q[k] = w
  <2>1. \E i \in DOMAIN q : q[i] = w
    BY DEF ToSet
  <2> QED BY <1>1, <2>1 DEF Place
<1> HIDE DEF k
<1>3. r = RemoveAt(q, k)
  BY DEF Without, k
<1>4. /\ r \in Seq(S) /\ DOMAIN r = 1..(Len(q) - 1)
      /\ \A i \in 1..(Len(q) - 1) : r[i] = IF i < k THEN q[i] ELSE q[i + 1]
  <2>1. Shorter(r, q, k, S)
    BY <1>2, <1>3, CutAtIs
  <2> QED BY <2>1 DEF Shorter
<1>6. Distinct(r)
  <2>1. ASSUME NEW i \in DOMAIN r, NEW j \in DOMAIN r, r[i] = r[j] PROVE i = j
    <3> DEFINE a == IF i < k THEN i ELSE i + 1
               b == IF j < k THEN j ELSE j + 1
    <3>1. a \in 1..Len(q) /\ b \in 1..Len(q) /\ r[i] = q[a] /\ r[j] = q[b]
      BY <1>1, <1>2, <1>4
    <3>2. a = b
      BY <1>1, <2>1, <3>1 DEF Distinct
    <3> QED BY <1>1, <1>2, <1>4, <3>2
  <2> QED BY <2>1 DEF Distinct
<1>7. ASSUME NEW x \in ToSet(r) PROVE x \in ToSet(q) \ {w}
  <2>1. PICK i \in 1..(Len(q) - 1) : x = r[i]
    BY <1>4 DEF ToSet
  <2> DEFINE a == IF i < k THEN i ELSE i + 1
  <2>2. a \in 1..Len(q) /\ a # k /\ x = q[a]
    BY <1>1, <1>2, <1>4, <2>1
  <2> QED BY <1>1, <1>2, <2>2 DEF ToSet, Distinct
<1>8. ASSUME NEW x \in ToSet(q) \ {w} PROVE x \in ToSet(r)
  <2>1. PICK a \in 1..Len(q) : x = q[a]
    BY <1>1 DEF ToSet
  <2> DEFINE i == IF a < k THEN a ELSE a - 1
  <2>2. a # k
    BY <1>2, <2>1
  <2>3. i \in 1..(Len(q) - 1) /\ r[i] = q[a]
    <3>1. CASE a < k
      BY <1>1, <1>2, <1>4, <3>1
    <3>2. CASE ~(a < k)
      <4>1. a - 1 \in 1..(Len(q) - 1) /\ ~(a - 1 < k) /\ (a - 1) + 1 = a
        BY <1>1, <1>2, <2>2, <3>2
      <4> QED BY <1>4, <3>2, <4>1
    <3> QED BY <3>1, <3>2
  <2> QED BY <1>4, <2>1, <2>3 DEF ToSet
<1> QED BY <1>4, <1>6, <1>7, <1>8

LEMMA LaidSound ==
  ASSUME NEW s, Sound(s), NEW D, NEW y, NEW ls, NEW m, Laid(s, D, y, ls, m),
         NEW r, r = Rec(s.tab, s.kind, s.group, D, s.displays, s.fore, y, ls, m, s.ghosts)
  PROVE  /\ Sound(r) /\ Only(r, s) /\ r.disp = D /\ r.lay = y /\ r.layouts = ls /\ r.memory = m
         /\ r.tab = s.tab
<1>1. Whole(s, s.ghosts) /\ \A d \in ToSet(s.displays) : d \in Display /\ Lit(s.disp[d])
  BY SoundFacts
<1>2. /\ Whole(r, s.ghosts) /\ Only(r, s) /\ r.disp = D /\ r.lay = y /\ r.layouts = ls /\ r.memory = m
      /\ r.tab = s.tab /\ \A d \in Display : Lit(s.disp[d]) <=> Lit(r.disp[d])
  BY <1>1, LaidWhole
<1>3. r.ghosts = s.ghosts /\ r.displays = s.displays
  BY <1>2 DEF Only
<1> QED BY <1>1, <1>2, <1>3 DEF Sound

LEMMA RecLay ==
  ASSUME NEW s \in States, NEW y, NEW ls
  PROVE  [s EXCEPT !.layouts = ls, !.lay = y]
         = Rec(s.tab, s.kind, s.group, s.disp, s.displays, s.fore, y, ls, s.memory, s.ghosts)
<1>1. [s EXCEPT !.layouts = ls, !.lay = y] = [[s EXCEPT !.layouts = ls] EXCEPT !.lay = y]
  OBVIOUS
<1>2. [s EXCEPT !.layouts = ls]
      = Rec(s.tab, s.kind, s.group, s.disp, s.displays, s.fore, s.lay, ls, s.memory, s.ghosts)
  BY DEF States, Rec
<1>3. [Rec(s.tab, s.kind, s.group, s.disp, s.displays, s.fore, s.lay, ls, s.memory, s.ghosts) EXCEPT !.lay = y]
      = Rec(s.tab, s.kind, s.group, s.disp, s.displays, s.fore, y, ls, s.memory, s.ghosts)
  BY DEF Rec
<1> QED BY <1>1, <1>2, <1>3

LEMMA LinkedIs ==
  ASSUME NEW s, Sound(s), NEW l \in Layout \ ToSet(s.layouts), NEW r, r = Linked(s, l)
  PROVE  /\ Sound(r) /\ Only(r, s) /\ r.disp = s.disp /\ r.memory = s.memory
         /\ ToSet(r.layouts) = ToSet(s.layouts) \cup {l} /\ r.tab = s.tab
<1> DEFINE z == [cvs |-> <<NULL>>, focus |-> 1, autosave |-> TRUE]
           y == [s.lay EXCEPT ![l] = z]
           ls == Append(s.layouts, l)
<1>1. s \in States /\ Whole(s, s.ghosts)
  BY SoundFacts
<1>2. s.lay \in [Layout -> Lays] /\ s.layouts \in Seq(Layout)
  BY <1>1, StateFields
<1>3. ls \in Seq(Layout) /\ Distinct(ls) /\ ToSet(ls) = ToSet(s.layouts) \cup {l}
  BY <1>1, <1>2, OneMore DEF Whole, Arranged
<1>4. z \in Lays /\ ToSet(z.cvs) = {NULL} /\ z.focus \in DOMAIN z.cvs
  BY DEF Lays, ToSet
<1>5. [s EXCEPT !.layouts = Append(@, l), !.lay[l] = z] = [s EXCEPT !.layouts = ls, !.lay = y]
  BY <1>1 DEF States
<1>6. r = [s EXCEPT !.layouts = ls, !.lay = y]
  BY <1>5 DEF Linked
<1> HIDE DEF z, ls
<1>7. y \in [Layout -> Lays] /\ \A m \in Layout : y[m] = IF m = l THEN z ELSE s.lay[m]
  BY <1>2, <1>4
<1> HIDE DEF y
<1>8. Laid(s, s.disp, y, ls, s.memory)
  <2>1. Laid(s, s.disp, s.lay, s.layouts, s.memory)
    BY <1>1, LaidNow
  <2> QED BY <1>3, <1>4, <1>7, <2>1 DEF Laid
<1>9. r = Rec(s.tab, s.kind, s.group, s.disp, s.displays, s.fore, y, ls, s.memory, s.ghosts)
  BY <1>1, <1>6, RecLay
<1> QED BY <1>3, <1>8, <1>9, LaidSound

LEMMA RecMemory ==
  ASSUME NEW s \in States, NEW m
  PROVE  [s EXCEPT !.memory = m]
         = Rec(s.tab, s.kind, s.group, s.disp, s.displays, s.fore, s.lay, s.layouts, m, s.ghosts)
  BY DEF States, Rec

LEMMA AttachIs ==
  ASSUME NEW s, Sound(s), NEW l \in ToSet(s.layouts) \cup {NULL, "last"}, NEW r, r = [s EXCEPT !.memory.attach = l]
  PROVE  Sound(r) /\ Only(r, s) /\ r.tab = s.tab
<1> DEFINE m == [s.memory EXCEPT !.attach = l]
<1>1. s \in States /\ Whole(s, s.ghosts)
  BY SoundFacts
<1>2. s.memory \in Memories /\ s.layouts \in Seq(Layout)
  BY <1>1, StateFields
<1>3. l \in Layout \cup {NULL, "last"}
  BY <1>2 DEF ToSet
<1>4. m \in Memories /\ m.attach = l /\ m.last = s.memory.last
  BY <1>2, <1>3 DEF Memories
<1>5. [s EXCEPT !.memory.attach = l] = [s EXCEPT !.memory = m]
  BY <1>1 DEF States
<1>6. r = [s EXCEPT !.memory = m]
  BY <1>5
<1> HIDE DEF m
<1>7. Laid(s, s.disp, s.lay, s.layouts, m)
  <2>1. Laid(s, s.disp, s.lay, s.layouts, s.memory)
    BY <1>1, LaidNow
  <2> QED BY <1>4, <2>1 DEF Laid
<1>8. r = Rec(s.tab, s.kind, s.group, s.disp, s.displays, s.fore, s.lay, s.layouts, m, s.ghosts)
  BY <1>1, <1>6, RecMemory
<1> QED BY <1>7, <1>8, LaidSound

Steady(r, s) == Sound(r) /\ Only(r, s) /\ r.tab = s.tab

\* The layout of a display is saved as l, which becomes its layout.
LEMMA SavedSound ==
  ASSUME NEW s, Sound(s), NEW d \in ToSet(s.displays), NEW l \in ToSet(s.layouts),
         NEW r, r = [Saved(s, d, l) EXCEPT !.disp[d].layout = l]
  PROVE  Steady(r, s)
<1> DEFINE x == Saved(s, d, l)
<1>1. Whole(s, s.ghosts) /\ d \in Display /\ \A e \in ToSet(s.displays) : e \in Display /\ Lit(s.disp[e])
  BY SoundFacts
<1>2. s.disp[d].focus \in DOMAIN s.disp[d].cvs
  BY <1>1 DEF Lit
<1>3. Whole(x, s.ghosts) /\ Only(x, s) /\ x.disp = s.disp /\ x.layouts = s.layouts /\ x.tab = s.tab
  BY <1>1, <1>2, SavedWhole
<1> HIDE DEF x
<1>4. r = [x EXCEPT !.disp[d].layout = l] /\ d \in ToSet(x.displays) /\ l \in ToSet(x.layouts) \cup {NULL}
  BY <1>3 DEF x, Only
<1>5. Whole(r, s.ghosts) /\ Beside(r, x, d) /\ Relit(r, x, d, l) /\ r.tab = x.tab
  <2> DEFINE G == s.ghosts
  <2>1. Whole(x, G)
    BY <1>3
  <2> HIDE DEF G
  <2>2. Relaid(r, x, G, d, l)
    BY ONLY <1>4, <2>1, LayoutWhole
  <2> QED BY <2>2 DEF G, Relaid
<1>6. Only(r, s)
  BY <1>3, <1>5, OnlyTwice DEF Beside
<1>7. r.ghosts = s.ghosts /\ r.displays = s.displays
  BY <1>6 DEF Only
<1>8. \A e \in ToSet(r.displays) : Lit(r.disp[e])
  BY <1>1, <1>3, <1>5, <1>7 DEF Beside, Relit
<1> QED BY <1>3, <1>5, <1>6, <1>7, <1>8 DEF Sound, Steady

LEMMA SaveLayoutIs ==
  ASSUME NEW s, Sound(s), NEW d \in ToSet(s.displays), NEW l \in Layout, NEW r, r = SaveLayout(s, d, l)
  PROVE  Sound(r) /\ Only(r, s) /\ r.tab = s.tab
<1> DEFINE x == IF l \in ToSet(s.layouts) THEN s ELSE Linked(s, l)
<1>1. Sound(x) /\ Only(x, s) /\ l \in ToSet(x.layouts) /\ x.tab = s.tab
  <2>1. CASE l \in ToSet(s.layouts)
    BY <2>1 DEF Only
  <2>2. CASE l \notin ToSet(s.layouts)
    BY <2>2, LinkedIs
  <2> QED BY <2>1, <2>2
<1>2. r = [Saved(x, d, l) EXCEPT !.disp[d].layout = l]
  BY DEF SaveLayout
<1> HIDE DEF x
<1>3. d \in ToSet(x.displays)
  BY <1>1 DEF Only
<1>4. Steady(r, x)
  BY ONLY <1>1, <1>2, <1>3, SavedSound
<1> QED BY <1>1, <1>4, OnlyTwice DEF Steady

LEMMA NewLayoutIs ==
  ASSUME NEW s, Sound(s), NEW d \in ToSet(s.displays) \cup {NULL}, NEW l \in Layout \ ToSet(s.layouts),
         NEW r, r = NewLayout(s, d, l)
  PROVE  Sound(r) /\ Only(r, s) /\ Touched(r.tab, s.tab)
<1> DEFINE x == Linked(s, l)
<1>1. Sound(x) /\ Only(x, s) /\ l \in ToSet(x.layouts) /\ x.tab = s.tab
  BY LinkedIs
<1>2. r = IF d = NULL THEN [x EXCEPT !.memory.attach = l]
          ELSE [Saved(LoadLayout(x, d, NULL), d, l) EXCEPT !.disp[d].layout = l]
  BY DEF NewLayout
<1> HIDE DEF x
<1>3. CASE d = NULL
  <2>1. r = [x EXCEPT !.memory.attach = l] /\ l \in ToSet(x.layouts) \cup {NULL, "last"}
    BY <1>1, <1>2, <1>3
  <2>2. Sound(r) /\ Only(r, x) /\ r.tab = x.tab
    BY ONLY <1>1, <2>1, AttachIs
  <2> QED BY <1>1, <2>2, OnlyTwice DEF Touched
<1>4. CASE d # NULL
  <2> DEFINE y == LoadLayout(x, d, NULL)
  <2>1. d \in ToSet(x.displays) \cup {NULL} /\ d # NULL
    BY <1>1, <1>4 DEF Only
  <2>2. Sound(y) /\ Only(y, x) /\ y.layouts = x.layouts /\ Touched(y.tab, x.tab)
    BY <1>1, <2>1, LoadIs
  <2>3. r = [Saved(y, d, l) EXCEPT !.disp[d].layout = l]
    BY <1>2, <1>4
  <2> HIDE DEF y
  <2>4. d \in ToSet(y.displays) /\ l \in ToSet(y.layouts)
    BY <1>1, <2>1, <2>2 DEF Only
  <2>5. Steady(r, y)
    BY ONLY <2>2, <2>3, <2>4, SavedSound
  <2> QED BY <1>1, <2>2, <2>5, OnlyTwice DEF Steady
<1> QED BY <1>3, <1>4

\* The layout l may go: only the display d has it.
Spare(s, d, l) ==
  /\ l \in ToSet(s.layouts) /\ l # s.memory.last /\ l # s.memory.attach
  /\ \A e \in ToSet(s.displays) : e # d => s.disp[e].layout # l

LEMMA UnlinkedIs ==
  ASSUME NEW s, Sound(s), NEW d \in ToSet(s.displays) \cup {NULL}, NEW l, Spare(s, d, l),
         NEW r, r = Unlinked(s, d, l)
  PROVE  Sound(r) /\ Only(r, s) /\ r.tab = s.tab
<1> DEFINE y == [s.lay EXCEPT ![l] = NoLayout]
           ls == Without(s.layouts, l)
           D == [e \in Display |-> IF e = d /\ s.disp[e].layout = l THEN [s.disp[e] EXCEPT !.layout = NULL]
                                   ELSE s.disp[e]]
<1>1. s \in States /\ Whole(s, s.ghosts)
  BY SoundFacts
<1>2. s.lay \in [Layout -> Lays] /\ s.layouts \in Seq(Layout) /\ s.disp \in [Display -> Disps]
  BY <1>1, StateFields
<1>3. ls \in Seq(Layout) /\ Distinct(ls) /\ ToSet(ls) = ToSet(s.layouts) \ {l} /\ l \in Layout
  <2>1. l \in ToSet(s.layouts) /\ l \in Layout
    BY <1>2 DEF Spare, ToSet
  <2>2. Distinct(s.layouts)
    BY <1>1 DEF Whole, Arranged
  <2> QED BY <1>2, <2>1, <2>2, OneLess
<1>4. NoLayout \in Lays /\ ToSet(NoLayout.cvs) = {}
  BY DEF NoLayout, Lays, ToSet
<1>5. [s EXCEPT !.layouts = Without(@, l), !.lay[l] = NoLayout,
            !.disp = [e \in Display |->
               IF e = d /\ @[e].layout = l THEN [@[e] EXCEPT !.layout = NULL] ELSE @[e]]]
      = [s EXCEPT !.layouts = ls, !.lay = y, !.disp = D]
  BY <1>1 DEF States
<1>6. r = [s EXCEPT !.layouts = ls, !.lay = y, !.disp = D]
  BY <1>5 DEF Unlinked
<1>7. \A e \in Display : D[e] = IF e = d /\ s.disp[e].layout = l
                                THEN View(s.disp[e].cvs, s.disp[e].focus, s.disp[e].fore, s.disp[e].other, NULL)
                                ELSE s.disp[e]
  <2>1. ASSUME NEW e \in Display
        PROVE  [s.disp[e] EXCEPT !.layout = NULL]
               = View(s.disp[e].cvs, s.disp[e].focus, s.disp[e].fore, s.disp[e].other, NULL)
    <3> DEFINE c == s.disp[e]
    <3>1. c \in Disps
      BY <1>2
    <3> HIDE DEF c
    <3>2. [c EXCEPT !.layout = NULL] = View(c.cvs, c.focus, c.fore, c.other, NULL)
      BY <3>1, ViewIs
    <3> QED BY <3>2 DEF c
  <2> QED BY <2>1
<1> HIDE DEF ls
<1>8. y \in [Layout -> Lays] /\ \A m \in Layout : y[m] = IF m = l THEN NoLayout ELSE s.lay[m]
  BY <1>2, <1>4
<1> HIDE DEF y
<1>9. DOMAIN D = Display
  OBVIOUS
<1>10. D = [e \in Display |-> D[e]]
  OBVIOUS
<1> HIDE DEF D
<1>11. ASSUME NEW e \in Display
       PROVE  /\ D[e] \in Disps /\ D[e].cvs = s.disp[e].cvs /\ D[e].focus = s.disp[e].focus
              /\ D[e].fore = s.disp[e].fore /\ D[e].other = s.disp[e].other
              /\ D[e].layout = IF e = d /\ s.disp[e].layout = l THEN NULL ELSE s.disp[e].layout
  <2>1. s.disp[e] \in Disps
    BY <1>2
  <2>2. CASE e = d /\ s.disp[e].layout = l
    <3> DEFINE c == s.disp[e]
               b == View(c.cvs, c.focus, c.fore, c.other, NULL)
    <3>1. c \in Disps /\ D[e] = b /\ c = s.disp[e]
      BY <1>7, <2>1, <2>2
    <3> HIDE DEF c
    <3>2. /\ c.cvs \in Seq(Win \cup {NULL}) /\ c.focus \in Nat /\ c.fore \in Win \cup {NULL}
          /\ c.other \in Win \cup {NULL}
      BY <3>1 DEF Disps
    <3>3. b \in Disps /\ b.cvs = c.cvs /\ b.focus = c.focus /\ b.fore = c.fore /\ b.other = c.other
          /\ b.layout = NULL
      BY <3>2 DEF Disps, View
    <3> QED BY <2>2, <3>1, <3>3
  <2>3. CASE ~(e = d /\ s.disp[e].layout = l)
    BY <1>7, <2>1, <2>3
  <2> QED BY <2>2, <2>3
<1>12. D \in [Display -> Disps]
  BY <1>10, <1>11
<1>13. Laid(s, s.disp, s.lay, s.layouts, s.memory)
  BY <1>1, LaidNow
<1>14. ASSUME NEW e \in Display PROVE D[e].layout \in ToSet(ls) \cup {NULL}
  <2>1. s.disp[e].layout \in ToSet(s.layouts) \cup {NULL}
    BY <1>13 DEF Laid
  <2>2. CASE e \in ToSet(s.displays)
    BY <1>3, <1>11, <2>1, <2>2 DEF Spare
  <2>3. CASE e \notin ToSet(s.displays)
    <3>1. s.disp[e] = Blank
      BY <1>13, <2>3 DEF Laid
    <3>2. s.disp[e].layout = NULL
      BY <3>1 DEF Blank
    <3> QED BY <1>11, <3>2
  <2> QED BY <2>2, <2>3
<1>15. ASSUME NEW e \in Display, e \notin ToSet(s.displays) PROVE D[e] = Blank
  <2>1. s.disp[e] = Blank
    BY <1>13, <1>15 DEF Laid
  <2>2. s.disp[e].layout = NULL
    BY <2>1 DEF Blank
  <2>3. l # NULL
    BY <1>3
  <2> QED BY <1>7, <2>1, <2>2, <2>3
<1>16. s.memory.last \in ToSet(ls) \cup {NULL} /\ s.memory.attach \in ToSet(ls) \cup {NULL, "last"}
  BY <1>3, <1>13 DEF Laid, Spare
<1>17. Laid(s, D, y, ls, s.memory)
  BY <1>3, <1>4, <1>8, <1>11, <1>12, <1>13, <1>14, <1>15, <1>16, ZenonT(60) DEF Laid
<1>18. r = Rec(s.tab, s.kind, s.group, D, s.displays, s.fore, y, ls, s.memory, s.ghosts)
  <2>1. [s EXCEPT !.layouts = ls, !.lay = y, !.disp = D] = [[s EXCEPT !.layouts = ls, !.lay = y] EXCEPT !.disp = D]
    OBVIOUS
  <2>2. [s EXCEPT !.layouts = ls, !.lay = y]
         = Rec(s.tab, s.kind, s.group, s.disp, s.displays, s.fore, y, ls, s.memory, s.ghosts)
    BY <1>1, RecLay
  <2>3. [Rec(s.tab, s.kind, s.group, s.disp, s.displays, s.fore, y, ls, s.memory, s.ghosts) EXCEPT !.disp = D]
        = Rec(s.tab, s.kind, s.group, D, s.displays, s.fore, y, ls, s.memory, s.ghosts)
    BY DEF Rec
  <2> QED BY <1>6, <2>1, <2>2, <2>3
<1> QED BY <1>17, <1>18, LaidSound

LEMMA RemoveLayoutIs ==
  ASSUME NEW s, Sound(s), NEW d \in ToSet(s.displays) \cup {NULL}, NEW l, Spare(s, d, l),
         NEW r, r = RemoveLayout(s, d, l)
  PROVE  Sound(r) /\ Only(r, s) /\ Touched(r.tab, s.tab)
<1> DEFINE x == Unlinked(s, d, l)
           k == Place(s.layouts, l)
           m == IF d # NULL /\ x.disp[d].layout # NULL THEN x.disp[d].layout
                ELSE IF k \in DOMAIN x.layouts THEN x.layouts[k] ELSE x.layouts[1]
           y == LoadLayout(x, d, m)
<1>1. Sound(x) /\ Only(x, s) /\ x.tab = s.tab
  BY UnlinkedIs
<1>2. r = IF x.layouts = <<>> THEN Activate(x, d) ELSE Activate(y, d)
  BY DEF RemoveLayout, Reloaded
<1> HIDE DEF x, k
<1>3. d \in ToSet(x.displays) \cup {NULL} /\ d \in Display \cup {NULL}
  BY <1>1, SoundFacts DEF Only
<1>4. CASE x.layouts = <<>>
  <2>1. r = Activate(x, d)
    BY <1>2, <1>4
  <2>2. Sound(r) /\ Only(r, x) /\ r.tab = x.tab
    BY ONLY <1>1, <1>3, <2>1, ActivateIs
  <2> QED BY <1>1, <2>2, OnlyTwice DEF Touched
<1>5. CASE x.layouts # <<>>
  <2>1. m \in ToSet(x.layouts) \cup {NULL}
    <3>1. Whole(x, x.ghosts) /\ x \in States
      BY <1>1, SoundFacts
    <3>2. d # NULL => x.disp[d].layout \in ToSet(x.layouts) \cup {NULL}
      BY <1>3, <3>1 DEF Whole, Arranged
    <3>3. x.layouts \in Seq(Layout)
      BY <3>1, StateFields
    <3>4. x.layouts[1] \in ToSet(x.layouts)
      BY <1>5, <3>3 DEF ToSet
    <3>5. k \in DOMAIN x.layouts => x.layouts[k] \in ToSet(x.layouts)
      BY DEF ToSet
    <3> QED BY <3>2, <3>4, <3>5
  <2>2. y = LoadLayout(x, d, m) /\ r = Activate(y, d)
    BY <1>2, <1>5
  <2> HIDE DEF m, y
  <2>3. Sound(y) /\ Only(y, x) /\ Touched(y.tab, x.tab)
    BY <1>1, <1>3, <2>1, <2>2, LoadIs
  <2>4. Sound(r) /\ Only(r, y) /\ r.tab = y.tab
    BY ONLY <1>3, <2>2, <2>3, ActivateIs
  <2> QED BY <1>1, <2>3, <2>4, OnlyTwice
<1> QED BY <1>4, <1>5

LEMMA AutoIs ==
  ASSUME NEW s, Sound(s), NEW l \in Layout, l \in ToSet(s.layouts), NEW on \in BOOLEAN,
         NEW r, r = [s EXCEPT !.lay[l].autosave = on]
  PROVE  Sound(r) /\ Only(r, s) /\ r.tab = s.tab
<1> DEFINE c == s.lay[l]
           z == Store(c.cvs, c.focus, on)
           y == [s.lay EXCEPT ![l] = z]
<1>1. s \in States /\ Whole(s, s.ghosts)
  BY SoundFacts
<1>2. s.lay \in [Layout -> Lays] /\ c \in Lays
  BY <1>1, StateFields
<1>3. [s EXCEPT !.lay[l].autosave = on] = [s EXCEPT !.lay = [s.lay EXCEPT ![l] = [c EXCEPT !.autosave = on]]]
  BY <1>1, <1>2 DEF States, Lays
<1> HIDE DEF c
<1>4. [c EXCEPT !.autosave = on] = z
  BY <1>2 DEF Lays, Store
<1>5. z \in Lays /\ z.cvs = c.cvs /\ z.focus = c.focus
  <2>1. on \in BOOLEAN
    BY Zenon
  <2> QED BY <1>2, <2>1 DEF Lays, Store
<1> HIDE DEF z
<1>6. y \in [Layout -> Lays] /\ \A m \in Layout : y[m] = IF m = l THEN z ELSE s.lay[m]
  BY <1>2, <1>5
<1>7. r = [s EXCEPT !.lay = y]
  BY <1>3, <1>4
<1> HIDE DEF y
<1>8. Stored(y, s)
  <2>1. Stored(s.lay, s)
    BY <1>1, StoredNow
  <2> QED BY <1>5, <1>6, <2>1 DEF Stored, c
<1>9. r = Rec(s.tab, s.kind, s.group, s.disp, s.displays, s.fore, y, s.layouts, s.memory, s.ghosts)
  <2>1. \A w : [s EXCEPT !.lay = w]
              = Rec(s.tab, s.kind, s.group, s.disp, s.displays, s.fore, w, s.layouts, s.memory, s.ghosts)
    BY <1>1 DEF States, Rec
  <2> QED BY <1>7, <2>1
<1>10. Laid(s, s.disp, y, s.layouts, s.memory)
  <2>1. Laid(s, s.disp, s.lay, s.layouts, s.memory)
    BY <1>1, LaidNow
  <2> QED BY <1>8, <2>1 DEF Laid, Stored
<1> QED BY <1>9, <1>10, LaidSound

LEMMA LayoutSure ==
  ASSUME Sound(State), NEW d \in ToSet(displays) \cup {NULL}, NEW f \in Live \cup {NULL}, DoCommandLayout(d, f)
  PROVE  Light
<1> DEFINE s == With(f)
<1>1. Sound(s) /\ Only(s, State) /\ d \in ToSet(s.displays) \cup {NULL}
  BY WithIs DEF Only, State
<1>2. s.layouts = layouts /\ s.memory = memory /\ s.disp = disp /\ s.displays = displays
      /\ s.tab = tab
  BY DEF With, State
<1>3. ASSUME NEW r, Sound(r), Only(r, s), Touched(r.tab, tab), Becomes(r) PROVE Light
  <2> HIDE DEF s
  <2> QED BY <1>1, <1>3, SureIs DEF Light
<1>4. ASSUME NEW r, Sound(r), Only(r, s), Touched(r.tab, tab), Becomes(Activate(r, d)) PROVE Light
  <2> DEFINE a == Activate(r, d)
  <2>1. d \in Display \cup {NULL}
    BY <1>1, SoundFacts
  <2>2. Sound(a) /\ Only(a, r) /\ a.tab = r.tab
    BY <1>4, <2>1, ActivateIs
  <2>3. Becomes(a)
    BY <1>4
  <2> HIDE DEF a, s
  <2> QED BY <1>3, <1>4, <2>2, <2>3, OnlyTwice
<1>5. ASSUME NEW l \in ToSet(layouts) \cup {NULL}, d # NULL, SelectLayout(d, f, l) PROVE Light
  <2> DEFINE r == LoadLayout(s, d, l)
  <2>1. l \in ToSet(s.layouts) \cup {NULL}
    BY <1>2
  <2>2. Sound(r) /\ Only(r, s) /\ Touched(r.tab, tab)
    BY <1>2, <1>1, <2>1, LoadIs
  <2>3. Becomes(Activate(r, d))
    BY <1>5 DEF SelectLayout
  <2> HIDE DEF r, s
  <2> QED BY <1>4, <2>2, <2>3
<1>6. ASSUME NEW l \in Layout, d # NULL, Becomes(SaveLayout(s, d, l)) PROVE Light
  <2> DEFINE r == SaveLayout(s, d, l)
  <2>1. d \in ToSet(s.displays)
    BY <1>1, <1>6
  <2>2. Sound(r) /\ Only(r, s) /\ Touched(r.tab, tab)
    BY <1>2, <1>1, <2>1, SaveLayoutIs DEF Touched
  <2>3. Becomes(r)
    BY <1>6
  <2> HIDE DEF r, s
  <2> QED BY <1>3, <2>2, <2>3
<1>7. ASSUME NEW l \in Layout \ ToSet(layouts), Becomes(Activate(NewLayout(s, d, l), d)) PROVE Light
  <2> DEFINE r == NewLayout(s, d, l)
  <2>1. l \in Layout \ ToSet(s.layouts)
    BY <1>2
  <2>2. Sound(r) /\ Only(r, s) /\ Touched(r.tab, tab)
    BY <1>2, <1>1, <2>1, NewLayoutIs
  <2>3. Becomes(Activate(r, d))
    BY <1>7
  <2> HIDE DEF r, s
  <2> QED BY <1>4, <2>2, <2>3
<1>8. \A l \in ToSet(layouts) : l \in Layout
  <2>1. State \in States
    BY SoundFacts
  <2>2. layouts \in Seq(Layout)
    BY <2>1, StateFields DEF State
  <2> QED BY <2>2 DEF ToSet
<1>9. ASSUME NEW on \in BOOLEAN, NEW l \in Layout, l = IF d = NULL THEN memory.attach ELSE disp[d].layout,
             Becomes([s EXCEPT !.lay[l].autosave = on])
      PROVE  Light
  <2> DEFINE r == [s EXCEPT !.lay[l].autosave = on]
  <2>1. l \in ToSet(s.layouts)
    <3>1. Whole(s, s.ghosts)
      BY <1>1, SoundFacts
    <3>2. s.memory.attach \in ToSet(s.layouts) \cup {NULL, "last"}
      BY <3>1 DEF Whole, Arranged
    <3>3. d # NULL => s.disp[d].layout \in ToSet(s.layouts) \cup {NULL}
      BY <1>1, <3>1, SoundFacts DEF Whole, Arranged
    <3>4. l # NULL /\ l # "last"
      OBVIOUS
    <3> QED BY <1>2, <1>9, <3>2, <3>3, <3>4
  <2>2. Sound(r) /\ Only(r, s) /\ Touched(r.tab, tab)
    BY <1>2, <1>1, <2>1, AutoIs DEF Touched
  <2>3. Becomes(r)
    BY <1>9
  <2> HIDE DEF r, s
  <2> QED BY <1>3, <2>2, <2>3
<1>10. ASSUME NEW l \in ToSet(layouts) \cup {NULL, "last"}, Becomes([s EXCEPT !.memory.attach = l]) PROVE Light
  <2> DEFINE r == [s EXCEPT !.memory.attach = l]
  <2>1. l \in ToSet(s.layouts) \cup {NULL, "last"}
    BY <1>2
  <2>2. Sound(r) /\ Only(r, s) /\ Touched(r.tab, tab)
    BY <1>2, <1>1, <2>1, AttachIs DEF Touched
  <2>3. Becomes(r)
    BY <1>10
  <2> HIDE DEF r, s
  <2> QED BY <1>3, <2>2, <2>3
<1>11. ASSUME DoCommandLayoutRemove(d, f) PROVE Light
  <2>1. PICK l \in ToSet(layouts) :
           /\ l \notin {memory.last, memory.attach}
           /\ \A e \in ToSet(displays) \ {d} : disp[e].layout # l
           /\ Becomes(RemoveLayout(s, d, l))
    BY <1>11 DEF DoCommandLayoutRemove
  <2>2. Spare(s, d, l)
    BY <1>2, <2>1 DEF Spare
  <2> DEFINE r == RemoveLayout(s, d, l)
  <2>3. Sound(r) /\ Only(r, s) /\ Touched(r.tab, tab)
    BY <1>2, <1>1, <2>2, RemoveLayoutIs
  <2>4. Becomes(r)
    BY <2>1
  <2> HIDE DEF r, s
  <2> QED BY <1>3, <2>3, <2>4
<1> QED BY <1>5, <1>6, <1>7, <1>8, <1>9, <1>10, <1>11 DEF DoCommandLayout

-----------------------------------------------------------------------------
(* Regions                                                                 *)

\* A display with the regions v, of which n is in focus and shows the window to the fore.
LEMMA RegionsIs ==
  ASSUME NEW s, Sound(s), NEW d \in ToSet(s.displays), NEW v \in Seq(Win \cup {NULL}),
         ToSet(v) \subseteq Lives(s) \cup {NULL}, NEW n \in DOMAIN v, NEW o \in Lives(s) \cup s.ghosts \cup {NULL},
         NEW f \in Lives(s) \cup s.ghosts \cup {NULL}, NEW c, c = View(v, n, v[n], o, s.disp[d].layout),
         NEW r, r = Redone(s, d, c, s.tab, f)
  PROVE  Steady(r, s)
<1>1. Whole(s, s.ghosts) /\ s \in States /\ d \in Display /\ \A e \in ToSet(s.displays) : e \in Display /\ Lit(s.disp[e])
  BY SoundFacts
<1>2. v[n] \in Lives(s) \cup {NULL} /\ n \in Nat
  BY DEF ToSet
<1>3. s.disp \in [Display -> Disps] /\ Lives(s) \subseteq Win /\ s.ghosts \subseteq Win
  BY <1>1, StateFields DEF Lives
<1>4. s.disp[d].layout \in Layout \cup {NULL} /\ s.disp[d].layout \in ToSet(s.layouts) \cup {NULL}
  <2>1. s.disp[d].layout \in ToSet(s.layouts) \cup {NULL}
    BY <1>1 DEF Whole, Arranged
  <2>2. s.disp[d] \in Disps
    BY <1>1, <1>3
  <2> QED BY <2>1, <2>2 DEF Disps
<1>5. c \in Disps /\ c.cvs = v /\ c.focus = n /\ c.fore = v[n] /\ c.other = o /\ c.layout = s.disp[d].layout
  <2>1. v[n] \in Win \cup {NULL} /\ o \in Win \cup {NULL}
    BY <1>2, <1>3
  <2> QED BY <1>2, <1>4, <2>1 DEF Disps, View
<1>6. Sees(c, Lives(s), Lives(s) \cup s.ghosts) /\ c.layout \in ToSet(s.layouts) \cup {NULL}
  BY <1>2, <1>4, <1>5 DEF Sees
<1>7. Whole(r, s.ghosts) /\ Beside(r, s, d) /\ r.disp[d] = c /\ r.tab = s.tab
  <2>1. c \in Disps
    BY <1>5
  <2> DEFINE G == s.ghosts
  <2>2. r = Redone(s, d, c, s.tab, f)
    OBVIOUS
  <2>3. Whole(s, G) /\ May(c, f, s, G) /\ d \in ToSet(s.displays)
    BY <1>1, <1>5, <1>6 DEF May
  <2> HIDE DEF G
  <2>4. Given(r, s, G, d, c, f)
    BY ONLY <2>2, <2>3, RedoneWhole
  <2> QED BY <2>4 DEF G, Given
<1>8. Only(r, s)
  BY <1>7 DEF Beside
<1>9. r.ghosts = s.ghosts /\ r.displays = s.displays
  BY <1>8 DEF Only
<1>10. Lit(c)
  BY <1>5 DEF Lit
<1>11. \A e \in ToSet(r.displays) : Lit(r.disp[e])
  BY <1>1, <1>7, <1>9, <1>10 DEF Beside
<1> QED BY <1>7, <1>8, <1>9, <1>11 DEF Sound, Steady

LEMMA RegionSure ==
  ASSUME Sound(State), NEW d \in ToSet(displays), NEW f \in Live \cup {NULL}, NEW v \in Seq(Win \cup {NULL}),
         ToSet(v) \subseteq Live \cup {NULL}, NEW n \in DOMAIN v, NEW w, w = v[n], Region(d, f, v, n, w)
  PROVE  Sure /\ tab' = tab
<1> DEFINE s == With(f)
           c == s.disp[d]
           c1 == View(v, n, w, c.other, c.layout)
           r == Redone(s, d, c1, s.tab, s.fore)
           x == [s EXCEPT !.disp[d].cvs = v, !.disp[d].focus = n, !.disp[d].fore = w]
           a == Activate(r, d)
<1>1. Sound(s) /\ Only(s, State) /\ s.tab = tab /\ d \in ToSet(s.displays) /\ Lives(s) = Live
  BY WithIs, OnlyLives, LiveIs DEF State
<1>2. Becomes(Activate(x, d))
  BY DEF Region
<1> HIDE DEF s
<1>3. s \in States /\ d \in Display /\ Sees(c, Lives(s), Lives(s) \cup s.ghosts)
      /\ s.fore \in Lives(s) \cup s.ghosts \cup {NULL}
  BY <1>1, SoundFacts
<1>4. c \in Disps
  BY <1>3, StateFields
<1>5. x = [s EXCEPT !.disp = [s.disp EXCEPT ![d] = [c EXCEPT !.cvs = v, !.focus = n, !.fore = w]]]
  BY <1>3, ZenonT(60) DEF States, Disps
<1>6. c.other \in Lives(s) \cup s.ghosts \cup {NULL}
  BY <1>3 DEF Sees
<1>7. c = s.disp[d]
  OBVIOUS
<1> HIDE DEF c, x
<1>8. [c EXCEPT !.cvs = v, !.focus = n, !.fore = w] = c1
  <2>1. [c EXCEPT !.cvs = v, !.focus = n, !.fore = w] = [[[c EXCEPT !.cvs = v] EXCEPT !.focus = n] EXCEPT !.fore = w]
    OBVIOUS
  <2>2. [c EXCEPT !.cvs = v] = View(v, c.focus, c.fore, c.other, c.layout)
    BY <1>4, ViewIs
  <2>3. [View(v, c.focus, c.fore, c.other, c.layout) EXCEPT !.focus = n] = View(v, n, c.fore, c.other, c.layout)
    BY DEF View
  <2>4. [View(v, n, c.fore, c.other, c.layout) EXCEPT !.fore = w] = c1
    BY DEF View
  <2> QED BY <2>1, <2>2, <2>3, <2>4
<1>9. x = r
  <2> HIDE DEF c1
  <2>1. x = [s EXCEPT !.disp = [s.disp EXCEPT ![d] = c1]]
    BY <1>5, <1>8
  <2> QED BY <1>3, <2>1, SetIs
<1>10. Sound(r) /\ Only(r, s) /\ r.tab = s.tab
  <2> DEFINE o == c.other
             g == s.fore
  <2>1. c1 = View(v, n, v[n], o, s.disp[d].layout)
    BY <1>7
  <2>2. r = Redone(s, d, c1, s.tab, g)
    OBVIOUS
  <2>3. /\ Sound(s) /\ d \in ToSet(s.displays) /\ v \in Seq(Win \cup {NULL})
        /\ ToSet(v) \subseteq Lives(s) \cup {NULL} /\ n \in DOMAIN v
        /\ o \in Lives(s) \cup s.ghosts \cup {NULL} /\ g \in Lives(s) \cup s.ghosts \cup {NULL}
    BY <1>1, <1>3, <1>6
  <2> HIDE DEF c1, r, o, g
  <2>4. Steady(r, s)
    BY ONLY <2>1, <2>2, <2>3, RegionsIs
  <2> QED BY <2>4 DEF Steady
<1> HIDE DEF r
<1>11. Sound(a) /\ Only(a, r) /\ a.tab = r.tab
  <2>1. d \in Display \cup {NULL}
    BY <1>3
  <2> QED BY <1>10, <2>1, ActivateIs
<1>12. Becomes(a)
  BY <1>2, <1>9
<1> HIDE DEF a
<1> QED BY <1>1, <1>10, <1>11, <1>12, OnlyTwice, SureIs

\* r is q with one more element, x, at place k.
Longer(r, q, k, x, S) ==
  /\ r \in Seq(S) /\ DOMAIN r = 1..(Len(q) + 1) /\ ToSet(r) \subseteq ToSet(q) \cup {x}
  /\ \A i \in 1..Len(q) : i < k => r[i] = q[i]

LEMMA AddAtIs ==
  ASSUME NEW S, NEW q \in Seq(S), NEW k \in 1..(Len(q) + 1), NEW x \in S, NEW r, r = InsertAt(q, k, x)
  PROVE  Longer(r, q, k, x, S)
<1> DEFINE a == SubSeq(q, 1, k - 1)
           b == <<x>>
           c == SubSeq(q, k, Len(q))
           m == a \o b
<1>1. Len(q) \in Nat /\ k \in 1..(Len(q) + 1) /\ DOMAIN q = 1..Len(q) /\ \A i \in 1..Len(q) : q[i] \in S
  OBVIOUS
<1>2. a \in Seq(S) /\ Len(a) = k - 1 /\ \A i \in 1..(k - 1) : a[i] = q[i] /\ i \in 1..Len(q)
  BY <1>1
<1>3. c \in Seq(S) /\ Len(c) = Len(q) - k + 1 /\ \A i \in 1..(Len(q) - k + 1) : c[i] = q[i + k - 1]
  <2>1. c \in Seq(S)
    BY <1>1
  <2>2. Len(c) = Len(q) - k + 1
    BY <1>1
  <2>3. ASSUME NEW i \in 1..(Len(q) - k + 1) PROVE c[i] = q[i + k - 1]
    BY <1>1
  <2> QED BY <2>1, <2>2, <2>3
<1>4. b \in Seq(S) /\ Len(b) = 1 /\ b[1] = x
  OBVIOUS
<1>5. r = m \o c
  BY DEF InsertAt
<1>6. m = a \o b
  OBVIOUS
<1> HIDE DEF a, b, c, m
<1>7. m \in Seq(S) /\ Len(m) = k /\ (\A i \in 1..(k - 1) : m[i] = a[i]) /\ m[k] = x
  <2>1. a \in Seq(S) /\ b \in Seq(S) /\ Len(a) \in Nat /\ Len(b) \in Nat
    BY <1>2, <1>4
  <2>2. a \o b \in Seq(S) /\ Len(a \o b) = Len(a) + Len(b)
    BY ONLY <2>1
  <2>3. ASSUME NEW i \in 1..(Len(a) + Len(b)) PROVE (a \o b)[i] = IF i <= Len(a) THEN a[i] ELSE b[i - Len(a)]
    BY ONLY <2>1, i \in 1..(Len(a) + Len(b))
  <2>4. k \in 1..(Len(a) + Len(b)) /\ ~(k <= Len(a)) /\ k - Len(a) = 1
    BY <1>1, <1>2, <1>4
  <2>5. \A i \in 1..(k - 1) : i \in 1..(Len(a) + Len(b)) /\ i <= Len(a)
    BY <1>1, <1>2, <1>4
  <2>6. (a \o b)[k] = x
    BY <1>4, <2>3, <2>4
  <2> QED BY <1>1, <1>2, <1>4, <1>6, <2>2, <2>3, <2>5, <2>6
<1>8. r \in Seq(S) /\ Len(r) = Len(q) + 1
  <2>1. m \in Seq(S) /\ c \in Seq(S)
    BY <1>3, <1>7
  <2>2. m \o c \in Seq(S) /\ Len(m \o c) = Len(m) + Len(c)
    BY ONLY <2>1
  <2> QED BY <1>1, <1>3, <1>5, <1>7, <2>2
<1>9. ASSUME NEW i \in 1..(Len(q) + 1)
      PROVE  r[i] = IF i <= k THEN m[i] ELSE c[i - k]
  <2>1. m \in Seq(S) /\ c \in Seq(S) /\ i \in 1..(Len(m) + Len(c))
    BY <1>1, <1>3, <1>7
  <2>2. (m \o c)[i] = IF i <= Len(m) THEN m[i] ELSE c[i - Len(m)]
    BY ONLY <2>1
  <2> QED BY <1>5, <1>7, <2>2
<1>10. ASSUME NEW i \in 1..(Len(q) + 1) PROVE r[i] \in ToSet(q) \cup {x}
  <2>1. CASE i < k
    <3>1. i \in 1..(k - 1) /\ i <= k
      BY <1>1, <2>1
    <3> QED BY <1>1, <1>2, <1>7, <1>9, <3>1 DEF ToSet
  <2>2. CASE i = k
    BY <1>1, <1>7, <1>9, <2>2
  <2>3. CASE i > k
    <3>1. ~(i <= k) /\ i - k \in 1..(Len(q) - k + 1) /\ (i - k) + k - 1 \in 1..Len(q)
      BY <1>1, <2>3
    <3> QED BY <1>1, <1>3, <1>9, <3>1, ZenonT(60) DEF ToSet
  <2> QED BY <1>1, <2>1, <2>2, <2>3
<1>11. DOMAIN r = 1..(Len(q) + 1)
  BY <1>8
<1>12. ToSet(r) \subseteq ToSet(q) \cup {x}
  BY <1>10, <1>11 DEF ToSet
<1>13. ASSUME NEW i \in 1..Len(q), i < k PROVE r[i] = q[i]
  <2>1. i \in 1..(Len(q) + 1) /\ i \in 1..(k - 1) /\ i <= k
    BY <1>1, <1>13
  <2> QED BY <1>2, <1>7, <1>9, <2>1
<1> QED BY <1>8, <1>11, <1>12, <1>13 DEF Longer

LEMMA DisplayIs ==
  ASSUME Sound(State), NEW d \in ToSet(displays), NEW c, c = disp[d]
  PROVE  /\ d \in Display /\ c \in Disps /\ Lit(c) /\ c.cvs \in Seq(Win \cup {NULL})
         /\ ToSet(c.cvs) \subseteq Live \cup {NULL} /\ c.fore \in Live \cup {NULL}
         /\ c.other \in Live \cup ghosts \cup {NULL}
<1>1. State.disp = disp /\ State.displays = displays /\ State.ghosts = ghosts /\ Lives(State) = Live
  BY LiveIs DEF State
<1>2. /\ State \in States /\ d \in Display /\ Lit(State.disp[d])
      /\ Sees(State.disp[d], Lives(State), Lives(State) \cup State.ghosts)
  BY <1>1, SoundFacts
<1>3. State.disp \in [Display -> Disps]
  BY <1>2, StateFields
<1> HIDE DEF State
<1>4. c \in Disps
  BY <1>1, <1>2, <1>3
<1> QED BY <1>1, <1>2, <1>4 DEF Sees, Disps

LEMMA SplitSure ==
  ASSUME Sound(State), NEW d \in ToSet(displays), NEW f \in Live \cup {NULL}, DoCommandSplit(d, f)
  PROVE  Sure /\ tab' = tab
<1> DEFINE c == disp[d]
           n == c.focus
           k == n + 1
           v == InsertAt(c.cvs, k, NULL)
<1>1. Lit(c) /\ c.cvs \in Seq(Win \cup {NULL}) /\ ToSet(c.cvs) \subseteq Live \cup {NULL}
  BY DisplayIs
<1>2. Region(d, f, v, n, c.fore)
  BY DEF DoCommandSplit
<1>3. n \in DOMAIN c.cvs /\ c.fore = c.cvs[n] /\ Len(c.cvs) \in Nat /\ DOMAIN c.cvs = 1..Len(c.cvs)
  BY <1>1 DEF Lit
<1> DEFINE q == c.cvs
           S == Win \cup {NULL}
<1>4. q \in Seq(S) /\ k \in 1..(Len(q) + 1) /\ NULL \in S /\ v = InsertAt(q, k, NULL)
  BY <1>1, <1>3
<1>5. n \in 1..Len(q) /\ n < k /\ n \in 1..(Len(q) + 1)
  BY <1>3
<1>6. Region(d, f, v, n, q[n])
  BY <1>2, <1>3
<1> HIDE DEF q, k, v, n, S, c
<1>7. Longer(v, q, k, NULL, S)
  BY ONLY <1>4, AddAtIs
<1>8. v \in Seq(S) /\ ToSet(v) \subseteq Live \cup {NULL} /\ n \in DOMAIN v /\ v[n] = q[n]
  BY <1>1, <1>5, <1>7 DEF Longer, q
<1> QED BY <1>6, <1>8, RegionSure DEF S

LEMMA DropSure ==
  ASSUME Sound(State), NEW d \in ToSet(displays), NEW f \in Live \cup {NULL}, DoCommandRemove(d, f)
  PROVE  Sure /\ tab' = tab
<1> DEFINE c == disp[d]
           q == c.cvs
           k == c.focus
           v == RemoveAt(q, k)
           S == Win \cup {NULL}
<1>1. Lit(c) /\ q \in Seq(S) /\ ToSet(q) \subseteq Live \cup {NULL}
  BY DisplayIs
<1>2. PICK j \in DOMAIN q \ {k} : Region(d, f, v, IF j < k THEN j ELSE j - 1, q[j])
  BY DEF DoCommandRemove
<1> DEFINE n == IF j < k THEN j ELSE j - 1
<1>3. Region(d, f, v, n, q[j]) /\ v = RemoveAt(q, k)
  BY <1>2
<1>4. k \in DOMAIN q
  BY <1>1 DEF Lit
<1> HIDE DEF c, q, k, v, S
<1>5. Len(q) \in Nat /\ DOMAIN q = 1..Len(q)
  BY <1>1
<1>6. k \in 1..Len(q) /\ j \in 1..Len(q) /\ j # k
  BY <1>2, <1>4, <1>5
<1>7. Shorter(v, q, k, S)
  <2>1. q \in Seq(S) /\ k \in 1..Len(q) /\ v = RemoveAt(q, k)
    BY <1>1, <1>3, <1>6
  <2> QED BY ONLY <2>1, CutAtIs
<1>8. n \in 1..(Len(q) - 1) /\ (IF n < k THEN q[n] ELSE q[n + 1]) = q[j]
  <2>1. CASE j < k
    BY <1>5, <1>6, <2>1
  <2>2. CASE ~(j < k)
    <3>1. n = j - 1 /\ ~(n < k) /\ n + 1 = j /\ n \in 1..(Len(q) - 1)
      BY <1>5, <1>6, <2>2
    <3> HIDE DEF n
    <3> QED BY <3>1
  <2> QED BY <2>1, <2>2
<1> HIDE DEF n
<1>9. v \in Seq(S) /\ n \in DOMAIN v /\ v[n] = q[j]
  BY <1>7, <1>8 DEF Shorter
<1>10. ToSet(v) \subseteq ToSet(q)
  <2>1. ASSUME NEW i \in 1..(Len(q) - 1) PROVE v[i] \in ToSet(q)
    <3>1. i \in 1..Len(q) /\ i + 1 \in 1..Len(q)
      BY <1>5
    <3> QED BY <1>5, <1>7, <3>1 DEF Shorter, ToSet
  <2> QED BY <1>7, <2>1, SMTT(20) DEF Shorter, ToSet
<1>11. ToSet(v) \subseteq Live \cup {NULL}
  BY <1>1, <1>10
<1> QED BY <1>3, <1>9, <1>11, RegionSure DEF S

LEMMA OnlySure ==
  ASSUME Sound(State), NEW d \in ToSet(displays), NEW f \in Live \cup {NULL}, DoCommandOnly(d, f)
  PROVE  Sure /\ tab' = tab
<1> DEFINE c == disp[d]
           x == c.cvs[c.focus]
           v == <<x>>
<1>1. Lit(c) /\ ToSet(c.cvs) \subseteq Live \cup {NULL}
  BY DisplayIs
<1>2. x \in Live \cup {NULL} /\ c.fore = x
  BY <1>1 DEF Lit, ToSet
<1>3. Live \subseteq Win
  BY DEF Live
<1>4. Region(d, f, v, 1, x)
  BY <1>2 DEF DoCommandOnly
<1> HIDE DEF x
<1>5. v \in Seq(Win \cup {NULL}) /\ ToSet(v) \subseteq Live \cup {NULL} /\ 1 \in DOMAIN v /\ v[1] = x
  BY <1>2, <1>3 DEF ToSet
<1> HIDE DEF v
<1> QED BY <1>4, <1>5, RegionSure

LEMMA FocusSure ==
  ASSUME Sound(State), NEW d \in ToSet(displays), DoCommandFocus(d)
  PROVE  Sure /\ tab' = tab
<1> DEFINE s == State
           c == s.disp[d]
<1>1. PICK j \in DOMAIN c.cvs : Becomes(SetForeCanvas(d, j))
  BY DEF DoCommandFocus, State
<1> DEFINE w == c.cvs[j]
           o == IF c.other = w THEN NULL ELSE c.other
           c1 == View(c.cvs, j, w, o, c.layout)
           D == [s.disp EXCEPT ![d] = c1]
           r == Redone(s, d, c1, s.tab, w)
           x == [s EXCEPT !.disp[d].focus = j, !.disp[d].fore = w, !.fore = w, !.disp[d].other = o]
<1>2. d \in Display /\ c \in Disps /\ c.cvs \in Seq(Win \cup {NULL}) /\ ToSet(c.cvs) \subseteq Lives(s) \cup {NULL}
      /\ c.other \in Lives(s) \cup s.ghosts \cup {NULL} /\ d \in ToSet(s.displays)
  BY DisplayIs, LiveIs DEF State
<1>3. Sound(s) /\ s \in States
  BY SoundFacts
<1>4. Becomes(x)
  BY <1>1 DEF SetForeCanvas, State
<1> HIDE DEF s
<1>5. x = [s EXCEPT !.disp = [s.disp EXCEPT ![d] = [c EXCEPT !.focus = j, !.fore = w, !.other = o]], !.fore = w]
  <2> HIDE DEF c, w, o
  <2>2. [s EXCEPT !.disp[d].focus = j, !.disp[d].fore = w, !.fore = w, !.disp[d].other = o]
        = [s EXCEPT !.disp = [s.disp EXCEPT ![d] = [s.disp[d] EXCEPT !.focus = j, !.fore = w, !.other = o]],
                    !.fore = w]
    <3>1. s \in States /\ d \in Display
      BY <1>2, <1>3
    <3> QED BY ONLY <3>1 DEF States, Disps
  <2>3. c = s.disp[d]
    BY DEF c
  <2> QED BY <2>2, <2>3
<1>6. o \in Lives(s) \cup s.ghosts \cup {NULL} /\ w \in Lives(s) \cup {NULL}
  BY <1>2 DEF ToSet
<1>7. c = s.disp[d] /\ c1 = View(c.cvs, j, c.cvs[j], o, s.disp[d].layout)
  OBVIOUS
<1> HIDE DEF x, o
<1>8. [c EXCEPT !.focus = j, !.fore = w, !.other = o] = c1
  <2> HIDE DEF c
  <2>1. [c EXCEPT !.focus = j, !.fore = w, !.other = o] = [[[c EXCEPT !.focus = j] EXCEPT !.fore = w] EXCEPT !.other = o]
    OBVIOUS
  <2>2. [c EXCEPT !.focus = j] = View(c.cvs, j, c.fore, c.other, c.layout)
    BY <1>2, ViewIs
  <2>3. [View(c.cvs, j, c.fore, c.other, c.layout) EXCEPT !.fore = w] = View(c.cvs, j, w, c.other, c.layout)
    BY DEF View
  <2>4. [View(c.cvs, j, w, c.other, c.layout) EXCEPT !.other = o] = c1
    BY DEF View
  <2> QED BY <2>1, <2>2, <2>3, <2>4
<1>9. x = r
  <2> HIDE DEF c1, c, w
  <2>1. x = [s EXCEPT !.disp = D, !.fore = w]
    BY <1>5, <1>8
  <2>2. [s EXCEPT !.disp = D, !.fore = w] = [[s EXCEPT !.disp = D] EXCEPT !.fore = w]
    OBVIOUS
  <2>3. [s EXCEPT !.disp = D] = With3(s, s.tab, D, s.fore)
    <3> HIDE DEF D
    <3> QED BY <1>3 DEF With3, States
  <2>4. [With3(s, s.tab, D, s.fore) EXCEPT !.fore = w] = With3(s, s.tab, D, w)
    BY DEF With3
  <2> QED BY <2>1, <2>2, <2>3, <2>4 DEF Redone
<1>10. Sound(r) /\ Only(r, s) /\ r.tab = s.tab
  <2> DEFINE v == c.cvs
  <2>1. c1 = View(v, j, v[j], o, s.disp[d].layout)
    BY <1>7
  <2>2. r = Redone(s, d, c1, s.tab, w)
    OBVIOUS
  <2>3. /\ Sound(s) /\ d \in ToSet(s.displays) /\ v \in Seq(Win \cup {NULL})
        /\ ToSet(v) \subseteq Lives(s) \cup {NULL} /\ j \in DOMAIN v
        /\ o \in Lives(s) \cup s.ghosts \cup {NULL} /\ w \in Lives(s) \cup s.ghosts \cup {NULL}
    BY <1>2, <1>3, <1>6
  <2> HIDE DEF c1, r, v, w
  <2>4. Steady(r, s)
    BY ONLY <2>1, <2>2, <2>3, RegionsIs
  <2> QED BY <2>4 DEF Steady
<1>11. Becomes(r)
  BY <1>4, <1>9
<1> HIDE DEF r
<1> QED BY <1>3, <1>10, <1>11, SureIs DEF Only, s, State

LEMMA RegionCommandSure ==
  ASSUME Sound(State), NEW d \in ToSet(displays), NEW f \in Live \cup {NULL}, RegionCommand(d, f)
  PROVE  Sure /\ tab' = tab
  BY SplitSure, DropSure, OnlySure, FocusSure DEF RegionCommand

-----------------------------------------------------------------------------
(* A window that is made                                                   *)

KindNow(s, p, type) == [s.kind EXCEPT ![p] = type]

\* s with the window p, linked as t.
Made(s, p, t, type, g) ==
  Rec(t, KindNow(s, p, type), g, s.disp, s.displays, s.fore, s.lay, s.layouts, s.memory, s.ghosts \ {p})

MayMake(s, p, t, type, g) ==
  /\ Sound(s) /\ p \in Win \ Lives(s) /\ type \in {"pty", "group"} /\ Good(t, Lives(s) \cup {p})
  /\ g \in [Win -> Win \cup {NULL}]

LEMMA MadeSound ==
  ASSUME NEW s, NEW p, NEW type, NEW t, NEW g, MayMake(s, p, t, type, g), NEW r, r = Made(s, p, t, type, g)
  PROVE  /\ Sound(r) /\ Lives(r) = Lives(s) \cup {p} /\ r.kind = KindNow(s, p, type) /\ r.group = g
         /\ r.displays = s.displays /\ r.disp = s.disp /\ r.tab = t
<1> DEFINE L == Lives(s)
           k == KindNow(s, p, type)
           h == s.ghosts \ {p}
           M == Lives(s) \cup {p}
<1>0. /\ Sound(s) /\ p \in Win \ Lives(s) /\ type \in {"pty", "group"} /\ Good(t, Lives(s) \cup {p})
      /\ g \in [Win -> Win \cup {NULL}]
  BY DEF MayMake
<1>1. s \in States /\ Whole(s, s.ghosts) /\ L \subseteq Win /\ \A e \in ToSet(s.displays) : Lit(s.disp[e])
  BY <1>0, SoundFacts
<1>2. /\ s.kind \in [Win -> {"free", "pty", "zombie", "group"}] /\ s.disp \in [Display -> Disps]
      /\ s.displays \in Seq(Display) /\ s.fore \in Win \cup {NULL} /\ s.lay \in [Layout -> Lays]
      /\ s.layouts \in Seq(Layout) /\ s.memory \in Memories /\ s.ghosts \in SUBSET Win
  BY <1>1, StateFields
<1>3. k \in [Win -> {"free", "pty", "zombie", "group"}] /\ \A w \in Win : k[w] = IF w = p THEN type ELSE s.kind[w]
  BY <1>0, <1>2 DEF KindNow
<1>4. t \in Tabs /\ \A v \in M : t.prevmru[v] \in M \cup {NULL}
  BY <1>0, GoodLists
<1>5. /\ r \in States /\ r.tab = t /\ r.kind = k /\ r.group = g /\ r.disp = s.disp
      /\ r.displays = s.displays /\ r.fore = s.fore /\ r.lay = s.lay /\ r.layouts = s.layouts
      /\ r.memory = s.memory /\ r.ghosts = h
  <2>1. r = Rec(t, k, g, s.disp, s.displays, s.fore, s.lay, s.layouts, s.memory, h)
    BY DEF Made
  <2>2. g \in [Win -> Win \cup {NULL}] /\ h \in SUBSET Win
    BY <1>0, <1>2
  <2> QED BY ONLY <1>2, <1>3, <1>4, <2>1, <2>2 DEF States, Rec
<1>6. Lives(r) = M
  BY <1>0, <1>3, <1>5 DEF Lives
<1>7. Fine(s, L, L, L \cup s.ghosts) /\ Arranged(s) /\ s.ghosts \cap L = {}
  BY <1>1 DEF Whole
<1> HIDE DEF Lives
<1>8. Arranged(r)
  BY <1>5, <1>7 DEF Arranged
<1>9. M \cup h = (L \cup s.ghosts) \cup {p} /\ h \cap M = {} /\ M \cup h \subseteq Win
  BY <1>0, <1>1, <1>2, <1>7
<1>10. \A e \in Display : Sees(s.disp[e], L, L \cup s.ghosts)
  BY <1>7 DEF Fine
<1>11. \A e \in Display : Sees(r.disp[e], M, M \cup h)
  BY <1>5, <1>9, <1>10 DEF Sees
<1>12. r.fore \in M \cup h \cup {NULL}
  BY <1>5, <1>7, <1>9 DEF Fine
<1>13. \A l \in Layout : ToSet(r.lay[l].cvs) \subseteq M \cup {NULL}
  BY <1>5, <1>7 DEF Fine
<1>14. Fine(r, M, M, M \cup h)
  <2> HIDE DEF M
  <2> QED BY <1>4, <1>5, <1>9, <1>11, <1>12, <1>13, <1>0 DEF Fine, M
<1>15. Whole(r, h)
  BY <1>5, <1>6, <1>8, <1>9, <1>14 DEF Whole
<1> QED BY <1>1, <1>5, <1>6, <1>15 DEF Sound

LEMMA RememberedIs ==
  ASSUME NEW s, Sound(s), NEW d \in ToSet(s.displays) \cup {NULL}, NEW r, r = Remembered(s, d)
  PROVE  Sound(r) /\ Only(r, s) /\ r.tab = s.tab
<1>1. CASE d = NULL \/ s.disp[d].fore = NULL
  BY <1>1 DEF Remembered, Only
<1>2. CASE ~(d = NULL \/ s.disp[d].fore = NULL)
  <2> DEFINE c == s.disp[d]
             v == c.cvs
             n == c.focus
             o == c.fore
             f == s.fore
             c1 == View(v, n, v[n], o, s.disp[d].layout)
  <2>1. d \in ToSet(s.displays) /\ r = [s EXCEPT !.disp[d].other = o]
    BY <1>2 DEF Remembered
  <2>2. s \in States /\ d \in Display /\ Lit(c) /\ Sees(c, Lives(s), Lives(s) \cup s.ghosts)
        /\ f \in Lives(s) \cup s.ghosts \cup {NULL}
    BY <2>1, SoundFacts
  <2>3. s.disp \in [Display -> Disps]
    BY <2>2, StateFields
  <2>4. c \in Disps
    BY <2>2, <2>3
  <2>5. r = [s EXCEPT !.disp = [s.disp EXCEPT ![d] = [c EXCEPT !.other = o]]]
    <3> HIDE DEF o
    <3>1. [s EXCEPT !.disp[d].other = o] = [s EXCEPT !.disp = [s.disp EXCEPT ![d] = [s.disp[d] EXCEPT !.other = o]]]
      BY ONLY <2>2 DEF States, Disps
    <3> QED BY <2>1, <3>1
  <2>6. [c EXCEPT !.other = o] = c1
    <3> DEFINE l == c.layout
    <3>1. l = s.disp[d].layout /\ v[n] = c.fore
      BY <2>2 DEF Lit
    <3> HIDE DEF c
    <3>2. [c EXCEPT !.other = o] = View(v, n, c.fore, o, c.layout)
      BY <2>4, ViewIs
    <3> QED BY <3>1, <3>2
  <2>7. n \in DOMAIN v /\ v \in Seq(Win \cup {NULL}) /\ ToSet(v) \subseteq Lives(s) \cup {NULL}
        /\ o \in Lives(s) \cup s.ghosts \cup {NULL}
    BY <2>2, <2>4 DEF Lit, Sees, Disps
  <2> HIDE DEF c1, c, v, n, o
  <2>8. r = Redone(s, d, c1, s.tab, f)
    BY <2>2, <2>5, <2>6, SetIs
  <2>9. c1 = View(v, n, v[n], o, s.disp[d].layout)
    BY DEF c1
  <2>10. Sound(s) /\ d \in ToSet(s.displays) /\ f \in Lives(s) \cup s.ghosts \cup {NULL}
    BY <2>1, <2>2
  <2> HIDE DEF f
  <2>11. Steady(r, s)
    BY ONLY <2>7, <2>8, <2>9, <2>10, RegionsIs
  <2> QED BY <2>11 DEF Steady
<1> QED BY <1>1, <1>2

LEMMA RecMade ==
  ASSUME NEW s \in States, NEW p, NEW type, NEW gr, NEW t
  PROVE  [s EXCEPT !.kind[p] = type, !.group[p] = gr, !.ghosts = @ \ {p}, !.tab = t]
         = Rec(t, [s.kind EXCEPT ![p] = type], [s.group EXCEPT ![p] = gr], s.disp, s.displays, s.fore, s.lay,
               s.layouts, s.memory, s.ghosts \ {p})
<1> DEFINE k == [s.kind EXCEPT ![p] = type]
           g == [s.group EXCEPT ![p] = gr]
           h == s.ghosts \ {p}
<1>1. [s EXCEPT !.kind[p] = type, !.group[p] = gr, !.ghosts = @ \ {p}, !.tab = t]
      = [s EXCEPT !.kind = k, !.group = g, !.ghosts = h, !.tab = t]
  BY DEF States
<1> HIDE DEF k, g, h
<1>2. [s EXCEPT !.kind = k, !.group = g, !.ghosts = h, !.tab = t]
      = [[[[s EXCEPT !.kind = k] EXCEPT !.group = g] EXCEPT !.ghosts = h] EXCEPT !.tab = t]
  OBVIOUS
<1>3. [s EXCEPT !.kind = k]
      = Rec(s.tab, k, s.group, s.disp, s.displays, s.fore, s.lay, s.layouts, s.memory, s.ghosts)
  BY DEF States, Rec
<1>4. [Rec(s.tab, k, s.group, s.disp, s.displays, s.fore, s.lay, s.layouts, s.memory, s.ghosts) EXCEPT !.group = g]
      = Rec(s.tab, k, g, s.disp, s.displays, s.fore, s.lay, s.layouts, s.memory, s.ghosts)
  BY DEF Rec
<1>5. [Rec(s.tab, k, g, s.disp, s.displays, s.fore, s.lay, s.layouts, s.memory, s.ghosts) EXCEPT !.ghosts = h]
      = Rec(s.tab, k, g, s.disp, s.displays, s.fore, s.lay, s.layouts, s.memory, h)
  BY DEF Rec
<1>6. [Rec(s.tab, k, g, s.disp, s.displays, s.fore, s.lay, s.layouts, s.memory, h) EXCEPT !.tab = t]
      = Rec(t, k, g, s.disp, s.displays, s.fore, s.lay, s.layouts, s.memory, h)
  BY DEF Rec
<1> QED BY <1>1, <1>2, <1>3, <1>4, <1>5, <1>6 DEF k, g, h

\* There is a window p with the number n, and it is the one used last.
Newly(p, n) ==
  /\ p \notin Live /\ Live' = Live \cup {p} /\ (\A w \in Live : tab.number[w] # n)
  /\ tab'.number = [tab.number EXCEPT ![p] = n] /\ ByUse(tab') = Insert(ByUse(tab), 1, p)

LEMMA MakeInvar ==
  ASSUME Invar, NEW d \in ToSet(displays) \cup {NULL}, NEW f \in Live \cup {NULL}, NEW p \in Win,
         NEW type \in Kinds, NEW n \in Nat, \A w \in Live : tab.number[w] # n, MakeWindow(d, f, p, type, n)
  PROVE  Invar' /\ Newly(p, n)
<1> DEFINE s == With(f)
           t == Listed(State, p, n)
           gr == GroupFor(f)
           k == [s.kind EXCEPT ![p] = type]
           g == [s.group EXCEPT ![p] = gr]
           h == s.ghosts \ {p}
           m == Rec(t, k, g, s.disp, s.displays, s.fore, s.lay, s.layouts, s.memory, h)
           x == Remembered(m, d)
           r == Activate(SetForeWindow(x, d, p), d)
<1>1. Sound(State) /\ Groups(State) /\ type \in {"pty", "group"} /\ p \notin Live
  BY DEF Invar, MakeWindow, Live
<1>2. Sound(s) /\ Only(s, State) /\ s \in States /\ Lives(s) = Live
  BY <1>1, WithIs, OnlyLives, LiveIs
<1>3. s.kind = kind /\ s.group = group /\ s.displays = displays
  BY <1>2 DEF Only, State
<1>4. Becomes(r)
  <2>1. Becomes(Activate(SetForeWindow(Remembered([s EXCEPT !.kind[p] = type, !.group[p] = gr, !.ghosts = @ \ {p},
                                                            !.tab = t], d), d, p), d))
    BY DEF MakeWindow
  <2> HIDE DEF s, t, gr
  <2>2. [s EXCEPT !.kind[p] = type, !.group[p] = gr, !.ghosts = @ \ {p}, !.tab = t] = m
    BY <1>2, RecMade
  <2> QED BY <2>1, <2>2
<1>5. Good(t, Live \cup {p}) /\ t.number = [tab.number EXCEPT ![p] = n] /\ t.mru = p /\ Heads(t, tab, p)
  <2>1. Good(tab, Live) /\ State.tab = tab
    BY <1>1, TabFacts DEF State
  <2>2. p \in Win \ Live /\ n \in Int
    BY <1>1
  <2>3. \A w \in Live : State.tab.number[w] # n
    BY <2>1
  <2> HIDE DEF State
  <2> DEFINE u == State.tab
  <2>4. Good(u, Live) /\ (\A w \in Live : u.number[w] # n) /\ u = State.tab
    BY <2>1, <2>3
  <2> HIDE DEF u
  <2>5. u = tab /\ t = Listed(State, p, n)
    BY <2>1, <2>4
  <2> HIDE DEF t
  <2>6. Good(t, Live \cup {p}) /\ t.number = [u.number EXCEPT ![p] = n] /\ t.mru = p /\ Heads(t, u, p)
    <3>1. \E S \in {Live} : p \in Win \ S /\ Good(u, S) /\ (\A w \in S : u.number[w] # n)
      BY <2>2, <2>4
    <3>2. PICK S \in {Live} : p \in Win \ S /\ Good(u, S) /\ (\A w \in S : u.number[w] # n)
      BY <3>1
    <3>3. Enlisted(t, u, p, n, S)
      BY ONLY <2>2, <2>4, <2>5, <3>2, ListedIs
    <3> QED BY <3>2, <3>3 DEF Enlisted
  <2> QED BY <2>5, <2>6
<1>6. gr \in Live \cup {NULL} /\ (gr # NULL => kind[gr] = "group")
  <2>1. f # NULL /\ group[f] # NULL => group[f] \in Live /\ kind[group[f]] = "group"
    BY <1>1, LiveIs DEF Groups, State
  <2> QED BY <2>1 DEF GroupFor
<1> HIDE DEF t, gr, s
<1>7. s.group \in [Win -> Win \cup {NULL}] /\ Live \subseteq Win
  BY <1>2, StateFields DEF Live
<1>8. g \in [Win -> Win \cup {NULL}]
  BY <1>6, <1>7
<1>9. /\ Sound(m) /\ Lives(m) = Live \cup {p} /\ m.kind = k /\ m.group = g /\ m.displays = s.displays
      /\ m.tab = t
  <2>1. Sound(s) /\ p \in Win \ Lives(s) /\ type \in {"pty", "group"} /\ Good(t, Lives(s) \cup {p})
    BY <1>1, <1>2, <1>5
  <2>2. m = Made(s, p, t, type, g) /\ k = KindNow(s, p, type)
    BY DEF Made, KindNow
  <2> HIDE DEF k, h, m, g
  <2>3. /\ Sound(m) /\ Lives(m) = Lives(s) \cup {p} /\ m.kind = KindNow(s, p, type) /\ m.group = g
        /\ m.displays = s.displays /\ m.tab = t
    <3>1. MayMake(s, p, t, type, g)
      BY <1>8, <2>1 DEF MayMake
    <3> QED BY ONLY <2>2, <3>1, MadeSound
  <2> QED BY <1>2, <2>2, <2>3
<1>10. Groups(m)
  <2>1. Grouping(Live, kind, group)
    BY <1>1, GroupingIs, LiveIs DEF State
  <2>2. \A w \in Live : k[w] = kind[w]
    BY <1>1, <1>3
  <2>3. p \in Win \ Live /\ g = [group EXCEPT ![p] = gr] /\ group \in [Win -> Win \cup {NULL}] /\ Live \in SUBSET Win
    BY <1>1, <1>3, <1>7
  <2> HIDE DEF g, k, m
  <2>4. Grouping(Live \cup {p}, k, g)
    BY <1>6, <2>1, <2>2, <2>3, MadeGroup
  <2> QED BY <1>9, <2>4, GroupingIs
<1> HIDE DEF m
<1>11. d \in ToSet(m.displays) \cup {NULL}
  BY <1>3, <1>9
<1>12. Sound(x) /\ Only(x, m) /\ x.tab = m.tab
  BY <1>9, <1>11, RememberedIs
<1> HIDE DEF x
<1>13. d \in ToSet(x.displays) \cup {NULL} /\ p \in Lives(x) \cup {NULL}
  BY <1>9, <1>11, <1>12, OnlyLives DEF Only
<1>14. Sound(r) /\ Only(r, x) /\ Fronted(r.tab, x.tab, p)
  BY <1>12, <1>13, SetActive
<1>15. State' = r
  BY <1>4, <1>14, SoundFacts, BecomesIs
<1> HIDE DEF r
<1>16. Groups(r)
  BY <1>10, <1>12, <1>14, OnlyGroups
<1>17. r.tab = t
  BY <1>5, <1>9, <1>12, <1>14 DEF Fronted, ToHead
<1>18. tab' = t /\ Live' = Live \cup {p}
  <2>1. Lives(r) = Live \cup {p}
    BY <1>9, <1>12, <1>14, OnlyLives
  <2>2. tab' = r.tab /\ kind' = r.kind
    BY <1>15 DEF State
  <2>3. Live' = Lives(r)
    BY <2>2 DEF Live, Lives
  <2> QED BY <1>17, <2>1, <2>2, <2>3
<1> QED BY <1>1, <1>5, <1>14, <1>15, <1>16, <1>18 DEF Invar, Heads, Newly

LEMMA ScreenInvar ==
  ASSUME Invar, NEW d \in ToSet(displays) \cup {NULL}, NEW f \in Live \cup {NULL}, DoCommandScreen(d, f)
  PROVE  Invar' /\ \E p \in Win, n \in Nat : Newly(p, n)
<1>1. PICK p \in Win, type \in Kinds, start \in Positions : MakeWindow(d, f, p, type, FreeNumber(start))
  BY DEF DoCommandScreen
<1> DEFINE n == FreeNumber(start)
<1>2. n \in Nat /\ \A w \in Live : tab.number[w] # n
  <2>1. Live \subseteq Win /\ start \in Nat
    BY DEF Live
  <2> QED BY <2>1, FreeNumberIs
<1>3. MakeWindow(d, f, p, type, n)
  BY <1>1
<1> HIDE DEF n
<1> QED BY <1>2, <1>3, MakeInvar

-----------------------------------------------------------------------------
(* A window that is killed                                                 *)

\* What a chosen window can be: one of the list, or the one asked for if it is not shown.
Chosen(v, y, d, o) ==
  \/ v \in ToSet(ByUse(y.tab)) \cup {NULL}
  \/ v = o /\ (d = NULL \/ ~Shows(y, d, o))

LEMMA NiceIs ==
  ASSUME NEW y \in States, NEW d, NEW o \in Win \cup {NULL}, NEW v, v = FindNiceWindow(y, d, o)
  PROVE  v \in Win \cup {NULL} /\ Chosen(v, y, d, o)
<1> DEFINE q == ByUse(y.tab)
           A == {i \in DOMAIN q : ~OwnLayer(y, q[i])}
           B == {i \in DOMAIN q : OwnLayer(y, q[i]) /\ ~Shows(y, d, q[i])}
           a == IF A = {} THEN NULL ELSE q[Min(A)]
           b == IF B = {} THEN NULL ELSE q[Min(B)]
<1>1. q \in Seq(Win)
  <2>1. y.tab \in Tabs
    BY StateFields
  <2> QED BY <2>1, ListTypes
<1>2. v = IF d = NULL \/ (o # NULL /\ ~Shows(y, d, o)) THEN o ELSE IF a # NULL THEN a ELSE b
  BY DEF FindNiceWindow, FirstOf
<1> HIDE DEF q
<1>3. A \in SUBSET (DOMAIN q) /\ B \in SUBSET (DOMAIN q)
  OBVIOUS
<1> HIDE DEF A, B
<1>4. a \in Win \cup {NULL} /\ a \in ToSet(q) \cup {NULL}
  BY <1>1, <1>3, FoundIs
<1>5. b \in Win \cup {NULL} /\ b \in ToSet(q) \cup {NULL}
  BY <1>1, <1>3, FoundIs
<1> HIDE DEF a, b
<1> QED BY <1>2, <1>4, <1>5 DEF Chosen, q

\* y comes from s, while its window w is killed.
Apart(y, s) ==
  y \in States /\ Only(y, s) /\ y.lay = s.lay /\ y.layouts = s.layouts /\ y.memory = s.memory

Dying(y, s, w) ==
  /\ Fine(y, Lives(s) \ {w}, Lives(s), Lives(s) \cup s.ghosts) /\ Arranged(y)
  /\ \A e \in ToSet(s.displays) : Lit(y.disp[e])

\* A region has been given a window freed before.
Haunted(y, s) == \E e \in Display : \E j \in DOMAIN y.disp[e].cvs : y.disp[e].cvs[j] \in s.ghosts

Going(y, s, w) == Apart(y, s) /\ (Haunted(y, s) \/ Dying(y, s, w))

\* Region i of the display d, which showed w, has got v.
Replaced(r, y, d, i, v) ==
  /\ r.disp[d].cvs = [y.disp[d].cvs EXCEPT ![i] = v] /\ r.disp[d].focus = y.disp[d].focus
  /\ \A e \in Display : e # d => r.disp[e] = y.disp[e]

LEMMA ReplaceHaunted ==
  ASSUME NEW s, Sound(s), NEW w \in Lives(s), NEW d \in ToSet(s.displays), NEW y, Apart(y, s),
         NEW i \in DOMAIN y.disp[d].cvs, y.disp[d].cvs[i] = w, NEW v \in Win \cup {NULL},
         Haunted(y, s) \/ v \in s.ghosts, NEW r, Replaced(r, y, d, i, v)
  PROVE  Haunted(r, s)
<1>1. d \in Display /\ w \notin s.ghosts
  BY SoundFacts DEF Whole
<1>2. y.disp[d].cvs \in Seq(Win \cup {NULL})
  <2>1. y.disp \in [Display -> Disps]
    BY StateFields DEF Apart
  <2> QED BY <1>1, <2>1 DEF Disps
<1> DEFINE q == y.disp[d].cvs
           p == r.disp[d].cvs
<1>3. p = [q EXCEPT ![i] = v]
  BY DEF Replaced
<1>4. DOMAIN p = DOMAIN q /\ \A j \in DOMAIN q : p[j] = IF j = i THEN v ELSE q[j]
  <2> HIDE DEF p, q
  <2> QED BY <1>2, <1>3, ExceptIs DEF q
<1>5. q[i] = w /\ i \in DOMAIN q
  OBVIOUS
<1>6. CASE v \in s.ghosts
  <2>1. i \in DOMAIN p /\ p[i] \in s.ghosts
    BY <1>4, <1>5, <1>6
  <2> QED BY <1>1, <2>1 DEF Haunted
<1>7. CASE Haunted(y, s)
  <2>1. PICK e \in Display : \E j \in DOMAIN y.disp[e].cvs : y.disp[e].cvs[j] \in s.ghosts
    BY <1>7 DEF Haunted
  <2>2. PICK j \in DOMAIN y.disp[e].cvs : y.disp[e].cvs[j] \in s.ghosts
    BY <2>1
  <2>3. CASE e = d
    <3>1. j \in DOMAIN q /\ q[j] \in s.ghosts /\ j # i
      BY <1>1, <1>5, <2>2, <2>3
    <3>2. j \in DOMAIN p /\ p[j] \in s.ghosts
      BY <1>4, <3>1
    <3> QED BY <1>1, <3>2 DEF Haunted
  <2>4. CASE e # d
    <3>1. r.disp[e] = y.disp[e]
      BY <2>4 DEF Replaced
    <3> QED BY <2>2, <3>1 DEF Haunted
  <2> QED BY <2>3, <2>4
<1> QED BY <1>6, <1>7

LEMMA ReplaceDying ==
  ASSUME NEW s, Sound(s), NEW w \in Lives(s), NEW d \in ToSet(s.displays), NEW y, Apart(y, s),
         Dying(y, s, w), NEW i \in DOMAIN y.disp[d].cvs, NEW v \in (Lives(s) \ {w}) \cup {NULL},
         NEW r, r = SetCanvasWindow(y, d, i, v), Apart(r, s)
  PROVE  Dying(r, s, w)
<1> DEFINE L == Lives(s) \ {w}
           V == Lives(s)
           O == Lives(s) \cup s.ghosts
           c == y.disp[d]
<1>1. d \in Display /\ V \subseteq Win
  BY SoundFacts
<1>2. y \in States /\ Only(y, s) /\ y.displays = s.displays
  BY DEF Apart, Only
<1>3. c \in Disps /\ c.cvs \in Seq(Win \cup {NULL})
  <2>1. y.disp \in [Display -> Disps]
    BY <1>2, StateFields
  <2> QED BY <1>1, <2>1 DEF Disps
<1>4. Fine(r, L, V, O)
  <2>1. Fine(y, L, V, O) /\ v \in L \cup {NULL} /\ r = SetCanvasWindow(y, d, i, v)
    BY DEF Dying
  <2> HIDE DEF L, V, O
  <2> QED BY ONLY <1>1, <2>1, SetCanvasFine
<1>5. /\ r.disp[d].cvs = [c.cvs EXCEPT ![i] = v] /\ r.disp[d].focus = c.focus
      /\ r.disp[d].fore = IF i = c.focus THEN v ELSE c.fore
      /\ r.disp[d].layout = c.layout
      /\ \A e \in Display : e # d => r.disp[e] = y.disp[e]
      /\ r.displays = y.displays /\ r.lay = y.lay /\ r.layouts = y.layouts /\ r.memory = y.memory
  <2>1. v \in Win \cup {NULL}
    BY <1>1
  <2> QED BY <1>1, <1>2, <2>1, SetCanvasIs
<1> HIDE DEF c
<1>6. Arranged(r)
  BY <1>1, <1>2, <1>5 DEF Dying, Arranged, c
<1> DEFINE p == [c.cvs EXCEPT ![i] = v]
<1>7. DOMAIN p = DOMAIN c.cvs /\ \A j \in DOMAIN c.cvs : p[j] = IF j = i THEN v ELSE c.cvs[j]
  <2>1. v \in Win \cup {NULL}
    BY <1>1
  <2> QED BY <1>3, <2>1, ExceptIs
<1>8. r.disp[d].cvs = p
  BY <1>5
<1> HIDE DEF p
<1>9. Lit(r.disp[d])
  <2>1. Lit(c)
    BY DEF Dying, c
  <2> QED BY <1>5, <1>7, <1>8, <2>1 DEF Lit
<1>10. \A e \in ToSet(s.displays) : Lit(r.disp[e])
  <2>1. \A e \in ToSet(s.displays) : e \in Display /\ Lit(y.disp[e])
    BY SoundFacts DEF Dying
  <2> QED BY <1>5, <1>9, <2>1
<1> QED BY <1>4, <1>6, <1>10 DEF Dying

\* The first k regions of the display d have no window freed or w.
Partly(y, s, w, d, k) == Haunted(y, s) \/ (Dying(y, s, w) /\ \A j \in 1..k : y.disp[d].cvs[j] # w)

\* A window is used if region i is in focus.
UsedAt(r, y, d, i) == r.tab = y.tab \/ (i = y.disp[d].focus /\ Touched(r.tab, y.tab))

LEMMA ReplaceOne ==
  ASSUME NEW s, Sound(s), NEW w \in Lives(s), NEW d \in ToSet(s.displays), NEW y, Going(y, s, w),
         NEW i \in DOMAIN y.disp[d].cvs, y.disp[d].cvs[i] = w, NEW r, r = Replace(y, d, i, w)
  PROVE  /\ Apart(r, s) /\ (Haunted(r, s) \/ Dying(r, s, w))
         /\ \E v \in Win \cup {NULL} : Replaced(r, y, d, i, v) /\ (Haunted(r, s) \/ v # w)
         /\ UsedAt(r, y, d, i)
<1> DEFINE o == y.disp[d].other
           v == FindNiceWindow(y, d, o)
<1>1. d \in Display /\ d # NULL /\ Lives(s) \subseteq Win /\ w \in Win
  BY SoundFacts
<1>2. Apart(y, s) /\ y \in States /\ y.disp[d] \in Disps
  <2>1. y \in States
    BY DEF Going, Apart
  <2>2. y.disp \in [Display -> Disps]
    BY <2>1, StateFields
  <2> QED BY <1>1, <2>1, <2>2 DEF Going
<1>3. o \in Win \cup {NULL} /\ y.disp[d].cvs \in Seq(Win \cup {NULL})
  BY <1>2 DEF Disps
<1>4. r = SetCanvasWindow(y, d, i, v)
  BY DEF Replace
<1> HIDE DEF o
<1>5. v \in Win \cup {NULL} /\ Chosen(v, y, d, o)
  BY <1>2, <1>3, NiceIs
<1> HIDE DEF v
<1>6. /\ r \in States /\ r.disp[d].cvs = [y.disp[d].cvs EXCEPT ![i] = v] /\ r.disp[d].focus = y.disp[d].focus
      /\ \A e \in Display : e # d => r.disp[e] = y.disp[e]
      /\ r.kind = y.kind /\ r.group = y.group /\ r.displays = y.displays /\ r.lay = y.lay
      /\ r.layouts = y.layouts /\ r.memory = y.memory /\ r.ghosts = y.ghosts
  BY <1>1, <1>2, <1>4, <1>5, SetCanvasIs
<1>11. UsedAt(r, y, d, i)
  <2>1. TabSet(r, y, d, i, v)
    BY ONLY <1>1, <1>2, <1>4, <1>5, SetCanvasTab
  <2> QED BY <1>5, <2>1 DEF TabSet, UsedAt, Touched
<1>7. Apart(r, s)
  BY <1>2, <1>6 DEF Apart, Only
<1>8. Replaced(r, y, d, i, v)
  BY <1>6 DEF Replaced
<1>9. CASE Haunted(y, s) \/ v \in s.ghosts
  <2>1. Haunted(r, s)
    BY <1>2, <1>5, <1>8, <1>9, ReplaceHaunted
  <2> QED BY <1>5, <1>7, <1>8, <1>11, <2>1
<1>10. CASE ~Haunted(y, s) /\ v \notin s.ghosts
  <2>1. Dying(y, s, w)
    BY <1>10 DEF Going
  <2>2. Good(y.tab, Lives(s) \ {w}) /\ y.disp[d].other \in Lives(s) \cup s.ghosts \cup {NULL}
    BY <1>1, <2>1 DEF Dying, Fine, Sees
  <2>3. ToSet(ByUse(y.tab)) = Lives(s) \ {w}
    BY <2>2, GoodLists
  <2>4. Shows(y, d, w)
    BY <1>3 DEF Shows, ToSet
  <2>5. v \in (Lives(s) \ {w}) \cup {NULL}
    BY <1>1, <1>5, <1>10, <2>2, <2>3, <2>4 DEF Chosen, o
  <2>6. Dying(r, s, w)
    BY <1>2, <1>4, <1>7, <2>1, <2>5, ReplaceDying
  <2>7. v # w
    BY <1>1, <2>5
  <2> QED BY <1>5, <1>7, <1>8, <1>11, <2>6, <2>7
<1> QED BY <1>9, <1>10

LEMMA ReplaceType ==
  ASSUME NEW y \in States, NEW d \in Display, NEW i, NEW w
  PROVE  Replace(y, d, i, w) \in States
<1> DEFINE o == y.disp[d].other
           v == FindNiceWindow(y, d, o)
<1>1. o \in Win \cup {NULL}
  <2>1. y.disp \in [Display -> Disps]
    BY StateFields
  <2> QED BY <2>1 DEF Disps
<1>2. Replace(y, d, i, w) = IF y.disp[d].cvs[i] = w THEN SetCanvasWindow(y, d, i, v) ELSE y
  BY DEF Replace
<1> HIDE DEF o
<1>3. v \in Win \cup {NULL}
  BY <1>1, NiceIs
<1> HIDE DEF v
<1>4. SetCanvasWindow(y, d, i, v) \in States
  BY <1>3, SetCanvasIs
<1> QED BY <1>2, <1>4

LEMMA ReplaceSteps ==
  ASSUME NEW s \in States, NEW d \in Display, NEW w, NEW r, r = ReplaceEach(s, d, w),
         NEW N, N = Len(s.disp[d].cvs)
  PROVE  \E h : /\ h[0] = s /\ h[N] = r
                /\ \A k \in 1..N : h[k] = Replace(h[k - 1], d, k, w)
<1> DEFINE F == [k \in 1..N |-> [x \in States |-> Replace(x, d, k, w)]]
           f == CHOOSE f : f = [k \in 0..N |-> IF k = 0 THEN s ELSE Replace(f[k - 1], d, k, w)]
<1>1. N \in Nat
  <2>1. s.disp \in [Display -> Disps]
    BY StateFields
  <2> QED BY <2>1 DEF Disps
<1>2. ASSUME NEW k \in 1..N, NEW x \in States PROVE Replace(x, d, k, w) \in States
  BY ReplaceType
<1>3. PICK g : Iterates(g, N, States, s, F)
  <2>1. F \in [1..N -> [States -> States]]
    BY <1>2
  <2>2. s \in States
    OBVIOUS
  <2> HIDE DEF F
  <2> QED BY ONLY <1>1, <2>1, <2>2, Iterated
<1>4. g \in [0..N -> States] /\ g[0] = s /\ \A k \in 1..N : g[k] = F[k][g[k - 1]]
  <2> HIDE DEF F
  <2> QED BY <1>3 DEF Iterates
<1>5. g = [k \in 0..N |-> IF k = 0 THEN s ELSE Replace(g[k - 1], d, k, w)]
  <2>1. ASSUME NEW k \in 0..N PROVE g[k] = IF k = 0 THEN s ELSE Replace(g[k - 1], d, k, w)
    <3>1. k # 0 => k \in 1..N /\ k - 1 \in 0..N
      BY <1>1
    <3>2. \A m \in 1..N, x \in States : F[m][x] = Replace(x, d, m, w)
      OBVIOUS
    <3> HIDE DEF F
    <3> QED BY <1>4, <3>1, <3>2
  <2> QED BY <1>4, <2>1
<1>6. f = [k \in 0..N |-> IF k = 0 THEN s ELSE Replace(f[k - 1], d, k, w)]
  BY <1>5
<1>7. r = f[N]
  BY DEF ReplaceEach
<1> HIDE DEF f
<1>8. f[0] = s /\ \A k \in 1..N : f[k] = Replace(f[k - 1], d, k, w)
  <2>1. 0 \in 0..N /\ \A k \in 1..N : k \in 0..N /\ k # 0
    BY <1>1
  <2> QED BY <1>6, <2>1
<1> QED BY <1>7, <1>8

\* y after some regions of the display d have got other windows.
OnlyAt(x, y, d) == \A e \in Display : e # d => x.disp[e] = y.disp[e]

\* The first k regions of d have been seen to, and one of them may be in focus.
Once(x, y, d, k) ==
  /\ x.disp[d].focus = y.disp[d].focus /\ Touched(x.tab, y.tab)
  /\ k < y.disp[d].focus => x.tab = y.tab

LEMMA NoneLeft ==
  ASSUME NEW s, Sound(s), NEW w \in Lives(s), NEW d \in ToSet(s.displays), NEW y, Going(y, s, w),
         NEW r, r = ReplaceEach(y, d, w)
  PROVE  /\ Apart(r, s) /\ OnlyAt(r, y, d)
         /\ Haunted(r, s) \/ (Dying(r, s, w) /\ ~Shows(r, d, w))
         /\ Haunted(y, s) => Haunted(r, s)
         /\ Touched(r.tab, y.tab)
<1> DEFINE N == Len(y.disp[d].cvs)
           P(k, x) == /\ Apart(x, s) /\ OnlyAt(x, y, d) /\ Len(x.disp[d].cvs) = N /\ Partly(x, s, w, d, k)
                      /\ Haunted(y, s) => Haunted(x, s)
                      /\ Once(x, y, d, k)
<1>1. d \in Display /\ y \in States
  BY SoundFacts DEF Going, Apart
<1>2. ASSUME NEW x \in States PROVE x.disp[d].cvs \in Seq(Win \cup {NULL}) /\ Len(x.disp[d].cvs) \in Nat
  <2>1. x.disp \in [Display -> Disps]
    BY <1>2, StateFields
  <2>2. x.disp[d].cvs \in Seq(Win \cup {NULL})
    BY <1>1, <2>1 DEF Disps
  <2> QED BY <2>2
<1>3. PICK h : /\ h[0] = y /\ h[N] = r
               /\ \A k \in 1..N : h[k] = Replace(h[k - 1], d, k, w)
  <2>1. N = Len(y.disp[d].cvs)
    OBVIOUS
  <2> HIDE DEF N
  <2> QED BY ONLY <1>1, <2>1, r = ReplaceEach(y, d, w), ReplaceSteps
<1>4. N \in Nat
  BY <1>1, <1>2
<1>0. y.disp[d].focus \in Nat
  <2>1. y.disp \in [Display -> Disps]
    BY <1>1, StateFields
  <2> QED BY <1>1, <2>1 DEF Disps
<1>5. P(0, h[0])
  <2>1. Partly(y, s, w, d, 0)
    BY DEF Going, Partly
  <2> QED BY <1>3, <2>1 DEF Going, OnlyAt, Once, Touched
<1>6. ASSUME NEW k \in 0..(N - 1), P(k, h[k]) PROVE P(k + 1, h[k + 1])
  <2> DEFINE x == h[k]
             z == h[k + 1]
             q == x.disp[d].cvs
             p == z.disp[d].cvs
  <2>1. k + 1 \in 1..N /\ (k + 1) - 1 = k /\ k \in Int
    BY <1>4
  <2>2. z = Replace(x, d, k + 1, w)
    BY <1>3, <2>1
  <2>3. P(k, x) /\ x \in States /\ Going(x, s, w)
    BY <1>6 DEF Apart, Going, Partly
  <2>4. q \in Seq(Win \cup {NULL}) /\ Len(q) = N /\ DOMAIN q = 1..N
    BY <1>2, <2>3
  <2> HIDE DEF x, z
  <2>5. CASE q[k + 1] # w
    <3>1. z = x
      BY <2>2, <2>5 DEF Replace
    <3>2. Partly(x, s, w, d, k + 1)
      <4>1. \A j \in 1..(k + 1) : j \in 1..k \/ j = k + 1
        BY <2>1
      <4> QED BY <2>3, <2>5, <4>1 DEF Partly
    <3>3. Once(x, y, d, k + 1)
      <4>1. k + 1 < y.disp[d].focus => k < y.disp[d].focus
        BY <1>0, <2>1
      <4> QED BY <2>3, <4>1 DEF Once
    <3> QED BY <2>3, <3>1, <3>2, <3>3 DEF z
  <2>6. CASE q[k + 1] = w
    <3>1. k + 1 \in DOMAIN x.disp[d].cvs /\ x.disp[d].cvs[k + 1] = w
      BY <2>1, <2>4, <2>6
    <3>2. /\ Apart(z, s) /\ (Haunted(z, s) \/ Dying(z, s, w))
          /\ \E v \in Win \cup {NULL} : Replaced(z, x, d, k + 1, v) /\ (Haunted(z, s) \/ v # w)
          /\ UsedAt(z, x, d, k + 1)
      BY <2>2, <2>3, <3>1, ReplaceOne
    <3>3. PICK v \in Win \cup {NULL} : Replaced(z, x, d, k + 1, v) /\ (Haunted(z, s) \/ v # w)
      BY <3>2
    <3>4. p = [q EXCEPT ![k + 1] = v]
      BY <3>3 DEF Replaced
    <3> HIDE DEF q, p
    <3>5. Len(p) = Len(q) /\ \A j \in DOMAIN q : p[j] = IF j = k + 1 THEN v ELSE q[j]
      BY <2>4, <3>4, ExceptIs
    <3>6. OnlyAt(z, y, d)
      BY <2>3, <3>3 DEF OnlyAt, Replaced
    <3>7. Haunted(x, s) => Haunted(z, s)
      BY <2>3, <3>1, <3>3, ReplaceHaunted
    <3>8. Partly(z, s, w, d, k + 1)
      <4>1. CASE Haunted(z, s)
        BY <4>1 DEF Partly
      <4>2. CASE ~Haunted(z, s)
        <5>1. Dying(z, s, w) /\ v # w
          BY <3>2, <3>3, <4>2
        <5>2. ~Haunted(x, s)
          BY <3>7, <4>2
        <5>3. \A j \in 1..k : q[j] # w
          BY <2>3, <5>2 DEF Partly, q
        <5>4. ASSUME NEW j \in 1..(k + 1) PROVE p[j] # w
          <6>1. (j \in 1..k \/ j = k + 1) /\ j \in 1..N
            BY <1>4, <2>1
          <6> QED BY <2>4, <3>5, <5>1, <5>3, <6>1
        <5> QED BY <5>1, <5>4 DEF Partly, p
      <4> QED BY <4>1, <4>2
    <3>9. Once(z, y, d, k + 1)
      <4>1. z.disp[d].focus = x.disp[d].focus
        BY <3>3 DEF Replaced
      <4>2. k + 1 < y.disp[d].focus => k < y.disp[d].focus /\ k + 1 # y.disp[d].focus
        BY <1>0, <2>1
      <4>3. k + 1 = y.disp[d].focus => k < y.disp[d].focus
        BY <1>0, <2>1
      <4> QED BY <2>3, <3>2, <4>1, <4>2, <4>3 DEF Once, UsedAt
    <3> QED BY <2>3, <2>4, <3>2, <3>5, <3>6, <3>8, <3>7, <3>9 DEF z, p
  <2> QED BY <2>5, <2>6
<1> DEFINE M == {k \in 0..N : P(k, h[k])}
<1>7. M = 0..N
  <2> HIDE DEF P
  <2>1. M \in SUBSET (0..N) /\ 0 \in M
    BY <1>4, <1>5
  <2>2. ASSUME NEW k \in 0..(N - 1), k \in M PROVE k + 1 \in M
    <3>1. k + 1 \in 0..N
      BY <1>4
    <3> QED BY <1>6, <2>2, <3>1
  <2> HIDE DEF M, N
  <2> QED BY <1>4, <2>1, <2>2, UpTo
<1>8. P(N, r)
  <2> HIDE DEF P
  <2>1. N \in M
    BY <1>4, <1>7
  <2> QED BY <1>3, <2>1
<1>9. r \in States
  BY <1>8 DEF Apart
<1>10. DOMAIN r.disp[d].cvs = 1..N
  BY <1>2, <1>8, <1>9
<1> QED BY <1>8, <1>10 DEF Partly, Shows, ToSet, Once


LEMMA ActiveIs ==
  ASSUME NEW y \in States, NEW d \in Display, NEW r, r = Activate(y, d)
  PROVE  /\ r \in States /\ r.tab = y.tab /\ r.disp = y.disp /\ r.fore = y.disp[d].fore
         /\ r.kind = y.kind /\ r.group = y.group /\ r.displays = y.displays /\ r.lay = y.lay
         /\ r.layouts = y.layouts /\ r.memory = y.memory /\ r.ghosts = y.ghosts
<1> DEFINE f == y.disp[d].fore
<1>1. y.tab \in Tabs /\ y.disp \in [Display -> Disps]
  BY StateFields
<1>2. f \in Win \cup {NULL}
  BY <1>1 DEF Disps
<1>3. r = [y EXCEPT !.fore = f]
  BY DEF Activate
<1> HIDE DEF f
<1>4. r = With3(y, y.tab, y.disp, f)
  BY ONLY <1>3, y \in States DEF States, With3
<1>5. /\ r \in States /\ r.tab = y.tab /\ r.disp = y.disp /\ r.fore = f
      /\ r.kind = y.kind /\ r.group = y.group /\ r.displays = y.displays /\ r.lay = y.lay
      /\ r.layouts = y.layouts /\ r.memory = y.memory /\ r.ghosts = y.ghosts
  BY ONLY <1>1, <1>2, <1>4, y \in States, With3Is
<1> QED BY <1>5 DEF f

LEMMA SwitchAwayIs ==
  ASSUME NEW s, Sound(s), NEW w \in Lives(s), NEW d \in ToSet(s.displays), NEW y, Going(y, s, w),
         NEW r, r = SwitchAway(y, d, w)
  PROVE  /\ Apart(r, s) /\ OnlyAt(r, y, d)
         /\ Haunted(r, s) \/ (Dying(r, s, w) /\ ~Shows(r, d, w))
         /\ Haunted(y, s) => Haunted(r, s)
         /\ Touched(r.tab, y.tab)
<1>1. d \in Display /\ d # NULL
  BY SoundFacts
<1>2. CASE ~Shows(y, d, w)
  <2>1. r = y
    BY <1>2 DEF SwitchAway
  <2> QED BY <1>2, <2>1 DEF Going, OnlyAt, Touched
<1>3. CASE Shows(y, d, w)
  <2> DEFINE x == ReplaceEach(y, d, w)
  <2>1. r = Activate(x, d)
    BY <1>3 DEF SwitchAway
  <2>2. /\ Apart(x, s) /\ OnlyAt(x, y, d)
        /\ Haunted(x, s) \/ (Dying(x, s, w) /\ ~Shows(x, d, w))
        /\ Haunted(y, s) => Haunted(x, s)
        /\ Touched(x.tab, y.tab)
    BY NoneLeft
  <2> HIDE DEF x
  <2>3. x \in States
    BY <2>2 DEF Apart
  <2>4. /\ r \in States /\ r.tab = x.tab /\ r.disp = x.disp /\ r.fore = x.disp[d].fore
        /\ r.kind = x.kind /\ r.group = x.group /\ r.displays = x.displays /\ r.lay = x.lay
        /\ r.layouts = x.layouts /\ r.memory = x.memory /\ r.ghosts = x.ghosts
    BY <1>1, <2>1, <2>3, ActiveIs
  <2>5. Apart(r, s) /\ OnlyAt(r, y, d)
    BY <2>2, <2>4 DEF Apart, Only, OnlyAt
  <2>6. (Haunted(x, s) => Haunted(r, s)) /\ (~Shows(x, d, w) => ~Shows(r, d, w))
    BY <2>4 DEF Haunted, Shows
  <2>7. Dying(x, s, w) => Dying(r, s, w)
    <3> SUFFICES ASSUME Dying(x, s, w) PROVE Dying(r, s, w)
      OBVIOUS
    <3> DEFINE L == Lives(s) \ {w}
               V == Lives(s)
               O == Lives(s) \cup s.ghosts
    <3>1. Fine(x, L, V, O)
      BY DEF Dying
    <3> HIDE DEF L, V, O
    <3>2. Fine(r, L, V, O)
      BY <1>1, <2>4, <3>1 DEF Fine, Sees
    <3>3. Arranged(r)
      BY <2>4 DEF Dying, Arranged
    <3>4. \A e \in ToSet(s.displays) : Lit(r.disp[e])
      BY <2>4 DEF Dying
    <3> QED BY <3>2, <3>3, <3>4 DEF Dying, L, V, O
  <2> QED BY <2>2, <2>4, <2>5, <2>6, <2>7
<1> QED BY <1>2, <1>3

LEMMA SwitchAwayType ==
  ASSUME NEW y \in States, NEW d \in Display, NEW w
  PROVE  SwitchAway(y, d, w) \in States
<1> DEFINE N == Len(y.disp[d].cvs)
           r == ReplaceEach(y, d, w)
<1>1. N \in Nat
  <2>1. y.disp \in [Display -> Disps]
    BY StateFields
  <2> QED BY <2>1 DEF Disps
<1>2. N = Len(y.disp[d].cvs) /\ r = ReplaceEach(y, d, w)
  OBVIOUS
<1>3. SwitchAway(y, d, w) = IF Shows(y, d, w) THEN Activate(r, d) ELSE y
  BY DEF SwitchAway
<1> HIDE DEF N, r
<1>4. PICK h : /\ h[0] = y /\ h[N] = r
               /\ \A k \in 1..N : h[k] = Replace(h[k - 1], d, k, w)
  BY ONLY <1>2, y \in States, d \in Display, ReplaceSteps
<1>5. h[0] \in States /\ \A k \in 1..N : h[k - 1] \in States => h[k] \in States
  BY <1>4, ReplaceType
<1>6. \A k \in 0..N : h[k] \in States
  BY ONLY <1>1, <1>5, Kept
<1>7. r \in States
  BY <1>1, <1>4, <1>6
<1>8. Activate(r, d) \in States
  BY <1>7, ActiveIs
<1> QED BY <1>3, <1>8

LEMMA LeaveSteps ==
  ASSUME NEW s \in States, NEW w, NEW r, r = LeaveDisplays(s, w), NEW q, q = s.displays
  PROVE  \E h : /\ h[0] = s /\ h[Len(q)] = r
                /\ \A k \in 1..Len(q) : h[k] = SwitchAway(h[k - 1], q[k], w)
<1> DEFINE N == Len(q)
           F == [k \in 1..N |-> [x \in States |-> SwitchAway(x, q[k], w)]]
           f == CHOOSE f : f = [k \in 0..N |-> IF k = 0 THEN s ELSE SwitchAway(f[k - 1], q[k], w)]
<1>1. N \in Nat /\ \A k \in 1..N : q[k] \in Display
  <2>1. q \in Seq(Display)
    BY StateFields
  <2> QED BY <2>1
<1>7. r = f[N]
  BY DEF LeaveDisplays
<1> HIDE DEF N
<1>2. ASSUME NEW k \in 1..N, NEW x \in States PROVE SwitchAway(x, q[k], w) \in States
  BY <1>1, SwitchAwayType
<1>3. PICK g : Iterates(g, N, States, s, F)
  <2>1. F \in [1..N -> [States -> States]]
    BY <1>2
  <2>2. s \in States
    OBVIOUS
  <2> HIDE DEF F
  <2> QED BY ONLY <1>1, <2>1, <2>2, Iterated
<1>4. g \in [0..N -> States] /\ g[0] = s /\ \A k \in 1..N : g[k] = F[k][g[k - 1]]
  <2> HIDE DEF F
  <2> QED BY <1>3 DEF Iterates
<1>5. g = [k \in 0..N |-> IF k = 0 THEN s ELSE SwitchAway(g[k - 1], q[k], w)]
  <2>1. ASSUME NEW k \in 0..N PROVE g[k] = IF k = 0 THEN s ELSE SwitchAway(g[k - 1], q[k], w)
    <3>1. k # 0 => k \in 1..N /\ k - 1 \in 0..N
      BY <1>1
    <3>2. \A m \in 1..N, x \in States : F[m][x] = SwitchAway(x, q[m], w)
      OBVIOUS
    <3> HIDE DEF F
    <3> QED BY <1>4, <3>1, <3>2
  <2> QED BY <1>4, <2>1
<1>6. f = [k \in 0..N |-> IF k = 0 THEN s ELSE SwitchAway(f[k - 1], q[k], w)]
  BY <1>5
<1> HIDE DEF f
<1>8. f[0] = s /\ \A k \in 1..N : f[k] = SwitchAway(f[k - 1], q[k], w)
  <2>1. 0 \in 0..N /\ \A k \in 1..N : k \in 0..N /\ k # 0
    BY <1>1
  <2> QED BY <1>6, <2>1
<1> QED BY <1>7, <1>8 DEF N

\* The first k displays show no w.
Away(y, s, w, k) ==
  Haunted(y, s) \/ (Dying(y, s, w) /\ \A j \in 1..k : ~Shows(y, s.displays[j], w))

LEMMA LeaveAll ==
  ASSUME NEW s, Sound(s), NEW w \in Lives(s), NEW y, Going(y, s, w), NEW r, r = LeaveDisplays(y, w)
  PROVE  /\ Apart(r, s)
         /\ \/ Haunted(r, s)
            \/ /\ Dying(r, s, w) /\ \A d \in Display : ~Shows(r, d, w)
               /\ Uses(r.tab, y.tab, Lives(s) \ {w}, Cardinality(Display))
<1> DEFINE q == s.displays
           N == Len(q)
           M == Lives(s) \ {w}
           P(k, x) == Apart(x, s) /\ Away(x, s, w, k) /\ (Haunted(x, s) \/ Uses(x.tab, y.tab, M, k))
<1>1. /\ q \in Seq(Display) /\ N \in Nat /\ DOMAIN q = 1..N /\ Distinct(q)
      /\ \A k \in 1..N : q[k] \in Display /\ q[k] \in ToSet(s.displays)
  <2>1. s \in States /\ Distinct(q)
    BY DEF Sound, Whole, Fine, Arranged
  <2>2. q \in Seq(Display)
    BY <2>1, StateFields
  <2> HIDE DEF q
  <2> QED BY <2>1, <2>2 DEF ToSet, q
<1>2. y \in States /\ q = y.displays
  BY DEF Going, Apart, Only
<1>3. PICK h : /\ h[0] = y /\ h[N] = r
               /\ \A k \in 1..N : h[k] = SwitchAway(h[k - 1], q[k], w)
  <2> HIDE DEF q
  <2> QED BY ONLY <1>2, r = LeaveDisplays(y, w), LeaveSteps DEF N
<1>0. \A x : Dying(x, s, w) => Good(x.tab, M)
  BY DEF Dying, Fine
<1> HIDE DEF M
<1>4. P(0, h[0])
  <2>1. Dying(y, s, w) => Uses(y.tab, y.tab, M, 0)
    BY <1>0, UsesNone
  <2> QED BY <1>3, <2>1 DEF Going, Away
<1>5. ASSUME NEW k \in 0..(N - 1), P(k, h[k]) PROVE P(k + 1, h[k + 1])
  <2> DEFINE x == h[k]
             z == h[k + 1]
             d == q[k + 1]
  <2>1. k + 1 \in 1..N /\ (k + 1) - 1 = k /\ k \in Int
    BY <1>1
  <2>2. z = SwitchAway(x, d, w) /\ d \in ToSet(s.displays) /\ d \in Display
    BY <1>1, <1>3, <2>1
  <2>3. P(k, x) /\ Going(x, s, w)
    BY <1>5 DEF Going, Away
  <2>4. /\ Apart(z, s) /\ OnlyAt(z, x, d)
        /\ Haunted(z, s) \/ (Dying(z, s, w) /\ ~Shows(z, d, w))
        /\ Haunted(x, s) => Haunted(z, s)
        /\ Touched(z.tab, x.tab)
    <3> HIDE DEF x, z, d
    <3> QED BY <2>2, <2>3, SwitchAwayIs
  <2>5. ASSUME ~Haunted(z, s), NEW j \in 1..(k + 1) PROVE ~Shows(z, q[j], w)
    <3>1. CASE j = k + 1
      BY <2>4, <2>5, <3>1
    <3>2. CASE j # k + 1
      <4>1. j \in 1..k /\ j \in 1..N /\ j # k + 1 /\ k + 1 \in 1..N
        BY <1>1, <2>1, <3>2
      <4>2. ~Shows(x, q[j], w)
        BY <2>3, <2>4, <2>5, <4>1 DEF Away
      <4>3. q[j] # d /\ q[j] \in Display
        BY <1>1, <4>1 DEF Distinct
      <4>4. z.disp[q[j]] = x.disp[q[j]]
        BY <2>4, <4>3 DEF OnlyAt
      <4> QED BY <4>2, <4>4 DEF Shows
    <3> QED BY <3>1, <3>2
  <2>6. ASSUME ~Haunted(z, s) PROVE Uses(z.tab, y.tab, M, k + 1)
    <3>1. Uses(x.tab, y.tab, M, k) /\ Dying(z, s, w)
      BY <2>3, <2>4, <2>6
    <3>2. Good(x.tab, M) /\ Good(z.tab, M)
      BY <1>0, <3>1 DEF Uses
    <3> HIDE DEF x, z
    <3>3. Uses(z.tab, x.tab, M, 1)
      BY <2>4, <3>2, UsesOne
    <3>4. k \in Nat /\ 1 \in Nat
      BY <1>1
    <3> QED BY <3>1, <3>3, <3>4, UsesTwice
  <2> QED BY <2>4, <2>5, <2>6 DEF Away
<1> DEFINE K == {k \in 0..N : P(k, h[k])}
<1>7. K = 0..N
  <2> HIDE DEF P
  <2>1. K \in SUBSET (0..N) /\ 0 \in K
    BY <1>1, <1>4
  <2>2. ASSUME NEW k \in 0..(N - 1), k \in K PROVE k + 1 \in K
    <3>1. k + 1 \in 0..N
      BY <1>1
    <3> QED BY <1>5, <2>2, <3>1
  <2> HIDE DEF K, N
  <2> QED BY <1>1, <2>1, <2>2, UpTo
<1>8. P(N, r)
  <2> HIDE DEF P
  <2>1. N \in K
    BY <1>1, <1>7
  <2> QED BY <1>3, <2>1
<1>9. ASSUME Dying(r, s, w), \A j \in 1..N : ~Shows(r, q[j], w), NEW d \in Display PROVE ~Shows(r, d, w)
  <2>1. CASE d \in ToSet(q)
    BY <1>1, <1>9, <2>1 DEF ToSet
  <2>2. CASE d \notin ToSet(q)
    <3>1. r.disp[d] = Blank
      BY <1>8, <1>9, <2>2 DEF Dying, Arranged, Apart, Only
    <3> QED BY <3>1 DEF Blank, Shows, ToSet
  <2> QED BY <2>1, <2>2
<1>10. Uses(r.tab, y.tab, M, N) => Uses(r.tab, y.tab, M, Cardinality(Display))
  <2>1. Cardinality(Display) \in Nat /\ N <= Cardinality(Display)
    <3> HIDE DEF q
    <3> QED BY <1>1, SizeBound
  <2> HIDE DEF N
  <2> QED BY <1>1, <2>1, UsesMore
<1> QED BY <1>8, <1>9, <1>10 DEF Away, M

LEMMA StartDying ==
  ASSUME NEW s, Sound(s), NEW w \in Lives(s), ByUse(UnlinkUse(s.tab, w)) # <<>>,
         NEW y, y = [s EXCEPT !.tab = Killed(UnlinkUse(@, w), w)]
  PROVE  Going(y, s, w) /\ Drops(y.tab, s.tab, w) /\ y.tab.number = s.tab.number
<1> DEFINE t == Killed(UnlinkUse(s.tab, w), w)
           L == Lives(s)
           O == Lives(s) \cup s.ghosts
<1>1. s \in States /\ Good(s.tab, L)
  BY SoundFacts
<1>2. y = [s EXCEPT !.tab = t]
  OBVIOUS
<1>3. /\ Good(t, L \ {w}) /\ t.prevmru[w] \in (L \ {w}) \cup {NULL}
      /\ Drops(t, s.tab, w) /\ t.number = s.tab.number
  BY <1>1, KilledIs
<1> HIDE DEF t
<1>4. y = With3(s, t, s.disp, s.fore)
  BY ONLY <1>1, <1>2 DEF States, With3
<1>5. t \in Tabs /\ s.disp \in [Display -> Disps] /\ s.fore \in Win \cup {NULL}
  BY <1>1, <1>3, StateFields DEF Good
<1>6. /\ y \in States /\ y.tab = t /\ y.disp = s.disp /\ y.fore = s.fore
      /\ y.kind = s.kind /\ y.group = s.group /\ y.displays = s.displays /\ y.lay = s.lay
      /\ y.layouts = s.layouts /\ y.memory = s.memory /\ y.ghosts = s.ghosts
  BY ONLY <1>1, <1>4, <1>5, With3Is
<1>7. Apart(y, s)
  BY <1>6 DEF Apart, Only
<1>8. Fine(s, L, L, O) /\ Arranged(s) /\ \A e \in ToSet(s.displays) : Lit(s.disp[e])
  BY DEF Sound, Whole
<1> HIDE DEF L, O
<1>9. \A v \in L : t.prevmru[v] \in (L \ {w}) \cup {NULL}
  <2>1. \A v \in L \ {w} : t.prevmru[v] \in (L \ {w}) \cup {NULL}
    BY <1>3, GoodLists
  <2> QED BY <1>3, <2>1
<1>10. Fine(y, L \ {w}, L, O)
  BY <1>3, <1>6, <1>8, <1>9 DEF Fine
<1>11. Arranged(y)
  BY <1>6, <1>8 DEF Arranged
<1>12. Dying(y, s, w)
  BY <1>6, <1>8, <1>10, <1>11 DEF Dying, L, O
<1> QED BY <1>3, <1>6, <1>7, <1>12 DEF Going

\* The windows of a layout without w.
LEMMA SweptIs ==
  ASSUME NEW c \in Seq(Win \cup {NULL}), NEW w \in Win, NEW V, ToSet(c) \subseteq V \cup {NULL},
         NEW r, r = Swept(c, w)
  PROVE  /\ r \in Seq(Win \cup {NULL}) /\ DOMAIN r = DOMAIN c /\ ToSet(r) \subseteq (V \ {w}) \cup {NULL}
         /\ c = <<>> => r = <<>>
<1>1. Len(c) \in Nat /\ DOMAIN c = 1..Len(c) /\ \A i \in DOMAIN c : c[i] \in Win \cup {NULL}
  OBVIOUS
<1>2. DOMAIN r = DOMAIN c /\ \A i \in DOMAIN c : r[i] = IF c[i] = w THEN NULL ELSE c[i]
  BY DEF Swept
<1>3. r \in [1..Len(c) -> Win \cup {NULL}]
  BY <1>1 DEF Swept
<1>4. r \in Seq(Win \cup {NULL})
  BY <1>1, <1>3
<1>5. ToSet(r) \subseteq (V \ {w}) \cup {NULL}
  BY <1>1, <1>2 DEF ToSet
<1>6. ASSUME c = <<>> PROVE r = <<>>
  BY <1>2, <1>4, <1>6
<1> QED BY <1>2, <1>4, <1>5, <1>6

LEMMA SweepIs ==
  ASSUME NEW y \in States, NEW w \in Win, NEW V, \A l \in Layout : ToSet(y.lay[l].cvs) \subseteq V \cup {NULL},
         NEW r, r = UpdateLayoutCanvas(y, w)
  PROVE  /\ r \in States /\ r.tab = y.tab /\ r.kind = y.kind /\ r.group = y.group /\ r.disp = y.disp
         /\ r.displays = y.displays /\ r.fore = y.fore /\ r.layouts = y.layouts
         /\ r.memory = y.memory /\ r.ghosts = y.ghosts
         /\ Arranged(y) => Arranged(r)
         /\ \A l \in Layout : ToSet(r.lay[l].cvs) \subseteq (V \ {w}) \cup {NULL}
<1> DEFINE ly == [l \in Layout |-> [y.lay[l] EXCEPT !.cvs = Swept(y.lay[l].cvs, w)]]
<1>1. y \in States /\ \A l \in Layout : ToSet(y.lay[l].cvs) \subseteq V \cup {NULL}
  OBVIOUS
<1>2. /\ y.tab \in Tabs /\ y.kind \in [Win -> {"free", "pty", "zombie", "group"}]
      /\ y.group \in [Win -> Win \cup {NULL}] /\ y.disp \in [Display -> Disps]
      /\ y.displays \in Seq(Display) /\ y.fore \in Win \cup {NULL} /\ y.lay \in [Layout -> Lays]
      /\ y.layouts \in Seq(Layout) /\ y.memory \in Memories /\ y.ghosts \in SUBSET Win
  BY <1>1, StateFields
<1>3. r = [y EXCEPT !.lay = ly]
  BY DEF UpdateLayoutCanvas
<1>4. ASSUME NEW l \in Layout
      PROVE  /\ ly[l] \in Lays /\ ly[l].focus = y.lay[l].focus /\ DOMAIN ly[l].cvs = DOMAIN y.lay[l].cvs
             /\ ToSet(ly[l].cvs) \subseteq (V \ {w}) \cup {NULL}
             /\ y.lay[l] = NoLayout => ly[l] = NoLayout
  <2> DEFINE a == y.lay[l]
             c == Swept(a.cvs, w)
             b == [a EXCEPT !.cvs = c]
  <2>0. c = Swept(a.cvs, w)
    OBVIOUS
  <2>1. a \in Lays /\ a.cvs \in Seq(Win \cup {NULL}) /\ ToSet(a.cvs) \subseteq V \cup {NULL}
    BY <1>1, <1>2 DEF Lays
  <2>2. ly[l] = b
    OBVIOUS
  <2> HIDE DEF a, c
  <2>3. /\ c \in Seq(Win \cup {NULL}) /\ DOMAIN c = DOMAIN a.cvs /\ ToSet(c) \subseteq (V \ {w}) \cup {NULL}
        /\ a.cvs = <<>> => c = <<>>
    BY ONLY <2>0, <2>1, w \in Win, SweptIs
  <2>4. b \in Lays /\ b.focus = a.focus /\ b.cvs = c
    BY <2>1, <2>3 DEF Lays
  <2>5. a = NoLayout => b = NoLayout
    BY <2>3 DEF NoLayout
  <2> QED BY <2>2, <2>3, <2>4, <2>5 DEF a
<1>5. ly \in [Layout -> Lays]
  BY <1>4
<1> HIDE DEF ly
<1>6. r = Rec(y.tab, y.kind, y.group, y.disp, y.displays, y.fore, ly, y.layouts, y.memory, y.ghosts)
  BY ONLY <1>1, <1>3 DEF States, Rec
<1>7. /\ r \in States /\ r.tab = y.tab /\ r.kind = y.kind /\ r.group = y.group /\ r.disp = y.disp
      /\ r.displays = y.displays /\ r.fore = y.fore /\ r.lay = ly /\ r.layouts = y.layouts
      /\ r.memory = y.memory /\ r.ghosts = y.ghosts
  BY ONLY <1>2, <1>5, <1>6 DEF States, Rec
<1>8. Arranged(y) => Arranged(r)
  BY <1>4, <1>7 DEF Arranged
<1> QED BY <1>4, <1>7, <1>8

\* r holds the windows of S as t does: in the same order of use, by the same numbers.
Holds(r, t, S) ==
  Good(r, S) /\ ByUse(r) = ByUse(t) /\ \A v \in S : r.number[v] = t.number[v]

LEMMA ClearedGood ==
  ASSUME NEW t, NEW S, Good(t, S), NEW w \in Win \ S, NEW r, r = [Cleared(t, w) EXCEPT !.number[w] = 0]
  PROVE  Holds(r, t, S)
<1> DEFINE c == Cleared(t, w)
<1>1. PICK q, u : Numbered(t, q) /\ Recent(t, u) /\ Rising(t, q) /\ ToSet(q) = S /\ ToSet(u) = S
  BY DEF Good
<1>2. t \in Tabs /\ c \in Tabs /\ Numbered(c, q) /\ Recent(c, u) /\ c.number = t.number
  <2>1. t \in Tabs
    BY DEF Good
  <2> QED BY <1>1, <2>1, ClearedIs
<1>3. r = [c EXCEPT !.number[w] = 0]
  OBVIOUS
<1> HIDE DEF c
<1>4. Rising(c, q)
  BY <1>1, <1>2 DEF Rising
<1>5. Good(c, S)
  BY <1>1, <1>2, <1>4 DEF Good
<1>6. c.number \in [Win -> Int]
  BY <1>2 DEF Tabs
<1>7. /\ r \in Tabs /\ r.number = [c.number EXCEPT ![w] = 0] /\ r.mru = c.mru /\ r.prevmru = c.prevmru
      /\ r.first = c.first /\ r.last = c.last /\ r.next = c.next /\ r.prev = c.prev
  BY ONLY <1>2, <1>3, <1>6, w \in Win \ S DEF Tabs
<1>8. \A v \in S : r.number[v] = c.number[v]
  <2>1. S \subseteq Win
    BY <1>5, GoodLists
  <2> QED BY <1>6, <1>7, <2>1
<1>9. Same(r, c, S)
  BY <1>7, <1>8 DEF Same
<1>10. Good(r, S)
  BY <1>5, <1>7, <1>9, OffList
<1>11. ByUse(r) = ByUse(t)
  <2>1. Recent(r, u)
    BY <1>2, <1>7 DEF Recent
  <2> QED BY <1>1, <2>1, RecentChain
<1> QED BY <1>2, <1>8, <1>10, <1>11 DEF Holds

LEMMA ForgetIs ==
  ASSUME NEW y \in States, NEW d \in Display, NEW w, NEW c, c = y.disp[d], NEW r, r = Forget(y, d, w)
  PROVE  /\ r = View(c.cvs, c.focus, IF c.fore = w THEN NULL ELSE c.fore,
                     IF c.other = w THEN OtherThen(y, d, w) ELSE c.other, c.layout)
         /\ c \in Disps
<1> DEFINE o == IF c.other = w THEN OtherThen(y, d, w) ELSE c.other
           f == IF c.fore = w THEN NULL ELSE c.fore
<1>1. c \in Disps
  BY StateFields
<1>2. r = [c EXCEPT !.other = o, !.fore = f]
  BY DEF Forget
<1> HIDE DEF o, f
<1>3. r = View(c.cvs, c.focus, f, o, c.layout)
  BY ONLY <1>1, <1>2, ViewTwo
<1> QED BY <1>1, <1>3 DEF o, f

\* The groups that are left, once w is freed.
Ungrouped(y, w) == [Orphaned(y, w) EXCEPT ![w] = NULL]

\* The windows of a freed group.
Fathered(y, L, w) == \A v \in L : y.group[v] = w => y.kind[w] = "group"

LEMMA OrphansAre ==
  ASSUME NEW y \in States, NEW w \in Win, NEW L, Good(y.tab, L),
         NEW g, g = Ungrouped(y, w),
         Fathered(y, L, w)
  PROVE  /\ g \in [Win -> Win \cup {NULL}]
         /\ \A v \in L \ {w} : g[v] = IF y.group[v] = w THEN y.group[w] ELSE y.group[v]
<1> DEFINE p == Orphaned(y, w)
<1>1. y.group \in [Win -> Win \cup {NULL}] /\ L \subseteq Win /\ ToSet(ByUse(y.tab)) = L
  BY StateFields, GoodLists
<1>2. p \in [Win -> Win \cup {NULL}]
  <2>1. CASE y.kind[w] # "group"
    BY <1>1, <2>1 DEF Orphaned
  <2>2. CASE y.kind[w] = "group"
    <3>1. p = [v \in Win |-> IF y.group[v] = w /\ v \in L THEN y.group[w] ELSE y.group[v]]
      BY <1>1, <2>2 DEF Orphaned
    <3> HIDE DEF p
    <3> QED BY <1>1, <3>1
  <2> QED BY <2>1, <2>2
<1>3. ASSUME NEW v \in L PROVE p[v] = IF y.group[v] = w THEN y.group[w] ELSE y.group[v]
  <2>1. CASE y.kind[w] # "group"
    BY <2>1 DEF Orphaned, Fathered
  <2>2. CASE y.kind[w] = "group"
    <3>1. p = [u \in Win |-> IF y.group[u] = w /\ u \in L THEN y.group[w] ELSE y.group[u]]
      BY <1>1, <2>2 DEF Orphaned
    <3> HIDE DEF p
    <3> QED BY <1>1, <3>1
  <2> QED BY <2>1, <2>2
<1> HIDE DEF p
<1>4. g = [p EXCEPT ![w] = NULL]
  BY DEF p, Ungrouped
<1> QED BY <1>1, <1>2, <1>3, <1>4

\* What FreeWindow makes of y.
Freed(y, w) ==
  Rec([Cleared(y.tab, w) EXCEPT !.number[w] = 0], [y.kind EXCEPT ![w] = "free"],
      [Orphaned(y, w) EXCEPT ![w] = NULL], [d \in Display |-> Forget(y, d, w)], y.displays, y.fore,
      y.lay, y.layouts, y.memory, IF y.fore = w THEN y.ghosts \cup {w} ELSE y.ghosts)

LEMMA FreedIs ==
  ASSUME NEW y \in States, NEW w
  PROVE  FreeWindow(y, w) = Freed(y, w)
<1> DEFINE g == [Orphaned(y, w) EXCEPT ![w] = NULL]
           D == [d \in Display |-> Forget(y, d, w)]
           t == [Cleared(y.tab, w) EXCEPT !.number[w] = 0]
           k == [y.kind EXCEPT ![w] = "free"]
           h == IF y.fore = w THEN y.ghosts \cup {w} ELSE y.ghosts
           y1 == [y EXCEPT !.group = g]
           y2 == [y1 EXCEPT !.disp = D]
           y3 == [y2 EXCEPT !.kind[w] = "free"]
           y4 == [y3 EXCEPT !.tab = t]
           y5 == [y4 EXCEPT !.ghosts = h]
<1>1. FreeWindow(y, w) = [y EXCEPT !.group = g, !.disp = D, !.kind[w] = "free", !.tab = t, !.ghosts = h]
  BY DEF FreeWindow
<1>2. Freed(y, w) = Rec(t, k, g, D, y.displays, y.fore, y.lay, y.layouts, y.memory, h)
  BY DEF Freed
<1> HIDE DEF g, D, t, h
<1>3. [y EXCEPT !.group = g, !.disp = D, !.kind[w] = "free", !.tab = t, !.ghosts = h] = y5
  OBVIOUS
<1>4. y = Rec(y.tab, y.kind, y.group, y.disp, y.displays, y.fore, y.lay, y.layouts, y.memory, y.ghosts)
  BY StateFields
<1>a. y1 = [y EXCEPT !.group = g]
  OBVIOUS
<1>b. y2 = [y1 EXCEPT !.disp = D]
  OBVIOUS
<1>c. y3 = [y2 EXCEPT !.kind[w] = "free"]
  OBVIOUS
<1>d. y4 = [y3 EXCEPT !.tab = t]
  OBVIOUS
<1>e. y5 = [y4 EXCEPT !.ghosts = h]
  OBVIOUS
<1>k. k = [y.kind EXCEPT ![w] = "free"]
  OBVIOUS
<1> HIDE DEF y1, y2, y3, y4, y5, k
<1>5. y1 = Rec(y.tab, y.kind, g, y.disp, y.displays, y.fore, y.lay, y.layouts, y.memory, y.ghosts)
  BY ONLY <1>4, <1>a DEF Rec
<1>6. y2 = Rec(y.tab, y.kind, g, D, y.displays, y.fore, y.lay, y.layouts, y.memory, y.ghosts)
  BY ONLY <1>5, <1>b DEF Rec
<1>7. y3 = Rec(y.tab, k, g, D, y.displays, y.fore, y.lay, y.layouts, y.memory, y.ghosts)
  BY ONLY <1>6, <1>c, <1>k DEF Rec
<1>8. y4 = Rec(t, k, g, D, y.displays, y.fore, y.lay, y.layouts, y.memory, y.ghosts)
  BY ONLY <1>7, <1>d DEF Rec
<1>9. y5 = Rec(t, k, g, D, y.displays, y.fore, y.lay, y.layouts, y.memory, h)
  BY ONLY <1>8, <1>e DEF Rec
<1> QED BY <1>1, <1>2, <1>3, <1>9

\* y comes from s, and only the window w has still to be freed.
Dead(y, s, w) ==
  /\ y \in States /\ Only(y, s) /\ Good(y.tab, Lives(s) \ {w}) /\ Arranged(y)
  /\ \A v \in Lives(s) : y.tab.prevmru[v] \in (Lives(s) \ {w}) \cup {NULL}
  /\ y.fore \in Lives(s) \cup s.ghosts \cup {NULL}
  /\ \A d \in Display : /\ Sees(y.disp[d], Lives(s), Lives(s) \cup s.ghosts)
                        /\ w \notin ToSet(y.disp[d].cvs)
  /\ \A d \in ToSet(s.displays) : Lit(y.disp[d])
  /\ \A l \in Layout : ToSet(y.lay[l].cvs) \subseteq (Lives(s) \ {w}) \cup {NULL}

LEMMA DeadIs ==
  ASSUME NEW s, Sound(s), NEW w \in Lives(s), NEW x, Apart(x, s), Dying(x, s, w),
         \A d \in Display : ~Shows(x, d, w), NEW y, y = UpdateLayoutCanvas(x, w)
  PROVE  Dead(y, s, w) /\ y.disp = x.disp /\ y.tab = x.tab
<1>1. w \in Win /\ x.displays = s.displays
  BY SoundFacts DEF Apart, Only
<1>2. /\ y \in States /\ y.tab = x.tab /\ y.kind = x.kind /\ y.group = x.group /\ y.disp = x.disp
      /\ y.displays = x.displays /\ y.fore = x.fore /\ y.layouts = x.layouts
      /\ y.memory = x.memory /\ y.ghosts = x.ghosts /\ Arranged(y)
      /\ \A l \in Layout : ToSet(y.lay[l].cvs) \subseteq (Lives(s) \ {w}) \cup {NULL}
  <2>1. x \in States /\ Arranged(x) /\ \A l \in Layout : ToSet(x.lay[l].cvs) \subseteq Lives(s) \cup {NULL}
    BY DEF Apart, Dying, Fine
  <2> QED BY <1>1, <2>1, SweepIs
<1>3. Only(y, s)
  BY <1>2 DEF Apart, Only
<1>4. Fine(x, Lives(s) \ {w}, Lives(s), Lives(s) \cup s.ghosts)
  BY DEF Dying
<1>5. /\ Good(y.tab, Lives(s) \ {w})
      /\ \A v \in Lives(s) : y.tab.prevmru[v] \in (Lives(s) \ {w}) \cup {NULL}
      /\ y.fore \in Lives(s) \cup s.ghosts \cup {NULL}
      /\ \A d \in Display : Sees(y.disp[d], Lives(s), Lives(s) \cup s.ghosts)
  BY <1>2, <1>4 DEF Fine
<1>6. \A d \in Display : w \notin ToSet(y.disp[d].cvs)
  BY <1>2 DEF Shows
<1>7. \A d \in ToSet(s.displays) : Lit(y.disp[d])
  BY <1>2 DEF Dying
<1> QED BY <1>2, <1>3, <1>5, <1>6, <1>7 DEF Dead

\* The display r has the regions of c, shows windows of L and remembers some of O.
Forgets(r, c, L, O) ==
  /\ r \in Disps /\ r.cvs = c.cvs /\ r.focus = c.focus /\ r.layout = c.layout
  /\ Sees(r, L, O) /\ (Lit(c) => Lit(r)) /\ (c = Blank => r = Blank)

LEMMA ForgetSees ==
  ASSUME NEW s, Sound(s), NEW w \in Lives(s), NEW y, Dead(y, s, w), NEW d \in Display,
         NEW r, r = Forget(y, d, w), NEW G, s.ghosts \subseteq G
  PROVE  Forgets(r, y.disp[d], Lives(s) \ {w}, (Lives(s) \ {w}) \cup G)
<1> DEFINE c == y.disp[d]
           f == IF c.fore = w THEN NULL ELSE c.fore
           p == OtherThen(y, d, w)
           o == IF c.other = w THEN p ELSE c.other
           L == Lives(s) \ {w}
<1>1. y \in States /\ w \in Win /\ w # NULL /\ Lives(s) \subseteq Win
  BY SoundFacts DEF Dead
<1>2. r = View(c.cvs, c.focus, f, o, c.layout) /\ c \in Disps
  BY <1>1, ForgetIs
<1>3. /\ c.cvs \in Seq(Win \cup {NULL}) /\ c.focus \in Nat /\ c.fore \in Win \cup {NULL}
      /\ c.other \in Win \cup {NULL} /\ c.layout \in Layout \cup {NULL}
  BY <1>2 DEF Disps
<1>4. /\ ToSet(c.cvs) \subseteq L \cup {NULL} /\ f \in L \cup {NULL}
      /\ c.other \in Lives(s) \cup s.ghosts \cup {NULL}
  BY DEF Dead, Sees
<1>5. p \in L \cup {NULL}
  <2>1. /\ \A v \in Lives(s) : y.tab.prevmru[v] \in L \cup {NULL}
        /\ c.fore \in Lives(s) \cup {NULL}
    BY DEF Dead, Sees
  <2>2. p = IF c.fore # NULL /\ y.tab.prevmru[c.fore] # w THEN y.tab.prevmru[c.fore] ELSE y.tab.prevmru[w]
    BY DEF OtherThen
  <2> HIDE DEF p, L, c
  <2> QED BY <2>1, <2>2
<1> HIDE DEF p
<1>6. o \in L \cup G \cup {NULL}
  BY <1>4, <1>5
<1>7. o \in Win \cup {NULL} /\ f \in Win \cup {NULL}
  BY <1>1, <1>3, <1>5
<1> HIDE DEF o
<1>8. /\ r \in Disps /\ r.cvs = c.cvs /\ r.focus = c.focus /\ r.fore = f /\ r.other = o /\ r.layout = c.layout
  <2> HIDE DEF f, c
  <2> QED BY ONLY <1>2, <1>3, <1>7 DEF View, Disps
<1>9. Sees(r, L, L \cup G)
  BY <1>4, <1>6, <1>8 DEF Sees
<1>10. ASSUME Lit(c) PROVE Lit(r)
  <2>1. c.fore # w
    BY <1>3, <1>10 DEF Lit, Dead, ToSet
  <2> QED BY <1>8, <1>10, <2>1 DEF Lit
<1>11. ASSUME c = Blank PROVE r = Blank
  <2>1. c.cvs = <<>> /\ c.focus = 0 /\ c.fore = NULL /\ c.other = NULL /\ c.layout = NULL
    BY <1>11 DEF Blank
  <2>2. f = NULL /\ o = NULL
    BY <1>1, <2>1 DEF o
  <2> QED BY <1>2, <2>1, <2>2 DEF View, Blank
<1> QED BY <1>8, <1>9, <1>10, <1>11 DEF Forgets

LEMMA FreedSound ==
  ASSUME NEW s, Sound(s), Groups(s), NEW w \in Lives(s), NEW y, Dead(y, s, w), NEW r, r = FreeWindow(y, w)
  PROVE  /\ Sound(r) /\ Groups(r) /\ Lives(r) = Lives(s) \ {w} /\ ByUse(r.tab) = ByUse(y.tab)
         /\ \A v \in Lives(s) \ {w} : r.tab.number[v] = y.tab.number[v]
<1> DEFINE L == Lives(s) \ {w}
           t == [Cleared(y.tab, w) EXCEPT !.number[w] = 0]
           k == [y.kind EXCEPT ![w] = "free"]
           g == [Orphaned(y, w) EXCEPT ![w] = NULL]
           D == [d \in Display |-> Forget(y, d, w)]
           h == IF y.fore = w THEN y.ghosts \cup {w} ELSE y.ghosts
<1>1. /\ y \in States /\ Only(y, s) /\ Good(y.tab, L) /\ Arranged(y)
      /\ y.fore \in Lives(s) \cup s.ghosts \cup {NULL}
      /\ \A d \in ToSet(s.displays) : Lit(y.disp[d])
      /\ \A l \in Layout : ToSet(y.lay[l].cvs) \subseteq L \cup {NULL}
  BY DEF Dead
<1>2. /\ s \in States /\ w \in Win /\ Lives(s) \subseteq Win /\ s.ghosts \in SUBSET Win
      /\ s.ghosts \cap Lives(s) = {} /\ s.group \in [Win -> Win \cup {NULL}]
      /\ \A d \in ToSet(s.displays) : d \in Display
  <2>1. s \in States /\ w \in Win /\ Lives(s) \subseteq Win /\ \A d \in ToSet(s.displays) : d \in Display
    BY SoundFacts
  <2>2. s.ghosts \cap Lives(s) = {}
    BY DEF Sound, Whole
  <2>3. s.ghosts \in SUBSET Win /\ s.group \in [Win -> Win \cup {NULL}]
    BY <2>1, StateFields
  <2> QED BY <2>1, <2>2, <2>3
<1>3. /\ y.kind \in [Win -> {"free", "pty", "zombie", "group"}] /\ y.displays \in Seq(Display)
      /\ y.fore \in Win \cup {NULL} /\ y.lay \in [Layout -> Lays]
      /\ y.layouts \in Seq(Layout) /\ y.memory \in Memories
  BY <1>1, StateFields
<1>4. y.kind = s.kind /\ y.group = s.group /\ y.displays = s.displays /\ y.ghosts = s.ghosts
  BY <1>1 DEF Only
<1>5. r = Rec(t, k, g, D, y.displays, y.fore, y.lay, y.layouts, y.memory, h)
  BY <1>1, FreedIs DEF Freed
<1>6. Good(t, L) /\ ByUse(t) = ByUse(y.tab) /\ \A v \in L : t.number[v] = y.tab.number[v]
  <2>1. w \in Win \ L
    BY <1>2
  <2>2. t = [Cleared(y.tab, w) EXCEPT !.number[w] = 0]
    OBVIOUS
  <2>3. Good(y.tab, L)
    BY <1>1
  <2> HIDE DEF t, L
  <2>4. Holds(t, y.tab, L)
    BY ONLY <2>1, <2>2, <2>3, ClearedGood
  <2> QED BY <2>4 DEF Holds
<1>7. k \in [Win -> {"free", "pty", "zombie", "group"}] /\ \A v \in Win : k[v] = IF v = w THEN "free" ELSE s.kind[v]
  BY <1>3, <1>4
<1>8. /\ g \in [Win -> Win \cup {NULL}]
      /\ \A v \in L : g[v] = IF s.group[v] = w THEN s.group[w] ELSE s.group[v]
  <2>1. Fathered(y, L, w)
    BY <1>2, <1>4 DEF Groups, Fathered
  <2>2. g = Ungrouped(y, w)
    BY DEF Ungrouped
  <2>3. L \ {w} = L
    OBVIOUS
  <2> HIDE DEF g, L
  <2>4. /\ g \in [Win -> Win \cup {NULL}]
        /\ \A v \in L \ {w} : g[v] = IF y.group[v] = w THEN y.group[w] ELSE y.group[v]
    <3>1. y \in States /\ w \in Win /\ Good(y.tab, L)
      BY <1>1, <1>2
    <3> QED BY ONLY <3>1, <2>1, <2>2, OrphansAre
  <2> QED BY <1>4, <2>3, <2>4
<1>9. h \in SUBSET Win /\ s.ghosts \subseteq h /\ h \cap L = {} /\ y.fore \in L \cup h \cup {NULL}
  BY <1>1, <1>2, <1>4
<1>10. ASSUME NEW d \in Display
       PROVE  /\ D[d] \in Disps /\ D[d].cvs = y.disp[d].cvs /\ D[d].focus = y.disp[d].focus
              /\ D[d].layout = y.disp[d].layout /\ Sees(D[d], L, L \cup h)
              /\ Lit(y.disp[d]) => Lit(D[d])
              /\ y.disp[d] = Blank => D[d] = Blank
  <2>1. D[d] = Forget(y, d, w)
    OBVIOUS
  <2> HIDE DEF D, h
  <2>2. s.ghosts \subseteq h
    BY <1>9
  <2> HIDE DEF L
  <2>3. Forgets(D[d], y.disp[d], Lives(s) \ {w}, (Lives(s) \ {w}) \cup h)
    BY ONLY <2>1, <2>2, Sound(s), w \in Lives(s), Dead(y, s, w), d \in Display, ForgetSees
  <2> QED BY <2>3 DEF Forgets, L
<1>11. t \in Tabs
  BY <1>6 DEF Good
<1> HIDE DEF t, k, g, h
<1>12. D \in [Display -> Disps]
  BY <1>10
<1> HIDE DEF D
<1>13. /\ r \in States /\ r.tab = t /\ r.kind = k /\ r.group = g /\ r.disp = D /\ r.displays = y.displays
       /\ r.fore = y.fore /\ r.lay = y.lay /\ r.layouts = y.layouts /\ r.memory = y.memory /\ r.ghosts = h
  BY ONLY <1>3, <1>5, <1>7, <1>8, <1>9, <1>11, <1>12 DEF Rec, States
<1>14. Lives(r) = L
  BY <1>7, <1>13 DEF Lives
<1> HIDE DEF L
<1>15. Fine(r, L, L, L \cup h)
  <2>1. \A v \in L : r.tab.prevmru[v] \in L \cup {NULL}
    BY <1>6, <1>13, GoodLists
  <2>2. L \subseteq Win
    BY <1>2 DEF L
  <2> QED BY <1>1, <1>6, <1>9, <1>10, <1>13, <2>1, <2>2 DEF Fine
<1>16. Arranged(r)
  BY <1>1, <1>10, <1>13 DEF Arranged
<1>17. \A d \in ToSet(r.displays) : Lit(r.disp[d])
  BY <1>1, <1>2, <1>4, <1>10, <1>13
<1>18. Sound(r)
  BY <1>9, <1>13, <1>14, <1>15, <1>16, <1>17 DEF Sound, Whole
<1>19. Groups(r)
  <2>1. Grouping(Lives(s), s.kind, s.group)
    BY GroupingIs
  <2>2. \A v \in Lives(s) \ {w} : g[v] = IF s.group[v] = w THEN s.group[w] ELSE s.group[v]
    BY <1>8 DEF L
  <2>3. \A v \in Lives(s) \ {w} : k[v] = s.kind[v]
    BY <1>2, <1>7
  <2>4. Grouping(Lives(s) \ {w}, k, g)
    BY ONLY <1>2, <2>1, <2>2, <2>3, w \in Lives(s), LeftGroup
  <2> QED BY <1>13, <1>14, <2>4, GroupingIs DEF L
<1> QED BY <1>6, <1>13, <1>14, <1>18, <1>19 DEF L

LEMMA NothingSound ==
  Sound(Nothing) /\ Groups(Nothing)
<1> DEFINE N == Nothing
<1>1. /\ N.tab = Nothing.tab /\ N.kind = [w \in Win |-> "free"] /\ N.group = [w \in Win |-> NULL]
      /\ N.disp = [d \in Display |-> Blank] /\ N.displays = <<>> /\ N.fore = NULL
      /\ N.lay = [l \in Layout |-> NoLayout] /\ N.layouts = <<>>
      /\ N.memory = [last |-> NULL, attach |-> "last", win |-> -1, other |-> -1] /\ N.ghosts = {}
  BY DEF Nothing
<1>2. Good(N.tab, {})
  BY NothingIs
<1>3. Blank \in Disps
  BY DEF Blank, Disps
<1>4. NoLayout \in Lays
  BY DEF NoLayout, Lays
<1>5. N \in States
  <2>1. N.tab \in Tabs
    BY <1>2 DEF Good
  <2>2. N.memory \in Memories
    BY <1>1 DEF Memories
  <2>3. N.lay \in [Layout -> Lays] /\ N.disp \in [Display -> Disps] /\ N.group \in [Win -> Win \cup {NULL}]
        /\ N.kind \in [Win -> {"free", "pty", "zombie", "group"}]
        /\ N.displays \in Seq(Display) /\ N.layouts \in Seq(Layout) /\ N.fore \in Win \cup {NULL}
        /\ N.ghosts \in SUBSET Win
    BY <1>1, <1>3, <1>4
  <2>4. N = Rec(N.tab, N.kind, N.group, N.disp, N.displays, N.fore, N.lay, N.layouts, N.memory, N.ghosts)
    BY DEF Nothing, Rec
  <2> HIDE DEF N
  <2> QED BY ONLY <2>1, <2>2, <2>3, <2>4 DEF Rec, States
<1>6. Lives(N) = {}
  BY <1>1 DEF Lives
<1>7. Sees(Blank, {}, {})
  BY DEF Blank, Sees, ToSet
<1>8. ToSet(NoLayout.cvs) = {}
  BY DEF NoLayout, ToSet
<1>9. Blank.layout = NULL
  BY DEF Blank
<1> HIDE DEF N
<1>10. Fine(N, {}, {}, {})
  <2>1. \A d \in Display : Sees(N.disp[d], {}, {})
    BY <1>1, <1>7
  <2>2. \A l \in Layout : ToSet(N.lay[l].cvs) \subseteq {NULL}
    BY <1>1, <1>8
  <2> QED BY <1>1, <1>2, <1>5, <2>1, <2>2 DEF Fine
<1>11. Arranged(N)
  <2>1. ToSet(N.displays) = {} /\ ToSet(N.layouts) = {} /\ Distinct(N.displays) /\ Distinct(N.layouts)
    BY <1>1 DEF ToSet, Distinct
  <2>2. N.memory.last = NULL /\ N.memory.attach = "last"
    BY <1>1
  <2>3. \A d \in Display : N.disp[d] = Blank /\ N.disp[d].layout = NULL
    BY <1>1, <1>9
  <2>4. \A l \in Layout : N.lay[l] = NoLayout
    BY <1>1
  <2> QED BY <2>1, <2>2, <2>3, <2>4 DEF Arranged
<1>12. \A d \in ToSet(N.displays) : Lit(N.disp[d])
  BY <1>1 DEF ToSet
<1>13. Sound(N)
  BY <1>1, <1>6, <1>10, <1>11, <1>12 DEF Sound, Whole
<1> QED BY <1>6, <1>13 DEF Groups, N

\* A window freed before is in a region still.
LEMMA HauntedKept ==
  ASSUME NEW s, NEW w \in Win, NEW x, Apart(x, s), Haunted(x, s),
         NEW r, r = FreeWindow(UpdateLayoutCanvas(x, w), w)
  PROVE  \E d \in Display : ToSet(r.disp[d].cvs) \cap s.ghosts # {}
<1> DEFINE y == UpdateLayoutCanvas(x, w)
           D == [d \in Display |-> Forget(y, d, w)]
<1>1. x \in States
  BY DEF Apart
<1>2. y \in States /\ y.disp = x.disp
  <2>1. \A l \in Layout : ToSet(x.lay[l].cvs) \subseteq Win \cup {NULL}
    <3>1. x.lay \in [Layout -> Lays]
      BY <1>1, StateFields
    <3> QED BY <3>1 DEF Lays, ToSet
  <2>2. y = UpdateLayoutCanvas(x, w)
    OBVIOUS
  <2> HIDE DEF y
  <2> QED BY <1>1, <2>1, <2>2, SweepIs
<1>3. r = FreeWindow(y, w)
  OBVIOUS
<1> HIDE DEF y
<1>4. r.disp = D
  <2>1. FreeWindow(y, w) = Freed(y, w)
    BY ONLY <1>2, FreedIs
  <2> QED BY <1>3, <2>1 DEF Freed, Rec
<1>5. PICK d \in Display : \E j \in DOMAIN x.disp[d].cvs : x.disp[d].cvs[j] \in s.ghosts
  BY DEF Haunted
<1>6. D[d] = Forget(y, d, w)
  OBVIOUS
<1>7. r.disp[d] = Forget(y, d, w)
  BY <1>4, <1>6
<1> DEFINE c == y.disp[d]
           f == IF c.fore = w THEN NULL ELSE c.fore
           o == IF c.other = w THEN OtherThen(y, d, w) ELSE c.other
<1>8. r.disp[d] = View(c.cvs, c.focus, f, o, c.layout)
  BY <1>2, <1>7, ForgetIs
<1>9. r.disp[d].cvs = x.disp[d].cvs
  BY <1>2, <1>8 DEF View
<1> QED BY <1>5, <1>9 DEF ToSet

\* No display shows a window freed before.
Clean(k, s) == \A d \in Display : ToSet(k.disp[d].cvs) \cap s.ghosts = {}

\* The window w of S has gone, the numbers of the others stay, and a display can
\* only have used one of them.
Parted(r, t, S, w) ==
  /\ Good(r, S \ {w}) /\ \A v \in S \ {w} : r.number[v] = t.number[v]
  /\ \E P \in SUBSET (S \ {w}) : Cardinality(P) <= Cardinality(Display) /\ Raised(ByUse(t), ByUse(r), P)

LEMMA PartedIs ==
  ASSUME NEW t, NEW S, Good(t, S), NEW w \in S, NEW a, Drops(a, t, w), a.number = t.number,
         NEW x, Uses(x, a, S \ {w}, Cardinality(Display)),
         NEW r, Good(r, S \ {w}), ByUse(r) = ByUse(x), \A v \in S \ {w} : r.number[v] = x.number[v]
  PROVE  Parted(r, t, S, w)
<1>1. PICK P \in SUBSET (S \ {w}) : Cardinality(P) <= Cardinality(Display) /\ Raised(ByUse(a), ByUse(x), P)
  BY DEF Uses
<1>2. Raised(ByUse(t), ByUse(a), {})
  <2>1. Raised(ByUse(t), ByUse(t), {}) /\ w \notin {}
    BY RaisedNone
  <2> QED BY <2>1, DropRaised
<1>3. ToSet(ByUse(a)) = S \ {w} /\ ToSet(ByUse(x)) = S \ {w}
  BY GoodLists DEF Uses
<1>4. Raised(ByUse(t), ByUse(x), {} \cup P)
  BY <1>1, <1>2, <1>3, RaisedTwice
<1>5. {} \cup P = P
  OBVIOUS
<1>6. \A v \in S \ {w} : r.number[v] = t.number[v]
  BY DEF Uses
<1> QED BY <1>1, <1>4, <1>5, <1>6 DEF Parted

LEMMA PartedLast ==
  ASSUME NEW w, NEW t
  PROVE  Parted(Nothing.tab, t, {w}, w)
<1> DEFINE n == Nothing.tab
<1>1. Good(n, {})
  BY NothingIs
<1> HIDE DEF n
<1>2. ToSet(ByUse(n)) = {}
  BY <1>1, GoodLists
<1>3. Raised(ByUse(t), ByUse(n), {})
  BY <1>2 DEF Raised
<1>4. Cardinality({}) <= Cardinality(Display)
  BY FS_EmptySet, FS_CardinalityType
<1>5. {w} \ {w} = {}
  OBVIOUS
<1> QED BY <1>1, <1>3, <1>4, <1>5 DEF Parted, n

LEMMA KillIs ==
  ASSUME NEW s, Sound(s), Groups(s), NEW w \in Lives(s), NEW r, r = KillWindow(s, w), Clean(r, s)
  PROVE  Sound(r) /\ Groups(r) /\ Lives(r) = Lives(s) \ {w} /\ Parted(r.tab, s.tab, Lives(s), w)
<1>0. Good(s.tab, Lives(s))
  BY SoundFacts
<1>1. CASE ByUse(UnlinkUse(s.tab, w)) = <<>>
  <2>1. r = Nothing
    BY <1>1 DEF KillWindow
  <2>2. Lives(s) = {w}
    BY <1>0, <1>1, OnlyOne
  <2>3. Lives(r) = {}
    BY <2>1 DEF Lives, Nothing
  <2> QED BY <2>1, <2>2, <2>3, NothingSound, PartedLast
<1>2. CASE ByUse(UnlinkUse(s.tab, w)) # <<>>
  <2> DEFINE a == [s EXCEPT !.tab = Killed(UnlinkUse(@, w), w)]
             x == LeaveDisplays(a, w)
             y == UpdateLayoutCanvas(x, w)
  <2>1. Going(a, s, w) /\ Drops(a.tab, s.tab, w) /\ a.tab.number = s.tab.number
    BY <1>2, StartDying
  <2>2. r = FreeWindow(y, w) /\ w \in Win
    BY <1>2, SoundFacts DEF KillWindow, Survived
  <2> HIDE DEF a
  <2>3. /\ Apart(x, s)
        /\ \/ Haunted(x, s)
           \/ /\ Dying(x, s, w) /\ \A d \in Display : ~Shows(x, d, w)
              /\ Uses(x.tab, a.tab, Lives(s) \ {w}, Cardinality(Display))
    BY <2>1, LeaveAll
  <2> HIDE DEF x
  <2>4. ~Haunted(x, s)
    <3> SUFFICES ASSUME Haunted(x, s) PROVE FALSE
      OBVIOUS
    <3>1. \E d \in Display : ToSet(r.disp[d].cvs) \cap s.ghosts # {}
      BY <2>2, <2>3, HauntedKept
    <3> QED BY <3>1 DEF Clean
  <2>5. Dead(y, s, w) /\ y.tab = x.tab
    BY <2>3, <2>4, DeadIs
  <2> HIDE DEF y
  <2>6. /\ Sound(r) /\ Groups(r) /\ Lives(r) = Lives(s) \ {w} /\ ByUse(r.tab) = ByUse(y.tab)
        /\ \A v \in Lives(s) \ {w} : r.tab.number[v] = y.tab.number[v]
    BY <2>2, <2>5, FreedSound
  <2>7. Good(r.tab, Lives(s) \ {w})
    BY <2>6, SoundFacts
  <2>8. Uses(x.tab, a.tab, Lives(s) \ {w}, Cardinality(Display))
    BY <2>3, <2>4
  <2>9. Parted(r.tab, s.tab, Lives(s), w)
    BY <1>0, <2>1, <2>5, <2>6, <2>7, <2>8, PartedIs
  <2> QED BY <2>6, <2>9
<1> QED BY <1>1, <1>2

LEMMA KillInvar ==
  ASSUME NEW s, Sound(s), Groups(s), NEW w \in Lives(s), Kill(s, w)
  PROVE  Invar' /\ Live' = Lives(s) \ {w} /\ Parted(tab', s.tab, Lives(s), w)
<1> DEFINE k == KillWindow(s, w)
<1>1. Clean(k, s) /\ Becomes(k)
  BY DEF Kill, Clean
<1>2. Sound(k) /\ Groups(k) /\ Lives(k) = Lives(s) \ {w} /\ Parted(k.tab, s.tab, Lives(s), w)
  BY <1>1, KillIs
<1> HIDE DEF k
<1>3. State' = k
  BY <1>1, <1>2, SoundFacts, BecomesIs
<1>4. tab' = k.tab /\ Live' = Lives(k)
  BY <1>1, StepIs
<1> QED BY <1>2, <1>3, <1>4 DEF Invar

\* There is a window less.
Killing == \E w \in Live : Live' = Live \ {w} /\ Parted(tab', tab, Live, w)

LEMMA CommandKillInvar ==
  ASSUME Invar, NEW f \in Live \cup {NULL}, DoCommandKill(f)
  PROVE  Invar' /\ Killing
<1> DEFINE s == With(f)
<1>1. f # NULL /\ Kill(s, f)
  BY DEF DoCommandKill
<1>2. Sound(s) /\ Only(s, State)
  BY WithIs DEF Invar
<1>3. Lives(s) = Live /\ s.tab = tab
  BY <1>2, OnlyLives, LiveIs, TabFacts DEF Invar
<1>4. Groups(s)
  BY <1>2, OnlyGroups DEF Invar
<1> HIDE DEF s
<1> QED BY <1>1, <1>2, <1>3, <1>4, KillInvar DEF Killing

LEMMA DiedInvar ==
  ASSUME Invar, NEW w \in Win, WindowDied(w) \/ DestroyZombie(w) \/ RemakeWindow(w)
  PROVE  Invar' /\ (Killing \/ Resting)
<1>1. CASE kind[w] \in {"pty", "zombie"} /\ Kill(State, w)
  <2>1. w \in Lives(State)
    BY <1>1 DEF Lives, State
  <2>2. Sound(State) /\ Groups(State) /\ State.tab = tab /\ Lives(State) = Live
    BY LiveIs DEF Invar, State
  <2> HIDE DEF State
  <2>3. Kill(State, w)
    BY <1>1
  <2>4. Invar' /\ Live' = Lives(State) \ {w} /\ Parted(tab', State.tab, Lives(State), w)
    BY <2>1, <2>2, <2>3, KillInvar
  <2> QED BY <2>1, <2>2, <2>4 DEF Killing
<1>2. CASE kind[w] = "pty" /\ Becomes([State EXCEPT !.kind[w] = "zombie"])
  BY <1>2, ZombieInvar
<1>3. CASE kind[w] = "zombie" /\ Becomes([State EXCEPT !.kind[w] = "pty"])
  BY <1>3, ZombieInvar
<1> QED BY <1>1, <1>2, <1>3 DEF WindowDied, DestroyZombie, RemakeWindow

-----------------------------------------------------------------------------
(* Displays that come and go                                               *)

Noting(s, a, b) == [s EXCEPT !.memory.win = a, !.memory.other = b]
NotedIn(s, m) == [s EXCEPT !.memory = m]

LEMMA RecNoted ==
  ASSUME NEW s \in States, NEW a \in Int, NEW b \in Int
  PROVE  \E m \in Memories : Noting(s, a, b) = NotedIn(s, m) /\ m.last = s.memory.last /\ m.attach = s.memory.attach
<1> DEFINE m == [s.memory EXCEPT !.win = a]
           n == [m EXCEPT !.other = b]
           y == [s EXCEPT !.memory.win = a]
<1>1. s.memory \in Memories
  BY StateFields
<1>2. m \in Memories /\ m.last = s.memory.last /\ m.attach = s.memory.attach
  BY <1>1 DEF Memories
<1>4. n \in Memories /\ n.last = m.last /\ n.attach = m.attach
  <2> HIDE DEF m
  <2> QED BY <1>2 DEF Memories
<1>5. y = [s EXCEPT !.memory = m]
  BY DEF States
<1>6. Noting(s, a, b) = [y EXCEPT !.memory.other = b]
  BY DEF Noting
<1>7. [y EXCEPT !.memory.other = b] = [s EXCEPT !.memory = n]
  <2> HIDE DEF m, y
  <2> QED BY ONLY <1>5, s \in States DEF States, n
<1> HIDE DEF m, n
<1> QED BY <1>2, <1>4, <1>6, <1>7 DEF NotedIn

LEMMA NotedIs ==
  ASSUME NEW s, Sound(s), NEW d \in ToSet(s.displays), s.disp[d].other \in Lives(s) \cup {NULL},
         NEW r, r = Noted(s, d)
  PROVE  Sound(r) /\ Only(r, s) /\ r.disp = s.disp /\ r.layouts = s.layouts /\ r.tab = s.tab
<1> DEFINE f == s.disp[d].fore
           o == s.disp[d].other
           a == s.tab.number[f]
           b == IF o = NULL THEN a ELSE s.tab.number[o]
<1>1. /\ s \in States /\ Whole(s, s.ghosts) /\ d \in Display /\ Lives(s) \subseteq Win
      /\ Sees(s.disp[d], Lives(s), Lives(s) \cup s.ghosts)
  BY SoundFacts
<1>2. CASE f = NULL
  BY <1>2 DEF Noted, Only
<1>3. CASE f # NULL
  <2>1. r = Noting(s, a, b)
    BY <1>3 DEF Noted, Noting
  <2>2. s.tab.number \in [Win -> Int]
    <3>1. s.tab \in Tabs
      BY <1>1, StateFields
    <3> QED BY <3>1 DEF Tabs
  <2>3. a \in Int /\ b \in Int
    <3>1. f \in Win /\ (o # NULL => o \in Win)
      BY <1>1, <1>3 DEF Sees
    <3> QED BY <2>2, <3>1
  <2> HIDE DEF a, b
  <2>4. PICK m \in Memories : Noting(s, a, b) = NotedIn(s, m) /\ m.last = s.memory.last /\ m.attach = s.memory.attach
    BY <1>1, <2>3, RecNoted
  <2>5. r = [s EXCEPT !.memory = m]
    BY <2>1, <2>4 DEF NotedIn
  <2>6. Laid(s, s.disp, s.lay, s.layouts, m)
    <3>1. Laid(s, s.disp, s.lay, s.layouts, s.memory)
      BY <1>1, LaidNow
    <3> QED BY <2>4, <3>1 DEF Laid
  <2>7. r = Rec(s.tab, s.kind, s.group, s.disp, s.displays, s.fore, s.lay, s.layouts, m, s.ghosts)
    BY <1>1, <2>5, RecMemory
  <2> QED BY <2>6, <2>7, LaidSound
<1> QED BY <1>2, <1>3

\* s without the display d.
Gone(s, d, l, ds) ==
  Rec(s.tab, s.kind, s.group, [s.disp EXCEPT ![d] = Blank], ds, NULL, s.lay, s.layouts,
      [s.memory EXCEPT !.last = l], s.ghosts)

LEMMA RecGone ==
  ASSUME NEW s \in States, NEW d, NEW l, NEW ds
  PROVE  [s EXCEPT !.memory.last = l, !.displays = ds, !.disp[d] = Blank, !.fore = NULL] = Gone(s, d, l, ds)
<1> DEFINE m == [s.memory EXCEPT !.last = l]
           D == [s.disp EXCEPT ![d] = Blank]
           y1 == [s EXCEPT !.memory.last = l]
           y2 == [y1 EXCEPT !.displays = ds]
           y3 == [y2 EXCEPT !.disp[d] = Blank]
           y4 == [y3 EXCEPT !.fore = NULL]
<1>1. [s EXCEPT !.memory.last = l, !.displays = ds, !.disp[d] = Blank, !.fore = NULL] = y4
  OBVIOUS
<1>2. Gone(s, d, l, ds) = Rec(s.tab, s.kind, s.group, D, ds, NULL, s.lay, s.layouts, m, s.ghosts)
  BY DEF Gone
<1>3. s = Rec(s.tab, s.kind, s.group, s.disp, s.displays, s.fore, s.lay, s.layouts, s.memory, s.ghosts)
  BY StateFields
<1>a. y1 = [s EXCEPT !.memory.last = l]
  OBVIOUS
<1>b. y2 = [y1 EXCEPT !.displays = ds]
  OBVIOUS
<1>c. y3 = [y2 EXCEPT !.disp[d] = Blank]
  OBVIOUS
<1>d. y4 = [y3 EXCEPT !.fore = NULL]
  OBVIOUS
<1>m. m = [s.memory EXCEPT !.last = l]
  OBVIOUS
<1>n. D = [s.disp EXCEPT ![d] = Blank]
  OBVIOUS
<1> HIDE DEF y1, y2, y3, y4, m, D
<1>5. y1 = Rec(s.tab, s.kind, s.group, s.disp, s.displays, s.fore, s.lay, s.layouts, m, s.ghosts)
  BY ONLY <1>3, <1>a, <1>m DEF Rec
<1>6. y2 = Rec(s.tab, s.kind, s.group, s.disp, ds, s.fore, s.lay, s.layouts, m, s.ghosts)
  BY ONLY <1>5, <1>b DEF Rec
<1>7. y3 = Rec(s.tab, s.kind, s.group, D, ds, s.fore, s.lay, s.layouts, m, s.ghosts)
  BY ONLY <1>6, <1>c, <1>n DEF Rec
<1>8. y4 = Rec(s.tab, s.kind, s.group, D, ds, NULL, s.lay, s.layouts, m, s.ghosts)
  BY ONLY <1>7, <1>d DEF Rec
<1> QED BY <1>1, <1>2, <1>8

LEMMA SameGroups ==
  ASSUME NEW r, NEW s, r.kind = s.kind, r.group = s.group, Groups(s)
  PROVE  Groups(r)
  BY DEF Groups, Lives

LEMMA GoneSound ==
  ASSUME NEW s, Sound(s), NEW d \in ToSet(s.displays), NEW l, l = s.disp[d].layout,
         NEW ds, ds = Without(s.displays, d), NEW r, r = Gone(s, d, l, ds)
  PROVE  Sound(r) /\ r.kind = s.kind /\ r.group = s.group /\ r.tab = s.tab
<1> DEFINE m == [s.memory EXCEPT !.last = l]
           D == [s.disp EXCEPT ![d] = Blank]
           L == Lives(s)
           O == Lives(s) \cup s.ghosts
<1>1. /\ s \in States /\ Fine(s, L, L, O) /\ s.ghosts \cap L = {} /\ Arranged(s) /\ d \in Display
      /\ \A e \in ToSet(s.displays) : Lit(s.disp[e])
  BY SoundFacts DEF Sound, Whole
<1>2. /\ s.tab \in Tabs /\ s.kind \in [Win -> {"free", "pty", "zombie", "group"}]
      /\ s.group \in [Win -> Win \cup {NULL}] /\ s.disp \in [Display -> Disps]
      /\ s.displays \in Seq(Display) /\ s.lay \in [Layout -> Lays]
      /\ s.layouts \in Seq(Layout) /\ s.memory \in Memories /\ s.ghosts \in SUBSET Win
  BY <1>1, StateFields
<1>3. Blank \in Disps /\ Blank.layout = NULL /\ Sees(Blank, L, O)
  BY DEF Blank, Disps, Sees, ToSet
<1>4. D \in [Display -> Disps] /\ D[d] = Blank /\ \A e \in Display : e # d => D[e] = s.disp[e]
  BY <1>1, <1>2, <1>3
<1>5. ds \in Seq(Display) /\ Distinct(ds) /\ ToSet(ds) = ToSet(s.displays) \ {d}
  BY <1>1, <1>2, OneLess DEF Arranged
<1>6. l \in ToSet(s.layouts) \cup {NULL} /\ l \in Layout \cup {NULL}
  BY <1>1, <1>2 DEF Arranged, Disps
<1>7. m \in Memories /\ m.last = l /\ m.attach = s.memory.attach
  BY <1>2, <1>6 DEF Memories
<1>8. r = Rec(s.tab, s.kind, s.group, D, ds, NULL, s.lay, s.layouts, m, s.ghosts)
  BY DEF Gone
<1> HIDE DEF m, D
<1>9. /\ r \in States /\ r.tab = s.tab /\ r.kind = s.kind /\ r.group = s.group /\ r.disp = D /\ r.displays = ds
      /\ r.fore = NULL /\ r.lay = s.lay /\ r.layouts = s.layouts /\ r.memory = m /\ r.ghosts = s.ghosts
  BY ONLY <1>2, <1>4, <1>5, <1>7, <1>8 DEF Rec, States
<1>10. Lives(r) = L
  BY <1>9 DEF Lives
<1> HIDE DEF L, O
<1>11. Fine(r, L, L, O)
  <2>1. \A e \in Display : Sees(r.disp[e], L, O)
    BY <1>1, <1>3, <1>4, <1>9 DEF Fine
  <2> QED BY <1>1, <1>9, <2>1 DEF Fine
<1>12. Arranged(r)
  <2>1. \A e \in Display : e \notin ToSet(ds) => r.disp[e] = Blank
    BY <1>1, <1>4, <1>5, <1>9 DEF Arranged
  <2>2. \A e \in Display : r.disp[e].layout \in ToSet(s.layouts) \cup {NULL}
    BY <1>1, <1>3, <1>4, <1>9 DEF Arranged
  <2> QED BY <1>1, <1>5, <1>6, <1>7, <1>9, <2>1, <2>2 DEF Arranged
<1>13. \A e \in ToSet(r.displays) : Lit(r.disp[e])
  <2>1. \A e \in ToSet(s.displays) : e \in Display
    BY <1>2 DEF ToSet
  <2> QED BY <1>1, <1>4, <1>5, <1>9, <2>1
<1> QED BY <1>1, <1>9, <1>10, <1>11, <1>12, <1>13 DEF Sound, Whole, L, O

LEMMA DetachInvar ==
  ASSUME Invar, NEW d \in Display, Detach(d)
  PROVE  Invar' /\ Resting
<1> DEFINE n == Noted(State, d)
           s == AutosaveLayout(n, d)
           l == disp[d].layout
           ds == Without(s.displays, d)
           r == Gone(s, d, l, ds)
<1>1. Sound(State) /\ Groups(State) /\ State.disp = disp /\ State.displays = displays
  BY DEF Invar, State
<1>2. d \in ToSet(State.displays) /\ State.disp[d].other \in Lives(State) \cup {NULL}
  BY <1>1, LiveIs DEF Detach
<1>3. Becomes([s EXCEPT !.memory.last = l, !.displays = ds, !.disp[d] = Blank, !.fore = NULL])
  BY DEF Detach
<1>4. Sound(n) /\ Only(n, State) /\ n.disp = disp /\ n.tab = State.tab
  BY <1>1, <1>2, NotedIs
<1> HIDE DEF n
<1>5. Whole(n, n.ghosts) /\ d \in ToSet(n.displays) /\ Lit(n.disp[d])
  BY <1>2, <1>4, SoundFacts, OnlyLives
<1>6. Whole(s, n.ghosts) /\ Only(s, n) /\ s.disp = n.disp /\ s.tab = n.tab
  <2>1. n.disp[d].focus \in DOMAIN n.disp[d].cvs
    BY <1>5 DEF Lit
  <2> QED BY <1>5, <2>1, AutosaveWhole
<1>7. Sound(s) /\ d \in ToSet(s.displays) /\ l = s.disp[d].layout /\ Only(s, State)
  <2>1. s.ghosts = n.ghosts /\ s.displays = n.displays
    BY <1>6 DEF Only
  <2>2. \A e \in ToSet(s.displays) : Lit(s.disp[e])
    BY <1>4, <1>6, <2>1, SoundFacts
  <2> QED BY <1>4, <1>5, <1>6, <2>1, <2>2, OnlyTwice DEF Sound
<1>8. s \in States
  BY <1>7, SoundFacts
<1> HIDE DEF s, ds, l
<1>9. Becomes(r)
  BY <1>3, <1>8, RecGone
<1>10. Sound(r) /\ r.kind = s.kind /\ r.group = s.group /\ r.tab = s.tab
  <2>1. ds = Without(s.displays, d)
    BY DEF ds
  <2>2. r = Gone(s, d, l, ds)
    OBVIOUS
  <2> HIDE DEF r
  <2> QED BY <1>7, <2>1, <2>2, GoneSound
<1> HIDE DEF r
<1>11. Groups(r)
  BY <1>1, <1>7, <1>10, SameGroups DEF Only
<1>12. State' = r
  BY <1>9, <1>10, SoundFacts, BecomesIs
<1>13. Resting
  <2>1. tab' = r.tab /\ Live' = Lives(r)
    BY <1>9, StepIs
  <2>2. State.tab = tab /\ Lives(State) = Live
    BY LiveIs DEF State
  <2>3. r.kind = State.kind
    BY <1>7, <1>10 DEF Only
  <2> QED BY <1>4, <1>6, <1>10, <2>1, <2>2, <2>3 DEF Resting, Lives
<1> QED BY <1>10, <1>11, <1>12, <1>13 DEF Invar

\* s with a display d that has a blank region.
Opened(s, d) ==
  Rec(s.tab, s.kind, s.group, [s.disp EXCEPT ![d] = View(<<NULL>>, 1, NULL, NULL, NULL)],
      <<d>> \o s.displays, s.fore, s.lay, s.layouts, s.memory, s.ghosts)

LEMMA RecFresh ==
  ASSUME NEW s \in States, NEW d
  PROVE  Fresh(s, d) = Opened(s, d)
<1> DEFINE c == [Blank EXCEPT !.cvs = <<NULL>>, !.focus = 1]
           D == [s.disp EXCEPT ![d] = c]
           ds == <<d>> \o s.displays
           y1 == [s EXCEPT !.displays = ds]
<1>1. c = View(<<NULL>>, 1, NULL, NULL, NULL)
  <2> DEFINE q == <<NULL>>
             b == [Blank EXCEPT !.cvs = q]
  <2>1. c = [b EXCEPT !.focus = 1]
    OBVIOUS
  <2> HIDE DEF q
  <2>2. b = [cvs |-> q, focus |-> 0, fore |-> NULL, other |-> NULL, layout |-> NULL]
    BY DEF Blank
  <2> HIDE DEF b
  <2>3. c = [cvs |-> q, focus |-> 1, fore |-> NULL, other |-> NULL, layout |-> NULL]
    BY ONLY <2>1, <2>2
  <2> QED BY <2>3 DEF View, q
<1>2. Fresh(s, d) = [s EXCEPT !.displays = ds, !.disp[d] = c]
  BY DEF Fresh
<1>3. Opened(s, d) = Rec(s.tab, s.kind, s.group, D, ds, s.fore, s.lay, s.layouts, s.memory, s.ghosts)
  BY <1>1 DEF Opened
<1>4. D = [s.disp EXCEPT ![d] = c]
  OBVIOUS
<1> HIDE DEF c, ds, D
<1>5. [s EXCEPT !.displays = ds, !.disp[d] = c] = [y1 EXCEPT !.disp[d] = c]
  OBVIOUS
<1>6. y1 = [s EXCEPT !.displays = ds]
  OBVIOUS
<1>7. s = Rec(s.tab, s.kind, s.group, s.disp, s.displays, s.fore, s.lay, s.layouts, s.memory, s.ghosts)
  BY StateFields
<1> HIDE DEF y1
<1>8. y1 = Rec(s.tab, s.kind, s.group, s.disp, ds, s.fore, s.lay, s.layouts, s.memory, s.ghosts)
  BY ONLY <1>6, <1>7 DEF Rec
<1>9. [y1 EXCEPT !.disp[d] = c] = Rec(s.tab, s.kind, s.group, D, ds, s.fore, s.lay, s.layouts, s.memory, s.ghosts)
  BY ONLY <1>4, <1>8 DEF Rec
<1> QED BY <1>2, <1>3, <1>5, <1>9

LEMMA FreshIs ==
  ASSUME NEW s, Sound(s), NEW d \in Display \ ToSet(s.displays), NEW r, r = Fresh(s, d)
  PROVE  /\ Sound(r) /\ r.kind = s.kind /\ r.group = s.group /\ r.tab = s.tab
         /\ d \in ToSet(r.displays) /\ r.layouts = s.layouts /\ r.memory = s.memory
<1> DEFINE c == View(<<NULL>>, 1, NULL, NULL, NULL)
           D == [s.disp EXCEPT ![d] = c]
           ds == <<d>> \o s.displays
           L == Lives(s)
           O == Lives(s) \cup s.ghosts
<1>1. /\ s \in States /\ Fine(s, L, L, O) /\ s.ghosts \cap L = {} /\ Arranged(s)
      /\ \A e \in ToSet(s.displays) : Lit(s.disp[e])
  BY DEF Sound, Whole, Fine
<1>2. /\ s.tab \in Tabs /\ s.kind \in [Win -> {"free", "pty", "zombie", "group"}]
      /\ s.group \in [Win -> Win \cup {NULL}] /\ s.disp \in [Display -> Disps]
      /\ s.displays \in Seq(Display) /\ s.lay \in [Layout -> Lays] /\ s.fore \in Win \cup {NULL}
      /\ s.layouts \in Seq(Layout) /\ s.memory \in Memories /\ s.ghosts \in SUBSET Win
  BY <1>1, StateFields
<1>3. c \in Disps /\ c.layout = NULL /\ Sees(c, L, O) /\ Lit(c)
  <2>1. <<NULL>> \in Seq(Win \cup {NULL}) /\ ToSet(<<NULL>>) = {NULL} /\ 1 \in DOMAIN <<NULL>> /\ <<NULL>>[1] = NULL
    BY DEF ToSet
  <2>2. /\ c \in Disps /\ c.cvs = <<NULL>> /\ c.focus = 1 /\ c.fore = NULL /\ c.other = NULL
        /\ c.layout = NULL
    BY <2>1 DEF View, Disps
  <2> HIDE DEF c
  <2> QED BY <2>1, <2>2 DEF Sees, Lit
<1> HIDE DEF c
<1>4. D \in [Display -> Disps] /\ D[d] = c /\ \A e \in Display : e # d => D[e] = s.disp[e]
  BY <1>1, <1>2, <1>3
<1>5. ds \in Seq(Display) /\ Distinct(ds) /\ ToSet(ds) = ToSet(s.displays) \cup {d}
  <2> DEFINE q == s.displays
  <2>1. q \in Seq(Display) /\ Distinct(q) /\ d \in Display /\ d \notin ToSet(q)
    BY <1>1, <1>2 DEF Arranged
  <2> HIDE DEF q
  <2>2. Len(q) \in Nat /\ DOMAIN q = 1..Len(q)
    BY <2>1
  <2>3. <<d>> \in Seq(Display) /\ Len(<<d>>) = 1 /\ <<d>>[1] = d
    BY <2>1
  <2>4. /\ <<d>> \o q \in Seq(Display) /\ DOMAIN (<<d>> \o q) = 1..(Len(q) + 1)
        /\ (<<d>> \o q)[1] = d /\ \A i \in 2..(Len(q) + 1) : (<<d>> \o q)[i] = q[i - 1]
    BY ONLY <2>1, <2>2, <2>3
  <2> DEFINE p == <<d>> \o q
  <2>5. p \in Seq(Display) /\ DOMAIN p = 1..(Len(q) + 1) /\ p[1] = d /\ \A i \in 2..(Len(q) + 1) : p[i] = q[i - 1]
    BY <2>4
  <2> HIDE DEF p
  <2>6. \A i \in 1..(Len(q) + 1) : i = 1 \/ (i \in 2..(Len(q) + 1) /\ i - 1 \in 1..Len(q))
    BY ONLY <2>2
  <2>7. \A i \in 1..Len(q) : i + 1 \in 2..(Len(q) + 1) /\ (i + 1) - 1 = i /\ i + 1 \in 1..(Len(q) + 1)
    BY ONLY <2>2
  <2>8. 1 \in 1..(Len(q) + 1)
    BY ONLY <2>2
  <2>9. ToSet(p) = ToSet(q) \cup {d}
    <3>1. ASSUME NEW i \in 1..(Len(q) + 1) PROVE p[i] \in ToSet(q) \cup {d}
      BY <2>2, <2>5, <2>6 DEF ToSet
    <3>2. ASSUME NEW i \in 1..Len(q) PROVE q[i] \in ToSet(p)
      <4>1. p[i + 1] = q[i] /\ i + 1 \in DOMAIN p
        BY <2>5, <2>7
      <4> QED BY <4>1 DEF ToSet
    <3>3. d \in ToSet(p)
      BY <2>5, <2>8 DEF ToSet
    <3> QED BY <2>2, <2>5, <3>1, <3>2, <3>3 DEF ToSet
  <2>10. Distinct(p)
    <3>1. \A i \in 1..Len(q) : q[i] # d
      BY <2>1, <2>2 DEF ToSet
    <3>2. ASSUME NEW i \in DOMAIN p, NEW j \in DOMAIN p, i # j PROVE p[i] # p[j]
      <4>1. i \in Int /\ j \in Int
        BY <2>5
      <4>2. CASE i = 1 \/ j = 1
        BY <2>5, <2>6, <3>1, <3>2, <4>2
      <4>3. CASE i # 1 /\ j # 1
        <5>1. /\ i - 1 \in 1..Len(q) /\ j - 1 \in 1..Len(q) /\ i - 1 # j - 1
              /\ p[i] = q[i - 1] /\ p[j] = q[j - 1]
          BY <2>5, <2>6, <3>2, <4>1, <4>3
        <5> QED BY <2>1, <2>2, <5>1 DEF Distinct
      <4> QED BY <4>2, <4>3
    <3> QED BY <3>2 DEF Distinct
  <2> QED BY <2>5, <2>9, <2>10 DEF p, q
<1>6. r = Rec(s.tab, s.kind, s.group, D, ds, s.fore, s.lay, s.layouts, s.memory, s.ghosts)
  BY <1>1, RecFresh DEF Opened, c
<1> HIDE DEF ds, D
<1>7. /\ r \in States /\ r.tab = s.tab /\ r.kind = s.kind /\ r.group = s.group /\ r.disp = D /\ r.displays = ds
      /\ r.fore = s.fore /\ r.lay = s.lay /\ r.layouts = s.layouts /\ r.memory = s.memory /\ r.ghosts = s.ghosts
  BY ONLY <1>2, <1>4, <1>5, <1>6 DEF Rec, States
<1>8. Lives(r) = L
  BY <1>7 DEF Lives
<1> HIDE DEF L, O
<1>9. Fine(r, L, L, O)
  <2>1. \A e \in Display : Sees(r.disp[e], L, O)
    BY <1>1, <1>3, <1>4, <1>7 DEF Fine
  <2> QED BY <1>1, <1>7, <2>1 DEF Fine
<1>10. Arranged(r)
  <2>1. \A e \in Display : e \notin ToSet(ds) => r.disp[e] = Blank
    BY <1>1, <1>4, <1>5, <1>7 DEF Arranged
  <2>2. \A e \in Display : r.disp[e].layout \in ToSet(s.layouts) \cup {NULL}
    BY <1>1, <1>3, <1>4, <1>7 DEF Arranged
  <2> QED BY <1>1, <1>5, <1>7, <2>1, <2>2 DEF Arranged
<1>11. \A e \in ToSet(r.displays) : Lit(r.disp[e])
  <2>1. \A e \in ToSet(s.displays) : e \in Display
    BY <1>2 DEF ToSet
  <2> QED BY <1>1, <1>3, <1>4, <1>5, <1>7, <2>1
<1>12. Sound(r)
  BY <1>1, <1>7, <1>8, <1>9, <1>10, <1>11 DEF Sound, Whole, L, O
<1> QED BY <1>5, <1>7, <1>12

LEMMA WithLayoutIs ==
  ASSUME NEW s, Sound(s), NEW d \in ToSet(s.displays), NEW r, r = WithLayout(s, d)
  PROVE  Sound(r) /\ Only(r, s) /\ Touched(r.tab, s.tab)
<1> DEFINE a == AttachLayout(s)
           l == LoadLayout(s, d, a)
           i == l.disp[d].focus
<1>1. a \in ToSet(s.layouts) \cup {NULL}
  BY DEF AttachLayout, Sound, Whole, Arranged
<1>2. r = IF a = NULL THEN s ELSE SetCanvasWindow(l, d, i, NULL)
  BY DEF WithLayout
<1> HIDE DEF a
<1>3. Sound(l) /\ Only(l, s) /\ Touched(l.tab, s.tab)
  BY <1>1, LoadIs
<1> HIDE DEF l, i
<1>4. d \in ToSet(l.displays)
  BY <1>3 DEF Only
<1> DEFINE x == SetCanvasWindow(l, d, i, NULL)
<1>5. Sound(x) /\ Only(x, l) /\ x.tab = l.tab
  <2>1. NULL \in Lives(l) \cup {NULL}
    OBVIOUS
  <2> HIDE DEF x
  <2>2. Sound(x) /\ Only(x, l) /\ Fronted(x.tab, l.tab, NULL)
    BY <1>3, <1>4, <2>1, SetCanvasSound DEF x
  <2> QED BY <2>2 DEF Fronted
<1>6. Only(x, s)
  BY <1>3, <1>5, OnlyTwice
<1> HIDE DEF x
<1>7. Only(s, s) /\ Touched(s.tab, s.tab)
  BY DEF Only, Touched
<1>8. r = s \/ r = x
  BY <1>2 DEF x
<1> QED BY <1>3, <1>5, <1>6, <1>7, <1>8

LEMMA RecalledIs ==
  ASSUME NEW s, Sound(s), NEW d \in ToSet(s.displays), NEW r, r = Recalled(s, d)
  PROVE  Sound(r) /\ Only(r, s) /\ r.fore \in Lives(s) \cup {NULL} /\ r.tab = s.tab
<1> DEFINE f == NumberedWindow(s.tab, s.memory.win)
           g == NumberedWindow(s.tab, s.memory.other)
           c == s.disp[d]
           o == IF s.memory.other < 0 THEN c.other ELSE g
           v == View(c.cvs, c.focus, c.fore, o, c.layout)
<1>1. /\ s \in States /\ Whole(s, s.ghosts) /\ d \in Display /\ Good(s.tab, Lives(s)) /\ Lives(s) \subseteq Win
      /\ Sees(c, Lives(s), Lives(s) \cup s.ghosts) /\ Lit(c)
  BY SoundFacts
<1>2. c \in Disps /\ s.memory.win \in Int /\ s.memory.other \in Int /\ s.ghosts \subseteq Win
  BY <1>1, StateFields DEF Memories
<1>3. f \in Lives(s) \cup {NULL} /\ g \in Lives(s) \cup {NULL}
  <2>1. ASSUME NEW n \in Int PROVE NumberedWindow(s.tab, n) \in Lives(s) \cup {NULL}
    BY <1>1, GetIs DEF NumberedWindow
  <2> QED BY <1>2, <2>1
<1> HIDE DEF g
<1>4. o \in Lives(s) \cup s.ghosts \cup {NULL} /\ o \in Win \cup {NULL}
  BY <1>1, <1>2, <1>3 DEF Sees
<1>5. r = [s EXCEPT !.fore = f, !.disp[d].other = o]
  BY DEF Recalled, g
<1> HIDE DEF f, o
<1>6. v \in Disps /\ v.cvs = c.cvs /\ v.focus = c.focus /\ v.fore = c.fore /\ v.other = o /\ v.layout = c.layout
  <2>1. /\ c.cvs \in Seq(Win \cup {NULL}) /\ c.focus \in Nat /\ c.fore \in Win \cup {NULL}
        /\ c.layout \in Layout \cup {NULL}
    BY <1>2 DEF Disps
  <2> HIDE DEF c
  <2> QED BY ONLY <1>4, <2>1 DEF View, Disps, v
<1>7. [c EXCEPT !.other = o] = v
  BY <1>2, ViewIs
<1>8. r = Redone(s, d, v, s.tab, f)
  <2> DEFINE y == [s EXCEPT !.fore = f]
  <2>1. [s EXCEPT !.fore = f, !.disp[d].other = o] = [y EXCEPT !.disp[d].other = o]
    OBVIOUS
  <2>2. y = With3(s, s.tab, s.disp, f)
    BY <1>1 DEF States, With3
  <2>3. s.disp \in [Display -> Disps] /\ s.tab \in Tabs
    BY <1>1, StateFields
  <2>4. f \in Win \cup {NULL}
    BY <1>1, <1>3
  <2> HIDE DEF y
  <2>5. y \in States /\ y.disp = s.disp /\ y.tab = s.tab /\ y.fore = f
    BY ONLY <1>1, <2>2, <2>3, <2>4, With3Is
  <2>6. [y EXCEPT !.disp[d].other = o] = [y EXCEPT !.disp = [y.disp EXCEPT ![d] = [y.disp[d] EXCEPT !.other = o]]]
    BY ONLY <1>1, <2>5 DEF States, Disps
  <2>7. [y.disp[d] EXCEPT !.other = o] = v
    BY <1>7, <2>5
  <2> HIDE DEF v, c
  <2>8. [y EXCEPT !.disp = [y.disp EXCEPT ![d] = v]] = Redone(y, d, v, y.tab, y.fore)
    BY <1>1, <2>5, SetIs
  <2>9. Redone(y, d, v, y.tab, y.fore) = Redone(s, d, v, s.tab, f)
    BY <2>2, <2>5 DEF Redone, With3
  <2> QED BY <1>5, <2>1, <2>6, <2>7, <2>8, <2>9
<1>9. Sees(v, Lives(s), Lives(s) \cup s.ghosts) /\ Lit(v) /\ v.layout \in ToSet(s.layouts) \cup {NULL}
  <2>1. c.layout \in ToSet(s.layouts) \cup {NULL}
    BY <1>1 DEF Whole, Arranged
  <2> QED BY <1>1, <1>4, <1>6, <2>1 DEF Sees, Lit
<1> HIDE DEF v, c
<1>10. f \in Lives(s) \cup s.ghosts \cup {NULL}
  BY <1>3
<1>11. Whole(r, s.ghosts) /\ Beside(r, s, d) /\ r.disp[d] = v /\ r.fore = f /\ r.tab = s.tab
  <2>1. May(v, f, s, s.ghosts)
    BY <1>6, <1>9, <1>10 DEF May
  <2> DEFINE G == s.ghosts
  <2>2. Whole(s, G) /\ May(v, f, s, G) /\ d \in ToSet(s.displays)
    BY <1>1, <2>1
  <2> HIDE DEF G, f
  <2>3. Given(r, s, G, d, v, f)
    BY <1>8, <2>2, RedoneWhole
  <2> QED BY <2>3 DEF G, Given
<1>12. Only(r, s) /\ \A e \in Display : e # d => r.disp[e] = s.disp[e]
  BY <1>11 DEF Beside
<1>13. r.ghosts = s.ghosts /\ \A e \in ToSet(r.displays) : e \in Display /\ Lit(r.disp[e])
  <2>1. r.ghosts = s.ghosts /\ r.displays = s.displays
    BY <1>12 DEF Only
  <2>2. \A e \in ToSet(s.displays) : e \in Display /\ Lit(s.disp[e])
    BY SoundFacts
  <2> QED BY <1>9, <1>11, <1>12, <2>1, <2>2
<1>14. Sound(r)
  BY <1>11, <1>13 DEF Sound
<1> QED BY <1>3, <1>11, <1>12, <1>14

LEMMA EnteredIs ==
  ASSUME NEW s, Sound(s), NEW d \in ToSet(s.displays), NEW w \in Lives(s) \cup {NULL}, NEW r, r = Entered(s, d, w)
  PROVE  Sound(r) /\ Only(r, s) /\ Touched(r.tab, s.tab)
<1>1. d \in Display
  BY SoundFacts
<1>2. CASE w = NULL
  <2>1. r = Activate(s, d)
    BY <1>2 DEF Entered
  <2>2. Sound(r) /\ Only(r, s) /\ r.tab = s.tab
    BY <1>1, <2>1, ActivateIs
  <2> QED BY <2>2 DEF Touched
<1>3. CASE w # NULL
  <2> DEFINE y == [s EXCEPT !.fore = w]
  <2>1. r = Activate(SetForeWindow(y, d, w), d)
    BY <1>3 DEF Entered
  <2>2. y = [s EXCEPT !.fore = w] /\ w \in Lives(s) \cup s.ghosts \cup {NULL}
    OBVIOUS
  <2> HIDE DEF y
  <2>3. Sound(y) /\ Only(y, s) /\ y.tab = s.tab
    BY <2>2, ForeIs
  <2>4. d \in ToSet(y.displays) \cup {NULL} /\ w \in Lives(y) \cup {NULL}
    BY <2>3, OnlyLives
  <2>5. Sound(r) /\ Only(r, y) /\ Fronted(r.tab, y.tab, w)
    BY <2>1, <2>3, <2>4, SetActive
  <2>6. w \in Win
    BY <1>3, SoundFacts
  <2> QED BY <2>3, <2>5, <2>6, OnlyTwice DEF Fronted, Touched
<1> QED BY <1>2, <1>3

LEMMA TouchedUses ==
  ASSUME NEW r, NEW s, Sound(r), Sound(s), Lives(r) = Lives(s), Touched(r.tab, s.tab)
  PROVE  Uses(r.tab, s.tab, Lives(s), 1)
<1>1. Good(r.tab, Lives(s)) /\ Good(s.tab, Lives(s))
  BY SoundFacts
<1> QED BY <1>1, UsesOne

\* A display that comes back uses the window of its layout and its own.
Returning == Live' = Live /\ Uses(tab', tab, Live, 2)

LEMMA FinishInvar ==
  ASSUME Invar, NEW d \in Display, FinishAttach(d)
  PROVE  Invar' /\ Returning
<1> DEFINE a == Fresh(State, d)
           b == WithLayout(a, d)
           s == Recalled(b, d)
           v == FindNiceWindow(s, d, s.fore)
<1>1. /\ Sound(State) /\ Groups(State) /\ d \in Display \ ToSet(State.displays)
      /\ State.kind = kind
  BY DEF Invar, State, FinishAttach
<1>2. \/ Becomes(Entered(s, d, v))
      \/ Becomes(Activate([s EXCEPT !.fore = NULL], d))
      \/ \E w \in Live : Becomes(Entered(s, d, w))
  BY DEF FinishAttach
<1>3. Sound(a) /\ a.kind = State.kind /\ a.group = State.group /\ d \in ToSet(a.displays) /\ a.tab = State.tab
  BY <1>1, FreshIs
<1>4. Groups(a) /\ Lives(a) = Live
  BY <1>1, <1>3, SameGroups DEF Lives, Live
<1> HIDE DEF a
<1>5. Sound(b) /\ Only(b, a) /\ Touched(b.tab, a.tab)
  BY <1>3, WithLayoutIs
<1> HIDE DEF b
<1>6. d \in ToSet(b.displays)
  BY <1>3, <1>5 DEF Only
<1>7. Sound(s) /\ Only(s, b) /\ s.fore \in Lives(b) \cup {NULL} /\ s.tab = b.tab
  BY <1>5, <1>6, RecalledIs
<1>8. Only(s, a) /\ Lives(s) = Live /\ Lives(b) = Live /\ d \in ToSet(s.displays)
  BY <1>3, <1>4, <1>5, <1>7, OnlyTwice, OnlyLives DEF Only
<1> HIDE DEF s
<1>9. v \in Lives(s) \cup {NULL}
  <2>1. s \in States /\ Good(s.tab, Lives(s)) /\ Lives(s) \subseteq Win
    BY <1>7, SoundFacts
  <2>2. s.fore \in Lives(s) \cup {NULL} /\ s.fore \in Win \cup {NULL}
    BY <1>7, <1>8, <2>1
  <2>3. Chosen(v, s, d, s.fore)
    BY <2>1, <2>2, NiceIs
  <2>4. ToSet(ByUse(s.tab)) = Lives(s)
    BY <2>1, GoodLists
  <2> QED BY <2>2, <2>3, <2>4 DEF Chosen
<1> HIDE DEF v
<1>10. ASSUME NEW r, Becomes(r), Sound(r), Only(r, s), Touched(r.tab, s.tab) PROVE Invar' /\ Returning
  <2>1. Only(r, a)
    BY <1>8, <1>10, OnlyTwice
  <2>2. Groups(r)
    BY <1>4, <2>1, OnlyGroups
  <2>3. State' = r
    BY <1>10, SoundFacts, BecomesIs
  <2>4. Uses(s.tab, tab, Live, 1)
    <3>1. Uses(b.tab, a.tab, Lives(a), 1)
      BY <1>3, <1>4, <1>5, <1>8, TouchedUses
    <3>2. a.tab = tab
      BY <1>3 DEF State
    <3> QED BY <1>4, <1>7, <3>1, <3>2
  <2>5. Lives(r) = Live
    BY <1>8, <1>10, OnlyLives
  <2>6. Uses(r.tab, s.tab, Live, 1)
    BY <1>7, <1>8, <1>10, <2>5, TouchedUses
  <2>7. Uses(r.tab, tab, Live, 1 + 1)
    BY <2>4, <2>6, UsesTwice
  <2>8. tab' = r.tab /\ Live' = Lives(r)
    BY <1>10, StepIs
  <2>9. Returning
    BY <2>5, <2>7, <2>8 DEF Returning
  <2> QED BY <1>10, <2>2, <2>3, <2>9 DEF Invar
<1>11. ASSUME NEW w \in Live \cup {NULL}, Becomes(Entered(s, d, w)) PROVE Invar' /\ Returning
  <2> DEFINE r == Entered(s, d, w)
  <2>1. Sound(r) /\ Only(r, s) /\ Touched(r.tab, s.tab)
    BY <1>7, <1>8, <1>11, EnteredIs
  <2> HIDE DEF r
  <2>2. Becomes(r)
    BY <1>11 DEF r
  <2> QED BY <1>10, <2>1, <2>2
<1>12. ASSUME Becomes(Activate([s EXCEPT !.fore = NULL], d)) PROVE Invar' /\ Returning
  <2> DEFINE y == [s EXCEPT !.fore = NULL]
             r == Activate(y, d)
  <2>1. NULL \in Lives(s) \cup s.ghosts \cup {NULL} /\ y = [s EXCEPT !.fore = NULL]
    OBVIOUS
  <2> HIDE DEF y
  <2>2. Sound(y) /\ Only(y, s) /\ y.tab = s.tab
    BY <1>7, <2>1, ForeIs
  <2>3. Sound(r) /\ Only(r, y) /\ r.tab = y.tab
    BY <2>2, ActivateIs
  <2>4. Becomes(r)
    BY <1>12 DEF y
  <2> HIDE DEF r
  <2>5. Touched(r.tab, s.tab)
    BY <2>2, <2>3 DEF Touched
  <2> QED BY <1>10, <2>2, <2>3, <2>4, <2>5, OnlyTwice
<1> QED BY <1>2, <1>8, <1>9, <1>11, <1>12

-----------------------------------------------------------------------------
(* The invariant of the specification                                      *)

LEMMA InitInvar ==
  ASSUME Init
  PROVE  Invar
<1>1. PICK first \in {<<>>} \cup {<<d>> : d \in Display} :
        /\ displays = first
        /\ disp = [d \in Display |->
              IF d \in ToSet(first) THEN [Blank EXCEPT !.cvs = <<NULL>>, !.focus = 1] ELSE Blank]
  BY DEF Init
<1>2. /\ tab = Nothing.tab /\ kind = Nothing.kind /\ group = Nothing.group /\ fore = NULL
      /\ lay = Nothing.lay /\ layouts = <<>> /\ memory = Nothing.memory /\ ghosts = {}
  BY DEF Init
<1>3. State = Rec(Nothing.tab, Nothing.kind, Nothing.group, disp, displays, NULL, Nothing.lay, <<>>, Nothing.memory, {})
  BY <1>2 DEF State, Rec
<1>4. /\ Nothing.disp = [d \in Display |-> Blank] /\ Nothing.displays = <<>> /\ Nothing.fore = NULL
      /\ Nothing.layouts = <<>> /\ Nothing.ghosts = {}
  BY DEF Nothing
<1>5. Sound(Nothing) /\ Groups(Nothing) /\ Nothing \in States
  BY NothingSound, SoundFacts
<1>6. CASE first = <<>>
  <2>1. disp = [d \in Display |-> Blank]
    BY <1>1, <1>6 DEF ToSet
  <2>2. disp = Nothing.disp /\ displays = Nothing.displays
    BY <1>1, <1>4, <1>6, <2>1
  <2>3. State = Nothing
    BY <1>3, <1>4, <1>5, <2>2, StateFields
  <2> QED BY <1>5, <2>3 DEF Invar
<1>7. CASE first # <<>>
  <2>1. PICK d \in Display : first = <<d>>
    BY <1>1, <1>7
  <2> DEFINE c == [Blank EXCEPT !.cvs = <<NULL>>, !.focus = 1]
             r == Fresh(Nothing, d)
  <2>2. ToSet(first) = {d}
    BY <2>1 DEF ToSet
  <2>3. r = [Nothing EXCEPT !.displays = <<d>> \o @, !.disp[d] = c]
    BY DEF Fresh
  <2>4. Opened(Nothing, d) = r
    BY <1>5, RecFresh
  <2>5. c = View(<<NULL>>, 1, NULL, NULL, NULL)
    <3> DEFINE q == <<NULL>>
               b == [Blank EXCEPT !.cvs = q]
    <3>1. c = [b EXCEPT !.focus = 1]
      OBVIOUS
    <3> HIDE DEF q
    <3>2. b = [cvs |-> q, focus |-> 0, fore |-> NULL, other |-> NULL, layout |-> NULL]
      BY DEF Blank
    <3> HIDE DEF b, c
    <3>3. c = [cvs |-> q, focus |-> 1, fore |-> NULL, other |-> NULL, layout |-> NULL]
      BY ONLY <3>1, <3>2
    <3> QED BY <3>3 DEF View, q
  <2> HIDE DEF c, r
  <2>6. disp = [Nothing.disp EXCEPT ![d] = c]
    <3>1. disp = [e \in Display |-> IF e = d THEN c ELSE Blank]
      BY <1>1, <2>2 DEF c
    <3> QED BY <1>4, <3>1
  <2>7. displays = <<d>> \o Nothing.displays
    BY <1>1, <1>4, <2>1
  <2>8. State = r
    BY <1>3, <1>4, <2>4, <2>5, <2>6, <2>7 DEF Opened
  <2>9. d \in Display \ ToSet(Nothing.displays)
    BY <1>4 DEF ToSet
  <2>10. Sound(r) /\ r.kind = Nothing.kind /\ r.group = Nothing.group
    BY <1>5, <2>9, FreshIs DEF r
  <2> QED BY <1>5, <2>8, <2>10, SameGroups DEF Invar
<1> QED BY <1>6, <1>7

LEMMA SureLive ==
  ASSUME Sure
  PROVE  Live' = Live
<1>1. Lives(State') = Lives(State)
  BY OnlyLives DEF Sure
<1>2. Lives(State') = Live'
  BY DEF Live, Lives, State
<1> QED BY <1>1, <1>2, LiveIs

\* Two windows have traded their numbers, and are the ones used last.
Trading == Live' = Live /\ \E w \in Live, n \in Int : tab.number[w] # n /\ Traded(tab', tab, Live, w, n)

\* Every window has got as its number how many windows had a lower one.
Closing ==
  /\ Live' = Live /\ ByUse(tab') = ByUse(tab)
  /\ \A w \in Live : tab'.number[w] = Cardinality({v \in Live : tab.number[v] < tab.number[w]})

\* The numbers were dealt out anew.
Dealing == Live' = Live /\ NumbersOf(tab', Live) = NumbersOf(tab, Live)

\* What a step can do to the lists of windows.
Moving ==
  \/ Resting \/ Returning \/ Killing \/ Trading \/ Closing \/ Dealing
  \/ \E p \in Win, n \in Nat : Newly(p, n)

LEMMA LightMoves ==
  ASSUME Invar, Light
  PROVE  Invar' /\ Moving
<1>1. Live' = Live /\ Invar'
  BY SureLive, SureInvar DEF Light, Invar
<1>2. Good(tab, Live)
  BY TabFacts DEF Invar
<1>3. Good(tab', Live)
  <2>1. Good(State'.tab, Lives(State'))
    BY SoundFacts DEF Light, Sure
  <2>2. State'.tab = tab' /\ Lives(State') = Live'
    BY DEF State, Live, Lives
  <2> QED BY <1>1, <2>1, <2>2
<1>4. Uses(tab', tab, Live, 1)
  BY <1>2, <1>3, UsesOne DEF Light
<1>5. Uses(tab', tab, Live, 2)
  BY <1>4, UsesMore
<1> QED BY <1>1, <1>5 DEF Returning, Moving

LEMMA ShowInvar ==
  ASSUME Invar, NEW d \in ToSet(displays) \cup {NULL}, NEW f \in Live \cup {NULL}, ShowCommand(d, f)
  PROVE  Invar' /\ Moving
<1>1. Sound(State) /\ Groups(State)
  BY DEF Invar
<1>2. CASE DoCommandScreen(d, f)
  BY <1>2, ScreenInvar DEF Moving
<1>3. CASE DoCommandKill(f)
  BY <1>3, CommandKillInvar DEF Moving
<1>4. CASE DoCommandNext(d, f) \/ DoCommandPrev(d, f) \/ DoCommandOther(d, f)
  BY <1>1, <1>4, NextSure, LightMoves
<1>5. CASE DoCommandParent(d, f)
  BY <1>5, ParentSure, LightMoves
<1>6. CASE DoCommandSelect(d, f)
  BY <1>1, <1>6, SelectSure, LightMoves
<1> QED BY <1>2, <1>3, <1>4, <1>5, <1>6 DEF ShowCommand

LEMMA NumberMoves ==
  ASSUME Invar, NEW f \in Live \cup {NULL}, DoCommandNumber(f) \/ DoCommandBump(f)
  PROVE  Invar' /\ Moving
<1>1. Sure /\ f # NULL /\ \E n \in Int : tab' = SwapWindows(tab, tab.number[f], n)
  BY NumberSure DEF Invar
<1>2. Live' = Live /\ Invar' /\ f \in Live /\ Good(tab, Live)
  BY <1>1, SureLive, SureInvar, TabFacts DEF Invar
<1>3. PICK n \in Int : tab' = SwapWindows(tab, tab.number[f], n)
  BY <1>1
<1> DEFINE old == tab.number[f]
           r == tab'
<1>4. r = SwapWindows(tab, old, n)
  BY <1>3
<1> HIDE DEF r
<1>5. (old = n => r = tab) /\ (old # n => Traded(r, tab, Live, f, n))
  BY <1>2, <1>4, SwapIs
<1>6. CASE old = n
  BY <1>2, <1>5, <1>6 DEF Moving, Resting, r
<1>7. CASE old # n
  BY <1>2, <1>5, <1>7 DEF Moving, Trading, r
<1> QED BY <1>6, <1>7

LEMMA ListInvar ==
  ASSUME ~Rings, Invar, NEW f \in Live \cup {NULL}, ListCommand(f)
  PROVE  Invar' /\ Moving
<1>1. Sound(State) /\ Groups(State) /\ Good(tab, Live)
  BY TabFacts DEF Invar
<1>2. CASE DoCommandNumber(f) \/ DoCommandBump(f)
  BY <1>2, NumberMoves
<1>3. CASE CollapseWindowlist(f)
  <2>1. /\ Sure /\ ByUse(tab') = ByUse(tab)
        /\ \A w \in Live : tab'.number[w] = Place(ByNumber(tab), w) - 1
    BY <1>1, <1>3, CollapseSure
  <2>2. Closing
    BY <1>1, <2>1, SureLive, RankIs DEF Closing
  <2> QED BY <1>1, <2>1, <2>2, SureInvar DEF Moving
<1>4. CASE DoCommandSort(f)
  <2>1. Sure /\ NumbersOf(tab', Live) = NumbersOf(tab, Live)
    BY <1>1, <1>4, SortSure
  <2>2. Dealing
    BY <2>1, SureLive DEF Dealing
  <2> QED BY <1>1, <2>1, <2>2, SureInvar DEF Moving
<1>5. CASE DoCommandGroup(f)
  BY <1>5, GroupSure DEF Moving
<1> QED BY <1>2, <1>3, <1>4, <1>5 DEF ListCommand

LEMMA NextInvar ==
  ASSUME ~Rings, Invar, [Next]_vars
  PROVE  Invar' /\ Moving
<1>1. Sound(State) /\ Groups(State)
  BY DEF Invar
<1>2. CASE UNCHANGED vars
  <2>1. State' = State
    BY <1>2 DEF vars, State
  <2>2. Resting
    BY <1>2 DEF vars, Resting, Live
  <2> QED BY <1>1, <2>1, <2>2 DEF Invar, Moving
<1>3. CASE Event
  <2>1. ASSUME NEW w \in Win, WindowDied(w) \/ RemakeWindow(w) \/ DestroyZombie(w) PROVE Invar' /\ Moving
    BY <2>1, DiedInvar DEF Moving
  <2>2. ASSUME NEW d \in Display, Detach(d) PROVE Invar' /\ Moving
    BY <2>2, DetachInvar DEF Moving
  <2>3. ASSUME NEW d \in Display, FinishAttach(d) PROVE Invar' /\ Moving
    BY <2>3, FinishInvar DEF Moving
  <2> QED BY <1>3, <2>1, <2>2, <2>3 DEF Event
<1>4. ASSUME NEW c \in Keys \cup Remote,
             ShowCommand(c[1], c[2]) \/ ListCommand(c[2]) \/ DoCommandLayout(c[1], c[2])
      PROVE  Invar' /\ Moving
  <2>1. c[1] \in ToSet(displays) \cup {NULL} /\ c[2] \in Live \cup {NULL}
    BY <1>1, ContextIs
  <2>2. CASE ShowCommand(c[1], c[2])
    BY <2>1, <2>2, ShowInvar
  <2>3. CASE ListCommand(c[2])
    BY <2>1, <2>3, ListInvar
  <2>4. CASE DoCommandLayout(c[1], c[2])
    BY <1>1, <2>1, <2>4, LayoutSure, LightMoves
  <2> QED BY <1>4, <2>2, <2>3, <2>4
<1>5. ASSUME NEW c \in Keys \cup Remote, c[1] # NULL, RegionCommand(c[1], c[2])
      PROVE  Invar' /\ Moving
  <2>1. c[1] \in ToSet(displays) /\ c[2] \in Live \cup {NULL}
    BY <1>1, <1>5, ContextIs
  <2>2. Sure /\ tab' = tab
    BY <1>1, <1>5, <2>1, RegionCommandSure
  <2>3. Resting
    BY <2>2, SureLive DEF Resting
  <2> QED BY <1>1, <2>2, <2>3, SureInvar DEF Moving
<1> QED BY <1>2, <1>3, <1>4, <1>5 DEF Next

\* The lists, the displays, the groups and the layouts are sound whatever happens,
\* as long as no group is put into one of its own windows.
THEOREM Invariance ==
  ASSUME ~Rings
  PROVE  Spec => []Invar
<1>1. Init => Invar
  BY InitInvar
<1>2. Invar /\ [Next]_vars => Invar'
  BY NextInvar
<1> QED BY <1>1, <1>2, PTL DEF Spec

-----------------------------------------------------------------------------
(* The properties                                                          *)

LEMMA InvarLists == Invar => ListsAgree
<1> SUFFICES ASSUME Invar PROVE ListsAgree
  OBVIOUS
<1>1. Good(tab, Live)
  BY TabFacts DEF Invar
<1>2. /\ ToSet(ByUse(tab)) = Live /\ ToSet(ByNumber(tab)) = Live /\ Rising(tab, ByNumber(tab))
      /\ Backwards(tab) = Reverse(ByNumber(tab)) /\ Len(ByUse(tab)) = Cardinality(Live)
  BY <1>1, GoodLists
<1> QED BY <1>2 DEF Rising, ListsAgree

\* Both lists hold the windows that live, each of them once; the one by number is
\* in order and reads the same in both directions, whatever MakeWindow, KillWindow,
\* SwapWindows and the commands number, collapse and sort relink by hand.
THEOREM ListsStayWhole ==
  ASSUME ~Rings
  PROVE  Spec => []ListsAgree
  BY Invariance, InvarLists, PTL

LEMMA InvarDangling == Invar => NoDangling
<1> SUFFICES ASSUME Invar PROVE NoDangling
  OBVIOUS
<1>1. Sound(State) /\ Groups(State) /\ Lives(State) = Live
  BY LiveIs DEF Invar
<1>2. /\ State.disp = disp /\ State.lay = lay /\ State.group = group /\ State.kind = kind
      /\ State.ghosts = ghosts
  BY DEF State
<1>3. Fine(State, Live, Live, Live \cup ghosts)
  BY <1>1, <1>2 DEF Sound, Whole
<1>4. \A d \in Display : Sees(disp[d], Live, Live \cup ghosts)
  BY <1>2, <1>3 DEF Fine
<1>5. \A l \in Layout : ToSet(lay[l].cvs) \subseteq Live \cup {NULL}
  BY <1>2, <1>3 DEF Fine
<1>6. \A w \in Live : group[w] # NULL => group[w] \in Live /\ kind[group[w]] = "group"
  BY <1>1, <1>2 DEF Groups
<1> QED BY <1>4, <1>5, <1>6 DEF NoDangling, Sees

\* After FreeWindow no region, group or saved layout has the window, and a display
\* remembers one that was freed only if a command of screen -X left it in fore.
THEOREM NothingDangles ==
  ASSUME ~Rings
  PROVE  Spec => []NoDangling
  BY Invariance, InvarDangling, PTL

LEMMA InvarFore == Invar => ForeShown
<1> SUFFICES ASSUME Invar PROVE ForeShown
  OBVIOUS
<1>1. \A d \in ToSet(displays) : Lit(disp[d])
  BY DEF Invar, Sound, State
<1> QED BY <1>1 DEF ForeShown, Lit, ToSet

\* D_fore, the window that gets the keys of a display, is the one its region in
\* focus shows, whatever SetCanvasWindow, KillWindow and LoadLayout put there.
THEOREM KeysGoToFocus ==
  ASSUME ~Rings
  PROVE  Spec => []ForeShown
  BY Invariance, InvarFore, PTL

-----------------------------------------------------------------------------
(* What Windows promises: WindowList                                       *)

LEMMA ToSetSame == \A q : List!ToSet(q) = ToSet(q)
  BY DEF List!ToSet, ToSet

LEMMA CardinalitySame == \A P : List!Cardinality(P) = Cardinality(P)
  BY DEF List!Cardinality, Cardinality

LEMMA InjectiveSame == \A q : List!IsInjective(q) <=> Distinct(q)
  BY DEF List!IsInjective, Distinct

LEMMA PromotedSame ==
  ASSUME NEW u, NEW v, NEW P
  PROVE  List!Promoted(u, v, P) <=> Raised(u, v, P)
<1>1. List!ToSet(v) = ToSet(v)
  BY ToSetSame
<1>2. \A q, x, y : List!Ahead(q, x, y) <=> Ahead(q, x, y)
  BY DEF List!Ahead, Ahead
<1> QED BY <1>1, <1>2 DEF List!Promoted, Raised

\* A table t of the windows S, as WindowList sees it.
Rows(t, S) == [num |-> [w \in S |-> t.number[w]], used |-> ByUse(t)]

LEMMA RankedRows ==
  ASSUME NEW t, NEW S, Good(t, S)
  PROVE  List!Ranked(Rows(t, S))
<1>1. Distinct(ByUse(t)) /\ ToSet(ByUse(t)) = S
  BY GoodLists
<1>2. List!IsInjective(ByUse(t)) /\ List!ToSet(ByUse(t)) = S
  BY <1>1, InjectiveSame, ToSetSame
<1> QED BY <1>2 DEF List!Ranked, Rows

LEMMA PromotedRows ==
  ASSUME NEW r, NEW t, NEW S, Good(r, S), NEW n, NEW P \in SUBSET S, Cardinality(P) <= n,
         Raised(ByUse(t), ByUse(r), P)
  PROVE  List!SomePromoted(ByUse(t), ByUse(r), n)
<1>1. P \in SUBSET List!ToSet(ByUse(r))
  BY GoodLists, ToSetSame
<1>2. List!Cardinality(P) <= n
  BY CardinalitySame
<1>3. List!Promoted(ByUse(t), ByUse(r), P)
  BY PromotedSame
<1> QED BY <1>1, <1>2, <1>3 DEF List!SomePromoted

LEMMA UseRows ==
  ASSUME NEW r, NEW t, NEW S, Uses(r, t, S, 2)
  PROVE  List!Use(Rows(t, S), Rows(r, S))
<1>1. r.number = t.number /\ Good(r, S)
  BY DEF Uses
<1>2. PICK P \in SUBSET S : Cardinality(P) <= 2 /\ Raised(ByUse(t), ByUse(r), P)
  BY DEF Uses
<1>3. List!SomePromoted(ByUse(t), ByUse(r), 2)
  BY <1>1, <1>2, PromotedRows
<1> QED BY <1>1, <1>3 DEF List!Use, Rows

LEMMA AheadOfAll ==
  ASSUME NEW q \in Seq(Win), NEW p \in Win
  PROVE  Insert(q, 1, p) = <<p>> \o q
<1> DEFINE v == <<p>> \o q
           n == Len(q)
<1>1. n \in Nat /\ v \in Seq(Win) /\ Len(v) = n + 1 /\ DOMAIN v = 1..(n + 1)
  OBVIOUS
<1>2. \A i \in 1..(n + 1) : v[i] = IF i = 1 THEN p ELSE q[i - 1]
  <2>1. \A i \in 1..(n + 1) : v[i] = IF i <= 1 THEN <<p>>[i] ELSE q[i - 1]
    OBVIOUS
  <2> QED BY <1>1, <2>1
<1>3. v = [i \in 1..(n + 1) |-> v[i]]
  BY <1>1
<1> HIDE DEF v, n
<1>4. \A i \in 1..(n + 1) : v[i] = IF i < 1 THEN q[i] ELSE IF i = 1 THEN p ELSE q[i - 1]
  BY <1>1, <1>2
<1>5. v = [i \in 1..(n + 1) |-> IF i < 1 THEN q[i] ELSE IF i = 1 THEN p ELSE q[i - 1]]
  BY <1>3, <1>4
<1>6. Insert(q, 1, p) = [i \in 1..(n + 1) |-> IF i < 1 THEN q[i] ELSE IF i = 1 THEN p ELSE q[i - 1]]
  BY DEF Insert, n
<1> QED BY <1>5, <1>6 DEF v

LEMMA CreateRows ==
  ASSUME NEW t, NEW S, Good(t, S), NEW p \in Win \ S, NEW n \in Nat, \A v \in S : t.number[v] # n,
         NEW r, r.number = [t.number EXCEPT ![p] = n], ByUse(r) = Insert(ByUse(t), 1, p)
  PROVE  List!Create(Rows(t, S), Rows(r, S \cup {p}), p)
<1> DEFINE l == Rows(t, S)
           m == Rows(r, S \cup {p})
<1>1. t \in Tabs /\ S \subseteq Win /\ ByUse(t) \in Seq(Win)
  BY GoodLists
<1>2. t.number \in [Win -> Int]
  BY <1>1 DEF Tabs
<1>3. /\ l.num = [w \in S |-> t.number[w]] /\ l.used = ByUse(t)
      /\ m.num = [w \in S \cup {p} |-> r.number[w]] /\ m.used = ByUse(r)
  BY DEF Rows
<1>4. DOMAIN l.num = S /\ DOMAIN m.num = S \cup {p}
  BY <1>3
<1>5. m.used = <<p>> \o l.used
  BY <1>1, <1>3, AheadOfAll
<1>6. ASSUME NEW v \in S PROVE m.num[v] = l.num[v] /\ m.num[v] # m.num[p]
  <2>1. r.number[v] = t.number[v] /\ r.number[p] = n
    BY <1>1, <1>2
  <2> QED BY <1>3, <2>1
<1> HIDE DEF l, m
<1>7. List!Create(l, m, p)
  BY <1>4, <1>5, <1>6 DEF List!Create
<1> QED BY <1>7 DEF l, m

LEMMA DeleteRows ==
  ASSUME NEW r, NEW t, NEW S, NEW w, Parted(r, t, S, w)
  PROVE  List!Delete(Rows(t, S), Rows(r, S \ {w}), w)
<1>1. Good(r, S \ {w}) /\ \A v \in S \ {w} : r.number[v] = t.number[v]
  BY DEF Parted
<1>2. PICK P \in SUBSET (S \ {w}) : Cardinality(P) <= Cardinality(Display) /\ Raised(ByUse(t), ByUse(r), P)
  BY DEF Parted
<1>3. List!SomePromoted(ByUse(t), ByUse(r), Cardinality(Display))
  BY <1>1, <1>2, PromotedRows
<1> DEFINE l == Rows(t, S)
           m == Rows(r, S \ {w})
<1>4. /\ l.num = [v \in S |-> t.number[v]] /\ l.used = ByUse(t)
      /\ m.num = [v \in S \ {w} |-> r.number[v]] /\ m.used = ByUse(r)
  BY DEF Rows
<1>5. m.num = [v \in (DOMAIN l.num) \ {w} |-> l.num[v]]
  BY <1>1, <1>4
<1> HIDE DEF l, m
<1>6. List!Delete(l, m, w)
  BY <1>3, <1>4, <1>5 DEF List!Delete
<1> QED BY <1>6 DEF l, m

LEMMA ExchangeRows ==
  ASSUME NEW r, NEW t, NEW S, NEW w \in S, NEW n, Traded(r, t, S, w, n)
  PROVE  List!Exchange(Rows(t, S), Rows(r, S), w)
<1> DEFINE l == Rows(t, S)
           m == Rows(r, S)
           P == {v \in S : v = w \/ t.number[v] = n}
<1>1. /\ \A v \in S : r.number[v] = IF v = w THEN n ELSE IF t.number[v] = n THEN t.number[w] ELSE t.number[v]
      /\ Raised(ByUse(t), ByUse(r), P)
  BY DEF Traded
<1>2. /\ l.num = [v \in S |-> t.number[v]] /\ l.used = ByUse(t)
      /\ m.num = [v \in S |-> r.number[v]] /\ m.used = ByUse(r)
  BY DEF Rows
<1>3. m.num[w] = n /\ DOMAIN l.num = S
  BY <1>1, <1>2
<1>4. List!Promoted(l.used, m.used, P)
  BY <1>1, <1>2, PromotedSame
<1>5. P = {v \in DOMAIN l.num : v = w \/ l.num[v] = n}
  BY <1>2
<1>6. m.num = [v \in DOMAIN l.num |-> IF v = w THEN n ELSE IF l.num[v] = n THEN l.num[w] ELSE l.num[v]]
  BY <1>1, <1>2
<1> HIDE DEF l, m, P
<1>7. List!Exchange(l, m, w)
  BY <1>3, <1>4, <1>5, <1>6 DEF List!Exchange
<1> QED BY <1>7 DEF l, m

LEMMA ClosedRows ==
  ASSUME NEW r, NEW t, NEW S, ByUse(r) = ByUse(t),
         \A w \in S : r.number[w] = Cardinality({v \in S : t.number[v] < t.number[w]})
  PROVE  List!Closed(Rows(t, S), Rows(r, S))
<1> DEFINE l == Rows(t, S)
           m == Rows(r, S)
<1>1. /\ l.num = [v \in S |-> t.number[v]] /\ l.used = ByUse(t)
      /\ m.num = [v \in S |-> r.number[v]] /\ m.used = ByUse(r)
  BY DEF Rows
<1>2. ASSUME NEW w \in S
      PROVE  r.number[w] = List!Cardinality({v \in DOMAIN l.num : l.num[v] < l.num[w]})
  <2>1. {v \in DOMAIN l.num : l.num[v] < l.num[w]} = {v \in S : t.number[v] < t.number[w]}
    BY <1>1
  <2> QED BY <2>1, CardinalitySame
<1>3. m.num = [w \in DOMAIN l.num |-> List!Cardinality({v \in DOMAIN l.num : l.num[v] < l.num[w]})]
  <2>1. DOMAIN l.num = S
    BY <1>1
  <2> HIDE DEF l
  <2> QED BY <1>1, <1>2, <2>1
<1> HIDE DEF l, m
<1>4. List!Closed(l, m)
  BY <1>1, <1>3 DEF List!Closed
<1> QED BY <1>4 DEF l, m

LEMMA SortedRows ==
  ASSUME NEW r, NEW t, NEW S, NumbersOf(r, S) = NumbersOf(t, S)
  PROVE  List!Sorted(Rows(t, S), Rows(r, S))
<1>1. {r.number[w] : w \in S} = {t.number[w] : w \in S}
  BY DEF NumbersOf
<1> DEFINE l == Rows(t, S)
           m == Rows(r, S)
<1>2. l.num = [v \in S |-> t.number[v]] /\ m.num = [v \in S |-> r.number[v]]
  BY DEF Rows
<1>3. DOMAIN l.num = S
  BY <1>2
<1>4. {m.num[w] : w \in S} = {r.number[w] : w \in S} /\ {l.num[w] : w \in S} = {t.number[w] : w \in S}
  BY <1>2
<1> HIDE DEF l, m
<1>5. List!Sorted(l, m)
  BY <1>1, <1>3, <1>4 DEF List!Sorted
<1> QED BY <1>5 DEF l, m

\* What WindowList allows of a step from l to m.
Allowed(l, m) ==
  \/ List!Use(l, m)
  \/ \E w \in Win : List!Create(l, m, w)
  \/ \E w \in DOMAIN l.num : List!Delete(l, m, w)
  \/ List!Renumber(l, m)

LEMMA MovesRows ==
  ASSUME Invar, Moving
  PROVE  \/ Rows(tab', Live') = Rows(tab, Live)
         \/ Allowed(Rows(tab, Live), Rows(tab', Live'))
<1> DEFINE l == Rows(tab, Live)
           m == Rows(tab', Live')
<1>1. Good(tab, Live)
  BY TabFacts DEF Invar
<1>2. DOMAIN l.num = Live /\ DOMAIN m.num = Live'
  BY DEF Rows
<1>3. CASE Resting
  BY <1>3 DEF Resting
<1>4. CASE Returning
  BY <1>4, UseRows DEF Returning, Allowed
<1>5. CASE Killing
  <2>1. PICK w \in Live : Live' = Live \ {w} /\ Parted(tab', tab, Live, w)
    BY <1>5 DEF Killing
  <2>2. List!Delete(l, m, w)
    BY <2>1, DeleteRows
  <2> HIDE DEF l, m
  <2>3. Allowed(l, m)
    BY <1>2, <2>2 DEF Allowed
  <2> QED BY <2>3 DEF l, m
<1>6. CASE Trading
  <2>1. PICK w \in Live, n \in Int : Traded(tab', tab, Live, w, n)
    BY <1>6 DEF Trading
  <2>2. Live' = Live
    BY <1>6 DEF Trading
  <2>3. List!Exchange(l, m, w)
    BY <2>1, <2>2, ExchangeRows
  <2> HIDE DEF l, m
  <2>4. Allowed(l, m)
    BY <1>2, <2>2, <2>3 DEF Allowed, List!Renumber
  <2> QED BY <2>4 DEF l, m
<1>7. CASE Closing
  <2>1. Live' = Live /\ ByUse(tab') = ByUse(tab)
        /\ \A w \in Live : tab'.number[w] = Cardinality({v \in Live : tab.number[v] < tab.number[w]})
    BY <1>7 DEF Closing
  <2>2. List!Closed(l, m)
    BY <2>1, ClosedRows
  <2> HIDE DEF l, m
  <2>3. Allowed(l, m)
    BY <1>2, <2>1, <2>2 DEF Allowed, List!Renumber
  <2> QED BY <2>3 DEF l, m
<1>8. CASE Dealing
  <2>1. Live' = Live /\ NumbersOf(tab', Live) = NumbersOf(tab, Live)
    BY <1>8 DEF Dealing
  <2>2. List!Sorted(l, m)
    BY <2>1, SortedRows
  <2> HIDE DEF l, m
  <2>3. Allowed(l, m)
    BY <1>2, <2>1, <2>2 DEF Allowed, List!Renumber
  <2> QED BY <2>3 DEF l, m
<1>9. CASE \E p \in Win, n \in Nat : Newly(p, n)
  <2>1. PICK p \in Win, n \in Nat : Newly(p, n)
    BY <1>9
  <2>2. /\ p \in Win \ Live /\ Live' = Live \cup {p} /\ \A w \in Live : tab.number[w] # n
        /\ tab'.number = [tab.number EXCEPT ![p] = n] /\ ByUse(tab') = Insert(ByUse(tab), 1, p)
    BY <2>1 DEF Newly
  <2>3. List!Create(l, m, p)
    BY <1>1, <2>2, CreateRows
  <2> HIDE DEF l, m
  <2>4. Allowed(l, m)
    BY <2>3 DEF Allowed
  <2> QED BY <2>4 DEF l, m
<1> QED BY <1>3, <1>4, <1>5, <1>6, <1>7, <1>8, <1>9 DEF Moving

LEMMA InitList ==
  ASSUME Init
  PROVE  List!ListInit
<1>1. tab = Nothing.tab /\ kind = Nothing.kind
  BY DEF Init
<1>2. Live = {}
  BY <1>1 DEF Live, Nothing
<1>3. Good(tab, Live)
  BY InitInvar, TabFacts DEF Invar
<1>4. ByUse(tab) = <<>>
  <2>1. ByUse(tab) \in Seq(Win) /\ Len(ByUse(tab)) = Cardinality({})
    BY <1>2, <1>3, GoodLists
  <2>2. Len(ByUse(tab)) = 0
    BY <2>1, FS_EmptySet
  <2> QED BY <2>1, <2>2
<1>5. [w \in Live |-> tab.number[w]] = [w \in {} |-> 0]
  BY <1>2
<1> QED BY <1>4, <1>5 DEF List!ListInit

LEMMA StepList ==
  ASSUME Invar, Invar', Moving
  PROVE  [List!ListNext]_(List!lvars)
<1> DEFINE l == Rows(tab, Live)
           m == Rows(tab', Live')
<1>1. /\ l = [num |-> [w \in Live |-> tab.number[w]], used |-> ByUse(tab)]
      /\ m = [num |-> [w \in Live |-> tab.number[w]]', used |-> ByUse(tab)']
  BY DEF Rows
<1>2. CASE m = l
  <2>1. m.num = l.num /\ m.used = l.used
    BY <1>2
  <2>2. [w \in Live |-> tab.number[w]]' = [w \in Live |-> tab.number[w]] /\ ByUse(tab)' = ByUse(tab)
    BY <2>1 DEF Rows
  <2> QED BY <2>2 DEF List!lvars
<1>3. CASE Allowed(l, m)
  <2>1. Good(tab', Live')
    <3>1. Sound(State')
      BY DEF Invar
    <3>2. Good(State'.tab, Lives(State'))
      BY <3>1, SoundFacts
    <3>3. State'.tab = tab' /\ Lives(State') = Live'
      BY DEF State, Live, Lives
    <3> QED BY <3>2, <3>3
  <2>2. List!Ranked(m)
    BY <2>1, RankedRows
  <2> HIDE DEF l, m
  <2>3. List!ListNext
    BY <1>1, <1>3, <2>2 DEF List!ListNext, Allowed
  <2> QED BY <2>3
<1> QED BY <1>2, <1>3, MovesRows

\* Windows implements WindowList: for any number of windows and displays, what
\* SetCanvasWindow, MakeWindow, KillWindow, SwapWindows and the commands number,
\* collapse and sort do to the two linked lists is to use, make, kill or renumber
\* windows, and everything else leaves the lists alone.
THEOREM Refines ==
  ASSUME ~Rings
  PROVE  Spec => Implements
<1>1. Init => Invar /\ List!ListInit
  BY InitInvar, InitList
<1>2. Invar /\ [Next]_vars => Invar' /\ [List!ListNext]_(List!lvars)
  BY NextInvar, StepList
<1> QED BY <1>1, <1>2, PTL DEF Spec, Implements, List!ListSpec

===============================================================================
