---------------------------- MODULE ScreenProofs -----------------------------
(***************************************************************************)
(* What holds of the memory of a window of any size.                       *)
(***************************************************************************)
EXTENDS Screen, FiniteSetTheorems, SequenceTheorems, NaturalsInduction, WellFoundedInduction, TLAPS

USE ScreenAssumption

-----------------------------------------------------------------------------
(* Numbers                                                                 *)

Below == {p \in Nat \X Nat : p[1] < p[2]}

\* A set of numbers that is not empty has a least one.
LEMMA Smallest ==
  ASSUME NEW S \in SUBSET Nat, S # {}
  PROVE  \E x \in S : \A y \in S : x <= y
<1>1. IsWellFoundedOn(Below, Nat)
  BY NatLessThanWellFounded DEF OpToRel, Below
<1>2. \E x \in S : \A y \in S : ~(<<y, x>> \in Below)
  <2>1. S \subseteq Nat
    OBVIOUS
  <2> QED BY <1>1, <2>1, WFMin, Zenon
<1>3. PICK x \in S : \A y \in S : ~(<<y, x>> \in Below)
  BY <1>2
<1>4. ASSUME NEW y \in S PROVE x <= y
  <2>1. y < x => <<y, x>> \in Below
    BY DEF Below
  <2> QED BY <1>3, <2>1
<1> QED BY <1>4

\* The least number of a set.
LEMMA MinIs ==
  ASSUME NEW S \in SUBSET Nat, S # {}
  PROVE  Min(S) \in S /\ \A y \in S : Min(S) <= y
  BY Smallest DEF Min

\* The greatest number of a set that has a bound.
LEMMA MaxIs ==
  ASSUME NEW S \in SUBSET Int, S # {}, NEW b \in Int, \A y \in S : y <= b
  PROVE  Max(S) \in S /\ \A y \in S : y <= Max(S)
<1> DEFINE T == {b - y : y \in S}
<1>1. T \in SUBSET Nat /\ T # {}
  <2>1. \A y \in S : y \in Int /\ b - y \in Nat
    OBVIOUS
  <2>2. PICK y \in S : TRUE
    OBVIOUS
  <2>3. b - y \in T
    OBVIOUS
  <2> QED BY <2>1, <2>3
<1>2. PICK t \in T : \A u \in T : t <= u
  BY ONLY <1>1, Smallest
<1>3. PICK x \in S : t = b - x
  BY <1>2
<1>4. \A y \in S : x >= y
  <2>1. \A y \in S : b - y \in T
    OBVIOUS
  <2> HIDE DEF T
  <2> QED BY <1>2, <1>3, <2>1
<1>5. \E z \in S : \A y \in S : z >= y
  BY <1>4
<1>6. Max(S) \in S /\ \A y \in S : Max(S) >= y
  BY <1>5 DEF Max
<1> QED BY <1>6

\* What holds of 0, and of the number after each it holds of, holds up to n.
LEMMA UpTo ==
  ASSUME NEW n \in Nat, NEW G \in SUBSET (0..n), 0 \in G,
         \A i \in 0..(n - 1) : i \in G => i + 1 \in G
  PROVE  G = 0..n
<1> SUFFICES ASSUME G # 0..n PROVE FALSE
  OBVIOUS
<1>1. PICK x \in (0..n) \ G : \A y \in (0..n) \ G : x <= y
  <2>1. PICK y \in 0..n : y \notin G
    OBVIOUS
  <2>2. (0..n) \ G \in SUBSET Nat /\ (0..n) \ G # {}
    BY <2>1
  <2> QED BY <2>2, Smallest
<1>2. x # 0 /\ x - 1 \in 0..(n - 1)
  BY <1>1
<1>3. x - 1 \in G
  BY <1>1, <1>2
<1> QED BY <1>1, <1>2, <1>3

LEMMA DivNat ==
  ASSUME NEW a \in Nat, NEW b \in Nat \ {0}
  PROVE  a \div b \in Nat /\ a % b \in 0..(b - 1)
  OBVIOUS

-----------------------------------------------------------------------------
(* Lines, and sequences of lines                                           *)

IsLine(l, width) == l = [j \in 1..(width + 1) |-> l[j]]
IsRows(s, n, width) == s = [i \in 1..n |-> s[i]] /\ \A i \in 1..n : IsLine(s[i], width)

LEMMA LineLength == ASSUME NEW width \in Nat, NEW l, IsLine(l, width) PROVE Len(l) = width + 1
<1> DEFINE S == {l[j] : j \in 1..(width + 1)}
<1>1. l \in [1..(width + 1) -> S]
  BY DEF IsLine
<1> HIDE DEF S
<1> QED BY <1>1

LEMMA RowsAre ==
  ASSUME NEW n \in Nat, NEW width, NEW s, IsRows(s, n, width), NEW S, \A i \in 1..n : s[i] \in S
  PROVE  s \in Seq(S) /\ Len(s) = n
<1>1. s \in [1..n -> S]
  BY DEF IsRows
<1> QED BY <1>1

LEMMA RowsLength == ASSUME NEW n \in Nat, NEW width, NEW s, IsRows(s, n, width) PROVE Len(s) = n
<1> DEFINE S == {s[i] : i \in 1..n}
<1>1. \A i \in 1..n : s[i] \in S
  OBVIOUS
<1> HIDE DEF S
<1> QED BY <1>1, RowsAre

\* A sequence of lines is what its length and its lines are.
LEMMA RowsIntro ==
  ASSUME NEW n \in Nat, NEW width, NEW S, NEW s \in Seq(S), Len(s) = n, \A i \in 1..n : IsLine(s[i], width)
  PROVE  IsRows(s, n, width)
  BY LenProperties DEF IsRows

LEMMA RowsEqual ==
  ASSUME NEW n, NEW width, NEW s, NEW t, IsRows(s, n, width), IsRows(t, n, width), \A i \in 1..n : s[i] = t[i]
  PROVE  s = t
<1>1. s = [i \in 1..n |-> s[i]] /\ t = [i \in 1..n |-> t[i]]
  BY DEF IsRows
<1>2. [i \in 1..n |-> s[i]] = [i \in 1..n |-> t[i]]
  OBVIOUS
<1> QED BY ONLY <1>1, <1>2, Zenon

\* t is k elements of s behind the first a; u is s and then t.
Piece(t, s, a, k) == \A i \in 1..k : t[i] = s[a + i]
Chain(u, s, m, t, k) == \A i \in 1..k : u[i] = IF i <= m THEN s[i] ELSE t[i - m]

\* Rows behind rows.
LEMMA RowsJoined ==
  ASSUME NEW width, NEW m \in Nat, NEW s, IsRows(s, m, width), NEW n \in Nat, NEW t, IsRows(t, n, width),
         NEW k, k = m + n
  PROVE  IsRows(s \o t, k, width) /\ Chain(s \o t, s, m, t, k)
<1> DEFINE S == {s[i] : i \in 1..m} \cup {t[i] : i \in 1..n}
<1>1. (\A i \in 1..m : s[i] \in S) /\ \A i \in 1..n : t[i] \in S
  OBVIOUS
<1> HIDE DEF S
<1>2. s \in Seq(S) /\ Len(s) = m /\ t \in Seq(S) /\ Len(t) = n
  BY <1>1, RowsAre
<1>3. /\ s \o t \in Seq(S) /\ Len(s \o t) = k
      /\ \A i \in 1..k : (s \o t)[i] = IF i <= m THEN s[i] ELSE t[i - m]
  <2>1. /\ s \o t \in Seq(S) /\ Len(s \o t) = Len(s) + Len(t)
        /\ \A i \in 1..(Len(s) + Len(t)) : (s \o t)[i] = IF i <= Len(s) THEN s[i] ELSE t[i - Len(s)]
    BY ONLY <1>2, ConcatProperties
  <2> QED BY <1>2, <2>1
<1>4. \A i \in 1..k : IsLine((s \o t)[i], width)
  <2> TAKE i \in 1..k
  <2>1. CASE i <= m
    BY <1>3, <2>1 DEF IsRows
  <2>2. CASE ~(i <= m)
    <3>1. i - m \in 1..n /\ (s \o t)[i] = t[i - m]
      BY <1>3, <2>2
    <3> QED BY <3>1 DEF IsRows
  <2> QED BY <2>1, <2>2
<1>5. k \in Nat
  OBVIOUS
<1>6. IsRows(s \o t, k, width)
  BY ONLY <1>3, <1>4, <1>5, RowsIntro
<1> QED BY <1>3, <1>6 DEF Chain

\* A piece of rows: those behind the first a, up to the row b.
LEMMA RowsCut ==
  ASSUME NEW width, NEW n \in Nat, NEW s, IsRows(s, n, width), NEW a \in 0..n, NEW b \in a..n,
         NEW f, f = a + 1, NEW k, k = b - a
  PROVE  IsRows(SubSeq(s, f, b), k, width) /\ Piece(SubSeq(s, f, b), s, a, k)
<1> DEFINE S == {s[i] : i \in 1..n}
<1>1. \A i \in f..b : s[i] \in S
  OBVIOUS
<1> HIDE DEF S
<1>2. SubSeq(s, f, b) \in Seq(S) /\ Len(SubSeq(s, f, b)) = k /\ \A i \in 1..k : SubSeq(s, f, b)[i] = s[a + i]
  <2>1. f \in Int /\ b \in Int
    OBVIOUS
  <2>2. /\ SubSeq(s, f, b) \in Seq(S) /\ Len(SubSeq(s, f, b)) = IF f <= b THEN b - f + 1 ELSE 0
        /\ \A i \in 1..(b - f + 1) : SubSeq(s, f, b)[i] = s[f + i - 1]
    BY ONLY <1>1, <2>1, SubSeqProperties
  <2>3. b - f + 1 = k /\ (~(f <= b) => k = 0) /\ \A i \in 1..k : f + i - 1 = a + i
    OBVIOUS
  <2> QED BY <2>2, <2>3
<1>3. \A i \in 1..k : IsLine(SubSeq(s, f, b)[i], width)
  <2> TAKE i \in 1..k
  <2>1. a + i \in 1..n
    OBVIOUS
  <2> QED BY <1>2, <2>1 DEF IsRows
<1>4. k \in Nat
  OBVIOUS
<1>5. IsRows(SubSeq(s, f, b), k, width)
  BY ONLY <1>2, <1>3, <1>4, RowsIntro
<1> QED BY <1>2, <1>5 DEF Piece

LEMMA NoRows == ASSUME NEW width PROVE IsRows(<<>>, 0, width)
<1>1. <<>> = [i \in 1..0 |-> <<>>[i]]
  OBVIOUS
<1> QED BY <1>1 DEF IsRows

LEMMA BlankLineIs == ASSUME NEW width PROVE IsLine(BlankLine(width), width)
  BY DEF IsLine, BlankLine

LEMMA BlankLinesAre ==
  ASSUME NEW n \in Nat, NEW width
  PROVE  IsRows(BlankLines(n, width), n, width) /\ \A i \in 1..n : BlankLines(n, width)[i] = BlankLine(width)
<1> DEFINE t == [i \in 1..n |-> BlankLine(width)]
<1>1. IsRows(t, n, width)
  BY BlankLineIs DEF IsRows
<1>2. BlankLines(n, width) = <<>> \o t
  BY DEF BlankLines
<1>3. \A i \in 1..n : t[i] = BlankLine(width)
  OBVIOUS
<1> HIDE DEF t
<1>4. n = 0 + n /\ 0 \in Nat
  OBVIOUS
<1>5. IsRows(<<>> \o t, n, width) /\ Chain(<<>> \o t, <<>>, 0, t, n)
  BY ONLY <1>1, <1>4, NoRows, RowsJoined, n \in Nat
<1> QED BY <1>2, <1>3, <1>5 DEF Chain

\* One line of the rows is replaced.
LEMMA RowReplaced ==
  ASSUME NEW width, NEW n, NEW s, IsRows(s, n, width), NEW k, NEW l, IsLine(l, width)
  PROVE  IsRows([s EXCEPT ![k] = l], n, width)
  BY DEF IsRows

-----------------------------------------------------------------------------
(* The window as a record                                                  *)

WinFields ==
  {"width", "height", "lines", "hlines", "histidx", "scrollback", "x", "y", "top", "bot",
   "insert", "wrap", "origin", "compact", "tabs", "saved", "alt", "pushed"}

IsWin(w) == w = [f \in WinFields |-> w[f]]

\* The history, of the window or of the screen that is put away.
Past(s) ==
  /\ Len(s.hlines) \in Nat /\ IsRows(s.hlines, Len(s.hlines), s.width)
  /\ s.histidx \in Nat /\ (s.histidx = 0 \/ s.histidx < Len(s.hlines))
  /\ s.pushed = History(s)

Memory(w) ==
  /\ IsWin(w) /\ w.width \in Widths /\ w.height \in Heights
  /\ IsRows(w.lines, w.height, w.width) /\ Past(w) /\ w.scrollback \in 0..Len(w.hlines)

\* A cursor within the window; a wide character takes it past a single column.
Margin(w) == IF w.width = 1 THEN 2 ELSE w.width
Place(c, w) == c.x \in 0..Margin(w) /\ c.y \in 0..(w.height - 1)
IsCursor(c) == c = [f \in {"on", "x", "y"} |-> c[f]]

\* The screen that is put away, while the alternate one is shown.
PutAway(w) ==
  /\ w.alt = [f \in {"on", "cursor", "screen"} |-> w.alt[f]] /\ w.alt.on \in BOOLEAN
  /\ IsCursor(w.alt.cursor) /\ Place(w.alt.cursor, w)
  /\ w.alt.on =>
       /\ w.alt.screen.width \in Widths /\ w.alt.screen.height \in Heights
       /\ IsRows(w.alt.screen.lines, w.alt.screen.height, w.alt.screen.width) /\ Past(w.alt.screen)
       /\ w.alt.cursor.on /\ w.alt.cursor.y < w.alt.screen.height
  /\ ~w.alt.on => w.alt.screen = NoScreen

Proper(w) ==
  /\ Memory(w) /\ Place(w, w)
  /\ w.top \in Nat /\ w.bot \in Nat /\ w.top <= w.bot /\ w.bot < w.height
  /\ IsCursor(w.saved) /\ Place(w.saved, w) /\ w.tabs \in SUBSET Nat
  /\ PutAway(w)

\* The lines are whole: no half of a wide character stands alone.
WholeLine(l, n) ==
  /\ \A j \in 1..n : /\ l[j] = Right => j > 1 /\ l[j - 1] = Wide
                     /\ l[j] = Wide => j < n /\ l[j + 1] = Right
  /\ l[n + 1] # Right /\ l[n + 1] # Wide
WholeRows(s, n, width) == width >= 2 /\ \A i \in 1..n : WholeLine(s[i], width)
Whole(w) == WholeRows(w.lines, w.height, w.width) /\ WholeRows(w.hlines, Len(w.hlines), w.width)

\* What v keeps of w: its size, what is put away, and whole characters, where b holds.
Kept(v, w, b) ==
  /\ v.width = w.width /\ v.height = w.height /\ Len(v.hlines) = Len(w.hlines) /\ v.alt = w.alt
  /\ b /\ Whole(w) => Whole(v)

Fine(v, w, b) == Proper(v) /\ Kept(v, w, b)

\* Only lines and history change.
Redrawn(v, w, b) ==
  /\ Memory(v) /\ Kept(v, w, b)
  /\ v.x = w.x /\ v.y = w.y /\ v.top = w.top /\ v.bot = w.bot /\ v.insert = w.insert /\ v.wrap = w.wrap
  /\ v.origin = w.origin /\ v.compact = w.compact /\ v.tabs = w.tabs /\ v.saved = w.saved

LEMMA Sizes ==
  ASSUME NEW w, w.width \in Widths, w.height \in Heights
  PROVE  w.width \in Nat /\ w.width > 0 /\ w.height \in Nat /\ w.height > 0
<1>1. Widths \subseteq Nat \ {0} /\ Heights \subseteq Nat \ {0}
  BY DEF ScreenAssumption
<1>2. w.width \in Nat \ {0} /\ w.height \in Nat \ {0}
  BY <1>1
<1> QED BY ONLY <1>2

LEMMA FineItself == ASSUME NEW w, NEW b, Proper(w) PROVE Fine(w, w, b)
  BY DEF Fine, Kept

LEMMA FineOther == ASSUME NEW u, NEW v, NEW w, NEW b, Fine(u, v, b), Fine(v, w, b) PROVE Fine(u, w, b)
  BY DEF Fine, Kept

LEMMA RedrawnItself == ASSUME NEW w, NEW b, Memory(w) PROVE Redrawn(w, w, b)
  BY DEF Redrawn, Kept

LEMMA RedrawnOther == ASSUME NEW u, NEW v, NEW w, NEW b, Redrawn(u, v, b), Redrawn(v, w, b) PROVE Redrawn(u, w, b)
  BY DEF Redrawn, Kept

LEMMA RedrawnFine == ASSUME NEW v, NEW w, NEW b, Proper(w), Redrawn(v, w, b) PROVE Fine(v, w, b)
  BY DEF Redrawn, Fine, Proper, Place, Margin, PutAway, Kept

LEMMA AfterFine == ASSUME NEW u, NEW v, NEW w, NEW b, Fine(v, w, b), Redrawn(u, v, b) PROVE Fine(u, w, b)
<1>1. Fine(u, v, b)
  BY RedrawnFine DEF Fine
<1> QED BY <1>1, FineOther

\* New lines.
LEMMA LinesRedrawn ==
  ASSUME NEW w, NEW b, Memory(w), NEW s, IsRows(s, w.height, w.width), b /\ Whole(w) => WholeRows(s, w.height, w.width)
  PROVE  Redrawn([w EXCEPT !.lines = s], w, b)
<1> DEFINE v == [w EXCEPT !.lines = s]
<1>1. IsWin(v) /\ v.lines = s
  BY DEF Memory, IsWin, WinFields
<1>2. /\ v.width = w.width /\ v.height = w.height /\ v.hlines = w.hlines /\ v.histidx = w.histidx
      /\ v.scrollback = w.scrollback /\ v.pushed = w.pushed /\ v.alt = w.alt
  BY DEF Memory, IsWin, WinFields
<1>3. /\ v.x = w.x /\ v.y = w.y /\ v.top = w.top /\ v.bot = w.bot /\ v.insert = w.insert /\ v.wrap = w.wrap
      /\ v.origin = w.origin /\ v.compact = w.compact /\ v.tabs = w.tabs /\ v.saved = w.saved
  BY DEF Memory, IsWin, WinFields
<1> HIDE DEF v
<1>4. Memory(v)
  BY <1>1, <1>2 DEF Memory, Past, History, Oldest
<1> QED BY <1>1, <1>2, <1>3, <1>4 DEF Redrawn, Kept, Whole, v

\* A new cursor.
LEMMA CursorFine ==
  ASSUME NEW w, NEW b, Proper(w), NEW x \in 0..Margin(w), NEW y \in 0..(w.height - 1)
  PROVE  LET v == [w EXCEPT !.x = x, !.y = y] IN Fine(v, w, b) /\ v.lines = w.lines /\ v.x = x /\ v.y = y
<1> DEFINE v == [w EXCEPT !.x = x, !.y = y]
<1>1. IsWin(v) /\ v.x = x /\ v.y = y
  BY DEF Proper, Memory, IsWin, WinFields
<1>2. /\ v.width = w.width /\ v.height = w.height /\ v.hlines = w.hlines /\ v.histidx = w.histidx
      /\ v.scrollback = w.scrollback /\ v.pushed = w.pushed /\ v.alt = w.alt /\ v.lines = w.lines
  BY DEF Proper, Memory, IsWin, WinFields
<1>3. v.top = w.top /\ v.bot = w.bot /\ v.tabs = w.tabs /\ v.saved = w.saved
  BY DEF Proper, Memory, IsWin, WinFields
<1> HIDE DEF v
<1>4. Memory(v)
  BY <1>1, <1>2 DEF Proper, Memory, Past, History, Oldest
<1>5. Kept(v, w, b)
  BY <1>2 DEF Kept, Whole
<1>6. Proper(v)
  BY <1>1, <1>2, <1>3, <1>4 DEF Proper, Place, Margin, PutAway
<1>7. Fine(v, w, b) /\ v.lines = w.lines /\ v.x = x /\ v.y = y
  BY <1>1, <1>2, <1>5, <1>6 DEF Fine
<1> QED BY <1>7 DEF v

-----------------------------------------------------------------------------
(* The history                                                             *)

Turned(hl, n, h, i) == hl[IF h + i <= n THEN h + i ELSE h + i - n]

\* The history is the ring from its oldest line on.
LEMMA HistoryIs ==
  ASSUME NEW s, NEW n \in Nat, Len(s.hlines) = n, NEW width, IsRows(s.hlines, n, width),
         NEW h \in Nat, s.histidx = h, h = 0 \/ h < n
  PROVE  IsRows(History(s), n, width) /\ \A i \in 1..n : History(s)[i] = Turned(s.hlines, n, h, i)
<1> DEFINE hl == s.hlines
           f == h + 1
           a == SubSeq(hl, f, n)
           b == SubSeq(hl, 1, h)
           m == n - h
<1>1. History(s) = a \o b
  BY DEF History, Oldest
<1>2. IsRows(hl, n, width)
  OBVIOUS
<1>3. f = h + 1 /\ m = n - h /\ 1 = 0 + 1 /\ h = h - 0 /\ n = m + h
  OBVIOUS
<1> HIDE DEF hl, f, m
<1>4. h \in 0..n /\ n \in h..n /\ 0 \in 0..n /\ h \in 0..n /\ m \in Nat
  BY <1>3
<1>5. IsRows(a, m, width) /\ Piece(a, hl, h, m)
  BY ONLY <1>2, <1>3, <1>4, RowsCut, n \in Nat
<1>6. IsRows(b, h, width) /\ Piece(b, hl, 0, h)
  BY ONLY <1>2, <1>3, <1>4, RowsCut, n \in Nat
<1> HIDE DEF a, b
<1>7. IsRows(a \o b, n, width) /\ Chain(a \o b, a, m, b, n)
  BY ONLY <1>3, <1>4, <1>5, <1>6, RowsJoined, h \in Nat
<1>8. ASSUME NEW i \in 1..n PROVE (a \o b)[i] = Turned(hl, n, h, i)
  <2>1. CASE i <= m
    <3>1. (a \o b)[i] = a[i]
      BY <1>7, <2>1 DEF Chain
    <3>2. i \in 1..m /\ h + i <= n
      BY <1>3, <1>4, <2>1
    <3> QED BY <1>5, <3>1, <3>2 DEF Turned, Piece
  <2>2. CASE ~(i <= m)
    <3>1. (a \o b)[i] = b[i - m]
      BY <1>7, <2>2 DEF Chain
    <3>2. i - m \in 1..h /\ ~(h + i <= n) /\ 0 + (i - m) = h + i - n
      BY <1>3, <1>4, <2>2
    <3> QED BY <1>6, <3>1, <3>2 DEF Turned, Piece
  <2> QED BY <2>1, <2>2
<1> QED BY <1>1, <1>7, <1>8 DEF hl

\* A line enters the ring over the oldest one, and is the newest from then on.
LEMMA LineAdded ==
  ASSUME NEW w, NEW b, Memory(w), NEW l, IsLine(l, w.width), b => WholeLine(l, w.width)
  PROVE  Redrawn(WAddLineToHist(w, l), w, b) /\ WAddLineToHist(w, l).lines = w.lines
<1> DEFINE v == WAddLineToHist(w, l)
           n == Len(w.hlines)
           h == w.histidx
           p == w.pushed
           hl == [w.hlines EXCEPT ![h + 1] = l]
           h2 == IF h + 1 >= n THEN 0 ELSE h + 1
           sb == Least(w.scrollback + 1, n)
           p2 == Append(Tail(p), l)
<1>1. CASE w.hlines = <<>>
  BY <1>1, RedrawnItself DEF WAddLineToHist
<1>2. CASE w.hlines # <<>>
  <2>1. /\ n \in Nat /\ IsRows(w.hlines, n, w.width) /\ h \in Nat /\ (h = 0 \/ h < n)
        /\ p = History(w) /\ w.scrollback \in 0..n /\ IsWin(w)
    BY DEF Memory, Past
  <2>2. n > 0
    <3>1. SUFFICES ASSUME n = 0 PROVE FALSE
      BY <2>1
    <3>2. w.hlines = [i \in 1..0 |-> w.hlines[i]]
      BY <2>1, <3>1 DEF IsRows
    <3>3. w.hlines = <<>>
      BY <3>2
    <3> QED BY <1>2, <3>3
  <2>3. v = [w EXCEPT !.hlines = hl, !.histidx = h2, !.scrollback = sb, !.pushed = p2]
    BY <1>2 DEF WAddLineToHist, Oldest
  <2>4. IsRows(hl, n, w.width) /\ h2 \in Nat /\ (h2 = 0 \/ h2 < n) /\ sb \in 0..n
    <3>1. IsRows(hl, n, w.width)
      BY <2>1, RowReplaced
    <3>2. h2 \in Nat /\ (h2 = 0 \/ h2 < n) /\ sb \in 0..n
      BY <2>1, <2>2 DEF Least
    <3> QED BY <3>1, <3>2
  <2>5. IsRows(p, n, w.width) /\ \A i \in 1..n : p[i] = Turned(w.hlines, n, h, i)
    <3>1. Len(w.hlines) = n /\ w.histidx = h
      OBVIOUS
    <3> HIDE DEF n, h, p
    <3> QED BY ONLY <2>1, <3>1, HistoryIs
  <2>6. IsRows(p2, n, w.width) /\ \A i \in 1..n : p2[i] = IF i < n THEN p[i + 1] ELSE l
    <3> DEFINE S == {p[i] : i \in 1..n} \cup {l}
    <3> HIDE DEF p
    <3>1. l \in S /\ \A i \in 1..n : p[i] \in S
      OBVIOUS
    <3> HIDE DEF S
    <3>2. p \in Seq(S) /\ Len(p) = n /\ p # <<>>
      <4> HIDE DEF n
      <4>1. n \in Nat
        BY <2>1
      <4>2. p \in Seq(S) /\ Len(p) = n
        BY ONLY <2>5, <3>1, <4>1, RowsAre
      <4>3. Len(<<>>) = 0
        OBVIOUS
      <4> QED BY <2>2, <4>2, <4>3
    <3>3. /\ Tail(p) \in Seq(S) /\ Len(Tail(p)) = n - 1
          /\ \A i \in 1..(n - 1) : Tail(p)[i] = p[i + 1]
      BY <3>2, HeadTailProperties
    <3>4. /\ p2 \in Seq(S) /\ Len(p2) = (n - 1) + 1
          /\ (\A i \in 1..(n - 1) : p2[i] = Tail(p)[i]) /\ p2[(n - 1) + 1] = l
      BY <3>1, <3>3, AppendProperties
    <3> HIDE DEF p2, n
    <3>5. (n - 1) + 1 = n
      BY <2>1
    <3>6. \A i \in 1..n : p2[i] = IF i < n THEN p[i + 1] ELSE l
      BY <2>1, <2>2, <3>3, <3>4, <3>5
    <3>7. \A i \in 1..n : IsLine(p2[i], w.width)
      <4> TAKE i \in 1..n
      <4>1. i < n => i + 1 \in 1..n
        BY <2>1
      <4> QED BY <2>5, <3>6, <4>1 DEF IsRows
    <3> QED BY <2>1, <3>4, <3>5, <3>6, <3>7, RowsIntro
  <2>7. /\ IsWin(v) /\ v.hlines = hl /\ v.histidx = h2 /\ v.scrollback = sb /\ v.pushed = p2
        /\ v.width = w.width /\ v.height = w.height /\ v.lines = w.lines /\ v.alt = w.alt
    <3> HIDE DEF v, hl, h2, sb, p2
    <3> QED BY <2>1, <2>3 DEF IsWin, WinFields
  <2>8. /\ v.x = w.x /\ v.y = w.y /\ v.top = w.top /\ v.bot = w.bot /\ v.insert = w.insert /\ v.wrap = w.wrap
        /\ v.origin = w.origin /\ v.compact = w.compact /\ v.tabs = w.tabs /\ v.saved = w.saved
    <3> HIDE DEF v, hl, h2, sb, p2
    <3> QED BY <2>1, <2>3 DEF IsWin, WinFields
  <2>9. Len(hl) = n
    <3> HIDE DEF hl
    <3> QED BY <2>1, <2>4, RowsLength
  <2>13. b /\ Whole(w) => Whole(v)
    <3>1. \A j \in 1..n : hl[j] = IF j = h + 1 THEN l ELSE w.hlines[j]
      <4>1. w.hlines = [i \in 1..n |-> w.hlines[i]]
        BY <2>1 DEF IsRows
      <4> QED BY <4>1
    <3>2. Len(w.hlines) = n
      OBVIOUS
    <3> HIDE DEF v, hl, n, h
    <3> QED BY <2>7, <2>9, <3>1, <3>2 DEF Whole, WholeRows
  <2>10. \A i \in 1..n : p2[i] = Turned(hl, n, h2, i)
    <3>1. \A j \in 1..n : hl[j] = IF j = h + 1 THEN l ELSE w.hlines[j]
      <4>1. w.hlines = [i \in 1..n |-> w.hlines[i]]
        BY <2>1 DEF IsRows
      <4> QED BY <4>1
    <3> HIDE DEF p2, hl, n, p, h
    <3> TAKE i \in 1..n
    <3>2. CASE i < n
      <4>1. p2[i] = Turned(w.hlines, n, h, i + 1)
        BY <2>1, <2>5, <2>6, <3>2
      <4>2. CASE h + 1 >= n
        <5>1. h = n - 1 /\ h2 = 0
          BY <2>1, <2>2, <4>2
        <5>2. Turned(w.hlines, n, h, i + 1) = w.hlines[i]
          <6>1. ~(h + (i + 1) <= n) \/ (h = 0 /\ FALSE) 
            BY <2>1, <3>2, <5>1
          <6>2. h + (i + 1) - n = i
            BY <2>1, <5>1
          <6> QED BY <6>1, <6>2 DEF Turned
        <5>3. Turned(hl, n, h2, i) = hl[i]
          BY <2>1, <5>1 DEF Turned
        <5>4. i # h + 1
          BY <2>1, <3>2, <5>1
        <5> QED BY <3>1, <4>1, <5>2, <5>3, <5>4
      <4>3. CASE ~(h + 1 >= n)
        <5>1. h2 = h + 1
          BY <4>3
        <5> HIDE DEF h2
        <5>2. \A g, k : Turned(g, n, k, i) = IF k + i <= n THEN g[k + i] ELSE g[k + i - n]
          BY DEF Turned
        <5>3. CASE h + (i + 1) <= n
          <6>1. h2 + i = h + (i + 1) /\ h + (i + 1) \in 1..n /\ h + (i + 1) # h + 1
            BY <2>1, <3>2, <5>1, <5>3
          <6>2. Turned(hl, n, h2, i) = hl[h + (i + 1)]
            BY <5>2, <5>3, <6>1
          <6> QED BY <3>1, <4>1, <5>3, <6>1, <6>2 DEF Turned
        <5>4. CASE ~(h + (i + 1) <= n)
          <6>1. h2 + i = h + (i + 1) /\ h + (i + 1) - n \in 1..n /\ h + (i + 1) - n # h + 1
            BY <2>1, <3>2, <5>1, <5>4
          <6>2. ~(h2 + i <= n) /\ h2 + i - n = h + (i + 1) - n
            BY <2>1, <5>1, <5>4
          <6>3. Turned(hl, n, h2, i) = hl[h2 + i - n]
            BY <5>2, <6>2
          <6> QED BY <3>1, <4>1, <5>4, <6>1, <6>2, <6>3 DEF Turned
        <5> QED BY <5>3, <5>4
      <4> QED BY <4>2, <4>3
    <3>3. CASE ~(i < n)
      <4>1. i = n /\ p2[i] = l
        BY <2>1, <2>6, <3>3
      <4>2. Turned(hl, n, h2, i) = hl[h + 1]
        <5>1. CASE h + 1 >= n
          BY <2>1, <2>2, <4>1, <5>1 DEF Turned
        <5>2. CASE ~(h + 1 >= n)
          BY <2>1, <2>2, <4>1, <5>2 DEF Turned
        <5> QED BY <5>1, <5>2
      <4>3. h + 1 \in 1..n
        BY <2>1, <2>2
      <4> QED BY <3>1, <4>1, <4>2, <4>3
    <3> QED BY <3>2, <3>3
  <2>11. History(v) = p2
    <3> HIDE DEF v, p2, hl, h2, n
    <3>1. IsRows(v.hlines, n, w.width) /\ Len(v.hlines) = n /\ v.histidx = h2 /\ v.hlines = hl /\ n \in Nat
      BY <2>1, <2>4, <2>7, <2>9
    <3>2. IsRows(History(v), n, w.width) /\ \A i \in 1..n : History(v)[i] = Turned(v.hlines, n, h2, i)
      BY ONLY <2>4, <3>1, HistoryIs
    <3> QED BY <2>6, <2>10, <3>1, <3>2, RowsEqual
  <2> HIDE DEF v, hl, h2, sb, p2
  <2>12. Memory(v)
    BY <2>1, <2>4, <2>7, <2>9, <2>11 DEF Memory, Past
  <2> QED BY <2>7, <2>8, <2>9, <2>12, <2>13 DEF Redrawn, Kept, v
<1> QED BY <1>1, <1>2

\* The rows enter the history one after the other.
Adding(h, w, s, N) ==
  h[0] = w /\ h[N] = AddLines(w, s) /\ \A k \in 1..N : h[k] = WAddLineToHist(h[k - 1], s[k])

LEMMA AddLinesIs ==
  ASSUME NEW w, NEW s, NEW N \in Nat, Len(s) = N
  PROVE  \E h : Adding(h, w, s, N)
<1> DEFINE Is(g, m) == g = [k \in 0..m |-> IF k = 0 THEN w ELSE WAddLineToHist(g[k - 1], s[k])]
           G == {m \in 0..N : \E g : Is(g, m)}
           f == CHOOSE f : Is(f, N)
<1>1. 0 \in G
  <2>1. Is([k \in 0..0 |-> w], 0)
    OBVIOUS
  <2> HIDE DEF Is
  <2> QED BY <2>1
<1>2. ASSUME NEW m \in 0..(N - 1), m \in G PROVE m + 1 \in G
  <2>1. PICK g : Is(g, m)
    BY <1>2
  <2> DEFINE h == [k \in 0..(m + 1) |-> IF k = 0 THEN w ELSE WAddLineToHist(g[k - 1], s[k])]
  <2>2. ASSUME NEW k \in 1..(m + 1) PROVE h[k - 1] = g[k - 1]
    <3>1. k - 1 \in 0..m /\ k - 1 \in 0..(m + 1)
      OBVIOUS
    <3> QED BY <2>1, <3>1
  <2>3. ASSUME NEW k \in 0..(m + 1)
        PROVE  h[k] = IF k = 0 THEN w ELSE WAddLineToHist(h[k - 1], s[k])
    <3>1. k # 0 => k \in 1..(m + 1)
      OBVIOUS
    <3> QED BY <2>2, <3>1
  <2>4. Is(h, m + 1)
    <3>1. h = [k \in 0..(m + 1) |-> h[k]]
      OBVIOUS
    <3> HIDE DEF h
    <3> QED BY <2>3, <3>1
  <2> HIDE DEF Is, h
  <2> QED BY <2>4
<1>3. G = 0..N
  <2>1. G \in SUBSET (0..N)
    OBVIOUS
  <2> HIDE DEF G
  <2> QED BY ONLY <1>1, <1>2, <2>1, UpTo, N \in Nat
<1>4. Is(f, N)
  <2>1. N \in 0..N
    OBVIOUS
  <2> HIDE DEF Is
  <2>2. \E g : Is(g, N)
    BY <1>3, <2>1
  <2> QED BY <2>2
<1>5. AddLines(w, s) = f[N]
  BY DEF AddLines
<1> HIDE DEF f
<1>6. f[0] = w /\ \A k \in 1..N : f[k] = WAddLineToHist(f[k - 1], s[k])
  <2>1. 0 \in 0..N /\ \A k \in 1..N : k \in 0..N /\ k # 0
    OBVIOUS
  <2> QED BY <1>4, <2>1
<1> QED BY <1>5, <1>6 DEF Adding

LEMMA LinesAdded ==
  ASSUME NEW w, NEW b, Memory(w), NEW N \in Nat, NEW s, IsRows(s, N, w.width),
         b /\ Whole(w) => WholeRows(s, N, w.width)
  PROVE  Redrawn(AddLines(w, s), w, b) /\ AddLines(w, s).lines = w.lines
<1>1. PICK h : Adding(h, w, s, N)
  <2>1. Len(s) = N
    BY RowsLength
  <2> QED BY ONLY <2>1, AddLinesIs, N \in Nat
<1> DEFINE c == b /\ Whole(w)
           G == {m \in 0..N : Redrawn(h[m], w, c) /\ h[m].lines = w.lines}
<1>2. 0 \in G
  BY <1>1, RedrawnItself DEF Adding
<1>3. ASSUME NEW m \in 0..(N - 1), m \in G PROVE m + 1 \in G
  <2>1. m + 1 \in 1..N /\ m + 1 \in 0..N /\ (m + 1) - 1 = m
    OBVIOUS
  <2>2. h[m + 1] = WAddLineToHist(h[m], s[m + 1])
    BY <1>1, <2>1 DEF Adding
  <2>3. Redrawn(h[m], w, c) /\ h[m].lines = w.lines
    BY <1>3
  <2>4. Memory(h[m]) /\ h[m].width = w.width
    BY <2>3 DEF Redrawn, Kept
  <2>5. IsLine(s[m + 1], w.width)
    BY <2>1 DEF IsRows
  <2>8. c => WholeLine(s[m + 1], h[m].width)
    BY <2>1, <2>4 DEF WholeRows
  <2> HIDE DEF c
  <2>6. Redrawn(h[m + 1], h[m], c) /\ h[m + 1].lines = h[m].lines
    BY <2>2, <2>4, <2>5, <2>8, LineAdded
  <2>7. Redrawn(h[m + 1], w, c)
    BY ONLY <2>3, <2>6, RedrawnOther
  <2> QED BY <2>1, <2>3, <2>6, <2>7
<1>4. G = 0..N
  <2>1. G \in SUBSET (0..N)
    OBVIOUS
  <2> HIDE DEF G
  <2> QED BY ONLY <1>2, <1>3, <2>1, UpTo, N \in Nat
<1>5. N \in G
  BY <1>4
<1>6. Redrawn(h[N], w, c) => Redrawn(h[N], w, b)
  BY DEF Redrawn, Kept
<1> HIDE DEF c
<1> QED BY <1>1, <1>5, <1>6 DEF Adding

-----------------------------------------------------------------------------
(* Scrolling                                                               *)

\* Lines, whole ones where b says that the characters are whole.
Sheet(s, n, width, b) == IsRows(s, n, width) /\ (b => WholeRows(s, n, width))

LEMMA SheetJoined ==
  ASSUME NEW width, NEW b, NEW m \in Nat, NEW s, Sheet(s, m, width, b), NEW n \in Nat, NEW t, Sheet(t, n, width, b),
         NEW k, k = m + n
  PROVE  Sheet(s \o t, k, width, b)
<1>1. IsRows(s \o t, k, width) /\ Chain(s \o t, s, m, t, k)
  BY RowsJoined DEF Sheet
<1>2. ASSUME b, NEW i \in 1..k PROVE WholeLine((s \o t)[i], width)
  <2>1. CASE i <= m
    <3>1. (s \o t)[i] = s[i]
      BY <1>1, <2>1 DEF Chain
    <3>2. i \in 1..m
      BY <2>1
    <3> QED BY <1>2, <3>1, <3>2 DEF Sheet, WholeRows
  <2>2. CASE ~(i <= m)
    <3>1. (s \o t)[i] = t[i - m]
      BY <1>1, <2>2 DEF Chain
    <3>2. i - m \in 1..n
      BY <2>2
    <3> QED BY <1>2, <3>1, <3>2 DEF Sheet, WholeRows
  <2> QED BY <2>1, <2>2
<1>3. b => width >= 2
  BY DEF Sheet, WholeRows
<1> QED BY <1>1, <1>2, <1>3 DEF Sheet, WholeRows

LEMMA SheetCut ==
  ASSUME NEW width, NEW b, NEW n \in Nat, NEW s, Sheet(s, n, width, b), NEW a \in 0..n, NEW e \in a..n,
         NEW f, f = a + 1, NEW k, k = e - a
  PROVE  Sheet(SubSeq(s, f, e), k, width, b)
<1>1. IsRows(SubSeq(s, f, e), k, width) /\ Piece(SubSeq(s, f, e), s, a, k)
  BY RowsCut DEF Sheet
<1>2. ASSUME b, NEW i \in 1..k PROVE WholeLine(SubSeq(s, f, e)[i], width)
  <2>1. a + i \in 1..n /\ SubSeq(s, f, e)[i] = s[a + i]
    BY <1>1 DEF Piece
  <2> QED BY <1>2, <2>1 DEF Sheet, WholeRows
<1>3. b => width >= 2
  BY DEF Sheet, WholeRows
<1> QED BY <1>1, <1>2, <1>3 DEF Sheet, WholeRows

LEMMA BlankIsWhole == ASSUME NEW n \in Nat PROVE WholeLine(BlankLine(n), n)
<1>1. Blank # Right /\ Blank # Wide
  BY DEF ScreenAssumption, Blank, Right
<1>2. \A j \in 1..(n + 1) : BlankLine(n)[j] = Blank
  BY DEF BlankLine
<1> QED BY <1>1, <1>2 DEF WholeLine

LEMMA SheetBlank ==
  ASSUME NEW width \in Nat, NEW b, b => width >= 2, NEW n \in Nat
  PROVE  Sheet(BlankLines(n, width), n, width, b)
  BY BlankLinesAre, BlankIsWhole DEF Sheet, WholeRows

\* The rows from one to another.
LEMMA RowsSheet ==
  ASSUME NEW w, Memory(w), NEW b, b => WholeRows(w.lines, w.height, w.width),
         NEW from \in 0..w.height, NEW to \in Int, to + 1 \in from..w.height, NEW k, k = to + 1 - from
  PROVE  Sheet(Rows(w, from, to), k, w.width, b)
<1> DEFINE e == to + 1
           f == from + 1
<1>1. Rows(w, from, to) = SubSeq(w.lines, f, e)
  BY DEF Rows
<1>2. Sheet(w.lines, w.height, w.width, b) /\ w.height \in Nat
  BY Sizes DEF Memory, Sheet
<1>3. f = from + 1 /\ k = e - from /\ e \in from..w.height
  <2>1. e \in from..w.height
    OBVIOUS
  <2>2. f = from + 1
    OBVIOUS
  <2>3. k = e - from
    OBVIOUS
  <2> QED BY <2>1, <2>2, <2>3
<1> HIDE DEF e, f
<1>4. Sheet(SubSeq(w.lines, f, e), k, w.width, b)
  BY ONLY <1>2, <1>3, SheetCut, from \in 0..w.height
<1> QED BY <1>1, <1>4

\* Lines leave at ys, and blank ones come in above ye.
LEMMA ScrollUpRedrawn ==
  ASSUME NEW w, NEW c, Memory(w), NEW ys \in 0..(w.height - 1), NEW ye \in (ys - 1)..(w.height - 1),
         NEW n \in Int, n <= ye - ys + 1
  PROVE  Redrawn(ScrollUp(w, n, ys, ye), w, c)
<1>1. CASE n <= 0
  BY <1>1, RedrawnItself DEF ScrollUp
<1>2. CASE ~(n <= 0)
  <2> DEFINE he == w.height
             wi == w.width
             b == c /\ Whole(w)
             u == IF ys = w.top THEN AddLines(w, Rows(w, ys, ys + n - 1)) ELSE w
             A == Rows(w, 0, ys - 1)
             B == Rows(w, ys + n, ye)
             C == BlankLines(n, wi)
             D == Rows(w, ye + 1, he - 1)
             m == ye + 1 - (ys + n)
             d == he - 1 - ye
             k2 == ys + m
             k3 == k2 + n
  <2>1. he \in Nat /\ wi \in Nat /\ n \in Nat /\ he > 0 /\ n >= 1
    BY <1>2, Sizes DEF Memory
  <2>2. ScrollUp(w, n, ys, ye) = [u EXCEPT !.lines = A \o B \o C \o D]
    BY <1>2 DEF ScrollUp
  <2>3. Redrawn(u, w, c) /\ u.lines = w.lines
    <3> DEFINE s == Rows(w, ys, ys + n - 1)
    <3>1. IsRows(s, n, wi) /\ (b => WholeRows(s, n, wi))
      <4>1. /\ ys \in 0..he /\ ys + n - 1 \in Int /\ (ys + n - 1) + 1 \in ys..he
            /\ n = (ys + n - 1) + 1 - ys
        BY <2>1
      <4>2. b => WholeRows(w.lines, he, wi)
        BY DEF Whole
      <4> HIDE DEF b
      <4>3. Sheet(s, n, wi, b)
        BY <4>1, <4>2, RowsSheet
      <4> QED BY <4>3 DEF Sheet
    <3> HIDE DEF s
    <3>2. Redrawn(AddLines(w, s), w, c) /\ AddLines(w, s).lines = w.lines
      BY <2>1, <3>1, LinesAdded
    <3> QED BY <3>2, RedrawnItself DEF s
  <2>16. b => WholeRows(w.lines, he, wi)
    BY DEF Whole
  <2> HIDE DEF b
  <2>4. Sheet(A, ys, wi, b)
    <3>1. /\ 0 \in 0..he /\ ys - 1 \in Int /\ (ys - 1) + 1 \in 0..he /\ ys = (ys - 1) + 1 - 0
      BY <2>1
    <3> QED BY <2>16, <3>1, RowsSheet
  <2>5. Sheet(B, m, wi, b)
    <3>1. ys + n \in 0..he /\ ye \in Int /\ ye + 1 \in (ys + n)..he /\ m = ye + 1 - (ys + n)
      BY <2>1
    <3> HIDE DEF m
    <3> QED BY <2>16, <3>1, RowsSheet
  <2>6. Sheet(D, d, wi, b)
    <3>1. ye + 1 \in 0..he /\ he - 1 \in Int /\ (he - 1) + 1 \in (ye + 1)..he /\ d = (he - 1) + 1 - (ye + 1)
      BY <2>1
    <3> HIDE DEF d
    <3> QED BY <2>16, <3>1, RowsSheet
  <2>7. Sheet(C, n, wi, b)
    <3>1. b => wi >= 2
      BY <2>16 DEF WholeRows
    <3> QED BY <2>1, <3>1, SheetBlank
  <2>8. m \in Nat /\ d \in Nat /\ k2 \in Nat /\ k3 \in Nat /\ k2 = ys + m /\ k3 = k2 + n /\ he = k3 + d /\ ys \in Nat
    BY <2>1
  <2> HIDE DEF A, B, C, D, m, d, k2, k3, b, u, wi, he
  <2>9. Sheet(A \o B, k2, wi, b)
    BY ONLY <2>4, <2>5, <2>8, SheetJoined
  <2>10. Sheet((A \o B) \o C, k3, wi, b)
    BY ONLY <2>1, <2>7, <2>8, <2>9, SheetJoined
  <2>11. Sheet(((A \o B) \o C) \o D, he, wi, b)
    BY ONLY <2>1, <2>6, <2>8, <2>10, SheetJoined
  <2> DEFINE s == A \o B \o C \o D
  <2>12. Sheet(s, he, wi, b)
    BY <2>11
  <2> HIDE DEF s
  <2>13. Memory(u) /\ u.height = he /\ u.width = wi
    BY <2>3 DEF Redrawn, Kept, he, wi
  <2>14. IsRows(s, u.height, u.width) /\ (b => WholeRows(s, u.height, u.width))
    BY <2>12, <2>13 DEF Sheet
  <2>17. b /\ Whole(u) => WholeRows(s, u.height, u.width)
    BY <2>14
  <2>15. Redrawn([u EXCEPT !.lines = s], u, b)
    BY ONLY <2>13, <2>14, <2>17, LinesRedrawn
  <2>18. Redrawn(u, w, b)
    BY <2>3 DEF Redrawn, Kept, b
  <2>19. Redrawn([u EXCEPT !.lines = s], w, b)
    BY ONLY <2>15, <2>18, RedrawnOther
  <2>20. Redrawn([u EXCEPT !.lines = s], w, c)
    BY <2>19 DEF Redrawn, Kept, b
  <2> QED BY <2>2, <2>20 DEF s
<1> QED BY <1>1, <1>2

\* Lines leave above ye, and blank ones come in at ys.
LEMMA ScrollDownRedrawn ==
  ASSUME NEW w, NEW c, Memory(w), NEW ys \in 0..(w.height - 1), NEW ye \in (ys - 1)..(w.height - 1),
         NEW n \in Nat, n <= ye - ys + 1
  PROVE  Redrawn(ScrollDown(w, n, ys, ye), w, c)
<1> DEFINE he == w.height
           wi == w.width
           b == c /\ Whole(w)
           A == Rows(w, 0, ys - 1)
           B == BlankLines(n, wi)
           C == Rows(w, ys, ye - n)
           D == Rows(w, ye + 1, he - 1)
           m == ye - n + 1 - ys
           d == he - 1 - ye
           k2 == ys + n
           k3 == k2 + m
<1>1. he \in Nat /\ wi \in Nat /\ he > 0
  BY Sizes DEF Memory
<1>2. ScrollDown(w, n, ys, ye) = [w EXCEPT !.lines = A \o B \o C \o D]
  BY DEF ScrollDown
<1>14. b => WholeRows(w.lines, he, wi)
  BY DEF Whole
<1> HIDE DEF b
<1>3. Sheet(A, ys, wi, b)
  <2>1. /\ 0 \in 0..he /\ ys - 1 \in Int /\ (ys - 1) + 1 \in 0..he /\ ys = (ys - 1) + 1 - 0
    BY <1>1
  <2> QED BY <1>14, <2>1, RowsSheet
<1>4. Sheet(B, n, wi, b)
  <2>1. b => wi >= 2
    BY <1>14 DEF WholeRows
  <2> QED BY <1>1, <2>1, SheetBlank
<1>5. Sheet(C, m, wi, b)
  <2>1. ys \in 0..he /\ ye - n \in Int /\ (ye - n) + 1 \in ys..he /\ m = (ye - n) + 1 - ys
    BY <1>1
  <2> HIDE DEF m
  <2> QED BY <1>14, <2>1, RowsSheet
<1>6. Sheet(D, d, wi, b)
  <2>1. ye + 1 \in 0..he /\ he - 1 \in Int /\ (he - 1) + 1 \in (ye + 1)..he /\ d = (he - 1) + 1 - (ye + 1)
    BY <1>1
  <2> HIDE DEF d
  <2> QED BY <1>14, <2>1, RowsSheet
<1>7. m \in Nat /\ d \in Nat /\ k2 \in Nat /\ k3 \in Nat /\ k2 = ys + n /\ k3 = k2 + m /\ he = k3 + d /\ ys \in Nat
  BY <1>1
<1> HIDE DEF A, B, C, D, m, d, k2, k3, b, wi, he
<1>8. Sheet(A \o B, k2, wi, b)
  BY ONLY <1>3, <1>4, <1>7, SheetJoined, n \in Nat
<1>9. Sheet((A \o B) \o C, k3, wi, b)
  BY ONLY <1>5, <1>7, <1>8, SheetJoined
<1>10. Sheet(((A \o B) \o C) \o D, he, wi, b)
  BY ONLY <1>6, <1>7, <1>9, SheetJoined
<1> DEFINE s == A \o B \o C \o D
<1>11. Sheet(s, he, wi, b)
  BY <1>10
<1> HIDE DEF s
<1>12. IsRows(s, w.height, w.width) /\ (c /\ Whole(w) => WholeRows(s, w.height, w.width))
  BY <1>11 DEF Sheet, b, he, wi
<1>13. Redrawn([w EXCEPT !.lines = s], w, c)
  BY ONLY <1>12, LinesRedrawn, Memory(w)
<1> QED BY <1>2, <1>13 DEF s

LEMMA UsedLine ==
  ASSUME NEW w, NEW ys \in Int, NEW ye \in Int, ys - 1 <= ye
  PROVE  MFindUsedLine(w, ye, ys) \in (ys - 1)..ye
<1> DEFINE S == {ys - 1} \cup {y \in ys..ye : \E x \in 0..(w.width - 1) : At(w.lines[y + 1], x) # Blank}
<1>1. S \in SUBSET Int /\ S # {} /\ (\A y \in S : y <= ye) /\ \A y \in S : y >= ys - 1
  OBVIOUS
<1>2. MFindUsedLine(w, ye, ys) = Max(S)
  BY DEF MFindUsedLine
<1> HIDE DEF S
<1>3. Max(S) \in S
  <2>1. S \in SUBSET Int /\ S # {}
    BY <1>1
  <2>2. \A y \in S : y <= ye
    BY <1>1
  <2> QED BY <2>1, <2>2, MaxIs
<1>4. \A y \in S : y \in Int /\ y <= ye /\ y >= ys - 1
  BY <1>1
<1>5. \A y \in S : y \in (ys - 1)..ye
  BY ONLY <1>4, ys \in Int, ye \in Int
<1> QED BY <1>2, <1>3, <1>5

LEMMA MScrollVRedrawn ==
  ASSUME NEW w, NEW c, Memory(w), NEW ys \in 0..(w.height - 1), NEW ye \in ys..(w.height - 1), NEW n \in Int
  PROVE  Redrawn(MScrollV(w, n, ys, ye), w, c)
<1>1. CASE n < 0
  <2> DEFINE k == Least(-n, ye - ys + 1)
  <2>1. k \in Nat /\ k <= ye - ys + 1 /\ ye \in (ys - 1)..(w.height - 1)
    BY <1>1, Sizes DEF Least, Memory
  <2>2. MScrollV(w, n, ys, ye) = ScrollDown(w, k, ys, ye)
    BY <1>1 DEF MScrollV
  <2> HIDE DEF k
  <2> QED BY <2>1, <2>2, ScrollDownRedrawn
<1>2. CASE ~(n < 0)
  <2> DEFINE k == Least(n, ye - ys + 1)
             e == IF w.compact THEN MFindUsedLine(w, ye, ys) ELSE ye
             m == Least(k, e - ys + 1)
  <2>1. MScrollV(w, n, ys, ye) = ScrollUp(w, m, ys, e)
    BY <1>2 DEF MScrollV, ScrollUsed
  <2>2. e \in (ys - 1)..ye
    <3>1. ys \in Int /\ ye \in Int /\ ys - 1 <= ye /\ ye \in (ys - 1)..ye
      BY Sizes DEF Memory
    <3>2. MFindUsedLine(w, ye, ys) \in (ys - 1)..ye
      BY <3>1, UsedLine
    <3> QED BY <3>1, <3>2
  <2> HIDE DEF e
  <2>3. e \in (ys - 1)..(w.height - 1) /\ m \in Int /\ m <= e - ys + 1
    BY <1>2, <2>2, Sizes DEF Least, Memory
  <2> HIDE DEF m
  <2> QED BY <2>1, <2>3, ScrollUpRedrawn
<1> QED BY <1>1, <1>2

-----------------------------------------------------------------------------
(* Cells                                                                   *)

\* A cell that belongs to no wide character.
Free(l, j) == l[j] # Right /\ l[j] # Wide

LEMMA Signs == Blank # Right /\ Blank # Wide /\ NUL # Right /\ NUL # Wide /\ Right # Wide
  BY DEF ScreenAssumption, Blank, Right, NUL

\* What is done to a line leaves a line.
LEMMA LineKept ==
  ASSUME NEW n, NEW l, IsLine(l, n), NEW x, NEW c, NEW k, NEW from, NEW to
  PROVE  /\ IsLine(Set(l, x, c), n) /\ IsLine(MKillDwRight(l, x), n) /\ IsLine(MKillDwLeft(l, x), n)
         /\ IsLine(clear_mline(l, x, k), n) /\ IsLine(copy_mline(l, from, to, k), n)
<1>1. DOMAIN l = 1..(n + 1)
  BY DEF IsLine
<1>2. IsLine(Set(l, x, c), n)
  BY <1>1 DEF IsLine, Set
<1>3. IsLine(MKillDwRight(l, x), n)
  BY <1>1 DEF IsLine, MKillDwRight
<1>4. IsLine(MKillDwLeft(l, x), n)
  BY <1>1 DEF IsLine, MKillDwLeft
<1>5. IsLine(clear_mline(l, x, k), n) /\ IsLine(copy_mline(l, from, to, k), n)
  BY <1>1 DEF IsLine, clear_mline, copy_mline
<1> QED BY <1>2, <1>3, <1>4, <1>5

LEMMA OpenedKept == ASSUME NEW n, NEW l, IsLine(l, n), NEW x, NEW k PROVE IsLine(Opened(l, x, k), n)
  BY LineKept DEF Opened

LEMMA WrittenKept == ASSUME NEW n, NEW l, IsLine(l, n), NEW x, NEW c PROVE IsLine(Written(l, x, c), n)
  BY LineKept DEF Written

\* The cells of a line after an operation on it.
LEMMA SetCells ==
  ASSUME NEW n, NEW l, IsLine(l, n), NEW x, NEW c
  PROVE  \A j \in 1..(n + 1) : Set(l, x, c)[j] = IF j = x + 1 THEN c ELSE l[j]
  BY DEF IsLine, Set

LEMMA ClearCells ==
  ASSUME NEW n, NEW l, IsLine(l, n), NEW x, NEW k
  PROVE  \A j \in 1..(n + 1) : clear_mline(l, x, k)[j] = IF j \in (x + 1)..(x + k) THEN Blank ELSE l[j]
<1>1. DOMAIN l = 1..(n + 1)
  BY DEF IsLine
<1> QED BY <1>1 DEF clear_mline

LEMMA CopyCells ==
  ASSUME NEW n, NEW l, IsLine(l, n), NEW from, NEW to, NEW k
  PROVE  \A j \in 1..(n + 1) :
           copy_mline(l, from, to, k)[j] = IF j \in (to + 1)..(to + k) THEN l[j - to + from] ELSE l[j]
<1>1. DOMAIN l = 1..(n + 1)
  BY DEF IsLine
<1> QED BY <1>1 DEF copy_mline

\* The right half of a wide character is overwritten: the left one goes.
LEMMA RightKilled ==
  ASSUME NEW n \in Nat, NEW l, IsLine(l, n), WholeLine(l, n), NEW x \in 0..(n - 1)
  PROVE  LET k == MKillDwRight(l, x)
         IN /\ IsLine(k, n) /\ WholeLine(k, n) /\ k[x + 1] # Right
            /\ \A j \in 1..(n + 1) : k[j] = l[j] \/ k[j] = Blank
<1> DEFINE k == MKillDwRight(l, x)
<1>1. IsLine(k, n)
  BY LineKept
<1>2. CASE l[x + 1] # Right
  BY <1>1, <1>2 DEF MKillDwRight, At
<1>3. CASE l[x + 1] = Right
  <2>1. DOMAIN l = 1..(n + 1) /\ x + 1 \in 1..n
    BY DEF IsLine
  <2>2. \A j \in 1..(n + 1) : k[j] = IF j \in {x, x + 1} THEN Blank ELSE l[j]
    BY <1>3, <2>1 DEF MKillDwRight, At
  <2>3. l[x] = Wide /\ x > 0
    BY <1>3, <2>1 DEF WholeLine
  <2> HIDE DEF k
  <2>4. \A j \in 1..n : (k[j] = Right => j > 1 /\ k[j - 1] = Wide) /\ (k[j] = Wide => j < n /\ k[j + 1] = Right)
    <3> TAKE j \in 1..n
    <3>1. CASE j \in {x, x + 1}
      BY <2>2, <3>1, Signs
    <3>2. CASE j \notin {x, x + 1}
      <4>1. k[j] = l[j]
        BY <2>2, <3>2
      <4>2. l[j] = Right => j > 1 /\ l[j - 1] = Wide /\ j - 1 # x + 1
        BY <1>3, <3>2, Signs DEF WholeLine
      <4>3. l[j] = Right => j - 1 # x
        BY <2>3, <3>2
      <4>4. l[j] = Wide => j < n /\ l[j + 1] = Right /\ j + 1 # x /\ j + 1 # x + 1
        BY <2>3, <3>2, Signs DEF WholeLine
      <4> QED BY <2>2, <4>1, <4>2, <4>3, <4>4
    <3> QED BY <3>1, <3>2
  <2>5. k[n + 1] = l[n + 1]
    BY <2>2
  <2>6. k[x + 1] # Right
    BY <2>1, <2>2, Signs
  <2>7. WholeLine(k, n)
    BY <2>4, <2>5 DEF WholeLine
  <2> QED BY <1>1, <2>2, <2>6, <2>7 DEF k
<1> QED BY <1>2, <1>3

\* The left half is overwritten: the right one goes.
LEMMA LeftKilled ==
  ASSUME NEW n \in Nat, NEW l, IsLine(l, n), WholeLine(l, n), NEW x \in 0..(n - 1)
  PROVE  LET k == MKillDwLeft(l, x)
         IN /\ IsLine(k, n) /\ WholeLine(k, n) /\ k[x + 2] # Right /\ k[x + 1] # Wide
            /\ \A j \in 1..(n + 1) : k[j] = l[j] \/ k[j] = Blank
<1> DEFINE k == MKillDwLeft(l, x)
<1>1. IsLine(k, n) /\ Len(l) = n + 1
  BY LineKept, LineLength
<1>2. CASE l[x + 2] # Right
  <2>1. k = l
    BY <1>1, <1>2 DEF MKillDwLeft, At
  <2>2. k[x + 1] # Wide
    BY <1>2, <2>1 DEF WholeLine
  <2> QED BY <1>1, <1>2, <2>1, <2>2
<1>3. CASE l[x + 2] = Right
  <2>1. x + 2 # n + 1
    BY <1>3 DEF WholeLine
  <2>2. DOMAIN l = 1..(n + 1) /\ x + 1 \in 1..n /\ x + 2 \in 1..n
    BY <2>1 DEF IsLine
  <2>3. \A j \in 1..(n + 1) : k[j] = IF j \in {x + 1, x + 2} THEN Blank ELSE l[j]
    BY <1>1, <1>3, <2>2 DEF MKillDwLeft, At
  <2>4. l[x + 1] = Wide
    BY <1>3, <2>2 DEF WholeLine
  <2> HIDE DEF k
  <2>5. \A j \in 1..n : (k[j] = Right => j > 1 /\ k[j - 1] = Wide) /\ (k[j] = Wide => j < n /\ k[j + 1] = Right)
    <3> TAKE j \in 1..n
    <3>1. CASE j \in {x + 1, x + 2}
      BY <2>3, <3>1, Signs
    <3>2. CASE j \notin {x + 1, x + 2}
      <4>1. k[j] = l[j]
        BY <2>3, <3>2
      <4>2. l[j] = Right => j > 1 /\ l[j - 1] = Wide /\ j - 1 # x + 2
        BY <1>3, <3>2, Signs DEF WholeLine
      <4>3. l[j] = Right => j - 1 # x + 1
        BY <3>2
      <4>4. l[j] = Wide => j < n /\ l[j + 1] = Right /\ j + 1 # x + 1 /\ j + 1 # x + 2
        BY <2>4, <3>2, Signs DEF WholeLine
      <4> QED BY <2>3, <4>1, <4>2, <4>3, <4>4
    <3> QED BY <3>1, <3>2
  <2>6. k[n + 1] = l[n + 1]
    BY <2>2, <2>3
  <2>7. k[x + 2] # Right /\ k[x + 1] # Wide
    BY <2>2, <2>3, Signs
  <2>8. WholeLine(k, n)
    BY <2>5, <2>6 DEF WholeLine
  <2> QED BY <1>1, <2>3, <2>7, <2>8 DEF k
<1> QED BY <1>2, <1>3

\* A free cell may hold any character of one column, two of them a wide one.
LEMMA CellSet ==
  ASSUME NEW n \in Nat, NEW l, IsLine(l, n), WholeLine(l, n), NEW x \in 0..(n - 1), Free(l, x + 1),
         NEW c, c # Right, c # Wide
  PROVE  WholeLine(Set(l, x, c), n)
<1> DEFINE s == Set(l, x, c)
<1>1. \A j \in 1..(n + 1) : s[j] = IF j = x + 1 THEN c ELSE l[j]
  BY SetCells
<1> HIDE DEF s
<1>2. \A j \in 1..n : (s[j] = Right => j > 1 /\ s[j - 1] = Wide) /\ (s[j] = Wide => j < n /\ s[j + 1] = Right)
  <2> TAKE j \in 1..n
  <2>1. CASE j = x + 1
    BY <1>1, <2>1
  <2>2. CASE j # x + 1
    <3>1. s[j] = l[j]
      BY <1>1, <2>2
    <3>2. l[j] = Right => j > 1 /\ l[j - 1] = Wide /\ j - 1 # x + 1
      BY DEF WholeLine, Free
    <3>3. l[j] = Wide => j < n /\ l[j + 1] = Right /\ j + 1 # x + 1
      BY DEF WholeLine, Free
    <3> QED BY <1>1, <3>1, <3>2, <3>3
  <2> QED BY <2>1, <2>2
<1>3. s[n + 1] = l[n + 1]
  BY <1>1
<1>4. WholeLine(s, n)
  BY <1>2, <1>3 DEF WholeLine
<1> QED BY <1>4 DEF s

LEMMA CellsSet ==
  ASSUME NEW n \in Nat, NEW l, IsLine(l, n), WholeLine(l, n), NEW x \in 0..(n - 2), Free(l, x + 1), Free(l, x + 2),
         NEW s, \A j \in 1..(n + 1) : s[j] = IF j = x + 1 THEN Wide ELSE IF j = x + 2 THEN Right ELSE l[j]
  PROVE  WholeLine(s, n)
<1>2. \A j \in 1..n : (s[j] = Right => j > 1 /\ s[j - 1] = Wide) /\ (s[j] = Wide => j < n /\ s[j + 1] = Right)
  <2> TAKE j \in 1..n
  <2>1. CASE j = x + 1
    <3>1. s[j] = Wide /\ j < n /\ s[j + 1] = Right
      BY <2>1
    <3> QED BY <3>1, Signs
  <2>2. CASE j = x + 2
    <3>1. s[j] = Right /\ j > 1 /\ s[j - 1] = Wide
      BY <2>2
    <3> QED BY <3>1, Signs
  <2>3. CASE j # x + 1 /\ j # x + 2
    <3>1. s[j] = l[j]
      BY <2>3
    <3>2. l[j] = Right => j > 1 /\ l[j - 1] = Wide /\ j - 1 # x + 1 /\ j - 1 # x + 2
      BY DEF WholeLine, Free
    <3>3. l[j] = Wide => j < n /\ l[j + 1] = Right /\ j + 1 # x + 1 /\ j + 1 # x + 2
      BY DEF WholeLine, Free
    <3> QED BY <3>1, <3>2, <3>3
  <2> QED BY <2>1, <2>2, <2>3
<1>3. s[n + 1] = l[n + 1]
  OBVIOUS
<1> QED BY <1>2, <1>3 DEF WholeLine
-----------------------------------------------------------------------------
(* Characters are put, inserted and deleted                                *)

LEMMA OpenedCells ==
  ASSUME NEW n \in Nat, NEW l, IsLine(l, n), NEW x \in Nat, NEW m \in Nat, m > 0, m = n - x - 1
  PROVE  /\ IsLine(MKillDwRight(l, n - 1), n)
         /\ \A j \in 1..(n + 1) :
              Opened(l, x, m)[j] = IF j \in (x + 2)..n THEN MKillDwRight(l, n - 1)[j - 1] ELSE MKillDwRight(l, n - 1)[j]
<1> DEFINE k == MKillDwRight(l, n - 1)
<1>1. IsLine(k, n) /\ Len(l) = n + 1
  BY LineKept, LineLength
<1>2. Opened(l, x, m) = copy_mline(k, x, x + 1, m)
  <2>1. Len(l) - 2 = n - 1
    BY <1>1
  <2> QED BY <2>1 DEF Opened
<1> HIDE DEF k
<1> DEFINE y == x + 1
<1>3. \A j \in 1..(n + 1) :
        copy_mline(k, x, y, m)[j] = IF j \in (y + 1)..(y + m) THEN k[j - y + x] ELSE k[j]
  <2> HIDE DEF y
  <2> QED BY <1>1, CopyCells
<1>4. (x + 1) + 1 = x + 2 /\ (x + 1) + m = n /\ \A j \in 1..(n + 1) : j - (x + 1) + x = j - 1
  OBVIOUS
<1> QED BY <1>1, <1>2, <1>3, <1>4 DEF k

\* A place is made for a character of one column, and it is put there.
LEMMA OpenedWhole ==
  ASSUME NEW n \in Nat, NEW l, IsLine(l, n), WholeLine(l, n), NEW x \in 0..(n - 1), l[x + 1] # Right,
         NEW m, m = n - x - 1, NEW c, c # Right, c # Wide
  PROVE  LET s == Set(Opened(l, x, m), x, c)
         IN /\ IsLine(s, n) /\ WholeLine(s, n) /\ s[x + 1] = c /\ (m > 0 => s[x + 2] # Right)
            /\ \A d : \A j \in 1..(n + 1) : Set(Opened(l, x, m), x, d)[j] = IF j = x + 1 THEN d ELSE s[j]
<1> DEFINE o == Opened(l, x, m)
           s == Set(o, x, c)
<1>1. IsLine(o, n) /\ IsLine(s, n)
  BY LineKept, OpenedKept
<1>2. \A d : \A j \in 1..(n + 1) : Set(o, x, d)[j] = IF j = x + 1 THEN d ELSE o[j]
  BY <1>1, SetCells
<1>3. \A d : \A j \in 1..(n + 1) : Set(o, x, d)[j] = IF j = x + 1 THEN d ELSE s[j]
  BY <1>2
<1>4. s[x + 1] = c
  BY <1>2
<1>5. CASE ~(m > 0)
  <2>1. o = l /\ x = n - 1
    BY <1>5 DEF Opened
  <2>2. l[x + 1] # Wide
    BY <2>1 DEF WholeLine
  <2>3. WholeLine(s, n)
    BY <2>1, <2>2, CellSet DEF Free
  <2> QED BY <1>1, <1>3, <1>4, <1>5, <2>3
<1>6. CASE m > 0
  <2> DEFINE k == MKillDwRight(l, n - 1)
  <2>1. m \in Nat /\ x \in Nat /\ n - 1 \in 0..(n - 1) /\ x + 2 \in 1..n /\ x + 1 \in 1..n
    BY <1>6
  <2>2. IsLine(k, n) /\ \A j \in 1..(n + 1) : o[j] = IF j \in (x + 2)..n THEN k[j - 1] ELSE k[j]
    BY <1>6, <2>1, OpenedCells
  <2>3. WholeLine(k, n) /\ k[n] # Right /\ \A j \in 1..(n + 1) : k[j] = l[j] \/ k[j] = Blank
    <3>1. (n - 1) + 1 = n
      OBVIOUS
    <3> QED BY <2>1, <3>1, RightKilled
  <2>4. k[x + 1] # Right
    BY <2>1, <2>3, Signs
  <2> HIDE DEF k, o
  <2>5. \A j \in 1..(n + 1) : s[j] = IF j = x + 1 THEN c ELSE IF j \in (x + 2)..n THEN k[j - 1] ELSE k[j]
    BY <1>2, <2>2
  <2> HIDE DEF s
  <2>6. \A j \in 1..n : (s[j] = Right => j > 1 /\ s[j - 1] = Wide) /\ (s[j] = Wide => j < n /\ s[j + 1] = Right)
    <3> TAKE j \in 1..n
    <3>1. CASE j = x + 1
      BY <2>5, <3>1
    <3>2. CASE j \in 1..x
      <4>1. s[j] = k[j] /\ j \in 1..n
        BY <2>5, <3>2
      <4>2. k[j] = Right => j > 1 /\ k[j - 1] = Wide
        BY <2>3, <4>1 DEF WholeLine
      <4>3. k[j] = Wide => j < n /\ k[j + 1] = Right /\ j + 1 # x + 1
        BY <2>3, <2>4, <4>1 DEF WholeLine
      <4>4. j > 1 => s[j - 1] = k[j - 1]
        BY <2>5, <3>2
      <4>5. j + 1 # x + 1 => s[j + 1] = k[j + 1]
        BY <2>5, <3>2
      <4> QED BY <4>1, <4>2, <4>3, <4>4, <4>5
    <3>3. CASE j \in (x + 2)..n
      <4>1. s[j] = k[j - 1] /\ j - 1 \in 1..n
        BY <2>5, <3>3
      <4>2. k[j - 1] = Right => j - 1 > 1 /\ k[(j - 1) - 1] = Wide /\ j - 1 # x + 1
        BY <2>3, <2>4, <4>1 DEF WholeLine
      <4>3. k[j - 1] = Wide => j - 1 < n /\ k[(j - 1) + 1] = Right /\ (j - 1) + 1 # n
        BY <2>3, <4>1 DEF WholeLine
      <4>4. j - 1 # x + 1 => s[j - 1] = k[(j - 1) - 1]
        <5>1. j - 1 # x + 1 => j - 1 \in (x + 2)..n /\ (j - 1) - 1 = j - 2
          BY <3>3
        <5> QED BY <2>5, <5>1
      <4>5. j # n => s[j + 1] = k[j]
        <5>1. j # n => j + 1 \in (x + 2)..n /\ j + 1 # x + 1 /\ (j + 1) - 1 = j
          BY <3>3
        <5> QED BY <2>5, <5>1
      <4>6. (j - 1) + 1 = j
        OBVIOUS
      <4> QED BY <4>1, <4>2, <4>3, <4>4, <4>5, <4>6
    <3> QED BY <3>1, <3>2, <3>3
  <2>7. s[n + 1] = k[n + 1]
    BY <2>5
  <2>8. WholeLine(s, n)
    BY <2>3, <2>6, <2>7 DEF WholeLine
  <2>9. s[x + 2] = k[x + 1]
    <3>1. x + 2 \in (x + 2)..n /\ x + 2 # x + 1 /\ (x + 2) - 1 = x + 1
      BY <2>1
    <3> QED BY <2>1, <2>5, <3>1
  <2> QED BY <1>1, <1>3, <1>4, <2>4, <2>8, <2>9 DEF s, o
<1> QED BY <1>5, <1>6

\* Two places are made for a wide character.
LEMMA OpenedWide ==
  ASSUME NEW n \in Nat, NEW l, IsLine(l, n), WholeLine(l, n), NEW x \in 0..(n - 2), l[x + 1] # Right,
         NEW m, m = n - x - 1
  PROVE  WholeLine(Set(Opened(Set(Opened(l, x, m), x, Wide), x + 1, m - 1), x + 1, Right), n)
<1> DEFINE f == Set(Opened(l, x, m), x, Wide)
           fb == Set(Opened(l, x, m), x, Blank)
           p == m - 1
           y == x + 1
           o == Opened(f, y, p)
           ob == Opened(fb, y, p)
           g == Set(o, y, Right)
           gb == Set(ob, y, Blank)
<1>1. x \in 0..(n - 1) /\ y \in 0..(n - 1) /\ m > 0 /\ p = n - y - 1 /\ y + 1 = x + 2
  OBVIOUS
<1>2. /\ IsLine(fb, n) /\ WholeLine(fb, n) /\ fb[x + 1] = Blank /\ fb[x + 2] # Right
      /\ \A d : \A j \in 1..(n + 1) : Set(Opened(l, x, m), x, d)[j] = IF j = x + 1 THEN d ELSE fb[j]
  <2> DEFINE a == Opened(l, x, m)
  <2>3. IsLine(a, n)
    BY OpenedKept
  <2>4. fb = Set(a, x, Blank)
    OBVIOUS
  <2>5. IsLine(fb, n) /\ WholeLine(fb, n) /\ fb[x + 1] = Blank /\ (m > 0 => fb[x + 2] # Right)
    BY <1>1, OpenedWhole, Signs
  <2> HIDE DEF a, fb
  <2>6. \A d : \A j \in 1..(n + 1) : Set(a, x, d)[j] = IF j = x + 1 THEN d ELSE Set(a, x, Blank)[j]
    BY <2>3, SetCells
  <2>7. \A d : \A j \in 1..(n + 1) : Set(a, x, d)[j] = IF j = x + 1 THEN d ELSE fb[j]
    BY <2>4, <2>6
  <2> QED BY <1>1, <2>5, <2>7 DEF a
<1>3. IsLine(f, n) /\ \A j \in 1..(n + 1) : f[j] = IF j = x + 1 THEN Wide ELSE fb[j]
  BY <1>2, LineKept, OpenedKept
<1> HIDE DEF f, fb, p
<1>4. /\ IsLine(gb, n) /\ WholeLine(gb, n) /\ gb[y + 1] = Blank
  <2>1. fb[y + 1] # Right
    BY <1>1, <1>2
  <2> HIDE DEF y
  <2> QED BY <1>1, <1>2, <2>1, OpenedWhole, Signs
<1>5. \A j \in 1..(n + 1) : o[j] = IF j = x + 1 THEN Wide ELSE ob[j]
  <2>1. CASE ~(p > 0)
    BY <1>3, <2>1 DEF Opened
  <2>2. CASE p > 0
    <3> DEFINE k == MKillDwRight(f, n - 1)
               kb == MKillDwRight(fb, n - 1)
    <3>1. p \in Nat /\ y \in Nat
      BY <1>1, <2>2
    <3>2. IsLine(k, n) /\ \A j \in 1..(n + 1) : o[j] = IF j \in (y + 2)..n THEN k[j - 1] ELSE k[j]
      <4> HIDE DEF y
      <4> QED BY <1>1, <1>3, <2>2, <3>1, OpenedCells
    <3>3. IsLine(kb, n) /\ \A j \in 1..(n + 1) : ob[j] = IF j \in (y + 2)..n THEN kb[j - 1] ELSE kb[j]
      <4> HIDE DEF y
      <4> QED BY <1>1, <1>2, <2>2, <3>1, OpenedCells
    <3>4. n # x + 1 /\ n - 1 # x + 1 /\ n \in 1..(n + 1) /\ (n - 1) + 1 = n /\ x + 1 \in 1..(n + 1)
      BY <1>1, <2>2
    <3>5. f[n] = fb[n]
      BY <1>3, <3>4
    <3>6. \A j \in 1..(n + 1) : k[j] = IF j = x + 1 THEN Wide ELSE kb[j]
      <4>1. DOMAIN f = 1..(n + 1) /\ DOMAIN fb = 1..(n + 1)
        BY <1>2, <1>3 DEF IsLine
      <4>2. CASE f[n] # Right
        BY <1>3, <3>4, <3>5, <4>2 DEF MKillDwRight, At
      <4>3. CASE f[n] = Right
        <5>1. /\ \A j \in 1..(n + 1) : k[j] = IF j \in {n - 1, (n - 1) + 1} THEN Blank ELSE f[j]
              /\ \A j \in 1..(n + 1) : kb[j] = IF j \in {n - 1, (n - 1) + 1} THEN Blank ELSE fb[j]
          BY <3>4, <3>5, <4>1, <4>3 DEF MKillDwRight, At
        <5> HIDE DEF k, kb
        <5> QED BY <1>3, <3>4, <5>1
      <4> QED BY <4>2, <4>3
    <3> HIDE DEF k, kb, o, ob
    <3> TAKE j \in 1..(n + 1)
    <3>7. CASE j \in (y + 2)..n
      <4>1. j - 1 \in 1..(n + 1) /\ j - 1 # x + 1 /\ j # x + 1
        BY <1>1, <3>7
      <4> QED BY <3>2, <3>3, <3>6, <3>7, <4>1
    <3>8. CASE j \notin (y + 2)..n
      BY <3>2, <3>3, <3>6, <3>8
    <3> QED BY <3>7, <3>8
  <2> QED BY <2>1, <2>2
<1>6. \A j \in 1..(n + 1) : g[j] = IF j = y + 1 THEN Right ELSE o[j]
  BY <1>3, OpenedKept, SetCells
<1>7. \A j \in 1..(n + 1) : gb[j] = IF j = y + 1 THEN Blank ELSE ob[j]
  BY <1>2, OpenedKept, SetCells
<1> HIDE DEF g, gb, o, ob
<1>8. \A j \in 1..(n + 1) : g[j] = IF j = x + 1 THEN Wide ELSE IF j = x + 2 THEN Right ELSE gb[j]
  BY <1>1, <1>5, <1>6, <1>7
<1>9. Free(gb, x + 2)
  BY <1>1, <1>4, Signs DEF Free
<1>10. Free(gb, x + 1)
  <2>1. gb[x + 1] = ob[x + 1]
    BY <1>1, <1>7
  <2>2. ob[x + 1] = Blank
    <3>1. CASE ~(p > 0)
      BY <1>2, <3>1 DEF ob, Opened
    <3>2. CASE p > 0
      <4> DEFINE kb == MKillDwRight(fb, n - 1)
      <4>1. p \in Nat /\ y \in Nat
        BY <1>1, <3>2
      <4>2. IsLine(kb, n) /\ \A j \in 1..(n + 1) : ob[j] = IF j \in (y + 2)..n THEN kb[j - 1] ELSE kb[j]
        <5> HIDE DEF y
        <5> QED BY <1>1, <1>2, <3>2, <4>1, OpenedCells DEF ob
      <4>3. x + 1 \in 1..(n + 1) /\ x + 1 \notin (y + 2)..n /\ n - 1 \in 0..(n - 1)
        BY <1>1
      <4>4. kb[x + 1] = fb[x + 1] \/ kb[x + 1] = Blank
        BY <1>2, <4>3, RightKilled
      <4> QED BY <1>2, <4>2, <4>3, <4>4
    <3> QED BY <3>1, <3>2
  <2> QED BY <2>1, <2>2, Signs DEF Free
<1>11. WholeLine(g, n)
  BY <1>4, <1>8, <1>9, <1>10, CellsSet
<1> QED BY <1>11 DEF g, o, f, y, p

LEMMA LineRedrawn ==
  ASSUME NEW w, NEW b, Memory(w), NEW y \in 0..(w.height - 1), NEW l, IsLine(l, w.width),
         b /\ Whole(w) => WholeLine(l, w.width)
  PROVE  Redrawn(WithLine(w, y, l), w, b)
<1> DEFINE s == [w.lines EXCEPT ![y + 1] = l]
<1>1. IsRows(w.lines, w.height, w.width)
  BY DEF Memory
<1>2. IsRows(s, w.height, w.width)
  BY <1>1, RowReplaced
<1>3. b /\ Whole(w) => WholeRows(s, w.height, w.width)
  <2>1. \A i \in 1..w.height : s[i] = IF i = y + 1 THEN l ELSE w.lines[i]
    BY <1>1 DEF IsRows
  <2> HIDE DEF s
  <2> QED BY <2>1 DEF Whole, WholeRows
<1>4. WithLine(w, y, l) = [w EXCEPT !.lines = s]
  BY DEF WithLine
<1> HIDE DEF s
<1>5. Redrawn([w EXCEPT !.lines = s], w, b)
  BY ONLY Memory(w), <1>2, <1>3, LinesRedrawn
<1> QED BY ONLY <1>4, <1>5

\* A line of the window.
LEMMA LineOf ==
  ASSUME NEW w, Memory(w), NEW y \in 0..(w.height - 1)
  PROVE  /\ w.width \in Nat /\ w.width > 0 /\ IsLine(w.lines[y + 1], w.width)
         /\ Whole(w) => w.width >= 2 /\ WholeLine(w.lines[y + 1], w.width)
<1>1. y + 1 \in 1..w.height
  BY Sizes DEF Memory
<1> QED BY <1>1, Sizes DEF Memory, IsRows, Whole, WholeRows

\* A character is put over what was there.
LEMMA MPutCharRedrawn ==
  ASSUME NEW w, NEW b, Memory(w), NEW y \in 0..(w.height - 1), NEW c \in Chars \cup {Wide}, NEW x,
         b /\ Whole(w) => x \in 0..(w.width - 1) /\ (c = Wide => x < w.width - 1)
  PROVE  Redrawn(MPutChar(w, c, x, y), w, b)
<1> DEFINE n == w.width
           l == w.lines[y + 1]
           k1 == MKillDwRight(l, x)
           k == MKillDwLeft(k1, x)
           s == Set(k, x, c)
           room == IF c = Wide THEN MKillDwLeft(s, x + 1) ELSE k
           r == Written(room, x, c)
<1>1. n \in Nat /\ n > 0 /\ IsLine(l, n) /\ (Whole(w) => n >= 2 /\ WholeLine(l, n))
  BY LineOf
<1>2. MPutChar(w, c, x, y) = WithLine(w, y, r)
  BY DEF MPutChar
<1> HIDE DEF l, n
<1>3. IsLine(k1, n) /\ IsLine(k, n) /\ IsLine(s, n) /\ IsLine(room, n)
  BY <1>1, LineKept
<1>4. IsLine(r, n)
  BY <1>3, WrittenKept
<1>5. ASSUME b, Whole(w) PROVE WholeLine(r, n)
  <2>1. x \in 0..(n - 1) /\ (c = Wide => x < n - 1) /\ n >= 2 /\ WholeLine(l, n)
    BY <1>1, <1>5 DEF n
  <2>2. WholeLine(k1, n) /\ k1[x + 1] # Right /\ IsLine(k1, n)
    BY <1>1, <2>1, RightKilled
  <2> HIDE DEF k1
  <2>3. /\ WholeLine(k, n) /\ k[x + 2] # Right /\ k[x + 1] # Wide
        /\ \A j \in 1..(n + 1) : k[j] = k1[j] \/ k[j] = Blank
    BY <1>1, <1>3, <2>1, <2>2, LeftKilled
  <2>4. k[x + 1] # Right /\ Free(k, x + 1)
    <3>1. x + 1 \in 1..(n + 1)
      BY <1>1, <2>1
    <3> QED BY <2>2, <2>3, <3>1, Signs DEF Free
  <2> HIDE DEF k
  <2>5. CASE c # Wide
    <3>1. r = Set(k, x, c)
      BY <2>5 DEF Written
    <3>2. c # Right
      BY DEF ScreenAssumption
    <3> HIDE DEF r
    <3> QED BY <1>1, <1>3, <2>1, <2>3, <2>4, <2>5, <3>1, <3>2, CellSet
  <2>6. CASE c = Wide
    <3> DEFINE y1 == x + 1
               k2 == MKillDwLeft(k, y1)
    <3>1. y1 \in 0..(n - 1) /\ x \in 0..(n - 2) /\ y1 + 1 = x + 2 /\ y1 + 2 = x + 3
      BY <1>1, <2>1, <2>6
    <3>2. /\ IsLine(k2, n) /\ WholeLine(k2, n) /\ k2[y1 + 2] # Right /\ k2[y1 + 1] # Wide
          /\ \A j \in 1..(n + 1) : k2[j] = k[j] \/ k2[j] = Blank
      <4> HIDE DEF y1
      <4> QED BY <1>1, <1>3, <2>3, <3>1, LeftKilled
    <3>3. x + 1 \in 1..(n + 1) /\ x + 2 \in 1..(n + 1)
      BY <1>1, <2>1, <2>6
    <3>4. Free(k2, x + 1) /\ Free(k2, x + 2)
      BY <2>3, <2>4, <3>1, <3>2, <3>3, Signs DEF Free
    <3>5. \A j \in 1..(n + 1) : s[j] = IF j = x + 1 THEN c ELSE k[j]
      BY <1>3, SetCells
    <3>6. \A j \in 1..(n + 1) : room[j] = IF j = x + 1 THEN c ELSE k2[j]
      <4>1. Len(s) = n + 1 /\ Len(k) = n + 1 /\ DOMAIN s = 1..(n + 1) /\ DOMAIN k = 1..(n + 1)
        <5> HIDE DEF s
        <5> QED BY <1>1, <1>3, LineLength DEF IsLine
      <4>2. At(s, y1 + 1) = s[x + 3] /\ At(k, y1 + 1) = k[x + 3]
        <5>1. (y1 + 1) + 1 = x + 3
          BY <3>1
        <5> HIDE DEF y1, s
        <5> QED BY <5>1 DEF At
      <4> HIDE DEF s
      <4>3. y1 + 2 <= n + 1 => s[x + 3] = k[x + 3]
        <5>1. y1 + 2 <= n + 1 => x + 3 \in 1..(n + 1) /\ x + 3 # x + 1
          BY <3>1
        <5> QED BY <3>5, <5>1
      <4>4. room = MKillDwLeft(s, y1)
        BY <2>6
      <4> HIDE DEF room
      <4>5. CASE y1 + 2 > n + 1 \/ k[x + 3] # Right
        <5>1. room = s /\ k2 = k
          <6>1. y1 + 2 > Len(s) \/ At(s, y1 + 1) # Right
            BY <1>1, <3>1, <4>1, <4>2, <4>3, <4>5
          <6>2. y1 + 2 > Len(k) \/ At(k, y1 + 1) # Right
            BY <1>1, <3>1, <4>1, <4>2, <4>3, <4>5
          <6> HIDE DEF y1
          <6> QED BY <4>4, <6>1, <6>2 DEF MKillDwLeft
        <5> HIDE DEF k2
        <5> QED BY <3>5, <5>1
      <4>6. CASE ~(y1 + 2 > n + 1 \/ k[x + 3] # Right)
        <5>1. ~(y1 + 2 > Len(s) \/ At(s, y1 + 1) # Right) /\ ~(y1 + 2 > Len(k) \/ At(k, y1 + 1) # Right)
          BY <1>1, <3>1, <4>1, <4>2, <4>3, <4>6
        <5>2. /\ \A j \in 1..(n + 1) : room[j] = IF j \in {y1 + 1, y1 + 2} THEN Blank ELSE s[j]
              /\ \A j \in 1..(n + 1) : k2[j] = IF j \in {y1 + 1, y1 + 2} THEN Blank ELSE k[j]
          BY <4>1, <4>4, <5>1 DEF MKillDwLeft
        <5>3. x + 1 \notin {y1 + 1, y1 + 2}
          BY <3>1
        <5> HIDE DEF y1, k2
        <5> QED BY <3>5, <5>2, <5>3
      <4> QED BY <4>5, <4>6
    <3>7. \A j \in 1..(n + 1) : r[j] = IF j = x + 1 THEN Wide ELSE IF j = x + 2 THEN Right ELSE k2[j]
      <4> DEFINE q == Set(room, x, c)
      <4>1. r = Set(q, x + 1, Right) /\ IsLine(q, n)
        BY <1>3, <2>6, LineKept DEF Written
      <4>2. \A j \in 1..(n + 1) : q[j] = IF j = x + 1 THEN c ELSE room[j]
        BY <1>3, SetCells
      <4> HIDE DEF q, r, room, k2
      <4>3. \A j \in 1..(n + 1) : Set(q, y1, Right)[j] = IF j = y1 + 1 THEN Right ELSE q[j]
        BY <4>1, SetCells
      <4>4. x + 1 # x + 2
        BY <3>1
      <4> QED BY <2>6, <3>1, <3>6, <4>1, <4>2, <4>3, <4>4
    <3> HIDE DEF k2, r
    <3> QED BY <1>1, <3>1, <3>2, <3>4, <3>7, CellsSet
  <2> QED BY <2>5, <2>6
<1> HIDE DEF r
<1>6. IsLine(r, w.width) /\ (b /\ Whole(w) => WholeLine(r, w.width))
  BY <1>4, <1>5 DEF n
<1>7. Redrawn(WithLine(w, y, r), w, b)
  BY ONLY Memory(w), y \in 0..(w.height - 1), <1>6, LineRedrawn
<1> QED BY <1>2, <1>7

\* A character is inserted.
LEMMA MInsCharRedrawn ==
  ASSUME NEW w, NEW b, Memory(w), NEW y \in 0..(w.height - 1), NEW c \in Chars \cup {Wide}, NEW x,
         b /\ Whole(w) => x \in 0..(w.width - 1) /\ (c = Wide => x < w.width - 1)
  PROVE  Redrawn(MInsChar(w, c, x, y), w, b)
<1> DEFINE n == w.width
           l == w.lines[y + 1]
           m == n - x - 1
           k == MKillDwRight(l, x)
           first == Set(Opened(k, x, m), x, c)
           r == IF c = Wide THEN Set(Opened(first, x + 1, m - 1), x + 1, Right) ELSE first
<1>1. n \in Nat /\ n > 0 /\ IsLine(l, n) /\ (Whole(w) => n >= 2 /\ WholeLine(l, n))
  BY LineOf
<1>2. MInsChar(w, c, x, y) = WithLine(w, y, r)
  BY DEF MInsChar
<1> HIDE DEF l, n
<1>3. IsLine(k, n)
  BY <1>1, LineKept
<1>4. IsLine(first, n)
  BY <1>3, LineKept, OpenedKept
<1>5. IsLine(r, n)
  <2> HIDE DEF first
  <2> QED BY <1>4, LineKept, OpenedKept
<1>6. ASSUME b, Whole(w) PROVE WholeLine(r, n)
  <2>1. x \in 0..(n - 1) /\ (c = Wide => x \in 0..(n - 2)) /\ n >= 2 /\ WholeLine(l, n)
    BY <1>1, <1>6 DEF n
  <2>2. WholeLine(k, n) /\ k[x + 1] # Right
    BY <1>1, <2>1, RightKilled
  <2>3. m = n - x - 1
    OBVIOUS
  <2> HIDE DEF k, m
  <2>4. CASE c # Wide
    <3>1. c # Right
      BY DEF ScreenAssumption
    <3> QED BY <1>1, <1>3, <2>1, <2>2, <2>3, <2>4, <3>1, OpenedWhole
  <2>5. CASE c = Wide
    BY <1>1, <1>3, <2>1, <2>2, <2>3, <2>5, OpenedWide
  <2> QED BY <2>4, <2>5
<1> HIDE DEF r
<1>7. IsLine(r, w.width) /\ (b /\ Whole(w) => WholeLine(r, w.width))
  BY <1>5, <1>6 DEF n
<1>8. Redrawn(WithLine(w, y, r), w, b)
  BY ONLY Memory(w), y \in 0..(w.height - 1), <1>7, LineRedrawn
<1> QED BY <1>2, <1>8

\* Cells move to the left, or to the right, up to the end of the line.
WentLeft(s, l, n, x, k) ==
  \A j \in 1..(n + 1) :
    s[j] = IF j \in (n - k + 1)..n THEN Blank
           ELSE IF j \in (x + 1)..(n - k) THEN MKillDwRight(l, x + k)[j + k]
           ELSE MKillDwRight(l, x + k)[j]

WentRight(s, l, n, x, k) ==
  \A j \in 1..(n + 1) :
    s[j] = IF j \in (x + 1)..(x + k) THEN Blank
           ELSE IF j \in (x + k + 1)..n THEN MKillDwLeft(l, n - 1 - k)[j - k]
           ELSE MKillDwLeft(l, n - 1 - k)[j]

LEMMA MovedLeft ==
  ASSUME NEW n \in Nat, NEW l, IsLine(l, n), WholeLine(l, n), NEW x \in 0..(n - 1), l[x + 1] # Right,
         NEW k \in Nat, x + k < n, NEW s, WentLeft(s, l, n, x, k)
  PROVE  WholeLine(s, n)
<1> DEFINE q == MKillDwRight(l, x + k)
           z == x + k
<1>1. z \in 0..(n - 1) /\ z + 1 = x + k + 1 /\ x + 1 \in 1..n
  OBVIOUS
<1>2. WholeLine(q, n) /\ q[x + k + 1] # Right /\ \A j \in 1..(n + 1) : q[j] = l[j] \/ q[j] = Blank
  <2> HIDE DEF z
  <2>1. /\ WholeLine(MKillDwRight(l, z), n) /\ MKillDwRight(l, z)[z + 1] # Right
        /\ \A j \in 1..(n + 1) : MKillDwRight(l, z)[j] = l[j] \/ MKillDwRight(l, z)[j] = Blank
    BY <1>1, RightKilled
  <2> QED BY <1>1, <2>1 DEF z
<1>3. q[x + 1] # Right
  BY <1>1, <1>2, Signs
<1> HIDE DEF q
<1>4. \A j \in 1..(n + 1) : s[j] = IF j \in (n - k + 1)..n THEN Blank ELSE IF j \in (x + 1)..(n - k) THEN q[j + k] ELSE q[j]
  BY DEF q, WentLeft
<1>5. \A j \in 1..n : (s[j] = Right => j > 1 /\ s[j - 1] = Wide) /\ (s[j] = Wide => j < n /\ s[j + 1] = Right)
  <2> TAKE j \in 1..n
  <2>1. CASE j \in (n - k + 1)..n
    BY <1>4, <2>1, Signs
  <2>2. CASE j \in (x + 1)..(n - k)
    <3>1. s[j] = q[j + k] /\ j + k \in 1..n /\ (j + k) + 1 \in 1..(n + 1)
      BY <1>4, <2>2
    <3>2. q[j + k] = Right => q[(j + k) - 1] = Wide /\ j # x + 1
      <4>1. j = x + 1 => j + k = x + k + 1
        OBVIOUS
      <4> QED BY <1>2, <3>1, <4>1 DEF WholeLine
    <3>3. q[j + k] = Wide => j + k < n /\ q[(j + k) + 1] = Right
      BY <1>2, <3>1 DEF WholeLine
    <3>4. j # x + 1 => s[j - 1] = q[(j + k) - 1] /\ j > 1
      <4>1. j # x + 1 => j - 1 \in (x + 1)..(n - k) /\ (j - 1) + k = (j + k) - 1 /\ j > 1
                         /\ j - 1 \notin (n - k + 1)..n /\ j - 1 \in 1..(n + 1)
        BY <2>2
      <4> QED BY <1>4, <4>1
    <3>5. j + k < n => s[j + 1] = q[(j + k) + 1] /\ j < n
      <4>1. j + k < n => j + 1 \in (x + 1)..(n - k) /\ (j + 1) + k = (j + k) + 1 /\ j < n
                         /\ j + 1 \notin (n - k + 1)..n /\ j + 1 \in 1..(n + 1)
        BY <2>2
      <4> QED BY <1>4, <4>1
    <3> QED BY <3>1, <3>2, <3>3, <3>4, <3>5
  <2>3. CASE j <= x
    <3>1. s[j] = q[j]
      BY <1>4, <2>3
    <3>2. q[j] = Right => j > 1 /\ q[j - 1] = Wide
      BY <1>2 DEF WholeLine
    <3>3. q[j] = Wide => q[j + 1] = Right /\ j # x /\ j < n
      BY <1>2, <1>3 DEF WholeLine
    <3>4. j > 1 => s[j - 1] = q[j - 1]
      BY <1>4, <2>3
    <3>5. j # x => s[j + 1] = q[j + 1]
      BY <1>4, <2>3
    <3> QED BY <3>1, <3>2, <3>3, <3>4, <3>5
  <2> QED BY <2>1, <2>2, <2>3
<1>6. s[n + 1] = q[n + 1]
  BY <1>4
<1> QED BY <1>2, <1>5, <1>6 DEF WholeLine

LEMMA MovedRight ==
  ASSUME NEW n \in Nat, NEW l, IsLine(l, n), WholeLine(l, n), NEW x \in 0..(n - 1), l[x + 1] # Right,
         NEW k \in Nat, x + k < n, NEW s, WentRight(s, l, n, x, k)
  PROVE  WholeLine(s, n)
<1> DEFINE q == MKillDwLeft(l, n - 1 - k)
           z == n - 1 - k
<1>1. z \in 0..(n - 1) /\ z + 1 = n - k /\ x + 1 \in 1..n
  OBVIOUS
<1>2. WholeLine(q, n) /\ q[n - k] # Wide /\ \A j \in 1..(n + 1) : q[j] = l[j] \/ q[j] = Blank
  <2> HIDE DEF z
  <2>1. /\ WholeLine(MKillDwLeft(l, z), n) /\ MKillDwLeft(l, z)[z + 1] # Wide
        /\ \A j \in 1..(n + 1) : MKillDwLeft(l, z)[j] = l[j] \/ MKillDwLeft(l, z)[j] = Blank
    BY <1>1, LeftKilled
  <2> QED BY <1>1, <2>1 DEF z
<1>3. q[x + 1] # Right
  BY <1>1, <1>2, Signs
<1> HIDE DEF q
<1>4. \A j \in 1..(n + 1) : s[j] = IF j \in (x + 1)..(x + k) THEN Blank ELSE IF j \in (x + k + 1)..n THEN q[j - k] ELSE q[j]
  BY DEF q, WentRight
<1>5. \A j \in 1..n : (s[j] = Right => j > 1 /\ s[j - 1] = Wide) /\ (s[j] = Wide => j < n /\ s[j + 1] = Right)
  <2> TAKE j \in 1..n
  <2>1. CASE j \in (x + 1)..(x + k)
    BY <1>4, <2>1, Signs
  <2>2. CASE j \in (x + k + 1)..n
    <3>1. s[j] = q[j - k] /\ j - k \in 1..n /\ (j - k) + 1 \in 1..(n + 1)
      BY <1>4, <2>2
    <3>2. q[j - k] = Right => q[(j - k) - 1] = Wide /\ j # x + k + 1
      <4>1. j = x + k + 1 => j - k = x + 1
        OBVIOUS
      <4> QED BY <1>2, <1>3, <3>1, <4>1 DEF WholeLine
    <3>3. q[j - k] = Wide => j < n /\ q[(j - k) + 1] = Right
      <4>1. j = n => j - k = n - k
        OBVIOUS
      <4> QED BY <1>2, <2>2, <3>1, <4>1 DEF WholeLine
    <3>4. j # x + k + 1 => s[j - 1] = q[(j - k) - 1] /\ j > 1
      <4>1. j # x + k + 1 => j - 1 \in (x + k + 1)..n /\ (j - 1) - k = (j - k) - 1 /\ j > 1
                         /\ j - 1 \notin (x + 1)..(x + k) /\ j - 1 \in 1..(n + 1)
        BY <2>2
      <4> QED BY <1>4, <4>1
    <3>5. j < n => s[j + 1] = q[(j - k) + 1]
      <4>1. j < n => j + 1 \in (x + k + 1)..n /\ (j + 1) - k = (j - k) + 1
                         /\ j + 1 \notin (x + 1)..(x + k) /\ j + 1 \in 1..(n + 1)
        BY <2>2
      <4> QED BY <1>4, <4>1
    <3> QED BY <3>1, <3>2, <3>3, <3>4, <3>5
  <2>3. CASE j <= x
    <3>1. s[j] = q[j]
      BY <1>4, <2>3
    <3>2. q[j] = Right => j > 1 /\ q[j - 1] = Wide
      BY <1>2 DEF WholeLine
    <3>3. q[j] = Wide => q[j + 1] = Right /\ j # x /\ j < n
      BY <1>2, <1>3 DEF WholeLine
    <3>4. j > 1 => s[j - 1] = q[j - 1]
      BY <1>4, <2>3
    <3>5. j # x => s[j + 1] = q[j + 1]
      BY <1>4, <2>3
    <3> QED BY <3>1, <3>2, <3>3, <3>4, <3>5
  <2> QED BY <2>1, <2>2, <2>3
<1>6. s[n + 1] = q[n + 1]
  BY <1>4
<1> QED BY <1>2, <1>5, <1>6 DEF WholeLine

\* Cells are cleared from one on, up to another.
LEMMA Cleared ==
  ASSUME NEW n \in Nat, NEW l, IsLine(l, n), WholeLine(l, n), NEW x \in 0..(n - 1), l[x + 1] # Right,
         NEW e \in 0..(n - 1), e = n - 1 \/ l[e + 2] # Right, NEW k, k = e - x + 1
  PROVE  WholeLine(clear_mline(l, x, k), n)
<1> DEFINE s == clear_mline(l, x, k)
<1>1. \A j \in 1..(n + 1) : s[j] = IF j \in (x + 1)..(x + k) THEN Blank ELSE l[j]
  BY ClearCells
<1>2. x + k = e + 1
  OBVIOUS
<1> HIDE DEF s
<1>3. \A j \in 1..(n + 1) : s[j] = IF j \in (x + 1)..(e + 1) THEN Blank ELSE l[j]
  BY <1>1, <1>2
<1>4. \A j \in 1..n : (s[j] = Right => j > 1 /\ s[j - 1] = Wide) /\ (s[j] = Wide => j < n /\ s[j + 1] = Right)
  <2> TAKE j \in 1..n
  <2>1. CASE j \in (x + 1)..(e + 1)
    BY <1>3, <2>1, Signs
  <2>2. CASE j \notin (x + 1)..(e + 1)
    <3>1. s[j] = l[j]
      BY <1>3, <2>2
    <3>2. l[j] = Right => j > 1 /\ l[j - 1] = Wide /\ j # e + 2
      BY DEF WholeLine
    <3>3. l[j] = Wide => j < n /\ l[j + 1] = Right /\ j # x
      BY DEF WholeLine
    <3>4. j > 1 /\ j # e + 2 => s[j - 1] = l[j - 1]
      <4>1. j > 1 /\ j # e + 2 => j - 1 \in 1..(n + 1) /\ j - 1 \notin (x + 1)..(e + 1)
        BY <2>2
      <4> QED BY <1>3, <4>1
    <3>5. j < n /\ j # x => s[j + 1] = l[j + 1]
      <4>1. j < n /\ j # x => j + 1 \in 1..(n + 1) /\ j + 1 \notin (x + 1)..(e + 1)
        BY <2>2
      <4> QED BY <1>3, <4>1
    <3> QED BY <3>1, <3>2, <3>3, <3>4, <3>5
  <2> QED BY <2>1, <2>2
<1>5. s[n + 1] = l[n + 1]
  BY <1>3
<1> QED BY <1>4, <1>5 DEF WholeLine, s

\* n cells of a line go from x on, or come in there.
LEMMA MScrollHRedrawn ==
  ASSUME NEW w, NEW b, Memory(w), NEW y \in 0..(w.height - 1), NEW d \in Int, NEW x, NEW e, e = w.width - 1,
         b /\ Whole(w) => x \in 0..(w.width - 1)
  PROVE  Redrawn(MScrollH(w, d, y, x, e), w, b)
<1> DEFINE n == w.width
           l == w.lines[y + 1]
           k1 == MKillDwRight(l, x)
           q == MKillDwLeft(k1, e)
           size == e - x + 1
           k == Least(IF d < 0 THEN -d ELSE d, size)
           gone == IF k < size THEN copy_mline(MKillDwRight(q, x + k), x + k, x, size - k) ELSE q
           come == IF k < size THEN copy_mline(MKillDwLeft(q, e - k), x, x + k, size - k) ELSE q
           r == IF d > 0 THEN clear_mline(gone, e + 1 - k, k) ELSE clear_mline(come, x, k)
<1>1. n \in Nat /\ n > 0 /\ IsLine(l, n) /\ (Whole(w) => n >= 2 /\ WholeLine(l, n)) /\ e = n - 1
  BY LineOf
<1>2. MScrollH(w, d, y, x, e) = WithLine(w, y, r)
  BY DEF MScrollH
<1> HIDE DEF l, n
<1>3. IsLine(k1, n) /\ IsLine(q, n)
  BY <1>1, LineKept
<1>4. IsLine(gone, n) /\ IsLine(come, n)
  <2> HIDE DEF q, k, size
  <2>1. IsLine(MKillDwRight(q, x + k), n) /\ IsLine(MKillDwLeft(q, e - k), n)
    BY <1>3, LineKept
  <2> QED BY <1>3, <2>1, LineKept
<1>5. IsLine(r, n)
  <2> HIDE DEF gone, come
  <2> QED BY <1>4, LineKept
<1>6. ASSUME b, Whole(w) PROVE WholeLine(r, n)
  <2>1. x \in 0..(n - 1) /\ WholeLine(l, n) /\ e \in 0..(n - 1)
    BY <1>1, <1>6 DEF n
  <2>2. WholeLine(k1, n) /\ k1[x + 1] # Right
    BY <1>1, <2>1, RightKilled
  <2> HIDE DEF k1
  <2>3. WholeLine(q, n) /\ \A j \in 1..(n + 1) : q[j] = k1[j] \/ q[j] = Blank
    BY <1>1, <1>3, <2>1, <2>2, LeftKilled
  <2>4. q[x + 1] # Right
    <3>1. x + 1 \in 1..(n + 1)
      BY <1>1, <2>1
    <3> QED BY <2>2, <2>3, <3>1, Signs
  <2>5. size = n - x /\ size > 0 /\ k \in Nat /\ k <= size
    BY <1>1, <2>1 DEF Least
  <2> HIDE DEF q, k
  <2>6. CASE k < size
    <3>1. x + k < n /\ size - k = n - x - k
      BY <1>1, <2>1, <2>5, <2>6
    <3>2. CASE d > 0
      <4> DEFINE g == MKillDwRight(q, x + k)
                 z == x + k
                 t == size - k
                 a == e + 1 - k
      <4>1. r = clear_mline(copy_mline(g, z, x, t), a, k) /\ IsLine(g, n)
        BY <1>3, <2>6, <3>2, LineKept
      <4>2. z = x + k /\ t = n - x - k /\ a = n - k
        BY <1>1, <2>1, <2>5, <3>1
      <4> HIDE DEF g, z, t, a, r
      <4>3. \A j \in 1..(n + 1) : copy_mline(g, z, x, t)[j] = IF j \in (x + 1)..(x + t) THEN g[j - x + z] ELSE g[j]
        BY <4>1, CopyCells
      <4>4. x + t = n - k /\ a + 1 = n - k + 1 /\ a + k = n /\ \A j \in 1..(n + 1) : j - x + z = j + k
        BY <1>1, <2>1, <2>5, <4>2
      <4>5. \A j \in 1..(n + 1) : copy_mline(g, z, x, t)[j] = IF j \in (x + 1)..(n - k) THEN g[j + k] ELSE g[j]
        BY <4>3, <4>4
      <4>6. \A j \in 1..(n + 1) : r[j] = IF j \in (a + 1)..(a + k) THEN Blank ELSE copy_mline(g, z, x, t)[j]
        BY <4>1, LineKept, ClearCells
      <4>7. \A j \in 1..(n + 1) : r[j] = IF j \in (n - k + 1)..n THEN Blank ELSE IF j \in (x + 1)..(n - k) THEN g[j + k] ELSE g[j]
        BY <4>4, <4>5, <4>6
      <4>8. g = MKillDwRight(q, x + k)
        BY DEF g
      <4>9. WentLeft(r, q, n, x, k)
        BY ONLY <4>7, <4>8 DEF WentLeft
      <4> QED BY ONLY <1>1, <1>3, <2>1, <2>3, <2>4, <2>5, <3>1, <4>9, MovedLeft
    <3>3. CASE ~(d > 0)
      <4> DEFINE g == MKillDwLeft(q, e - k)
                 z == x + k
                 t == size - k
      <4>1. r = clear_mline(copy_mline(g, x, z, t), x, k) /\ IsLine(g, n)
        BY <1>3, <2>6, <3>3, LineKept
      <4>2. z = x + k /\ t = n - x - k /\ e - k = n - 1 - k
        BY <1>1, <2>1, <2>5, <3>1
      <4>8. g = MKillDwLeft(q, n - 1 - k)
        BY <4>2
      <4> HIDE DEF g, z, t, r
      <4>3. \A j \in 1..(n + 1) : copy_mline(g, x, z, t)[j] = IF j \in (z + 1)..(z + t) THEN g[j - z + x] ELSE g[j]
        BY <4>1, CopyCells
      <4>4. z + t = n /\ z + 1 = x + k + 1 /\ \A j \in 1..(n + 1) : j - z + x = j - k
        BY <1>1, <2>1, <2>5, <4>2
      <4>5. \A j \in 1..(n + 1) : copy_mline(g, x, z, t)[j] = IF j \in (x + k + 1)..n THEN g[j - k] ELSE g[j]
        BY <4>3, <4>4
      <4>6. \A j \in 1..(n + 1) : r[j] = IF j \in (x + 1)..(x + k) THEN Blank ELSE copy_mline(g, x, z, t)[j]
        BY <4>1, LineKept, ClearCells
      <4>7. \A j \in 1..(n + 1) : r[j] = IF j \in (x + 1)..(x + k) THEN Blank ELSE IF j \in (x + k + 1)..n THEN g[j - k] ELSE g[j]
        BY <4>5, <4>6
      <4>9. WentRight(r, q, n, x, k)
        BY ONLY <4>7, <4>8 DEF WentRight
      <4> QED BY ONLY <1>1, <1>3, <2>1, <2>3, <2>4, <2>5, <3>1, <4>9, MovedRight
    <3> QED BY <3>2, <3>3
  <2>7. CASE ~(k < size)
    <3>1. k = size /\ e + 1 - k = x /\ k = e - x + 1
      BY <1>1, <2>1, <2>5, <2>7
    <3>2. r = clear_mline(q, x, k)
      BY <2>7, <3>1
    <3> HIDE DEF r, size
    <3> QED BY <1>1, <1>3, <2>1, <2>3, <2>4, <3>1, <3>2, Cleared
  <2> QED BY <2>6, <2>7
<1> HIDE DEF r
<1>7. IsLine(r, w.width) /\ (b /\ Whole(w) => WholeLine(r, w.width))
  BY <1>5, <1>6 DEF n
<1>8. Redrawn(WithLine(w, y, r), w, b)
  BY ONLY Memory(w), y \in 0..(w.height - 1), <1>7, LineRedrawn
<1> QED BY <1>2, <1>8

\* The cells from x1 of the line ys to x2 of the line ye are cleared.
LEMMA MClearAreaRedrawn ==
  ASSUME NEW w, NEW b, Memory(w), NEW ys \in 0..(w.height - 1), NEW ye \in ys..(w.height - 1), NEW x1 \in Nat, NEW x2 \in Nat
  PROVE  Redrawn(MClearArea(w, x1, ys, x2, ye), w, b)
<1> DEFINE n == w.width
           he == w.height
           xs == Least(x1, n - 1)
           xe == Least(x2, n - 1)
           A == [w.lines EXCEPT ![ys + 1] = MKillDwRight(@, xs)]
           B == [A EXCEPT ![ye + 1] = MKillDwLeft(@, xe)]
           From(y) == IF y = ys THEN xs ELSE 0
           To(y) == IF y = ye THEN xe ELSE n - 1
           Row(i) == IF i - 1 \in ys..ye THEN clear_mline(B[i], From(i - 1), To(i - 1) - From(i - 1) + 1) ELSE B[i]
           s == [i \in 1..he |-> Row(i)]
<1>1. n \in Nat /\ n > 0 /\ he \in Nat /\ he > 0 /\ IsRows(w.lines, he, n) /\ IsWin(w)
  BY Sizes DEF Memory
<1>2. MClearArea(w, x1, ys, x2, ye) = [w EXCEPT !.lines = <<>> \o s]
  <2> DEFINE first == [w EXCEPT !.lines[ys + 1] = MKillDwRight(@, xs)]
             both == [first EXCEPT !.lines[ye + 1] = MKillDwLeft(@, xe)]
  <2>1. first = [w EXCEPT !.lines = A]
    OBVIOUS
  <2>2. first.lines = A
    <3> HIDE DEF A
    <3> QED BY <1>1, <2>1 DEF IsWin, WinFields
  <2>3. "lines" \in DOMAIN first
    <3> HIDE DEF A
    <3> QED BY <1>1, <2>1 DEF IsWin, WinFields
  <2>4. both = [first EXCEPT !.lines = [first.lines EXCEPT ![ye + 1] = MKillDwLeft(@, xe)]]
    <3> HIDE DEF first
    <3> QED OBVIOUS
  <2>5. both.lines = B
    <3> HIDE DEF first
    <3>1. both.lines = [first.lines EXCEPT ![ye + 1] = MKillDwLeft(@, xe)]
      BY <2>3
    <3> QED BY <2>2, <3>1
  <2>6. DOMAIN w.lines = 1..he
    BY <1>1 DEF IsRows
  <2>7. MClearArea(w, x1, ys, x2, ye) =
          [w EXCEPT !.lines = <<>> \o [i \in DOMAIN w.lines |->
             IF i - 1 \in ys..ye THEN clear_mline(both.lines[(i - 1) + 1], From(i - 1), To(i - 1) - From(i - 1) + 1)
             ELSE both.lines[i]]]
    BY DEF MClearArea
  <2> HIDE DEF both
  <2>8. [i \in DOMAIN w.lines |->
             IF i - 1 \in ys..ye THEN clear_mline(both.lines[(i - 1) + 1], From(i - 1), To(i - 1) - From(i - 1) + 1)
             ELSE both.lines[i]] = s
    <3>1. \A i \in 1..he : (i - 1) + 1 = i
      OBVIOUS
    <3> HIDE DEF B, From, To
    <3> QED BY <2>5, <2>6, <3>1
  <2> HIDE DEF s
  <2> QED BY <2>7, <2>8
<1>3. xs \in 0..(n - 1) /\ xe \in 0..(n - 1)
  BY <1>1 DEF Least
<1>4. ys + 1 \in 1..he /\ ye + 1 \in 1..he
  BY <1>1
<1> HIDE DEF n, he, xs, xe
<1>5. A = [w.lines EXCEPT ![ys + 1] = MKillDwRight(w.lines[ys + 1], xs)]
  OBVIOUS
<1>6. IsRows(A, he, n)
  <2>1. IsLine(MKillDwRight(w.lines[ys + 1], xs), n)
    BY <1>1, <1>4, LineKept DEF IsRows
  <2> HIDE DEF A
  <2> QED BY ONLY <1>1, <1>5, <2>1, RowReplaced
<1>7. \A i \in 1..he : A[i] = IF i = ys + 1 THEN MKillDwRight(w.lines[i], xs) ELSE w.lines[i]
  BY <1>1, <1>5 DEF IsRows
<1> HIDE DEF A
<1>8. B = [A EXCEPT ![ye + 1] = MKillDwLeft(A[ye + 1], xe)]
  OBVIOUS
<1>9. IsRows(B, he, n)
  <2>1. IsLine(MKillDwLeft(A[ye + 1], xe), n)
    BY <1>4, <1>6, LineKept DEF IsRows
  <2> HIDE DEF B
  <2> QED BY ONLY <1>6, <1>8, <2>1, RowReplaced
<1>10. \A i \in 1..he : B[i] = IF i = ye + 1 THEN MKillDwLeft(A[i], xe) ELSE A[i]
  BY <1>6, <1>8 DEF IsRows
<1> HIDE DEF B
<1>11. \A i \in 1..he : IsLine(Row(i), n)
  BY <1>9, LineKept DEF IsRows
<1>12. ASSUME b, Whole(w), NEW i \in 1..he PROVE WholeLine(Row(i), n)
  <2>1. IsLine(w.lines[i], n) /\ WholeLine(w.lines[i], n)
    BY <1>1, <1>12 DEF IsRows, Whole, WholeRows, n, he
  <2>2. IsLine(A[i], n) /\ WholeLine(A[i], n) /\ (i = ys + 1 => A[i][xs + 1] # Right)
    <3>1. CASE i = ys + 1
      BY <1>1, <1>3, <1>6, <1>7, <2>1, <3>1, RightKilled DEF IsRows
    <3>2. CASE i # ys + 1
      BY <1>6, <1>7, <2>1, <3>2 DEF IsRows
    <3> QED BY <3>1, <3>2
  <2>3. /\ IsLine(B[i], n) /\ WholeLine(B[i], n) /\ (i = ys + 1 => B[i][xs + 1] # Right)
        /\ (i = ye + 1 => B[i][xe + 2] # Right)
    <3>1. CASE i = ye + 1
      <4>1. B[i] = MKillDwLeft(A[i], xe)
        BY <1>10, <3>1
      <4>2. /\ IsLine(B[i], n) /\ WholeLine(B[i], n) /\ B[i][xe + 2] # Right
            /\ \A j \in 1..(n + 1) : B[i][j] = A[i][j] \/ B[i][j] = Blank
        BY <1>1, <1>3, <2>2, <4>1, LeftKilled
      <4>3. xs + 1 \in 1..(n + 1)
        BY <1>1, <1>3
      <4> QED BY <2>2, <4>2, <4>3, Signs
    <3>2. CASE i # ye + 1
      BY <1>10, <2>2, <3>2
    <3> QED BY <3>1, <3>2
  <2>4. CASE i - 1 \in ys..ye
    <3> DEFINE f == From(i - 1)
               t == To(i - 1)
               k == t - f + 1
    <3>1. f \in 0..(n - 1) /\ t \in 0..(n - 1)
      BY <1>1, <1>3
    <3>2. B[i][f + 1] # Right
      <4>1. CASE i - 1 = ys
        <5>1. i = ys + 1 /\ f = xs
          BY <4>1
        <5> HIDE DEF f
        <5> QED BY <2>3, <5>1
      <4>2. CASE i - 1 # ys
        <5>1. f + 1 = 1 /\ 1 \in 1..n /\ ~(1 > 1)
          BY <1>1, <4>2
        <5> HIDE DEF f
        <5> QED BY <2>3, <5>1 DEF WholeLine
      <4> QED BY <4>1, <4>2
    <3>3. t = n - 1 \/ B[i][t + 2] # Right
      <4>1. CASE i - 1 = ye
        <5>1. i = ye + 1 /\ t = xe
          BY <4>1
        <5> HIDE DEF t
        <5> QED BY <2>3, <5>1
      <4>2. CASE i - 1 # ye
        BY <4>2
      <4> QED BY <4>1, <4>2
    <3>4. Row(i) = clear_mline(B[i], f, k)
      BY <2>4
    <3>5. k = t - f + 1
      OBVIOUS
    <3> HIDE DEF f, t, k, Row
    <3> QED BY <1>1, <2>3, <3>1, <3>2, <3>3, <3>4, <3>5, Cleared
  <2>5. CASE i - 1 \notin ys..ye
    BY <2>3, <2>5
  <2> QED BY <2>4, <2>5
<1> HIDE DEF Row
<1>13. IsRows(s, he, n) /\ \A i \in 1..he : s[i] = Row(i)
  BY <1>11 DEF IsRows
<1> HIDE DEF s
<1>14. IsRows(<<>> \o s, he, n) /\ Chain(<<>> \o s, <<>>, 0, s, he)
  <2>1. he = 0 + he /\ 0 \in Nat /\ he \in Nat
    BY <1>1
  <2> QED BY ONLY <1>13, <2>1, NoRows, RowsJoined
<1>15. \A i \in 1..he : (<<>> \o s)[i] = s[i]
  BY <1>1, <1>14 DEF Chain
<1>16. b /\ Whole(w) => WholeRows(<<>> \o s, he, n)
  <2>1. Whole(w) => n >= 2
    BY DEF Whole, WholeRows, n
  <2> QED BY <1>12, <1>13, <1>15, <2>1 DEF WholeRows
<1> DEFINE u == <<>> \o s
<1>17. IsRows(u, w.height, w.width) /\ (b /\ Whole(w) => WholeRows(u, w.height, w.width))
  BY <1>14, <1>16 DEF n, he
<1> HIDE DEF u
<1>18. Redrawn([w EXCEPT !.lines = u], w, b)
  BY ONLY <1>17, LinesRedrawn, Memory(w)
<1> QED BY <1>2, <1>18 DEF u
-----------------------------------------------------------------------------
(* Characters are written                                                  *)

\* v is w with its cursor at x, y.
PlacedAt(v, w, x, y) ==
  /\ v.x = x /\ v.y = y /\ v.lines = w.lines /\ v.hlines = w.hlines /\ v.histidx = w.histidx /\ v.pushed = w.pushed
  /\ v.top = w.top /\ v.bot = w.bot /\ v.insert = w.insert /\ v.wrap = w.wrap /\ v.origin = w.origin
  /\ v.compact = w.compact /\ v.tabs = w.tabs /\ v.saved = w.saved /\ v.alt = w.alt

LEMMA Placed ==
  ASSUME NEW w, NEW b, Proper(w), NEW x \in 0..Margin(w), NEW y \in 0..(w.height - 1)
  PROVE  Fine([w EXCEPT !.x = x, !.y = y], w, b) /\ PlacedAt([w EXCEPT !.x = x, !.y = y], w, x, y)
<1>1. PlacedAt([w EXCEPT !.x = x, !.y = y], w, x, y)
  BY DEF Proper, Memory, IsWin, WinFields, PlacedAt
<1> QED BY <1>1, CursorFine

LEMMA PlacedX ==
  ASSUME NEW w, NEW b, Proper(w), NEW x \in 0..Margin(w)
  PROVE  Fine([w EXCEPT !.x = x], w, b) /\ PlacedAt([w EXCEPT !.x = x], w, x, w.y)
<1>1. [w EXCEPT !.x = x] = [w EXCEPT !.x = x, !.y = w.y]
  <2> DEFINE u == [w EXCEPT !.x = x]
             v == [w EXCEPT !.x = x, !.y = w.y]
  <2>1. w = [f \in WinFields |-> w[f]] /\ DOMAIN w = WinFields
    BY DEF Proper, Memory, IsWin
  <2>2. u = [f \in WinFields |-> IF f = "x" THEN x ELSE w[f]]
    BY <2>1 DEF WinFields
  <2>3. v = [f \in WinFields |-> IF f = "x" THEN x ELSE w[f]]
    BY <2>1 DEF WinFields
  <2> QED BY ONLY <2>2, <2>3
<1>2. w.y \in 0..(w.height - 1)
  BY DEF Proper, Place
<1> QED BY <1>1, <1>2, Placed

LEMMA PlacedY ==
  ASSUME NEW w, NEW b, Proper(w), NEW y \in 0..(w.height - 1)
  PROVE  Fine([w EXCEPT !.y = y], w, b) /\ PlacedAt([w EXCEPT !.y = y], w, w.x, y)
<1>1. [w EXCEPT !.y = y] = [w EXCEPT !.x = w.x, !.y = y]
  <2> DEFINE u == [w EXCEPT !.y = y]
             v == [w EXCEPT !.x = w.x, !.y = y]
  <2>1. w = [f \in WinFields |-> w[f]] /\ DOMAIN w = WinFields
    BY DEF Proper, Memory, IsWin
  <2>2. u = [f \in WinFields |-> IF f = "y" THEN y ELSE w[f]]
    BY <2>1 DEF WinFields
  <2>3. v = [f \in WinFields |-> IF f = "y" THEN y ELSE w[f]]
    BY <2>1 DEF WinFields
  <2> QED BY ONLY <2>2, <2>3
<1>2. w.x \in 0..Margin(w)
  BY DEF Proper, Place
<1> QED BY <1>1, <1>2, Placed

\* A window's numbers.
LEMMA Counts ==
  ASSUME NEW w, Proper(w)
  PROVE  /\ w.width \in Nat /\ w.width > 0 /\ w.height \in Nat /\ w.height > 0
         /\ w.x \in Nat /\ w.y \in 0..(w.height - 1)
         /\ Margin(w) \in Nat /\ Margin(w) >= w.width /\ Margin(w) >= 2 /\ w.x <= Margin(w)
         /\ w.top \in 0..(w.height - 1) /\ w.bot \in w.top..(w.height - 1) /\ Memory(w)
<1>1. w.width \in Nat /\ w.width > 0 /\ w.height \in Nat /\ w.height > 0 /\ Memory(w)
  BY Sizes DEF Proper, Memory
<1>2. Margin(w) \in Nat /\ Margin(w) >= w.width /\ Margin(w) >= 2
  BY <1>1 DEF Margin
<1>3. w.x \in 0..Margin(w) /\ w.y \in 0..(w.height - 1) /\ w.top \in Nat /\ w.bot \in Nat /\ w.top <= w.bot /\ w.bot < w.height
  BY DEF Proper, Place
<1> QED BY <1>1, <1>2, <1>3

\* The line is marked, and the character goes to the next one.
LEMMA MWrapCharFine ==
  ASSUME NEW w, NEW b, Proper(w), NEW c \in Chars \cup {Wide}
  PROVE  Fine(MWrapChar(w, c), w, b) /\ MWrapChar(w, c).x = 1 /\ MWrapChar(w, c).wrap = w.wrap
<1> DEFINE l == Set(w.lines[w.y + 1], w.width, NUL)
           marked == [w EXCEPT !.lines[w.y + 1] = Set(@, w.width, NUL)]
           scrolled == IF w.y = w.bot THEN MScrollV(marked, 1, w.top, w.bot) ELSE marked
           y == IF w.y # w.bot /\ w.y < w.height - 1 THEN w.y + 1 ELSE w.y
           r == IF w.insert THEN MInsChar(scrolled, c, 0, y) ELSE MPutChar(scrolled, c, 0, y)
<1>1. MWrapChar(w, c) = [r EXCEPT !.x = 1, !.y = y]
  BY DEF MWrapChar
<1>2. Redrawn(marked, w, b)
  <2>1. marked = WithLine(w, w.y, l)
    BY DEF WithLine
  <2>2. w.y \in 0..(w.height - 1) /\ Memory(w)
    BY Counts
  <2>3. IsLine(w.lines[w.y + 1], w.width) /\ w.width \in Nat
    BY <2>2, LineOf
  <2>4. IsLine(l, w.width)
    BY <2>3, LineKept
  <2>5. Whole(w) => WholeLine(l, w.width)
    <3> DEFINE n == w.width
               a == w.lines[w.y + 1]
    <3>1. \A j \in 1..(n + 1) : l[j] = IF j = n + 1 THEN NUL ELSE a[j]
      BY <2>3, SetCells
    <3>2. Whole(w) => WholeLine(a, n)
      BY <2>2, LineOf
    <3>3. n \in Nat
      BY <2>3
    <3> HIDE DEF n, a, l
    <3>4. \A j \in 1..n : l[j] = a[j] /\ (j > 1 => l[j - 1] = a[j - 1]) /\ (j < n => l[j + 1] = a[j + 1])
      BY <3>1, <3>3
    <3>5. l[n + 1] = NUL
      BY <3>1, <3>3
    <3>6. WholeLine(a, n) => WholeLine(l, n)
      BY <3>4, <3>5, Signs DEF WholeLine
    <3> QED BY <3>2, <3>6 DEF n
  <2> HIDE DEF l, marked
  <2>6. Redrawn(WithLine(w, w.y, l), w, b)
    BY <2>2, <2>4, <2>5, LineRedrawn
  <2> QED BY <2>1, <2>6
<1> HIDE DEF marked
<1>3. Memory(marked) /\ marked.height = w.height
  BY <1>2 DEF Redrawn, Kept
<1>4. Redrawn(scrolled, w, b)
  <2>1. w.top \in 0..(marked.height - 1) /\ w.bot \in w.top..(marked.height - 1)
    BY <1>3, Counts
  <2>2. Redrawn(MScrollV(marked, 1, w.top, w.bot), marked, b)
    BY <1>3, <2>1, MScrollVRedrawn
  <2> QED BY <1>2, <2>2, RedrawnOther
<1> HIDE DEF scrolled
<1>5. y \in 0..(w.height - 1)
  BY Counts
<1> HIDE DEF y
<1>6. Memory(scrolled) /\ scrolled.height = w.height /\ scrolled.width = w.width /\ scrolled.wrap = w.wrap
  BY <1>4 DEF Redrawn, Kept
<1>7. Redrawn(r, w, b)
  <2>1. b /\ Whole(scrolled) => 0 \in 0..(scrolled.width - 1) /\ (c = Wide => 0 < scrolled.width - 1)
    <3>1. Whole(scrolled) => w.width >= 2
      BY <1>6 DEF Whole, WholeRows
    <3> QED BY <1>6, <3>1, Counts
  <2>2. Redrawn(MInsChar(scrolled, c, 0, y), scrolled, b)
    BY <1>5, <1>6, <2>1, MInsCharRedrawn
  <2>3. Redrawn(MPutChar(scrolled, c, 0, y), scrolled, b)
    BY <1>5, <1>6, <2>1, MPutCharRedrawn
  <2> QED BY <1>4, <2>2, <2>3, RedrawnOther
<1> HIDE DEF r
<1>8. Fine(r, w, b)
  BY <1>7, RedrawnFine
<1>9. Proper(r) /\ 1 \in 0..Margin(r) /\ y \in 0..(r.height - 1) /\ r.wrap = w.wrap
  <2>1. Proper(r) /\ r.height = w.height /\ r.wrap = w.wrap
    BY <1>7, <1>8 DEF Fine, Redrawn, Kept
  <2>2. 1 \in 0..Margin(r)
    BY <2>1, Counts
  <2> QED BY <1>5, <2>1, <2>2
<1>10. Fine([r EXCEPT !.x = 1, !.y = y], r, b) /\ PlacedAt([r EXCEPT !.x = 1, !.y = y], r, 1, y)
  BY ONLY <1>9, Placed
<1> QED BY <1>1, <1>8, <1>9, <1>10, FineOther DEF PlacedAt

\* A character at the cursor.
LEMMA InsertedFine ==
  ASSUME NEW w, Proper(w), NEW c \in Chars \cup {Wide}, c = Wide /\ w.wrap => w.x # w.width - 1
  PROVE  LET r == Inserted(w, c) IN Fine(r, w, w.wrap) /\ (IF c = Wide THEN r.x + 1 ELSE r.x) \in 0..Margin(w)
<1> DEFINE n == w.width
           r == Inserted(w, c)
           b == w.wrap
<1>1. n \in Nat /\ n > 0 /\ w.x \in Nat /\ Margin(w) \in Nat /\ Margin(w) >= n /\ Margin(w) >= 2 /\ Memory(w)
      /\ w.y \in 0..(w.height - 1)
  BY Counts
<1>2. CASE w.x < n - 1
  <2> DEFINE v == IF w.insert THEN MInsChar(w, c, w.x, w.y) ELSE MPutChar(w, c, w.x, w.y)
             x == v.x + 1
  <2>1. r = [v EXCEPT !.x = x]
    BY <1>2 DEF Inserted
  <2>2. Redrawn(v, w, b)
    <3>1. b /\ Whole(w) => w.x \in 0..(w.width - 1) /\ (c = Wide => w.x < w.width - 1)
      BY <1>1, <1>2
    <3> QED BY <1>1, <3>1, MInsCharRedrawn, MPutCharRedrawn
  <2> HIDE DEF v, r
  <2>3. v.x = w.x /\ v.width = w.width /\ Fine(v, w, b)
    BY <2>2, RedrawnFine DEF Redrawn, Kept
  <2>4. Proper(v) /\ x \in 0..Margin(v) /\ Margin(v) = Margin(w) /\ x = w.x + 1
    BY <1>1, <1>2, <2>3 DEF Fine, Margin
  <2> HIDE DEF x, b
  <2>5. Fine([v EXCEPT !.x = x], v, b) /\ PlacedAt([v EXCEPT !.x = x], v, x, v.y)
    BY ONLY <2>4, PlacedX
  <2>6. Fine(r, w, b) /\ r.x = x
    BY <2>1, <2>3, <2>5, FineOther DEF PlacedAt
  <2> QED BY <1>1, <1>2, <2>4, <2>6 DEF b, r
<1>3. CASE w.x = n - 1
  <2> DEFINE v == MPutChar(w, c, w.x, w.y)
             x == IF w.wrap THEN v.x + 1 ELSE v.x
  <2>1. r = [v EXCEPT !.x = x]
    BY <1>1, <1>3 DEF Inserted
  <2>2. Redrawn(v, w, b)
    <3>1. b /\ Whole(w) => w.x \in 0..(w.width - 1) /\ (c = Wide => w.x < w.width - 1)
      BY <1>1, <1>3
    <3> QED BY <1>1, <3>1, MPutCharRedrawn
  <2> HIDE DEF v, r
  <2>3. v.x = w.x /\ v.width = w.width /\ Fine(v, w, b)
    BY <2>2, RedrawnFine DEF Redrawn, Kept
  <2>4. Proper(v) /\ x \in 0..Margin(v) /\ Margin(v) = Margin(w) /\ x = IF w.wrap THEN n ELSE n - 1
    BY <1>1, <1>3, <2>3 DEF Fine, Margin
  <2> HIDE DEF x, b
  <2>5. Fine([v EXCEPT !.x = x], v, b) /\ PlacedAt([v EXCEPT !.x = x], v, x, v.y)
    BY ONLY <2>4, PlacedX
  <2>6. Fine(r, w, b) /\ r.x = x
    BY <2>1, <2>3, <2>5, FineOther DEF PlacedAt
  <2>7. (IF c = Wide THEN x + 1 ELSE x) \in 0..Margin(w)
    BY <1>1, <1>3, <2>4
  <2> QED BY <2>6, <2>7 DEF b, r
<1>4. CASE ~(w.x < n - 1) /\ w.x # n - 1
  <2>1. r = MWrapChar(w, c)
    BY <1>4 DEF Inserted
  <2>2. Fine(r, w, b) /\ r.x = 1
    BY <2>1, MWrapCharFine
  <2> HIDE DEF r
  <2> QED BY <1>1, <2>2 DEF r
<1> QED BY <1>2, <1>3, <1>4

LEMMA WriteCharFine ==
  ASSUME NEW w, Proper(w), NEW c \in Chars \cup {Wide}
  PROVE  Fine(WriteChar(w, c), w, w.wrap)
<1> DEFINE v == Stepped(w, c)
           r == Inserted(v, c)
           x == IF c = Wide THEN r.x + 1 ELSE r.x
           b == w.wrap
<1>1. WriteChar(w, c) = [r EXCEPT !.x = x]
  BY DEF WriteChar
<1>2. Fine(v, w, b) /\ v.wrap = w.wrap /\ (c = Wide /\ v.wrap => v.x # v.width - 1)
  <2>1. CASE c = Wide /\ w.x = w.width - 1 /\ w.wrap
    <3> DEFINE z == w.x + 1
    <3>1. z \in 0..Margin(w) /\ z = w.width /\ w.width \in Nat
      BY <2>1, Counts
    <3>2. v = [w EXCEPT !.x = z]
      BY <2>1 DEF Stepped
    <3> HIDE DEF z, v
    <3>3. Fine(v, w, b) /\ PlacedAt(v, w, z, w.y)
      BY <3>1, <3>2, PlacedX
    <3> QED BY <3>1, <3>3 DEF Fine, Kept, PlacedAt
  <2>2. CASE ~(c = Wide /\ w.x = w.width - 1 /\ w.wrap)
    <3>1. v = w
      BY <2>2 DEF Stepped
    <3> HIDE DEF v
    <3> QED BY <2>2, <3>1, FineItself
  <2> QED BY <2>1, <2>2
<1> HIDE DEF v
<1>3. Fine(r, v, v.wrap) /\ x \in 0..Margin(v)
  BY <1>2, InsertedFine DEF Fine
<1> HIDE DEF r, x
<1>4. Proper(r) /\ x \in 0..Margin(r)
  BY <1>3 DEF Fine, Kept, Margin
<1>5. Fine([r EXCEPT !.x = x], r, b)
  BY <1>4, PlacedX
<1>6. Fine(r, v, b)
  BY <1>2, <1>3
<1> HIDE DEF b
<1>7. Fine([r EXCEPT !.x = x], w, b)
  BY <1>2, <1>5, <1>6, FineOther
<1> QED BY <1>1, <1>7 DEF b
-----------------------------------------------------------------------------
(* The cursor                                                              *)

\* Neither size nor lines nor history changes.
LEMMA SameMemory ==
  ASSUME NEW w, NEW b, Proper(w), NEW v, IsWin(v),
         v.width = w.width, v.height = w.height, v.lines = w.lines, v.hlines = w.hlines, v.histidx = w.histidx,
         v.scrollback = w.scrollback, v.pushed = w.pushed, v.alt = w.alt,
         v.x \in 0..Margin(w), v.y \in 0..(w.height - 1), v.top \in Nat, v.bot \in Nat, v.top <= v.bot, v.bot < w.height,
         IsCursor(v.saved), Place(v.saved, w), v.tabs \in SUBSET Nat
  PROVE  Fine(v, w, b)
<1>1. Memory(v)
  BY DEF Proper, Memory, Past, History, Oldest
<1>2. Kept(v, w, b)
  BY DEF Kept, Whole
<1>3. Proper(v)
  BY <1>1 DEF Proper, Place, Margin, PutAway
<1> QED BY <1>2, <1>3 DEF Fine

LEMMA ReturnFine ==
  ASSUME NEW w, NEW b, Proper(w)
  PROVE  Fine(Return(w), w, b) /\ PlacedAt(Return(w), w, 0, w.y)
<1>1. 0 \in 0..Margin(w)
  BY Counts
<1> QED BY <1>1, PlacedX DEF Return

LEMMA BackSpaceFine == ASSUME NEW w, NEW b, Proper(w) PROVE Fine(BackSpace(w), w, b)
<1>1. CASE w.x > 0
  <2> DEFINE x == w.x - 1
  <2>1. x \in 0..Margin(w)
    BY <1>1, Counts
  <2>2. BackSpace(w) = [w EXCEPT !.x = x]
    BY <1>1 DEF BackSpace
  <2> HIDE DEF x
  <2> QED BY <2>1, <2>2, PlacedX
<1>2. CASE ~(w.x > 0) /\ w.wrap /\ w.y > 0
  <2> DEFINE x == w.width - 1
             y == w.y - 1
  <2>1. x \in 0..Margin(w) /\ y \in 0..(w.height - 1)
    BY <1>2, Counts
  <2>2. BackSpace(w) = [w EXCEPT !.x = x, !.y = y]
    BY <1>2 DEF BackSpace
  <2> HIDE DEF x, y
  <2>3. Fine([w EXCEPT !.x = x, !.y = y], w, b)
    BY ONLY <2>1, Proper(w), Placed
  <2> QED BY <2>2, <2>3
<1>3. CASE ~(w.x > 0) /\ ~(w.wrap /\ w.y > 0)
  <2>1. BackSpace(w) = w
    BY <1>3 DEF BackSpace
  <2> QED BY <2>1, FineItself
<1> QED BY <1>1, <1>2, <1>3

\* The lines scroll, the cursor stays.
LEMMA ScrolledFine ==
  ASSUME NEW w, NEW b, Proper(w), NEW n \in Int
  PROVE  Fine(MScrollV(w, n, w.top, w.bot), w, b) /\ Redrawn(MScrollV(w, n, w.top, w.bot), w, b)
<1>1. Redrawn(MScrollV(w, n, w.top, w.bot), w, b)
  BY Counts, MScrollVRedrawn
<1> QED BY <1>1, RedrawnFine

LEMMA DownFine == ASSUME NEW w, NEW b, Proper(w) PROVE Fine(Down(w), w, b) /\ Down(w).x = w.x
<1>1. CASE w.y = w.bot
  <2>1. Fine(MScrollV(w, 1, w.top, w.bot), w, b) /\ Redrawn(MScrollV(w, 1, w.top, w.bot), w, b)
    BY ScrolledFine
  <2> QED BY <1>1, <2>1 DEF Down, Redrawn
<1>2. CASE w.y # w.bot
  <2> DEFINE y == Least(w.y + 1, w.height - 1)
  <2>1. y \in 0..(w.height - 1)
    BY Counts DEF Least
  <2>2. Down(w) = [w EXCEPT !.y = y]
    BY <1>2 DEF Down
  <2> HIDE DEF y
  <2> QED BY <2>1, <2>2, PlacedY DEF PlacedAt
<1> QED BY <1>1, <1>2

LEMMA LineFeedFine ==
  ASSUME NEW w, NEW b, Proper(w), NEW cr \in BOOLEAN
  PROVE  Fine(LineFeed(w, cr), w, b) /\ LineFeed(w, cr).x = IF cr THEN 0 ELSE w.x
<1> DEFINE v == IF cr THEN Return(w) ELSE w
<1>1. Fine(v, w, b) /\ v.x = IF cr THEN 0 ELSE w.x
  BY ReturnFine, FineItself DEF PlacedAt
<1>2. LineFeed(w, cr) = Down(v)
  BY DEF LineFeed
<1> HIDE DEF v
<1>3. Fine(Down(v), v, b) /\ Down(v).x = v.x
  BY <1>1, DownFine DEF Fine
<1> QED BY <1>1, <1>2, <1>3, FineOther

LEMMA CursorUpFine == ASSUME NEW w, NEW b, Proper(w), NEW n \in Nat PROVE Fine(CursorUp(w, n), w, b)
<1> DEFINE y == Most(w.y - n, IF w.y < w.top THEN 0 ELSE w.top)
<1>1. y \in 0..(w.height - 1)
  BY Counts DEF Most
<1>2. CursorUp(w, n) = [w EXCEPT !.y = y]
  BY DEF CursorUp
<1> HIDE DEF y
<1>3. Fine([w EXCEPT !.y = y], w, b)
  BY ONLY <1>1, Proper(w), PlacedY
<1> QED BY <1>2, <1>3

LEMMA CursorDownFine == ASSUME NEW w, NEW b, Proper(w), NEW n \in Nat PROVE Fine(CursorDown(w, n), w, b)
<1> DEFINE y == Least(w.y + n, IF w.y > w.bot THEN w.height - 1 ELSE w.bot)
<1>1. y \in 0..(w.height - 1)
  BY Counts DEF Least
<1>2. CursorDown(w, n) = [w EXCEPT !.y = y]
  BY DEF CursorDown
<1> HIDE DEF y
<1>3. Fine([w EXCEPT !.y = y], w, b)
  BY ONLY <1>1, Proper(w), PlacedY
<1> QED BY <1>2, <1>3

LEMMA ReverseLineFeedFine == ASSUME NEW w, NEW b, Proper(w) PROVE Fine(ReverseLineFeed(w), w, b)
<1>1. -1 \in Int /\ 1 \in Nat
  OBVIOUS
<1> QED BY <1>1, ScrolledFine, CursorUpFine DEF ReverseLineFeed

LEMMA CursorRightFine == ASSUME NEW w, NEW b, Proper(w), NEW n \in Nat PROVE Fine(CursorRight(w, n), w, b)
<1> DEFINE v == IF w.x = w.width THEN LineFeed(w, TRUE) ELSE w
           x == Least(v.x + n, v.width - 1)
<1>1. Fine(v, w, b)
  BY LineFeedFine, FineItself
<1>2. CursorRight(w, n) = [v EXCEPT !.x = x]
  BY DEF CursorRight, RightBy
<1> HIDE DEF v
<1>3. Proper(v)
  BY <1>1 DEF Fine
<1>4. x \in 0..Margin(v)
  BY <1>3, Counts DEF Least
<1> HIDE DEF x
<1>5. Fine([v EXCEPT !.x = x], v, b)
  BY <1>3, <1>4, PlacedX
<1> QED BY <1>1, <1>2, <1>5, FineOther

LEMMA CursorLeftFine == ASSUME NEW w, NEW b, Proper(w), NEW n \in Nat PROVE Fine(CursorLeft(w, n), w, b)
<1> DEFINE x == Most(w.x - n, 0)
<1>1. x \in 0..Margin(w)
  BY Counts DEF Most
<1>2. CursorLeft(w, n) = [w EXCEPT !.x = x]
  BY DEF CursorLeft
<1> HIDE DEF x
<1> QED BY <1>1, <1>2, PlacedX

\* The columns of the stops before and after the cursor.
LEMMA ForwardTabFine == ASSUME NEW w, NEW b, Proper(w) PROVE Fine(ForwardTab(w), w, b)
<1> DEFINE v == IF w.x = w.width THEN LineFeed(w, TRUE) ELSE w
           x == IF v.x >= v.width - 1 THEN v.width - 1 ELSE NextStop(v, v.x)
<1>1. Fine(v, w, b)
  BY LineFeedFine, FineItself
<1>2. ForwardTab(w) = [v EXCEPT !.x = x]
  BY DEF ForwardTab, Tabbed
<1> HIDE DEF v
<1>3. Proper(v) /\ v.tabs \in SUBSET Nat
  BY <1>1 DEF Fine, Proper
<1>4. v.width - 1 \in 0..Margin(v)
  BY <1>3, Counts
<1>5. NextStop(v, v.x) \in 0..Margin(v)
  <2> DEFINE S == {v.width - 1} \cup {t \in v.tabs : t > v.x}
  <2>1. S \in SUBSET Nat /\ S # {} /\ v.width - 1 \in S
    BY <1>3, <1>4, Counts
  <2>2. NextStop(v, v.x) = Min(S)
    BY DEF NextStop
  <2> HIDE DEF S
  <2>3. Min(S) \in S /\ \A y \in S : Min(S) <= y
    BY ONLY <2>1, MinIs
  <2>4. Min(S) \in Nat /\ Min(S) <= v.width - 1
    BY <2>1, <2>3
  <2> QED BY <1>3, <1>4, <2>2, <2>4, Counts
<1>6. x \in 0..Margin(v)
  BY <1>4, <1>5
<1> HIDE DEF x
<1>7. Fine([v EXCEPT !.x = x], v, b)
  BY <1>3, <1>6, PlacedX
<1> QED BY <1>1, <1>2, <1>7, FineOther

LEMMA BackwardTabFine == ASSUME NEW w, NEW b, Proper(w) PROVE Fine(BackwardTab(w), w, b)
<1> DEFINE S == {0} \cup {t \in w.tabs : t < w.x}
           x == Max(S)
<1>1. w.tabs \in SUBSET Nat /\ w.x \in Nat /\ w.x <= Margin(w) /\ Margin(w) \in Nat
  BY Counts DEF Proper
<1>2. S \in SUBSET Int /\ S # {} /\ (\A y \in S : y <= w.x) /\ \A y \in S : y \in 0..Margin(w)
  BY <1>1
<1>3. BackwardTab(w) = [w EXCEPT !.x = x]
  BY DEF BackwardTab
<1> HIDE DEF S
<1>4. Max(S) \in S
  <2>1. w.x \in Int
    BY <1>1
  <2> QED BY ONLY <1>2, <2>1, MaxIs
<1>5. x \in 0..Margin(w)
  BY <1>2, <1>4
<1> HIDE DEF x
<1> QED BY <1>3, <1>5, PlacedX

\* Several stops forward, or back.
LEMMA TabsFine ==
  ASSUME NEW w, NEW b, Proper(w), NEW n \in Nat, NEW forward \in BOOLEAN
  PROVE  Fine(Tabs(w, n, forward), w, b)
<1> DEFINE To(v) == IF forward THEN ForwardTab(v) ELSE BackwardTab(v)
           Is(g, m) == g = [k \in 0..m |-> IF k = 0 THEN w ELSE To(g[k - 1])]
           G == {m \in 0..n : \E g : Is(g, m)}
           f == CHOOSE f : Is(f, n)
<1>1. 0 \in G
  <2>1. Is([k \in 0..0 |-> w], 0)
    OBVIOUS
  <2> HIDE DEF Is
  <2> QED BY <2>1
<1>2. ASSUME NEW m \in 0..(n - 1), m \in G PROVE m + 1 \in G
  <2>1. PICK g : Is(g, m)
    BY <1>2
  <2> HIDE DEF To
  <2> DEFINE h == [k \in 0..(m + 1) |-> IF k = 0 THEN w ELSE To(g[k - 1])]
  <2>2. ASSUME NEW k \in 1..(m + 1) PROVE h[k - 1] = g[k - 1]
    <3>1. k - 1 \in 0..m /\ k - 1 \in 0..(m + 1)
      OBVIOUS
    <3> QED BY <2>1, <3>1
  <2>3. ASSUME NEW k \in 0..(m + 1)
        PROVE  h[k] = IF k = 0 THEN w ELSE To(h[k - 1])
    <3>1. k # 0 => k \in 1..(m + 1)
      OBVIOUS
    <3> QED BY <2>2, <3>1
  <2>4. Is(h, m + 1)
    <3>1. h = [k \in 0..(m + 1) |-> h[k]]
      OBVIOUS
    <3> HIDE DEF h
    <3> QED BY <2>3, <3>1
  <2> HIDE DEF Is, h
  <2> QED BY <2>4
<1>3. G = 0..n
  <2>1. G \in SUBSET (0..n)
    OBVIOUS
  <2> HIDE DEF G
  <2> QED BY ONLY <1>1, <1>2, <2>1, UpTo, n \in Nat
<1>4. Is(f, n)
  <2>1. n \in 0..n
    OBVIOUS
  <2> HIDE DEF Is
  <2>2. \E g : Is(g, n)
    BY <1>3, <2>1
  <2> QED BY <2>2
<1>5. Tabs(w, n, forward) = f[n]
  BY DEF Tabs
<1> HIDE DEF f
<1>6. f[0] = w /\ \A k \in 1..n : f[k] = To(f[k - 1])
  <2>1. 0 \in 0..n /\ \A k \in 1..n : k \in 0..n /\ k # 0
    OBVIOUS
  <2> HIDE DEF To
  <2> QED BY <1>4, <2>1
<1> DEFINE R == {m \in 0..n : Fine(f[m], w, b)}
<1>7. 0 \in R
  BY <1>6, FineItself
<1>8. ASSUME NEW m \in 0..(n - 1), m \in R PROVE m + 1 \in R
  <2>1. m + 1 \in 1..n /\ m + 1 \in 0..n /\ (m + 1) - 1 = m
    OBVIOUS
  <2>2. f[m + 1] = To(f[m])
    <3> HIDE DEF To
    <3> QED BY <1>6, <2>1
  <2>3. Fine(f[m], w, b)
    BY <1>8
  <2>4. Fine(f[m + 1], f[m], b)
    BY <2>2, <2>3, ForwardTabFine, BackwardTabFine DEF Fine
  <2> QED BY <2>1, <2>3, <2>4, FineOther
<1>9. R = 0..n
  <2>1. R \in SUBSET (0..n)
    OBVIOUS
  <2> HIDE DEF R
  <2> QED BY ONLY <1>7, <1>8, <2>1, UpTo, n \in Nat
<1> QED BY <1>5, <1>9

LEMMA GotoPosFine == ASSUME NEW w, NEW b, Proper(w), NEW a1 \in Nat, NEW a2 \in Nat PROVE Fine(GotoPos(w, a1, a2), w, b)
<1> DEFINE y == Least(Default(a1) + (IF w.origin THEN w.top ELSE 0), w.height) - 1
           x == Least(Default(a2), w.width) - 1
<1>1. Default(a1) \in Nat /\ Default(a1) > 0 /\ Default(a2) \in Nat /\ Default(a2) > 0
  BY DEF Default
<1>2. y \in 0..(w.height - 1)
  <2> HIDE DEF Default
  <2> QED BY <1>1, Counts DEF Least
<1>3. x \in 0..Margin(w)
  <2> HIDE DEF Default
  <2> QED BY <1>1, Counts DEF Least
<1>4. GotoPos(w, a1, a2) = [w EXCEPT !.x = x, !.y = y]
  <2> DEFINE u == [w EXCEPT !.y = y, !.x = x]
             v == [w EXCEPT !.x = x, !.y = y]
  <2>1. w = [f \in WinFields |-> w[f]] /\ DOMAIN w = WinFields
    BY DEF Proper, Memory, IsWin
  <2>2. GotoPos(w, a1, a2) = u
    BY DEF GotoPos
  <2> HIDE DEF x, y
  <2>3. u = [f \in WinFields |-> IF f = "x" THEN x ELSE IF f = "y" THEN y ELSE w[f]]
    BY <2>1 DEF WinFields
  <2>4. v = [f \in WinFields |-> IF f = "x" THEN x ELSE IF f = "y" THEN y ELSE w[f]]
    BY <2>1 DEF WinFields
  <2> QED BY ONLY <2>2, <2>3, <2>4
<1> HIDE DEF x, y
<1>5. Fine([w EXCEPT !.x = x, !.y = y], w, b)
  BY ONLY <1>2, <1>3, Proper(w), Placed
<1> QED BY <1>4, <1>5

\* The cursor is put aside, and comes back.
LEMMA MoveToFine ==
  ASSUME NEW w, NEW b, Proper(w), NEW c, Place(c, w)
  PROVE  Fine(MoveTo(w, c), w, b) /\ (c.on => PlacedAt(MoveTo(w, c), w, c.x, c.y))
<1>1. c.x \in 0..Margin(w) /\ c.y \in 0..(w.height - 1)
  BY DEF Place
<1>2. Fine([w EXCEPT !.x = c.x, !.y = c.y], w, b) /\ PlacedAt([w EXCEPT !.x = c.x, !.y = c.y], w, c.x, c.y)
  BY ONLY <1>1, Proper(w), Placed
<1> QED BY <1>2, FineItself DEF MoveTo

LEMMA RestoreCursorFine == ASSUME NEW w, NEW b, Proper(w) PROVE Fine(RestoreCursor(w), w, b)
  BY MoveToFine DEF Proper, RestoreCursor

LEMMA SaveCursorFine == ASSUME NEW w, NEW b, Proper(w) PROVE Fine(SaveCursor(w), w, b)
<1> DEFINE c == [on |-> TRUE, x |-> w.x, y |-> w.y]
           v == [w EXCEPT !.saved = c]
<1>1. IsCursor(c) /\ c.x = w.x /\ c.y = w.y
  BY DEF IsCursor
<1>2. Place(c, w)
  <2> HIDE DEF c
  <2> QED BY <1>1 DEF Place, Proper
<1> HIDE DEF c
<1>3. IsWin(v) /\ v.saved = c
  BY DEF Proper, Memory, IsWin, WinFields
<1>4. /\ v.width = w.width /\ v.height = w.height /\ v.lines = w.lines /\ v.hlines = w.hlines /\ v.histidx = w.histidx
      /\ v.scrollback = w.scrollback /\ v.pushed = w.pushed /\ v.alt = w.alt
      /\ v.x = w.x /\ v.y = w.y /\ v.top = w.top /\ v.bot = w.bot /\ v.tabs = w.tabs
  BY DEF Proper, Memory, IsWin, WinFields
<1>5. SaveCursor(w) = v
  BY DEF SaveCursor, c
<1> HIDE DEF v
<1>6. Fine(v, w, b)
  <2>1. /\ w.x \in 0..Margin(w) /\ w.y \in 0..(w.height - 1) /\ w.top \in Nat /\ w.bot \in Nat
        /\ w.top <= w.bot /\ w.bot < w.height /\ w.tabs \in SUBSET Nat
    BY DEF Proper, Place
  <2>2. IsCursor(v.saved) /\ Place(v.saved, w)
    BY <1>1, <1>2, <1>3 DEF c
  <2> QED BY ONLY <1>3, <1>4, <2>1, <2>2, Proper(w), SameMemory
<1> QED BY <1>5, <1>6

LEMMA TabsSetFine ==
  ASSUME NEW w, NEW b, Proper(w), NEW T \in SUBSET Nat
  PROVE  Fine([w EXCEPT !.tabs = T], w, b)
<1> DEFINE v == [w EXCEPT !.tabs = T]
<1>1. IsWin(v) /\ v.tabs = T
  BY DEF Proper, Memory, IsWin, WinFields
<1>2. /\ v.width = w.width /\ v.height = w.height /\ v.lines = w.lines /\ v.hlines = w.hlines /\ v.histidx = w.histidx
      /\ v.scrollback = w.scrollback /\ v.pushed = w.pushed /\ v.alt = w.alt
      /\ v.x = w.x /\ v.y = w.y /\ v.top = w.top /\ v.bot = w.bot /\ v.saved = w.saved
  BY DEF Proper, Memory, IsWin, WinFields
<1> HIDE DEF v
<1>3. Fine(v, w, b)
  BY <1>1, <1>2, SameMemory DEF Proper, Place
<1> QED BY <1>3 DEF v

LEMMA ModeFine ==
  ASSUME NEW w, NEW b, Proper(w), NEW m
  PROVE  /\ Fine([w EXCEPT !.insert = m], w, b) /\ Fine([w EXCEPT !.wrap = m], w, b)
         /\ Fine([w EXCEPT !.origin = m], w, b)
<1>1. ASSUME NEW v, IsWin(v),
             v.width = w.width, v.height = w.height, v.lines = w.lines, v.hlines = w.hlines, v.histidx = w.histidx,
             v.scrollback = w.scrollback, v.pushed = w.pushed, v.alt = w.alt,
             v.x = w.x, v.y = w.y, v.top = w.top, v.bot = w.bot, v.saved = w.saved, v.tabs = w.tabs
      PROVE  Fine(v, w, b)
  BY <1>1, SameMemory DEF Proper, Place
<1>2. Fine([w EXCEPT !.insert = m], w, b)
  <2> DEFINE v == [w EXCEPT !.insert = m]
  <2>1. /\ IsWin(v)
        /\ v.width = w.width /\ v.height = w.height /\ v.lines = w.lines /\ v.hlines = w.hlines /\ v.histidx = w.histidx
        /\ v.scrollback = w.scrollback /\ v.pushed = w.pushed /\ v.alt = w.alt
        /\ v.x = w.x /\ v.y = w.y /\ v.top = w.top /\ v.bot = w.bot /\ v.saved = w.saved /\ v.tabs = w.tabs
    BY DEF Proper, Memory, IsWin, WinFields
  <2> HIDE DEF v
  <2>2. Fine(v, w, b)
    BY ONLY <1>1, <2>1
  <2> QED BY <2>2 DEF v
<1>3. Fine([w EXCEPT !.wrap = m], w, b)
  <2> DEFINE v == [w EXCEPT !.wrap = m]
  <2>1. /\ IsWin(v)
        /\ v.width = w.width /\ v.height = w.height /\ v.lines = w.lines /\ v.hlines = w.hlines /\ v.histidx = w.histidx
        /\ v.scrollback = w.scrollback /\ v.pushed = w.pushed /\ v.alt = w.alt
        /\ v.x = w.x /\ v.y = w.y /\ v.top = w.top /\ v.bot = w.bot /\ v.saved = w.saved /\ v.tabs = w.tabs
    BY DEF Proper, Memory, IsWin, WinFields
  <2> HIDE DEF v
  <2>2. Fine(v, w, b)
    BY ONLY <1>1, <2>1
  <2> QED BY <2>2 DEF v
<1>4. Fine([w EXCEPT !.origin = m], w, b)
  <2> DEFINE v == [w EXCEPT !.origin = m]
  <2>1. /\ IsWin(v)
        /\ v.width = w.width /\ v.height = w.height /\ v.lines = w.lines /\ v.hlines = w.hlines /\ v.histidx = w.histidx
        /\ v.scrollback = w.scrollback /\ v.pushed = w.pushed /\ v.alt = w.alt
        /\ v.x = w.x /\ v.y = w.y /\ v.top = w.top /\ v.bot = w.bot /\ v.saved = w.saved /\ v.tabs = w.tabs
    BY DEF Proper, Memory, IsWin, WinFields
  <2> HIDE DEF v
  <2>2. Fine(v, w, b)
    BY ONLY <1>1, <2>1
  <2> QED BY <2>2 DEF v
<1> QED BY <1>2, <1>3, <1>4

LEMMA HomeFine == ASSUME NEW w, NEW b, Proper(w) PROVE Fine(Home(w), w, b)
<1> DEFINE y == IF w.origin THEN w.top ELSE 0
<1>1. 0 \in 0..Margin(w) /\ y \in 0..(w.height - 1)
  BY Counts
<1>2. Home(w) = [w EXCEPT !.x = 0, !.y = y]
  BY DEF Home
<1> HIDE DEF y
<1>3. Fine([w EXCEPT !.x = 0, !.y = y], w, b)
  BY ONLY <1>1, Proper(w), Placed
<1> QED BY <1>2, <1>3

LEMMA SetRegionFine ==
  ASSUME NEW w, NEW b, Proper(w), NEW a1 \in Nat, NEW a2 \in Nat
  PROVE  Fine(SetRegion(w, a1, a2), w, b)
<1> DEFINE e == IF a2 = 0 THEN w.height ELSE a2
           t == Default(a1) - 1
           z == e - 1
           v == [w EXCEPT !.top = t, !.bot = z]
<1>1. CASE e > w.height \/ Default(a1) >= e
  <2>1. SetRegion(w, a1, a2) = w
    BY <1>1 DEF SetRegion
  <2> QED BY <2>1, FineItself
<1>2. CASE ~(e > w.height \/ Default(a1) >= e)
  <2>1. SetRegion(w, a1, a2) = Home(v)
    BY <1>2 DEF SetRegion
  <2>2. t \in Nat /\ z \in Nat /\ t <= z /\ z < w.height
    BY <1>2, Counts DEF Default
  <2> HIDE DEF t, z
  <2>3. IsWin(v) /\ v.top = t /\ v.bot = z
    BY DEF Proper, Memory, IsWin, WinFields
  <2>4. /\ v.width = w.width /\ v.height = w.height /\ v.lines = w.lines /\ v.hlines = w.hlines /\ v.histidx = w.histidx
        /\ v.scrollback = w.scrollback /\ v.pushed = w.pushed /\ v.alt = w.alt
        /\ v.x = w.x /\ v.y = w.y /\ v.saved = w.saved /\ v.tabs = w.tabs
    BY DEF Proper, Memory, IsWin, WinFields
  <2> HIDE DEF v
  <2>5. Fine(v, w, b)
    BY <2>2, <2>3, <2>4, SameMemory DEF Proper, Place
  <2>6. Fine(Home(v), v, b)
    BY <2>5, HomeFine DEF Fine
  <2> QED BY <2>1, <2>5, <2>6, FineOther
<1> QED BY <1>1, <1>2
-----------------------------------------------------------------------------
(* Editing                                                                 *)

LEMMA ShiftFine ==
  ASSUME NEW w, NEW b, Proper(w), NEW d \in Int
  PROVE  Fine(MScrollH(w, d, w.y, Column(w), w.width - 1), w, b)
<1> DEFINE x == Column(w)
           e == w.width - 1
<1>1. Memory(w) /\ w.y \in 0..(w.height - 1) /\ e = w.width - 1
  BY Counts
<1>2. b /\ Whole(w) => x \in 0..(w.width - 1)
  <2>1. Whole(w) => Margin(w) = w.width
    BY Counts DEF Whole, WholeRows, Margin
  <2> QED BY <2>1, Counts DEF Column
<1> HIDE DEF x, e
<1>3. Redrawn(MScrollH(w, d, w.y, x, e), w, b)
  BY ONLY <1>1, <1>2, d \in Int, MScrollHRedrawn
<1>4. Fine(MScrollH(w, d, w.y, x, e), w, b)
  BY <1>3, RedrawnFine
<1> QED BY <1>4 DEF x, e

LEMMA EditFine ==
  ASSUME NEW w, NEW b, Proper(w), NEW n \in Nat
  PROVE  Fine(InsertChar(w, n), w, b) /\ Fine(DeleteChar(w, n), w, b)
<1>1. n \in Int /\ -n \in Int
  OBVIOUS
<1> QED BY <1>1, ShiftFine DEF InsertChar, DeleteChar

LEMMA LinesFine ==
  ASSUME NEW w, NEW b, Proper(w), NEW n \in Nat
  PROVE  /\ Fine(InsertLine(w, n), w, b) /\ Fine(DeleteLine(w, n), w, b)
         /\ Fine(ScrollRegion(w, n), w, b) /\ Fine(ScrollRegion(w, -n), w, b)
<1>1. n \in Int /\ -n \in Int
  OBVIOUS
<1>2. Fine(ScrollRegion(w, n), w, b) /\ Fine(ScrollRegion(w, -n), w, b)
  BY <1>1, ScrolledFine DEF ScrollRegion
<1>3. CASE ~InRegion(w)
  BY <1>2, <1>3, FineItself DEF InsertLine, DeleteLine
<1>4. CASE InRegion(w)
  <2> DEFINE k == Least(n, w.bot - w.y + 1)
             m == -k
  <2>1. w.y \in 0..(w.height - 1) /\ w.bot \in w.y..(w.height - 1) /\ Memory(w) /\ k \in Int /\ m \in Int
    BY <1>4, Counts DEF InRegion, Least
  <2>2. DeleteLine(w, n) = MScrollV(w, k, w.y, w.bot) /\ InsertLine(w, n) = MScrollV(w, m, w.y, w.bot)
    BY <1>4 DEF DeleteLine, InsertLine
  <2> HIDE DEF k, m
  <2>3. Redrawn(MScrollV(w, k, w.y, w.bot), w, b) /\ Redrawn(MScrollV(w, m, w.y, w.bot), w, b)
    BY ONLY <2>1, MScrollVRedrawn
  <2> QED BY <1>2, <2>2, <2>3, RedrawnFine
<1> QED BY <1>3, <1>4

LEMMA ClearScreenFine == ASSUME NEW w, NEW b, Proper(w) PROVE Fine(ClearScreen(w), w, b)
<1> DEFINE e == w.height - 1
<1>1. 0 \in 0..(w.height - 1) /\ e \in 0..(w.height - 1) /\ Memory(w) /\ w.height \in Int
  BY Counts
<1>2. ClearScreen(w) = MScrollV(w, w.height, 0, e)
  BY DEF ClearScreen
<1> HIDE DEF e
<1>3. Redrawn(MScrollV(w, w.height, 0, e), w, b)
  BY ONLY <1>1, MScrollVRedrawn
<1> QED BY <1>2, <1>3, RedrawnFine

LEMMA EraseFine ==
  ASSUME NEW w, NEW b, Proper(w), NEW n \in Nat, n > 0
  PROVE  /\ Fine(ClearToEOS(w), w, b) /\ Fine(ClearFromBOS(w), w, b)
         /\ Fine(ClearLineRegion(w, w.x, w.width - 1), w, b) /\ Fine(ClearLineRegion(w, 0, w.x), w, b)
         /\ Fine(ClearLineRegion(w, 0, w.width - 1), w, b)
         /\ Fine(ClearLineRegion(w, w.x, Least(w.x + n, w.width) - 1), w, b)
<1> DEFINE e == w.width - 1
           k == Least(w.x + n, w.width) - 1
           z == w.height - 1
           y == w.y
<1>1. /\ Memory(w) /\ w.x \in Nat /\ e \in Nat /\ k \in Nat /\ 0 \in Nat
      /\ y \in 0..(w.height - 1) /\ z \in y..(w.height - 1) /\ y \in y..(w.height - 1)
      /\ 0 \in 0..(w.height - 1) /\ y \in 0..(w.height - 1)
  BY Counts DEF Least
<1>2. /\ ClearToEOS(w) = IF w.x = 0 /\ y = 0 THEN ClearScreen(w) ELSE MClearArea(w, w.x, y, e, z)
      /\ ClearFromBOS(w) = MClearArea(w, 0, 0, w.x, y)
      /\ ClearLineRegion(w, w.x, e) = MClearArea(w, w.x, y, e, y)
      /\ ClearLineRegion(w, 0, w.x) = MClearArea(w, 0, y, w.x, y)
      /\ ClearLineRegion(w, 0, e) = MClearArea(w, 0, y, e, y)
      /\ ClearLineRegion(w, w.x, k) = MClearArea(w, w.x, y, k, y)
  BY DEF ClearToEOS, ClearFromBOS, ClearLineRegion
<1> HIDE DEF e, k, z, y
<1>3. /\ Redrawn(MClearArea(w, w.x, y, e, z), w, b) /\ Redrawn(MClearArea(w, 0, 0, w.x, y), w, b)
      /\ Redrawn(MClearArea(w, w.x, y, e, y), w, b) /\ Redrawn(MClearArea(w, 0, y, w.x, y), w, b)
      /\ Redrawn(MClearArea(w, 0, y, e, y), w, b) /\ Redrawn(MClearArea(w, w.x, y, k, y), w, b)
  BY ONLY <1>1, MClearAreaRedrawn
<1>4. /\ Fine(MClearArea(w, w.x, y, e, z), w, b) /\ Fine(MClearArea(w, 0, 0, w.x, y), w, b)
      /\ Fine(MClearArea(w, w.x, y, e, y), w, b) /\ Fine(MClearArea(w, 0, y, w.x, y), w, b)
      /\ Fine(MClearArea(w, 0, y, e, y), w, b) /\ Fine(MClearArea(w, w.x, y, k, y), w, b)
  BY ONLY <1>3, Proper(w), RedrawnFine
<1> QED BY <1>2, <1>4, ClearScreenFine DEF e, k

\* The screen full of E.
LEMMA FillWithEsFine == ASSUME NEW w, NEW b, Proper(w) PROVE Fine(FillWithEs(w), w, b)
<1> DEFINE n == w.width
           he == w.height
           t == [i \in 1..he |-> Filled(n)]
           s == <<>> \o t
           v == [w EXCEPT !.lines = s]
<1>1. n \in Nat /\ he \in Nat /\ IsRows(w.lines, he, n) /\ he > 0 /\ Memory(w)
  BY Counts DEF Memory
<1>2. IsLine(Filled(n), n) /\ WholeLine(Filled(n), n)
  <2>1. \A j \in 1..(n + 1) : Filled(n)[j] = IF j <= n THEN "E" ELSE Blank
    BY DEF Filled
  <2>2. "E" # Right /\ "E" # Wide
    BY DEF ScreenAssumption, Right
  <2>3. n + 1 \in 1..(n + 1) /\ ~(n + 1 <= n) /\ \A j \in 1..n : j \in 1..(n + 1) /\ j <= n
    BY <1>1
  <2>4. \A j \in 1..n : Filled(n)[j] = "E"
    BY <2>1, <2>3
  <2>5. Filled(n)[n + 1] = Blank
    BY <2>1, <2>3
  <2>6. WholeLine(Filled(n), n)
    BY <2>2, <2>4, <2>5, Signs DEF WholeLine
  <2>7. IsLine(Filled(n), n)
    BY DEF IsLine, Filled
  <2> QED BY <2>6, <2>7
<1>3. DOMAIN w.lines = 1..he
  BY <1>1 DEF IsRows
<1>4. FillWithEs(w) = [w EXCEPT !.x = 0, !.y = 0, !.lines = s]
  <2>1. [i \in DOMAIN w.lines |-> Filled(w.width)] = t
    BY <1>3
  <2>2. FillWithEs(w) = [w EXCEPT !.x = 0, !.y = 0, !.lines = <<>> \o [i \in DOMAIN w.lines |-> Filled(w.width)]]
    BY DEF FillWithEs
  <2> HIDE DEF t
  <2> QED BY <2>1, <2>2
<1>5. IsRows(t, he, n) /\ \A i \in 1..he : t[i] = Filled(n)
  BY <1>2 DEF IsRows
<1> HIDE DEF t, n, he
<1>6. IsRows(s, he, n) /\ Chain(s, <<>>, 0, t, he)
  <2>1. he = 0 + he /\ 0 \in Nat
    BY <1>1
  <2> QED BY ONLY <1>1, <1>5, <2>1, NoRows, RowsJoined
<1>7. \A i \in 1..he : s[i] = Filled(n)
  BY <1>1, <1>5, <1>6 DEF Chain
<1> HIDE DEF s
<1>8. b /\ Whole(w) => WholeRows(s, he, n)
  BY <1>2, <1>7 DEF Whole, WholeRows, n
<1>9. IsRows(s, w.height, w.width) /\ (b /\ Whole(w) => WholeRows(s, w.height, w.width))
  BY <1>6, <1>8 DEF n, he
<1>10. Redrawn(v, w, b)
  BY ONLY <1>1, <1>9, LinesRedrawn
<1>11. Fine(v, w, b)
  BY ONLY <1>10, Proper(w), RedrawnFine
<1>12. FillWithEs(w) = [v EXCEPT !.x = 0, !.y = 0]
  <2> DEFINE u1 == [w EXCEPT !.x = 0, !.y = 0, !.lines = s]
             u2 == [v EXCEPT !.x = 0, !.y = 0]
  <2>1. w = [f \in WinFields |-> w[f]] /\ DOMAIN w = WinFields
    BY DEF Proper, Memory, IsWin
  <2>2. u1 = [f \in WinFields |-> IF f \in {"x", "y"} THEN 0 ELSE IF f = "lines" THEN s ELSE w[f]]
    BY <2>1 DEF WinFields
  <2>3. u2 = [f \in WinFields |-> IF f \in {"x", "y"} THEN 0 ELSE IF f = "lines" THEN s ELSE w[f]]
    BY <2>1 DEF WinFields
  <2> QED BY ONLY <1>4, <2>2, <2>3
<1> HIDE DEF v
<1>13. Proper(v) /\ 0 \in 0..Margin(v) /\ 0 \in 0..(v.height - 1)
  <2>1. Proper(v)
    BY <1>11 DEF Fine
  <2> QED BY <2>1, Counts
<1>14. Fine([v EXCEPT !.x = 0, !.y = 0], v, b)
  BY ONLY <1>13, Placed
<1> QED BY <1>11, <1>12, <1>14, FineOther

\* The terminal is reset.
LEMMA ResetWindowFine == ASSUME NEW w, NEW b, Proper(w) PROVE Fine(ResetWindow(w), w, b)
<1> DEFINE v == ResetWindow(w)
           z == w.height - 1
           c == [w.saved EXCEPT !.on = FALSE]
           T == (w.tabs \cap {w.width}) \cup Stops(0, w.width - 1)
<1>1. /\ z \in Nat /\ 0 <= z /\ z < w.height /\ 0 \in 0..Margin(w) /\ 0 \in 0..(w.height - 1) /\ 0 \in Nat
      /\ w.width \in Nat
  BY Counts
<1>2. T \in SUBSET Nat
  <2>1. \A t \in Stops(0, w.width - 1) : t \in Nat
    BY <1>1 DEF Stops
  <2> QED BY <2>1 DEF Proper
<1>3. IsCursor(c) /\ Place(c, w)
  <2>1. w.saved = [f \in {"on", "x", "y"} |-> w.saved[f]] /\ Place(w.saved, w)
    BY DEF Proper, IsCursor
  <2>2. c.x = w.saved.x /\ c.y = w.saved.y /\ IsCursor(c)
    BY <2>1 DEF IsCursor
  <2> QED BY <2>1, <2>2 DEF Place
<1>4. v = [w EXCEPT !.wrap = TRUE, !.origin = FALSE, !.insert = FALSE, !.top = 0, !.bot = z,
                    !.saved = c, !.x = 0, !.y = 0, !.tabs = T]
  BY DEF ResetWindow
<1>5. w = [f \in WinFields |-> w[f]]
  BY DEF Proper, Memory, IsWin
<1> HIDE DEF v, z, c, T
<1>6. /\ IsWin(v) /\ v.top = 0 /\ v.bot = z /\ v.saved = c /\ v.x = 0 /\ v.y = 0 /\ v.tabs = T
  BY <1>4, <1>5 DEF IsWin, WinFields
<1>7. /\ v.width = w.width /\ v.height = w.height /\ v.lines = w.lines /\ v.hlines = w.hlines /\ v.histidx = w.histidx
      /\ v.scrollback = w.scrollback /\ v.pushed = w.pushed /\ v.alt = w.alt
  BY <1>4, <1>5 DEF IsWin, WinFields
<1>8. Fine(v, w, b)
  BY ONLY <1>1, <1>2, <1>3, <1>6, <1>7, Proper(w), SameMemory
<1> QED BY <1>8 DEF v
-----------------------------------------------------------------------------
(* A new size                                                              *)

\* What is to become of a window, of the lines it had.
Rowed(o, wi, b) == (\E k \in Nat : Sheet(o.rows, k, wi, b)) /\ o.x \in Nat /\ o.y \in Nat

\* What a window has beside its lines, whatever their size.
Beside(w) ==
  /\ IsWin(w) /\ w.width \in Nat /\ w.scrollback \in Nat /\ w.x \in Nat /\ w.y \in Nat /\ w.tabs \in SUBSET Nat
  /\ IsCursor(w.saved) /\ w.saved.x \in Nat /\ w.saved.y \in Nat
  /\ w.alt = [f \in {"on", "cursor", "screen"} |-> w.alt[f]]
  /\ IsCursor(w.alt.cursor) /\ w.alt.cursor.x \in Nat /\ w.alt.cursor.y \in Nat

\* v is w at the size wi, he, hi.
SizedTo(v, w, wi, he, hi, b) ==
  /\ Memory(v) /\ v.width = wi /\ v.height = he /\ Len(v.hlines) = hi /\ Place(v, v)
  /\ v.top \in Nat /\ v.bot \in Nat /\ v.top <= v.bot /\ v.bot < v.height
  /\ IsCursor(v.saved) /\ Place(v.saved, v) /\ v.tabs \in SUBSET Nat
  /\ v.alt = [w.alt EXCEPT !.cursor = Within(w.alt.cursor, 0, wi, he)]
  /\ b => Whole(v)

LEMMA WithinIs ==
  ASSUME NEW c, IsCursor(c), c.x \in Nat, c.y \in Nat, NEW dy \in Int, NEW wi \in Nat, NEW he \in Nat, he > 0
  PROVE  LET d == Within(c, dy, wi, he)
         IN /\ IsCursor(d) /\ d.on = c.on /\ d.x \in 0..wi /\ d.x <= c.x /\ d.y \in 0..(he - 1)
            /\ (dy = 0 => d.y <= c.y)
<1> DEFINE x == Least(c.x, wi)
           y == Most(0, Least(c.y + dy, he - 1))
           d == Within(c, dy, wi, he)
<1>1. d = [c EXCEPT !.x = x, !.y = y]
  BY DEF Within
<1>2. x \in 0..wi /\ x <= c.x /\ y \in 0..(he - 1) /\ (dy = 0 => y <= c.y)
  BY DEF Least, Most
<1> HIDE DEF x, y, d
<1>3. IsCursor(d) /\ d.on = c.on /\ d.x = x /\ d.y = y
  BY <1>1 DEF IsCursor
<1> QED BY <1>2, <1>3 DEF d

\* The last rows, and blank ones before them if there are too few.
LEMMA LastRowsAre ==
  ASSUME NEW wi \in Nat, NEW b, b => wi >= 2, NEW k \in Nat, NEW s, Sheet(s, k, wi, b), NEW n \in Nat
  PROVE  Sheet(LastRows(s, n, wi), n, wi, b)
<1>1. Len(s) = k
  BY RowsLength DEF Sheet
<1>2. CASE k >= n
  <2> DEFINE a == k - n
             f == a + 1
  <2>1. LastRows(s, n, wi) = SubSeq(s, f, k)
    <3>1. Len(s) - n + 1 = f
      BY <1>1
    <3> QED BY <1>1, <1>2, <3>1 DEF LastRows
  <2>2. a \in 0..k /\ k \in a..k /\ f = a + 1 /\ n = k - a
    BY <1>2
  <2> HIDE DEF a, f
  <2>3. Sheet(SubSeq(s, f, k), n, wi, b)
    BY ONLY <2>2, SheetCut, Sheet(s, k, wi, b), k \in Nat
  <2> QED BY <2>1, <2>3
<1>3. CASE ~(k >= n)
  <2> DEFINE m == n - k
             t == BlankLines(m, wi)
  <2>1. LastRows(s, n, wi) = t \o s
    BY <1>1, <1>3 DEF LastRows
  <2>2. m \in Nat /\ n = m + k
    BY <1>3
  <2> HIDE DEF m
  <2>3. Sheet(t, m, wi, b)
    BY <2>2, SheetBlank
  <2> HIDE DEF t
  <2>4. Sheet(t \o s, n, wi, b)
    BY ONLY <2>2, <2>3, SheetJoined, Sheet(s, k, wi, b), k \in Nat
  <2> QED BY <2>1, <2>4
<1> QED BY <1>2, <1>3

LEMMA TabsOfAre ==
  ASSUME NEW w, w.tabs \in SUBSET Nat, w.width \in Nat, NEW wi \in Nat
  PROVE  TabsOf(w, wi) \in SUBSET Nat
<1>1. \A t \in Stops(w.width, wi - 1) : t \in Nat
  BY DEF Stops
<1> QED BY <1>1 DEF TabsOf

\* The history begins anew with its oldest line in front.
LEMMA FreshPast ==
  ASSUME NEW v, NEW n \in Nat, NEW width, v.width = width, IsRows(v.hlines, n, width), v.histidx = 0, v.pushed = v.hlines
  PROVE  Past(v)
<1>1. Len(v.hlines) = n
  BY RowsLength
<1>2. IsRows(History(v), n, width) /\ \A i \in 1..n : History(v)[i] = Turned(v.hlines, n, 0, i)
  BY ONLY <1>1, HistoryIs, n \in Nat, IsRows(v.hlines, n, width), v.histidx = 0
<1>3. \A i \in 1..n : History(v)[i] = v.hlines[i]
  BY <1>2 DEF Turned
<1>4. History(v) = v.hlines
  BY <1>2, <1>3, RowsEqual
<1> QED BY <1>1, <1>4 DEF Past

LEMMA BecomeSized ==
  ASSUME NEW w, Beside(w), NEW wi \in Widths, NEW he \in Heights, NEW hi \in Nat, NEW b, b => wi >= 2,
         NEW o, Rowed(o, wi, b)
  PROVE  SizedTo(Become(w, o, wi, he, hi), w, wi, he, hi, b)
<1> DEFINE N == hi + he
           doc == LastRows(o.rows, N, wi)
           A == SubSeq(doc, 1, hi)
           f == hi + 1
           B == SubSeq(doc, f, N)
           v == Become(w, o, wi, he, hi)
           sb == Least(w.scrollback, hi)
           x == Least(o.x, wi)
           y == Least(o.y, he - 1)
           dy == o.y - w.y
           c == Within(w.saved, dy, wi, he)
           d == Within(w.alt.cursor, 0, wi, he)
           al == [w.alt EXCEPT !.cursor = d]
           T == TabsOf(w, wi)
           z == he - 1
<1>1. wi \in Nat /\ wi > 0 /\ he \in Nat /\ he > 0 /\ N \in Nat /\ w.y \in Nat /\ o.x \in Nat /\ o.y \in Nat /\ dy \in Int
  <2>1. Widths \subseteq Nat \ {0} /\ Heights \subseteq Nat \ {0}
    BY DEF ScreenAssumption
  <2>2. wi \in Nat \ {0} /\ he \in Nat \ {0}
    BY <2>1
  <2> QED BY <2>2 DEF Beside, Rowed
<1>2. v = [w EXCEPT !.width = wi, !.height = he, !.lines = B, !.hlines = A,
                    !.histidx = 0, !.scrollback = sb, !.pushed = A, !.x = x, !.y = y,
                    !.saved = c, !.alt = al, !.top = 0, !.bot = z, !.tabs = T]
  BY DEF Become, Settled
<1>3. Sheet(doc, N, wi, b)
  <2>1. PICK k \in Nat : Sheet(o.rows, k, wi, b)
    BY DEF Rowed
  <2> HIDE DEF N
  <2> QED BY <1>1, <2>1, LastRowsAre
<1>4. f = hi + 1 /\ he = N - hi /\ hi \in 0..N /\ N \in hi..N /\ 1 = 0 + 1 /\ hi = hi - 0 /\ 0 \in 0..N
  BY <1>1
<1> HIDE DEF doc, N, f
<1>5. Sheet(A, hi, wi, b)
  BY ONLY <1>1, <1>3, <1>4, SheetCut
<1>6. Sheet(B, he, wi, b)
  BY ONLY <1>1, <1>3, <1>4, SheetCut
<1>7. sb \in 0..hi /\ x \in 0..wi /\ y \in 0..(he - 1) /\ z \in Nat /\ z < he
  BY <1>1 DEF Least, Beside
<1>8. IsCursor(c) /\ c.x \in 0..wi /\ c.y \in 0..(he - 1)
  <2> HIDE DEF dy
  <2> QED BY <1>1, WithinIs DEF Beside
<1>9. T \in SUBSET Nat
  BY <1>1, TabsOfAre DEF Beside
<1>10. w = [g \in WinFields |-> w[g]]
  BY DEF Beside, IsWin
<1> HIDE DEF v, A, B, sb, x, y, c, d, al, T, z
<1>11. /\ IsWin(v) /\ v.width = wi /\ v.height = he /\ v.lines = B /\ v.hlines = A
       /\ v.histidx = 0 /\ v.scrollback = sb /\ v.pushed = A /\ v.x = x /\ v.y = y
       /\ v.saved = c /\ v.alt = al /\ v.top = 0 /\ v.bot = z /\ v.tabs = T
  BY <1>2, <1>10 DEF IsWin, WinFields
<1>12. Len(A) = hi
  BY <1>5, RowsLength DEF Sheet
<1>13. Past(v)
  <2>1. IsRows(v.hlines, hi, wi) /\ v.width = wi /\ v.histidx = 0 /\ v.pushed = v.hlines
    BY <1>5, <1>11 DEF Sheet
  <2> QED BY ONLY <2>1, FreshPast, hi \in Nat
<1>14. Memory(v)
  BY <1>6, <1>7, <1>11, <1>12, <1>13 DEF Memory, Sheet
<1>15. Place(v, v) /\ Place(c, v)
  BY <1>1, <1>7, <1>8, <1>11 DEF Place, Margin
<1>16. b => Whole(v)
  BY <1>5, <1>6, <1>11, <1>12 DEF Whole, Sheet
<1>17. v.alt = [w.alt EXCEPT !.cursor = Within(w.alt.cursor, 0, wi, he)]
  BY <1>11 DEF al, d
<1> QED BY <1>1, <1>7, <1>8, <1>9, <1>11, <1>12, <1>14, <1>15, <1>16, <1>17 DEF SizedTo, v

\* A window with lines, and its cursor on one of them.
Lined(w) ==
  /\ Beside(w) /\ w.width \in Widths /\ w.height \in Heights /\ w.y < w.height
  /\ IsRows(w.lines, w.height, w.width) /\ Past(w)

LEMMA RunOnAboveIs == ASSUME NEW rows, NEW i \in Nat, i > 0 PROVE RunOnAbove(rows, i) \in 0..(i - 1)
<1> DEFINE S == {0} \cup {j \in 1..(i - 1) : ~RunsOn(rows[j])}
           e == i - 1
<1>1. S \in SUBSET Int /\ S # {} /\ (\A y \in S : y <= e) /\ \A y \in S : y \in 0..e
  OBVIOUS
<1>2. RunOnAbove(rows, i) = i - 1 - Max(S)
  BY DEF RunOnAbove
<1>3. e \in Int /\ e = i - 1
  OBVIOUS
<1> HIDE DEF S, e
<1>4. Max(S) \in S
  BY ONLY <1>1, <1>3, MaxIs
<1>5. Max(S) \in 0..e
  BY <1>1, <1>4
<1> QED BY <1>2, <1>3, <1>5

LEMMA ColIs == ASSUME NEW w, w.x \in Nat, w.width \in Nat PROVE Col(w) \in Nat /\ w.x - Col(w) \in Nat
  BY DEF Col

LEMMA UsedIs ==
  ASSUME NEW w, w.x \in Nat, w.width \in Nat, w.width > 0, NEW rows, NEW i
  PROVE  Used(w, rows, i) \in Nat
<1> DEFINE S == {0} \cup {x \in 0..(w.width - 1) : At(rows[i], x) # Blank}
           e == w.width - 1
<1>1. S \in SUBSET Int /\ S # {} /\ (\A y \in S : y <= e) /\ \A y \in S : y \in Nat
  OBVIOUS
<1>2. Used(w, rows, i) = IF i = CursorRow(w) THEN Most(Max(S), Col(w)) + 1 ELSE Max(S) + 1
  BY DEF Used
<1>3. e \in Int
  OBVIOUS
<1> HIDE DEF S, e
<1>4. Max(S) \in S
  BY ONLY <1>1, <1>3, MaxIs
<1>5. Max(S) \in Nat
  BY <1>1, <1>4
<1> QED BY <1>2, <1>5, ColIs DEF Most

\* The history and the screen.
LEMMA DocumentIs ==
  ASSUME NEW w, Lined(w)
  PROVE  /\ Len(w.hlines) \in Nat /\ w.height \in Nat /\ w.height > 0 /\ w.width \in Nat /\ w.width > 0
         /\ Sheet(History(w), Len(w.hlines), w.width, Whole(w)) /\ Sheet(w.lines, w.height, w.width, Whole(w))
         /\ Sheet(Document(w), Len(w.hlines) + w.height, w.width, Whole(w))
<1> DEFINE n == Len(w.hlines)
           wi == w.width
           h == w.histidx
           b == Whole(w)
           k == n + w.height
<1>1. /\ n \in Nat /\ IsRows(w.hlines, n, wi) /\ h \in Nat /\ (h = 0 \/ h < n)
      /\ w.height \in Nat /\ w.height > 0 /\ wi \in Nat /\ wi > 0
  BY Sizes DEF Lined, Past
<1>2. Len(w.hlines) = n /\ w.histidx = h
  OBVIOUS
<1>3. b => wi >= 2 /\ (\A i \in 1..n : WholeLine(w.hlines[i], wi)) /\ WholeRows(w.lines, w.height, wi)
  BY DEF Whole, WholeRows
<1>8. Document(w) = History(w) \o w.lines
  BY DEF Document
<1>9. IsRows(w.lines, w.height, wi)
  BY DEF Lined
<1> HIDE DEF n, h, wi, b
<1>4. IsRows(History(w), n, wi) /\ \A i \in 1..n : History(w)[i] = Turned(w.hlines, n, h, i)
  BY ONLY <1>1, <1>2, HistoryIs
<1>5. Sheet(History(w), n, wi, b)
  <2>1. ASSUME b, NEW i \in 1..n PROVE WholeLine(History(w)[i], wi)
    <3>1. CASE h + i <= n
      <4>1. h + i \in 1..n
        BY <1>1, <3>1
      <4> QED BY <1>3, <1>4, <2>1, <3>1, <4>1 DEF Turned
    <3>2. CASE ~(h + i <= n)
      <4>1. h + i - n \in 1..n
        BY <1>1, <3>2
      <4> QED BY <1>3, <1>4, <2>1, <3>2, <4>1 DEF Turned
    <3> QED BY <3>1, <3>2
  <2> QED BY <1>3, <1>4, <2>1 DEF Sheet, WholeRows
<1>6. Sheet(w.lines, w.height, wi, b)
  BY <1>3, <1>9 DEF Sheet
<1>7. k \in Nat /\ k = n + w.height
  BY <1>1
<1> HIDE DEF k
<1>10. Sheet(History(w) \o w.lines, k, wi, b)
  BY ONLY <1>1, <1>5, <1>6, <1>7, SheetJoined
<1> QED BY <1>1, <1>5, <1>6, <1>8, <1>10 DEF n, wi, b, k

\* The height changes.
LEMMA SameWidthRowed ==
  ASSUME NEW w, Lined(w), NEW he \in Heights, NEW a \in 0..he
  PROVE  Rowed(SameWidth(w, he, a), w.width, Whole(w))
<1> DEFINE n == Len(w.hlines)
           drop == Most(0, a - (w.y + he - w.height))
           k == n + w.height - drop
           s == SubSeq(Document(w), 1, k)
           y == w.y + he - w.height + drop
           N == n + w.height
           b == Whole(w)
<1>1. he \in Nat /\ he > 0
  BY DEF ScreenAssumption
<1>2. n \in Nat /\ w.height \in Nat /\ w.height > 0 /\ Sheet(Document(w), N, w.width, b)
  BY DocumentIs
<1>3. w.x \in Nat /\ w.y \in Nat /\ w.y < w.height
  BY DEF Lined, Beside
<1>4. SameWidth(w, he, a) = [rows |-> s, x |-> w.x, y |-> y]
  BY DEF SameWidth, Outcome
<1> HIDE DEF b, n
<1>5. N \in Nat /\ k \in 0..N /\ k \in Nat /\ 1 = 0 + 1 /\ k = k - 0 /\ 0 \in 0..N /\ y \in Nat
  BY <1>1, <1>2, <1>3 DEF Most
<1> HIDE DEF k, N, drop
<1>6. Sheet(s, k, w.width, b)
  <2> HIDE DEF y, s
  <2>1. Sheet(SubSeq(Document(w), 1, k), k, w.width, b)
    BY ONLY <1>2, <1>5, SheetCut
  <2> QED BY <2>1 DEF s
<1> QED BY <1>3, <1>4, <1>5, <1>6 DEF Rowed, b

\* Only the history changes.
LEMMA SameScreenRowed ==
  ASSUME NEW w, Lined(w), NEW a \in Int, a <= Len(w.hlines) + w.y
  PROVE  Rowed(SameScreen(w, Most(0, a - w.y)), w.width, Whole(w))
<1> DEFINE n == Len(w.hlines)
           drop == Most(0, a - w.y)
           k == n - drop
           s == SubSeq(History(w), 1, k)
           y == w.y + drop
           N == k + w.height
           b == Whole(w)
<1>1. n \in Nat /\ w.height \in Nat /\ w.height > 0 /\ Sheet(History(w), n, w.width, b) /\ Sheet(w.lines, w.height, w.width, b)
  BY DocumentIs
<1>2. w.x \in Nat /\ w.y \in Nat /\ w.y < w.height
  BY DEF Lined, Beside
<1>3. SameScreen(w, drop) = [rows |-> s \o w.lines, x |-> w.x, y |-> y]
  BY DEF SameScreen, Outcome
<1>4. drop \in 0..n
  BY <1>1, <1>2 DEF Most
<1> HIDE DEF b, n, drop
<1>5. k \in 0..n /\ k \in Nat /\ 1 = 0 + 1 /\ k = k - 0 /\ 0 \in 0..n /\ y \in Nat /\ N \in Nat /\ N = k + w.height
  BY <1>1, <1>2, <1>4
<1> HIDE DEF k, N, y
<1>6. Sheet(s, k, w.width, b)
  <2> HIDE DEF s
  <2>1. Sheet(SubSeq(History(w), 1, k), k, w.width, b)
    BY ONLY <1>1, <1>5, SheetCut
  <2> QED BY <2>1 DEF s
<1> HIDE DEF s
<1>7. Sheet(s \o w.lines, N, w.width, b)
  BY ONLY <1>1, <1>5, <1>6, SheetJoined
<1> DEFINE o == [rows |-> s \o w.lines, x |-> w.x, y |-> y]
<1>8. Rowed(o, w.width, b)
  <2>1. o.rows = s \o w.lines /\ o.x = w.x /\ o.y = y
    OBVIOUS
  <2> HIDE DEF o
  <2> QED BY <1>2, <1>5, <1>7, <2>1 DEF Rowed
<1>9. SameScreen(w, Most(0, a - w.y)) = o
  BY <1>3 DEF drop
<1> HIDE DEF o
<1> QED BY <1>8, <1>9 DEF b

\* A text at the new width is so many rows.
LEMMA RewrapIs ==
  ASSUME NEW wi \in Nat, wi > 0, NEW N \in Nat, NEW text, text = [k \in 1..N |-> text[k]]
  PROVE  \E k \in Nat : IsRows(Rewrap(text, wi), k, wi)
<1> DEFINE S == {text[k] : k \in 1..N}
           m == HowMany(text, wi)
<1>1. text \in [1..N -> S]
  OBVIOUS
<1>2. Len(text) = N
  <2> HIDE DEF S
  <2> QED BY <1>1
<1>3. m \in Nat
  <2>1. N + wi - 1 \in Nat
    OBVIOUS
  <2>2. m = (N + wi - 1) \div wi
    BY <1>2 DEF HowMany
  <2> QED BY <2>1, <2>2
<1>4. \A i \in 1..m : IsLine(Wrapped(text, i, wi), wi)
  BY DEF Wrapped, IsLine
<1>5. Rewrap(text, wi) = [i \in 1..m |-> Wrapped(text, i, wi)]
  BY DEF Rewrap
<1> HIDE DEF m
<1>6. IsRows(Rewrap(text, wi), m, wi)
  BY <1>4, <1>5 DEF IsRows
<1> QED BY <1>3, <1>6

LEMMA ParagraphIs ==
  ASSUME NEW w, w.x \in Nat, w.width \in Nat, w.width > 0, NEW rows, NEW from \in Int, NEW to \in Int, from <= to,
         NEW wi \in Nat, wi > 0
  PROVE  \E k \in Nat : IsRows(Rewrap(LineText(w, rows, from, to), wi), k, wi)
<1> DEFINE N == (to - from) * w.width + Used(w, rows, to)
           text == LineText(w, rows, from, to)
<1>1. N \in Nat
  <2>1. to - from \in Nat
    OBVIOUS
  <2>2. (to - from) * w.width \in Nat
    BY <2>1
  <2> QED BY <2>2, UsedIs
<1>2. text = [k \in 1..N |-> text[k]]
  BY DEF LineText
<1> HIDE DEF N, text
<1>3. \E k \in Nat : IsRows(Rewrap(text, wi), k, wi)
  BY ONLY <1>1, <1>2, wi \in Nat, wi > 0, RewrapIs
<1> QED BY <1>3 DEF text

\* So are all paragraphs from one row to another.
LEMMA ParagraphsAre ==
  ASSUME NEW w, w.x \in Nat, w.width \in Nat, w.width > 0, NEW rows, NEW from \in Nat, from > 0, NEW to \in Int, from - 1 <= to,
         NEW wi \in Nat, wi > 0
  PROVE  \E k \in Nat : IsRows(Paragraphs(w, rows, from, to, wi), k, wi)
<1> DEFINE a == from - 1
           n == to - a
           Then(i, r) == IF i \notin Ends(rows) THEN r
                         ELSE r \o Rewrap(LineText(w, rows, i - RunOnAbove(rows, i), i), wi)
           Is(g, m) == g = [i \in a..m |-> IF i = a THEN <<>> ELSE Then(i, g[i - 1])]
           G == {m \in 0..n : \E g : Is(g, a + m)}
           f == CHOOSE f : Is(f, to)
<1>1. Paragraphs(w, rows, from, to, wi) = f[to]
  BY DEF Paragraphs
<1>2. a \in Nat /\ n \in Nat /\ a + n = to /\ to \in Nat /\ a + 0 = a
  OBVIOUS
<1> HIDE DEF Then, n
<1>3. \E g : Is(g, a)
  <2>1. Is([i \in a..a |-> <<>>], a)
    <3> HIDE DEF a
    <3>1. \A i \in a..a : i = a
      BY <1>2
    <3> QED BY <3>1
  <2> HIDE DEF Is
  <2> QED BY <2>1
<1> HIDE DEF a
<1>4. 0 \in G
  <2> HIDE DEF Is
  <2> QED BY <1>2, <1>3
<1>5. ASSUME NEW m \in 0..(n - 1), m \in G PROVE m + 1 \in G
  <2>1. PICK g : Is(g, a + m)
    BY <1>5
  <2> DEFINE e == a + m
             h == [i \in a..(e + 1) |-> IF i = a THEN <<>> ELSE Then(i, g[i - 1])]
  <2>2. e \in Nat /\ e >= a /\ e + 1 = a + (m + 1) /\ m + 1 \in 0..n
    BY <1>2
  <2> HIDE DEF e
  <2>3. ASSUME NEW i \in (a + 1)..(e + 1) PROVE h[i - 1] = g[i - 1]
    <3>1. i - 1 \in a..e /\ i - 1 \in a..(e + 1)
      BY <1>2, <2>2
    <3>2. Is(g, e)
      BY <2>1 DEF e
    <3> QED BY <3>1, <3>2
  <2>4. ASSUME NEW i \in a..(e + 1)
        PROVE  h[i] = IF i = a THEN <<>> ELSE Then(i, h[i - 1])
    <3>1. i # a => i \in (a + 1)..(e + 1)
      BY <1>2, <2>2
    <3> QED BY <2>3, <3>1
  <2>5. Is(h, e + 1)
    <3>1. h = [i \in a..(e + 1) |-> h[i]]
      OBVIOUS
    <3> HIDE DEF h
    <3> QED BY <2>4, <3>1
  <2> HIDE DEF Is, h
  <2> QED BY <2>2, <2>5
<1>6. G = 0..n
  <2>1. G \in SUBSET (0..n)
    OBVIOUS
  <2> HIDE DEF G
  <2> QED BY ONLY <1>2, <1>4, <1>5, <2>1, UpTo
<1>7. Is(f, to)
  <2>1. n \in G
    <3>1. n \in 0..n
      BY <1>2
    <3> HIDE DEF G
    <3> QED BY ONLY <1>6, <3>1
  <2> HIDE DEF Is
  <2>2. \E g : Is(g, to)
    BY <1>2, <2>1
  <2> QED BY <2>2
<1> HIDE DEF f
<1>8. f[a] = <<>> /\ \A i \in (a + 1)..to : f[i] = Then(i, f[i - 1])
  <2>1. a \in a..to /\ \A i \in (a + 1)..to : i \in a..to /\ i # a
    BY <1>2
  <2> QED BY <1>7, <2>1
<1> DEFINE R == {m \in 0..n : \E k \in Nat : IsRows(f[a + m], k, wi)}
<1>9. 0 \in R
  <2>1. IsRows(f[a + 0], 0, wi) /\ 0 \in Nat /\ 0 \in 0..n
    BY <1>2, <1>8, NoRows
  <2> QED BY <2>1
<1>10. ASSUME NEW m \in 0..(n - 1), m \in R PROVE m + 1 \in R
  <2> DEFINE i == a + (m + 1)
             start == i - RunOnAbove(rows, i)
             r == Rewrap(LineText(w, rows, start, i), wi)
  <2>1. PICK k \in Nat : IsRows(f[a + m], k, wi)
    BY <1>10
  <2>2. i \in (a + 1)..to /\ i - 1 = a + m /\ m + 1 \in 0..n /\ i \in Nat /\ i > 0 /\ i \in Int
    BY <1>2
  <2>3. f[i] = Then(i, f[a + m])
    <3> HIDE DEF i
    <3> QED BY <1>8, <2>2
  <2>4. PICK j \in Nat : IsRows(r, j, wi)
    <3> HIDE DEF i
    <3>1. start \in Int /\ start <= i
      <4>1. RunOnAbove(rows, i) \in 0..(i - 1)
        BY <2>2, RunOnAboveIs
      <4> QED BY <2>2, <4>1
    <3> HIDE DEF start
    <3> QED BY <2>2, <3>1, ParagraphIs
  <2>5. \E q \in Nat : IsRows(f[i], q, wi)
    <3>1. CASE i \notin Ends(rows)
      <4> HIDE DEF i
      <4> QED BY <2>1, <2>3, <3>1 DEF Then
    <3>2. CASE i \in Ends(rows)
      <4> DEFINE q == k + j
      <4>1. f[i] = f[a + m] \o r
        BY <2>3, <3>2 DEF Then
      <4>2. q \in Nat /\ q = k + j
        OBVIOUS
      <4> HIDE DEF r, i, q
      <4>3. IsRows(f[a + m] \o r, q, wi)
        BY ONLY <2>1, <2>4, <4>2, RowsJoined
      <4> QED BY <4>1, <4>2, <4>3
    <3> QED BY <3>1, <3>2
  <2> QED BY <2>2, <2>5
<1>11. R = 0..n
  <2>1. R \in SUBSET (0..n)
    OBVIOUS
  <2> HIDE DEF R
  <2> QED BY ONLY <1>2, <1>9, <1>10, <2>1, UpTo
<1>12. n \in R
  <2>1. n \in 0..n
    BY <1>2
  <2> HIDE DEF R
  <2> QED BY ONLY <1>11, <2>1
<1> QED BY <1>1, <1>2, <1>12

\* The rows before, of, and after the cursor's paragraph.
LEMMA MovedRowed ==
  ASSUME NEW wi \in Nat, wi > 0, NEW nb \in Nat, NEW np \in Nat, NEW na \in Nat,
         NEW before, IsRows(before, nb, wi), NEW par, IsRows(par, np, wi), NEW after, IsRows(after, na, wi),
         NEW offset \in Nat, NEW addone \in Nat, NEW hi \in Nat, NEW he \in Nat, he > 0
  PROVE  Rowed(Moved(before, par, after, offset, wi, addone, hi, he), wi, FALSE)
<1> DEFINE row == offset \div wi
           ty == hi + he - 1 - Len(after) - (Len(par) - row - 1)
           shift == Least(row - (ty - hi), hi + he - 1 - ty)
           at == Len(par) - shift
           unmarked == IF shift > 0 /\ at \in 1..row
                       THEN [par EXCEPT ![at][wi + 1] = Blank] ELSE par
           front == before \o unmarked
           all == front \o after
           nf == nb + np
           N == nf + na
           k == Len(all) - Most(0, shift)
           x == (offset % wi) + addone
           y == ty - hi + Most(0, shift)
           s == SubSeq(all, 1, k)
           o == IF ty < 0 THEN Outcome(all, 0, 0) ELSE Outcome(s, x, y)
<1>1. Len(par) = np /\ Len(after) = na
  BY RowsLength
<1>2. row \in Nat /\ x \in Nat
  <2>1. wi \in Nat \ {0}
    OBVIOUS
  <2>2. row \in Nat /\ offset % wi \in 0..(wi - 1)
    BY ONLY <2>1, DivNat, offset \in Nat
  <2> HIDE DEF row
  <2> QED BY <2>2
<1>3. Moved(before, par, after, offset, wi, addone, hi, he) = o
  BY DEF Moved
<1> HIDE DEF row, x
<1>4. at = np - shift /\ ty \in Int /\ shift \in Int /\ shift <= na + np - row - 1
  BY <1>1, <1>2 DEF Least
<1>5. N \in Nat /\ nf \in Nat /\ y \in Nat /\ N - Most(0, shift) \in 0..N
  BY <1>1, <1>2, <1>4 DEF Least, Most
<1>6. IsRows(unmarked, np, wi)
  <2> HIDE DEF shift, ty
  <2>1. ASSUME shift > 0, at \in 1..row PROVE IsRows([par EXCEPT ![at][wi + 1] = Blank], np, wi)
    <3>1. at \in 1..np
      BY <1>2, <1>4, <2>1
    <3> HIDE DEF at
    <3>2. IsLine(par[at], wi)
      BY <3>1 DEF IsRows
    <3>3. IsLine([par[at] EXCEPT ![wi + 1] = Blank], wi)
      BY <3>2 DEF IsLine
    <3> QED BY <3>3, RowReplaced
  <2> QED BY <2>1
<1> HIDE DEF unmarked, shift, ty, y
<1>7. IsRows(front, nf, wi)
  BY <1>6, RowsJoined
<1> HIDE DEF front
<1>8. IsRows(all, N, wi)
  BY ONLY <1>5, <1>7, RowsJoined, IsRows(after, na, wi), na \in Nat
<1> HIDE DEF all
<1>9. k \in 0..N /\ k \in Nat
  <2>1. Len(all) = N
    BY ONLY <1>5, <1>8, RowsLength
  <2> QED BY <1>5, <2>1
<1> HIDE DEF N
<1>10. IsRows(s, k, wi)
  <2> HIDE DEF k
  <2>1. 1 = 0 + 1 /\ k = k - 0 /\ 0 \in 0..N /\ k \in 0..N
    BY ONLY <1>5, <1>9
  <2> QED BY ONLY <1>5, <1>8, <2>1, RowsCut
<1> HIDE DEF k, s
<1>11. Sheet(all, N, wi, FALSE) /\ Sheet(s, k, wi, FALSE)
  BY <1>8, <1>10 DEF Sheet
<1>12. Rowed(Outcome(all, 0, 0), wi, FALSE)
  BY <1>5, <1>11 DEF Rowed, Outcome
<1>13. Rowed(Outcome(s, x, y), wi, FALSE)
  BY <1>2, <1>5, <1>11, <1>9 DEF Rowed, Outcome
<1> QED BY <1>3, <1>12, <1>13

\* The width changes: the paragraphs are wrapped anew.
LEMMA AroundCursorRowed ==
  ASSUME NEW w, w.x \in Nat, w.width \in Nat, w.width > 0, NEW rows, NEW n \in Nat, Len(rows) = n,
         NEW start \in Nat, start > 0, NEW end \in Nat, end <= n, CursorRow(w) \in start..end,
         NEW wi \in Nat, wi > 0, NEW hi \in Nat, NEW he \in Nat, he > 0
  PROVE  Rowed(AroundCursor(w, rows, start, end, wi, he, hi), wi, FALSE)
<1> DEFINE before == Paragraphs(w, rows, 1, start - 1, wi)
           par == Rewrap(LineText(w, rows, start, end), wi)
           after == Paragraphs(w, rows, end + 1, n, wi)
           offset == (CursorRow(w) - start) * w.width + Col(w)
           addone == w.x - Col(w)
           a == end + 1
           z == start - 1
<1>1. AroundCursor(w, rows, start, end, wi, he, hi) = Moved(before, par, after, offset, wi, addone, hi, he)
  BY DEF AroundCursor
<1>2. /\ 1 \in Nat /\ z \in Int /\ 1 - 1 <= z /\ a \in Nat /\ a > 0 /\ n \in Int /\ a - 1 <= n
      /\ start \in Int /\ end \in Int /\ start <= end
  OBVIOUS
<1>3. offset \in Nat /\ addone \in Nat
  <2>1. CursorRow(w) - start \in Nat /\ Col(w) \in Nat /\ addone \in Nat
    BY ColIs
  <2>2. (CursorRow(w) - start) * w.width \in Nat
    BY <2>1
  <2> QED BY <2>1, <2>2
<1>4. PICK nb \in Nat : IsRows(before, nb, wi)
  <2> HIDE DEF z
  <2>1. \E k \in Nat : IsRows(Paragraphs(w, rows, 1, z, wi), k, wi)
    BY <1>2, ParagraphsAre
  <2> QED BY <2>1 DEF z
<1>5. PICK na \in Nat : IsRows(after, na, wi)
  <2> HIDE DEF a
  <2>1. \E k \in Nat : IsRows(Paragraphs(w, rows, a, n, wi), k, wi)
    BY <1>2, ParagraphsAre
  <2> QED BY <2>1 DEF a
<1>6. PICK np \in Nat : IsRows(par, np, wi)
  BY <1>2, ParagraphIs
<1> HIDE DEF before, par, after, offset, addone
<1>7. Rowed(Moved(before, par, after, offset, wi, addone, hi, he), wi, FALSE)
  BY ONLY <1>3, <1>4, <1>5, <1>6, MovedRowed, wi \in Nat, wi > 0, hi \in Nat, he \in Nat, he > 0
<1> QED BY <1>1, <1>7

LEMMA NewWidthRowed ==
  ASSUME NEW w, Lined(w), NEW wi \in Widths, NEW he \in Heights, NEW hi \in Nat
  PROVE  Rowed(NewWidth(w, Document(w), wi, he, hi), wi, FALSE)
<1> DEFINE rows == Document(w)
           n == Len(w.hlines) + w.height
           i == CursorRow(w)
           S == {j \in Ends(rows) : j >= i}
           start == i - RunOnAbove(rows, i)
           end == Min(S)
<1>1. /\ Len(w.hlines) \in Nat /\ w.height \in Nat /\ w.height > 0 /\ w.width \in Nat /\ w.width > 0
      /\ Sheet(rows, n, w.width, Whole(w))
  BY DocumentIs
<1>2. w.x \in Nat /\ w.y \in Nat /\ w.y < w.height
  BY DEF Lined, Beside
<1>3. wi \in Nat /\ wi > 0 /\ he \in Nat /\ he > 0
  <2>1. Widths \subseteq Nat \ {0} /\ Heights \subseteq Nat \ {0}
    BY DEF ScreenAssumption
  <2>2. wi \in Nat \ {0} /\ he \in Nat \ {0}
    BY <2>1
  <2> QED BY <2>2
<1>4. n \in Nat /\ n > 0 /\ i \in 1..n
  BY <1>1, <1>2 DEF CursorRow
<1>5. Len(rows) = n /\ rows # <<>> /\ rows = [j \in 1..n |-> rows[j]]
  <2> HIDE DEF n, rows
  <2>1. Len(rows) = n
    BY <1>1, <1>4, RowsLength DEF Sheet
  <2>2. Len(<<>>) = 0
    OBVIOUS
  <2> QED BY <1>1, <1>4, <2>1, <2>2 DEF Sheet, IsRows
<1>6. NewWidth(w, rows, wi, he, hi) = AroundCursor(w, rows, start, end, wi, he, hi)
  BY <1>5 DEF NewWidth
<1> HIDE DEF rows, n, i
<1>7. start \in Nat /\ start > 0 /\ start <= i
  <2>1. RunOnAbove(rows, i) \in 0..(i - 1)
    BY <1>4, RunOnAboveIs
  <2> QED BY <1>4, <2>1
<1>8. end \in Nat /\ end <= n /\ end >= i
  <2>1. S \in SUBSET (1..n)
    BY <1>5 DEF Ends
  <2>2. n \in S
    BY <1>4, <1>5 DEF Ends
  <2>3. S \in SUBSET Nat /\ S # {} /\ \A j \in S : j >= i
    BY <2>1, <2>2
  <2> HIDE DEF S
  <2>4. end \in S
    BY ONLY <2>3, MinIs
  <2>5. end \in 1..n
    BY <2>1, <2>4
  <2>6. end >= i
    BY ONLY <2>3, <2>4
  <2> HIDE DEF end
  <2> QED BY <1>4, <2>5, <2>6
<1>9. CursorRow(w) \in start..end
  BY <1>4, <1>7, <1>8 DEF i
<1> HIDE DEF start, end
<1>10. Rowed(AroundCursor(w, rows, start, end, wi, he, hi), wi, FALSE)
  BY ONLY <1>1, <1>2, <1>3, <1>4, <1>5, <1>7, <1>8, <1>9, AroundCursorRowed, hi \in Nat
<1> QED BY <1>6, <1>10 DEF rows

\* So the new size has its rows, whole if the width stays.
LEMMA ResizedRowed ==
  ASSUME NEW w, Lined(w), NEW wi \in Widths, NEW he \in Heights, NEW hi \in Nat
  PROVE  Rowed(Resized(w, wi, he, hi), wi, Whole(w) /\ w.width = wi)
<1> DEFINE above == RunOnAbove(Document(w), CursorRow(w))
<1>1. above \in Nat /\ above <= Len(w.hlines) + w.y
  <2>1. Len(w.hlines) \in Nat /\ w.y \in Nat
    BY DocumentIs DEF Lined, Beside
  <2>2. CursorRow(w) \in Nat /\ CursorRow(w) > 0 /\ CursorRow(w) - 1 = Len(w.hlines) + w.y
    BY <2>1 DEF CursorRow
  <2>3. above \in 0..(CursorRow(w) - 1)
    BY <2>2, RunOnAboveIs
  <2> QED BY <2>1, <2>2, <2>3
<1>2. CASE w.width # wi
  <2>1. Resized(w, wi, he, hi) = NewWidth(w, Document(w), wi, he, hi)
    BY <1>2 DEF Resized
  <2>2. Rowed(Resized(w, wi, he, hi), wi, FALSE)
    BY <2>1, NewWidthRowed
  <2> QED BY <1>2, <2>2 DEF Rowed, Sheet
<1> HIDE DEF above
<1>3. CASE w.width = wi /\ w.height # he
  <2> DEFINE a == Least(above, he)
  <2>1. Resized(w, wi, he, hi) = SameWidth(w, he, a)
    BY <1>3 DEF Resized, above
  <2>2. a \in 0..he
    BY <1>1, ScreenAssumption DEF Least
  <2> HIDE DEF a
  <2>3. Rowed(SameWidth(w, he, a), w.width, Whole(w))
    BY <2>2, SameWidthRowed
  <2> QED BY <1>3, <2>1, <2>3 DEF Rowed, Sheet
<1>4. CASE w.width = wi /\ w.height = he
  <2> DEFINE a == Least(above, he)
  <2>1. Resized(w, wi, he, hi) = SameScreen(w, Most(0, a - w.y))
    BY <1>4 DEF Resized, above
  <2>2. a \in Int /\ a <= Len(w.hlines) + w.y
    <3>1. Len(w.hlines) \in Nat /\ w.y \in Nat /\ he \in Nat
      BY DocumentIs, ScreenAssumption DEF Lined, Beside
    <3> QED BY <1>1, <3>1 DEF Least
  <2> HIDE DEF a
  <2>3. Rowed(SameScreen(w, Most(0, a - w.y)), w.width, Whole(w))
    BY <2>2, SameScreenRowed
  <2> QED BY <1>4, <2>1, <2>3 DEF Rowed, Sheet
<1> QED BY <1>2, <1>3, <1>4

\* A window of a new size is proper, if it was before.
LEMMA SizedProper ==
  ASSUME NEW w, NEW b, NEW v, NEW wi \in Nat, wi > 0, NEW he \in Nat, he > 0, NEW hi, SizedTo(v, w, wi, he, hi, b),
         w.alt = [f \in {"on", "cursor", "screen"} |-> w.alt[f]], w.alt.on \in BOOLEAN,
         IsCursor(w.alt.cursor), w.alt.cursor.x \in Nat, w.alt.cursor.y \in Nat,
         w.alt.on =>
           /\ w.alt.screen.width \in Widths /\ w.alt.screen.height \in Heights
           /\ IsRows(w.alt.screen.lines, w.alt.screen.height, w.alt.screen.width) /\ Past(w.alt.screen)
           /\ w.alt.cursor.on /\ w.alt.cursor.y < w.alt.screen.height,
         ~w.alt.on => w.alt.screen = NoScreen
  PROVE  Proper(v) /\ v.alt.on = w.alt.on /\ v.alt.screen = w.alt.screen
<1> DEFINE c == Within(w.alt.cursor, 0, wi, he)
<1>1. IsCursor(c) /\ c.on = w.alt.cursor.on /\ c.x \in 0..wi /\ c.y \in 0..(he - 1) /\ c.y <= w.alt.cursor.y
  BY WithinIs
<1>2. v.alt = [w.alt EXCEPT !.cursor = c]
  BY DEF SizedTo
<1> HIDE DEF c
<1>3. /\ v.alt = [f \in {"on", "cursor", "screen"} |-> v.alt[f]]
      /\ v.alt.on = w.alt.on /\ v.alt.cursor = c /\ v.alt.screen = w.alt.screen
  BY <1>2
<1>4. v.width = wi /\ v.height = he
  BY DEF SizedTo
<1>5. Place(v.alt.cursor, v)
  BY <1>1, <1>3, <1>4 DEF Place, Margin
<1>6. v.alt.on => v.alt.cursor.y < v.alt.screen.height
  <2>1. w.alt.on => w.alt.screen.height \in Nat
    BY Sizes
  <2> QED BY <1>1, <1>3, <2>1
<1>7. PutAway(v)
  BY <1>1, <1>3, <1>5, <1>6 DEF PutAway
<1> QED BY <1>3, <1>7 DEF SizedTo, Proper

LEMMA ProperLined ==
  ASSUME NEW w, Proper(w)
  PROVE  /\ Lined(w) /\ w.width \in Nat /\ w.width > 0 /\ w.height \in Nat /\ w.height > 0 /\ Len(w.hlines) \in Nat
         /\ w.alt = [f \in {"on", "cursor", "screen"} |-> w.alt[f]] /\ w.alt.on \in BOOLEAN
         /\ IsCursor(w.alt.cursor) /\ w.alt.cursor.x \in Nat /\ w.alt.cursor.y \in Nat
<1>1. w.width \in Nat /\ w.width > 0 /\ w.height \in Nat /\ w.height > 0 /\ Len(w.hlines) \in Nat
  BY Sizes DEF Proper, Memory, Past
<1>2. Margin(w) \in Nat
  BY <1>1 DEF Margin
<1>3. /\ w.x \in Nat /\ w.y \in Nat /\ w.y < w.height /\ w.saved.x \in Nat /\ w.saved.y \in Nat
      /\ w.alt.cursor.x \in Nat /\ w.alt.cursor.y \in Nat
  BY <1>1, <1>2 DEF Proper, Place, PutAway
<1>4. w.scrollback \in Nat
  BY <1>1 DEF Proper, Memory
<1> QED BY <1>1, <1>3, <1>4 DEF Proper, Memory, Lined, Beside, PutAway

\* What a step with a new size keeps: whole characters, and what is put away.
Changed(v, w) ==
  /\ Proper(v) /\ v.alt.on = w.alt.on /\ v.alt.screen = w.alt.screen
  /\ v = w \/ ~SameSize(v, w)
  /\ Whole(w) /\ v.width = w.width => Whole(v)

LEMMA ChangeChanged ==
  ASSUME NEW w, Proper(w), NEW wi \in Widths, NEW he \in Heights, NEW hi \in Nat
  PROVE  Changed(ChangeWindowSize(w, wi, he, hi), w)
<1> DEFINE same == w.width = wi /\ w.height = he /\ Len(w.hlines) = hi
           o == Resized(w, wi, he, hi)
           b == Whole(w) /\ w.width = wi
           v == Become(w, o, wi, he, hi)
<1>1. CASE same
  <2>1. ChangeWindowSize(w, wi, he, hi) = w
    BY <1>1 DEF ChangeWindowSize
  <2> QED BY <2>1 DEF Changed
<1>2. CASE ~same
  <2>1. ChangeWindowSize(w, wi, he, hi) = v
    BY <1>2 DEF ChangeWindowSize
  <2>2. Lined(w) /\ Beside(w)
    BY ProperLined DEF Lined
  <2>3. Rowed(o, wi, b)
    BY <2>2, ResizedRowed
  <2>4. b => wi >= 2
    BY DEF Whole, WholeRows
  <2> HIDE DEF o, b
  <2>5. SizedTo(v, w, wi, he, hi, b)
    BY <2>2, <2>3, <2>4, BecomeSized
  <2> HIDE DEF v
  <2>6. Widths \subseteq Nat \ {0} /\ Heights \subseteq Nat \ {0}
    BY DEF ScreenAssumption
  <2>7. wi \in Nat /\ wi > 0 /\ he \in Nat /\ he > 0
    BY <2>6
  <2>8. Proper(v) /\ v.alt.on = w.alt.on /\ v.alt.screen = w.alt.screen
    BY <2>5, <2>7, ProperLined, SizedProper DEF Proper, PutAway
  <2>9. v.width = wi /\ v.height = he /\ Len(v.hlines) = hi /\ (b => Whole(v))
    BY <2>5 DEF SizedTo
  <2>10. ~SameSize(v, w)
    BY <1>2, <2>9 DEF SameSize
  <2>11. Whole(w) /\ v.width = w.width => Whole(v)
    BY <2>9 DEF b
  <2> QED BY <2>1, <2>8, <2>10, <2>11 DEF Changed
<1> QED BY <1>1, <1>2

-----------------------------------------------------------------------------
(* The alternate screen                                                    *)

\* s is w with the screen for its own.
Swap(s, w, screen) ==
  /\ IsWin(s) /\ s.width = screen.width /\ s.height = screen.height /\ s.lines = screen.lines
  /\ s.hlines = screen.hlines /\ s.histidx = screen.histidx /\ s.pushed = screen.pushed
  /\ s.alt = [w.alt EXCEPT !.screen = Away(w)]
  /\ s.x = w.x /\ s.y = w.y /\ s.tabs = w.tabs /\ s.saved = w.saved /\ s.scrollback = w.scrollback
  /\ s.top = w.top /\ s.bot = w.bot

LEMMA SwappedIs == ASSUME NEW w, IsWin(w), NEW screen PROVE Swap(Swapped(w, screen), w, screen)
<1> DEFINE A == Away(w)
           s == Swapped(w, screen)
<1>1. s = [w EXCEPT !.width = screen.width, !.height = screen.height, !.lines = screen.lines,
                    !.hlines = screen.hlines, !.histidx = screen.histidx, !.pushed = screen.pushed,
                    !.alt.screen = A]
  BY DEF Swapped
<1> HIDE DEF A, s
<1>2. /\ IsWin(s) /\ s.width = screen.width /\ s.height = screen.height /\ s.lines = screen.lines
      /\ s.hlines = screen.hlines /\ s.histidx = screen.histidx /\ s.pushed = screen.pushed
      /\ s.alt = [w.alt EXCEPT !.screen = A]
      /\ s.x = w.x /\ s.y = w.y /\ s.tabs = w.tabs /\ s.saved = w.saved /\ s.scrollback = w.scrollback
      /\ s.top = w.top /\ s.bot = w.bot
  BY <1>1 DEF IsWin, WinFields
<1> QED BY <1>2 DEF Swap, A, s

\* The window turns to the alternate screen: a blank one, and its own is put away.
Entering(v, w) ==
  /\ Proper(v) /\ v.alt.on /\ SameSize(v, w)
  /\ v.alt.screen = Away(w)
  /\ v.alt.cursor.x = Least(w.x, w.width) /\ v.alt.cursor.y = w.y
  /\ w.width >= 2 => Whole(v)

LEMMA EnterEntering ==
  ASSUME NEW w, Proper(w), ~w.alt.on
  PROVE  Entering(EnterAltScreen(PutAside(w)), w)
<1> DEFINE c == [on |-> TRUE, x |-> w.x, y |-> w.y]
           u == PutAside(w)
           s == Swapped(u, NoScreen)
           hi == Len(w.hlines)
           o == Outcome(<<>>, 0, 0)
           b == w.width >= 2
           r == Become(s, o, w.width, w.height, hi)
           v == [r EXCEPT !.alt.on = TRUE]
<1>1. /\ Lined(w) /\ w.width \in Nat /\ w.width > 0 /\ w.height \in Nat /\ w.height > 0 /\ hi \in Nat
      /\ w.alt = [f \in {"on", "cursor", "screen"} |-> w.alt[f]] /\ w.width \in Widths /\ w.height \in Heights
      /\ IsWin(w) /\ Beside(w) /\ Past(w) /\ w.y < w.height
  BY ProperLined DEF Lined, Beside
<1>2. u = [w EXCEPT !.alt.cursor = c]
  BY DEF PutAside
<1>3. IsCursor(c) /\ c.on /\ c.x = w.x /\ c.y = w.y
  BY DEF IsCursor
<1> HIDE DEF u, c
<1>4. /\ IsWin(u) /\ u.alt = [w.alt EXCEPT !.cursor = c]
      /\ u.width = w.width /\ u.height = w.height /\ u.lines = w.lines /\ u.hlines = w.hlines
      /\ u.histidx = w.histidx /\ u.pushed = w.pushed
      /\ u.x = w.x /\ u.y = w.y /\ u.tabs = w.tabs /\ u.saved = w.saved /\ u.scrollback = w.scrollback
  BY <1>1, <1>2 DEF IsWin, WinFields
<1>5. Away(u) = Away(w)
  BY <1>4 DEF Away
<1>6. /\ IsWin(s) /\ s.width = 0 /\ s.lines = <<>> /\ s.hlines = <<>> /\ s.histidx = 0
      /\ s.alt = [u.alt EXCEPT !.screen = Away(w)]
      /\ s.x = w.x /\ s.y = w.y /\ s.tabs = w.tabs /\ s.saved = w.saved /\ s.scrollback = w.scrollback
  <2>1. /\ NoScreen.width = 0 /\ NoScreen.lines = <<>> /\ NoScreen.hlines = <<>> /\ NoScreen.histidx = 0
    BY DEF NoScreen
  <2>2. /\ IsWin(s) /\ s.width = NoScreen.width /\ s.lines = NoScreen.lines /\ s.hlines = NoScreen.hlines
        /\ s.histidx = NoScreen.histidx /\ s.alt = [u.alt EXCEPT !.screen = Away(u)]
        /\ s.x = u.x /\ s.y = u.y /\ s.tabs = u.tabs /\ s.saved = u.saved /\ s.scrollback = u.scrollback
    <3>1. IsWin(u)
      BY <1>4
    <3>2. Swap(Swapped(u, NoScreen), u, NoScreen)
      BY ONLY <3>1, SwappedIs
    <3> QED BY <3>2 DEF Swap
  <2> HIDE DEF s
  <2> QED BY <1>4, <1>5, <2>1, <2>2
<1> HIDE DEF s
<1> DEFINE A == Away(w)
<1>7. A.width = w.width /\ A.height = w.height /\ A.lines = w.lines /\ A.hlines = w.hlines /\ A.histidx = w.histidx /\ A.pushed = w.pushed
  BY DEF Away
<1> HIDE DEF A
<1>8. /\ s.alt = [f \in {"on", "cursor", "screen"} |-> s.alt[f]] /\ ~s.alt.on
      /\ s.alt.cursor = c /\ s.alt.screen = A
  BY <1>1, <1>4, <1>6 DEF A
<1>9. Beside(s)
  BY <1>1, <1>3, <1>6, <1>8 DEF Beside
<1>10. ChangeWindowSize(s, w.width, w.height, hi) = r
  <2>1. Document(s) = <<>>
    <3>1. History(s) = SubSeq(<<>>, 0 + 1, Len(<<>>)) \o SubSeq(<<>>, 1, 0)
      BY <1>6 DEF History, Oldest
    <3>2. SubSeq(<<>>, 0 + 1, Len(<<>>)) \o SubSeq(<<>>, 1, 0) = <<>>
      OBVIOUS
    <3> QED BY <1>6, <3>1, <3>2 DEF Document
  <2>2. s.width # w.width
    BY <1>1, <1>6
  <2>3. Resized(s, w.width, w.height, hi) = o
    BY <2>1, <2>2 DEF Resized, NewWidth
  <2> QED BY <2>2, <2>3 DEF ChangeWindowSize
<1>11. Rowed(o, w.width, b)
  <2>1. o.rows = <<>> /\ o.x = 0 /\ o.y = 0
    BY DEF Outcome
  <2>2. Sheet(<<>>, 0, w.width, b)
    BY NoRows DEF Sheet, WholeRows
  <2> HIDE DEF o, b
  <2>3. Sheet(o.rows, 0, w.width, b) /\ 0 \in Nat
    BY <2>1, <2>2
  <2> QED BY <2>1, <2>3 DEF Rowed
<1>12. SizedTo(r, s, w.width, w.height, hi, b)
  <2>1. b => w.width >= 2
    OBVIOUS
  <2> HIDE DEF o, b, hi
  <2> QED BY <1>1, <1>9, <1>11, <2>1, BecomeSized
<1>13. EnterAltScreen(u) = v
  BY <1>4, <1>10 DEF EnterAltScreen, s
<1> DEFINE d == Within(c, 0, w.width, w.height)
<1>14. IsCursor(d) /\ d.on /\ d.x \in 0..w.width /\ d.y \in 0..(w.height - 1) /\ d.x = Least(w.x, w.width) /\ d.y = w.y
  <2>1. w.x \in Nat /\ w.y \in Nat
    BY <1>1 DEF Beside
  <2>2. IsCursor(d) /\ d.on /\ d.x \in 0..w.width /\ d.y \in 0..(w.height - 1)
    <3>1. c.x \in Nat /\ c.y \in Nat /\ 0 \in Int
      BY <1>3, <2>1
    <3>2. /\ IsCursor(d) /\ d.on = c.on /\ d.x \in 0..w.width /\ d.y \in 0..(w.height - 1)
      BY ONLY <1>1, <1>3, <3>1, WithinIs
    <3> QED BY <1>3, <3>2
  <2>3. d.x = Least(w.x, w.width) /\ d.y = Most(0, Least(w.y + 0, w.height - 1))
    BY <1>3 DEF Within, IsCursor
  <2>4. Most(0, Least(w.y + 0, w.height - 1)) = w.y
    BY <1>1, <2>1 DEF Least, Most
  <2> QED BY <2>2, <2>3, <2>4
<1> HIDE DEF r
<1>15. IsWin(r)
  BY <1>12 DEF SizedTo, Memory
<1>16. r.alt = [s.alt EXCEPT !.cursor = d]
  BY <1>8, <1>12 DEF SizedTo
<1> HIDE DEF d
<1>17. /\ IsWin(v) /\ v.alt = [r.alt EXCEPT !.on = TRUE]
       /\ v.width = r.width /\ v.height = r.height /\ v.lines = r.lines /\ v.hlines = r.hlines
       /\ v.histidx = r.histidx /\ v.pushed = r.pushed /\ v.scrollback = r.scrollback
       /\ v.x = r.x /\ v.y = r.y /\ v.tabs = r.tabs /\ v.saved = r.saved /\ v.top = r.top /\ v.bot = r.bot
  BY <1>15 DEF IsWin, WinFields
<1> HIDE DEF v
<1>18. /\ v.alt = [f \in {"on", "cursor", "screen"} |-> v.alt[f]] /\ v.alt.on = TRUE
       /\ v.alt.cursor = d /\ v.alt.screen = A
  BY <1>8, <1>16, <1>17
<1>19. /\ r.width = w.width /\ r.height = w.height /\ Len(r.hlines) = hi
  BY <1>12 DEF SizedTo
<1>20. Past(A) /\ IsRows(A.lines, A.height, A.width)
  BY <1>1, <1>7 DEF Past, History, Oldest, Lined
<1>21. PutAway(v)
  <2>1. IsCursor(v.alt.cursor) /\ Place(v.alt.cursor, v)
    BY <1>1, <1>14, <1>17, <1>18, <1>19 DEF Place, Margin
  <2>2. A.width \in Widths /\ A.height \in Heights /\ v.alt.cursor.on /\ v.alt.cursor.y < A.height
    BY <1>1, <1>7, <1>14, <1>18
  <2> QED BY <1>18, <1>20, <2>1, <2>2 DEF PutAway
<1>22. Memory(v) /\ (b => Whole(v))
  BY <1>12, <1>17 DEF SizedTo, Memory, Past, History, Oldest, Whole
<1>23. Proper(v)
  BY <1>12, <1>17, <1>21, <1>22 DEF SizedTo, Proper, Place, Margin
<1>24. SameSize(v, w)
  BY <1>17, <1>19 DEF SameSize
<1> QED BY <1>13, <1>14, <1>18, <1>22, <1>23, <1>24 DEF Entering, A, u

\* The window turns back: it has what was put away, at the size it has by now.
Leaving(v, w) ==
  /\ Proper(v) /\ v.alt.on = FALSE /\ SameSize(v, w) /\ v.alt.screen = NoScreen
  /\ SameSize(w.alt.screen, w) =>
       Document(v) = Document(w.alt.screen) /\ v.x = w.alt.cursor.x /\ v.y = w.alt.cursor.y
  /\ Whole(w.alt.screen) /\ w.alt.screen.width = w.width => Whole(v)

\* All that is proper of a window but for the screen put away.
Standing(w) ==
  /\ Memory(w) /\ Place(w, w)
  /\ w.top \in Nat /\ w.bot \in Nat /\ w.top <= w.bot /\ w.bot < w.height
  /\ IsCursor(w.saved) /\ Place(w.saved, w) /\ w.tabs \in SUBSET Nat
  /\ w.alt = [f \in {"on", "cursor", "screen"} |-> w.alt[f]]
  /\ IsCursor(w.alt.cursor) /\ Place(w.alt.cursor, w)

LEMMA Returned ==
  ASSUME NEW r, Standing(r)
  PROVE  LET v == [r EXCEPT !.alt.on = FALSE, !.alt.screen = NoScreen]
         IN /\ Proper(v) /\ v.alt.on = FALSE /\ v.alt.screen = NoScreen /\ SameSize(v, r)
            /\ Document(v) = Document(r) /\ v.x = r.x /\ v.y = r.y /\ (Whole(r) => Whole(v))
<1> DEFINE v == [r EXCEPT !.alt.on = FALSE, !.alt.screen = NoScreen]
<1>1. IsWin(r)
  BY DEF Standing, Memory
<1>2. v.alt = [r.alt EXCEPT !.on = FALSE, !.screen = NoScreen]
  BY <1>1 DEF IsWin, WinFields
<1>3. /\ IsWin(v) /\ v.width = r.width /\ v.height = r.height /\ v.lines = r.lines /\ v.hlines = r.hlines
      /\ v.histidx = r.histidx /\ v.pushed = r.pushed /\ v.scrollback = r.scrollback
      /\ v.x = r.x /\ v.y = r.y /\ v.tabs = r.tabs /\ v.saved = r.saved /\ v.top = r.top /\ v.bot = r.bot
  BY <1>1 DEF IsWin, WinFields
<1> HIDE DEF v
<1>4. /\ v.alt = [f \in {"on", "cursor", "screen"} |-> v.alt[f]]
      /\ v.alt.on = FALSE /\ v.alt.cursor = r.alt.cursor /\ v.alt.screen = NoScreen
  BY <1>2 DEF Standing
<1>5. PutAway(v)
  BY <1>3, <1>4 DEF PutAway, Standing, Place, Margin
<1>6. Memory(v)
  BY <1>3 DEF Standing, Memory, Past, History, Oldest
<1>7. Proper(v)
  BY <1>3, <1>5, <1>6 DEF Proper, Standing, Place, Margin
<1>8. Document(v) = Document(r) /\ SameSize(v, r) /\ (Whole(r) => Whole(v))
  BY <1>3 DEF Document, History, Oldest, SameSize, Whole
<1>9. /\ Proper(v) /\ v.alt.on = FALSE /\ v.alt.screen = NoScreen /\ SameSize(v, r)
      /\ Document(v) = Document(r) /\ v.x = r.x /\ v.y = r.y /\ (Whole(r) => Whole(v))
  BY <1>3, <1>4, <1>7, <1>8
<1> QED BY <1>9 DEF v

LEMMA LeaveLeaving ==
  ASSUME NEW w, Proper(w), w.alt.on
  PROVE  Leaving(LeaveAltScreen(MoveTo(w, w.alt.cursor)), w)
<1> DEFINE c == w.alt.cursor
           a == w.alt.screen
           u == MoveTo(w, c)
           s == Swapped(u, a)
           hi == Len(w.hlines)
           wi == w.width
           he == w.height
           same == s.width = wi /\ s.height = he /\ Len(s.hlines) = hi
           r == ChangeWindowSize(s, wi, he, hi)
           v == [r EXCEPT !.alt.on = FALSE, !.alt.screen = NoScreen]
<1>1. /\ IsWin(w) /\ wi \in Nat /\ wi > 0 /\ he \in Nat /\ he > 0 /\ hi \in Nat /\ wi \in Widths /\ he \in Heights
      /\ w.alt = [f \in {"on", "cursor", "screen"} |-> w.alt[f]]
      /\ c.x \in Nat /\ c.y \in Nat /\ w.scrollback \in Nat /\ w.tabs \in SUBSET Nat
      /\ IsCursor(w.saved) /\ w.saved.x \in Nat /\ w.saved.y \in Nat /\ Place(w.saved, w)
  BY ProperLined DEF Lined, Beside, Proper
<1>2. /\ IsCursor(c) /\ c.on /\ c.y < a.height /\ a.width \in Widths /\ a.height \in Heights
      /\ IsRows(a.lines, a.height, a.width) /\ Past(a) /\ Place(c, w)
  BY DEF Proper, PutAway
<1>3. w.scrollback \in 0..hi /\ w.top \in Nat /\ w.bot \in Nat /\ w.top <= w.bot /\ w.bot < he
  BY DEF Proper, Memory
<1> HIDE DEF c, a, hi, wi, he
<1>4. u = [w EXCEPT !.x = c.x, !.y = c.y]
  BY <1>2 DEF MoveTo
<1> HIDE DEF u
<1>5. /\ IsWin(u) /\ u.alt = w.alt /\ u.x = c.x /\ u.y = c.y /\ u.tabs = w.tabs /\ u.saved = w.saved
      /\ u.scrollback = w.scrollback /\ u.top = w.top /\ u.bot = w.bot
      /\ u.width = wi /\ u.height = he /\ u.hlines = w.hlines
  BY <1>1, <1>4 DEF IsWin, WinFields, wi, he
<1>6. LeaveAltScreen(u) = v
  BY <1>5 DEF LeaveAltScreen, a, hi
<1>7. /\ IsWin(s) /\ s.width = a.width /\ s.height = a.height /\ s.lines = a.lines /\ s.hlines = a.hlines
      /\ s.histidx = a.histidx /\ s.pushed = a.pushed /\ s.alt = [u.alt EXCEPT !.screen = Away(u)]
      /\ s.x = u.x /\ s.y = u.y /\ s.tabs = u.tabs /\ s.saved = u.saved /\ s.scrollback = u.scrollback
      /\ s.top = u.top /\ s.bot = u.bot
  <2>1. IsWin(u)
    BY <1>5
  <2>2. Swap(Swapped(u, a), u, a)
    BY ONLY <2>1, SwappedIs
  <2> QED BY <2>2 DEF Swap
<1> HIDE DEF s
<1>8. s.alt = [f \in {"on", "cursor", "screen"} |-> s.alt[f]] /\ s.alt.cursor = c
  BY <1>1, <1>5, <1>7 DEF c
<1>9. Past(s) /\ Document(s) = Document(a) /\ (Whole(a) => Whole(s))
  BY <1>2, <1>7 DEF Past, Document, History, Oldest, Whole
<1>10. Beside(s) /\ Lined(s)
  <2>1. s.width \in Nat
    BY <1>2, <1>7, Sizes
  <2>2. Beside(s)
    BY <1>1, <1>2, <1>5, <1>7, <1>8, <2>1 DEF Beside
  <2> QED BY <1>2, <1>5, <1>7, <1>9, <2>2 DEF Lined
<1>11. /\ Standing(r) /\ SameSize(r, w)
       /\ (same => r = s)
       /\ (Whole(s) /\ s.width = wi => Whole(r))
  <2>1. CASE same
    <3>1. r = s
      BY <2>1 DEF ChangeWindowSize
    <3>2. Memory(s)
      BY <1>2, <1>3, <1>5, <1>7, <1>9, <2>1 DEF Memory
    <3>3. Place(s, s) /\ Place(s.saved, s) /\ Place(s.alt.cursor, s)
      BY <1>1, <1>2, <1>5, <1>7, <1>8, <2>1 DEF Place, Margin, wi, he
    <3>4. Standing(s)
      BY <1>1, <1>2, <1>3, <1>5, <1>7, <1>8, <2>1, <3>2, <3>3 DEF Standing
    <3>5. SameSize(s, w)
      BY <2>1 DEF SameSize, wi, he, hi
    <3> QED BY <3>1, <3>4, <3>5
  <2>2. CASE ~same
    <3> DEFINE o == Resized(s, wi, he, hi)
               b == Whole(s) /\ s.width = wi
               d == Within(c, 0, wi, he)
    <3>1. r = Become(s, o, wi, he, hi)
      BY <2>2 DEF ChangeWindowSize
    <3>2. Rowed(o, wi, b)
      BY <1>1, <1>10, ResizedRowed
    <3>3. b => wi >= 2
      BY DEF Whole, WholeRows
    <3> HIDE DEF o, b, r
    <3>4. SizedTo(r, s, wi, he, hi, b)
      BY <1>1, <1>10, <3>1, <3>2, <3>3, BecomeSized
    <3>5. r.alt = [s.alt EXCEPT !.cursor = d]
      BY <1>8, <3>4 DEF SizedTo
    <3>6. IsCursor(d) /\ d.x \in 0..wi /\ d.y \in 0..(he - 1)
      <4>1. 0 \in Int
        OBVIOUS
      <4> QED BY ONLY <1>1, <1>2, <4>1, WithinIs
    <3> HIDE DEF d
    <3>7. r.alt = [f \in {"on", "cursor", "screen"} |-> r.alt[f]] /\ r.alt.cursor = d
      BY <1>8, <3>5
    <3>8. r.width = wi /\ r.height = he /\ Len(r.hlines) = hi
      BY <3>4 DEF SizedTo
    <3>9. Place(r.alt.cursor, r)
      BY <1>1, <3>6, <3>7, <3>8 DEF Place, Margin
    <3>10. Standing(r)
      BY <3>4, <3>6, <3>7, <3>9 DEF SizedTo, Standing
    <3>11. SameSize(r, w)
      BY <3>8 DEF SameSize, wi, he, hi
    <3>12. b => Whole(r)
      BY <3>4 DEF SizedTo
    <3> QED BY <2>2, <3>10, <3>11, <3>12 DEF b
  <2> QED BY <2>1, <2>2
<1> HIDE DEF r
<1>12. /\ Proper(v) /\ v.alt.on = FALSE /\ v.alt.screen = NoScreen /\ SameSize(v, r)
       /\ Document(v) = Document(r) /\ v.x = r.x /\ v.y = r.y /\ (Whole(r) => Whole(v))
  BY <1>11, Returned
<1> HIDE DEF v
<1>13. SameSize(v, w)
  BY <1>11, <1>12 DEF SameSize
<1>14. SameSize(a, w) => Document(v) = Document(a) /\ v.x = c.x /\ v.y = c.y
  <2>1. SameSize(a, w) => same
    BY <1>7 DEF SameSize, wi, he, hi
  <2> QED BY <1>5, <1>7, <1>9, <1>11, <1>12, <2>1
<1>15. Whole(a) /\ a.width = wi => Whole(v)
  BY <1>7, <1>9, <1>11, <1>12
<1> QED BY <1>6, <1>12, <1>13, <1>14, <1>15 DEF Leaving, a, c, u, wi

\* What a step does to the window.
Moves(v, w) ==
  \/ Fine(v, w, w.wrap)
  \/ Changed(v, w)
  \/ ~w.alt.on /\ Entering(v, w)
  \/ w.alt.on /\ Leaving(v, w)

\* The saved cursor may be forgotten.
LEMMA Forgotten ==
  ASSUME NEW v, Proper(v), NEW on
  PROVE  LET u == [v EXCEPT !.saved.on = on]
         IN /\ Fine(u, v, TRUE) /\ u.x = v.x /\ u.y = v.y /\ Document(u) = Document(v)
<1> DEFINE u == [v EXCEPT !.saved.on = on]
<1>1. IsWin(v) /\ IsCursor(v.saved) /\ Place(v.saved, v)
  BY DEF Proper, Memory
<1>2. /\ u.saved = [v.saved EXCEPT !.on = on]
      /\ IsWin(u) /\ u.width = v.width /\ u.height = v.height /\ u.lines = v.lines /\ u.hlines = v.hlines
      /\ u.histidx = v.histidx /\ u.pushed = v.pushed /\ u.scrollback = v.scrollback
      /\ u.x = v.x /\ u.y = v.y /\ u.tabs = v.tabs /\ u.alt = v.alt /\ u.top = v.top /\ u.bot = v.bot
  BY <1>1 DEF IsWin, WinFields
<1> HIDE DEF u
<1>3. IsCursor(u.saved) /\ Place(u.saved, v)
  <2>1. IsCursor(u.saved) /\ u.saved.x = v.saved.x /\ u.saved.y = v.saved.y
    BY <1>1, <1>2 DEF IsCursor
  <2> QED BY <1>1, <2>1 DEF Place
<1>4. u.x \in 0..Margin(v) /\ u.y \in 0..(v.height - 1)
  BY <1>2 DEF Proper, Place
<1>5. u.top \in Nat /\ u.bot \in Nat /\ u.top <= u.bot /\ u.bot < v.height /\ u.tabs \in SUBSET Nat
  BY <1>2 DEF Proper
<1>6. Fine(u, v, TRUE)
  BY <1>2, <1>3, <1>4, <1>5, SameMemory
<1>7. Document(u) = Document(v)
  BY <1>2 DEF Document, History, Oldest
<1>8. Fine(u, v, TRUE) /\ u.x = v.x /\ u.y = v.y /\ Document(u) = Document(v)
  BY <1>2, <1>6, <1>7
<1> QED BY <1>8 DEF u

LEMMA AltScreenMoves ==
  ASSUME NEW w, Proper(w), NEW on \in BOOLEAN, NEW mode
  PROVE  Moves(AltScreen(w, on, mode), w)
<1> DEFINE r == LeaveAltScreen(MoveTo(w, w.alt.cursor))
           m == IF w.alt.on THEN r ELSE w
           e == m.saved.on /\ mode # 47
           u == [m EXCEPT !.saved.on = e]
<1>1. CASE on /\ w.alt.on
  <2>1. AltScreen(w, on, mode) = w
    BY <1>1 DEF AltScreen
  <2> QED BY <2>1, FineItself DEF Moves
<1>2. CASE on /\ ~w.alt.on
  <2>1. AltScreen(w, on, mode) = EnterAltScreen(PutAside(w))
    BY <1>2 DEF AltScreen
  <2> QED BY <1>2, <2>1, EnterEntering DEF Moves
<1>3. CASE ~on
  <2>1. AltScreen(w, on, mode) = u
    BY <1>3 DEF AltScreen
  <2>2. w.alt.on => Leaving(r, w)
    BY LeaveLeaving
  <2> HIDE DEF r
  <2>3. Proper(m)
    BY <2>2 DEF Leaving
  <2> HIDE DEF m, e
  <2>4. Fine(u, m, TRUE) /\ u.x = m.x /\ u.y = m.y /\ Document(u) = Document(m)
    BY <2>3, Forgotten
  <2> HIDE DEF u
  <2>5. CASE w.alt.on
    <3>1. m = r
      BY <2>5 DEF m
    <3>2. Leaving(u, w)
      BY <2>2, <2>4, <2>5, <3>1 DEF Leaving, Fine, Kept, SameSize
    <3> QED BY <2>1, <2>5, <3>2 DEF Moves
  <2>6. CASE ~w.alt.on
    <3>1. m = w
      BY <2>6 DEF m
    <3>2. Fine(u, w, w.wrap)
      BY <2>4, <3>1 DEF Fine, Kept
    <3> QED BY <2>1, <3>2 DEF Moves
  <2> QED BY <2>5, <2>6
<1> QED BY <1>1, <1>2, <1>3

-----------------------------------------------------------------------------
(* Steps                                                                   *)

LEMMA WinIs == IsWin(Win)
  BY DEF IsWin, WinFields, Win

\* After a step the window is what the step makes of it.
LEMMA StepIs ==
  ASSUME NEW v, IsWin(v), Step(v)
  PROVE  /\ Win' = v
         /\ entered' = IF ~v.alt.on \/ (alt.on /\ ~SameSize(Win, v)) THEN NoScreen
                       ELSE IF alt.on THEN entered ELSE Seen(Win)
<1>1. Put(v)
  BY DEF Step
<1>2. Win' = v
  BY <1>1 DEF Put, Win, IsWin, WinFields
<1>3. entered' = IF ~v.alt.on \/ (alt.on /\ ~SameSize(Win, v)) THEN NoScreen
                 ELSE IF alt.on THEN entered ELSE Seen(Win)
  BY DEF Step
<1> QED BY <1>2, <1>3

\* A step that is a fine one.
Does(v) == Moves(v, Win) /\ Step(v)

LEMMA DoesFine == ASSUME NEW v, Fine(v, Win, Win.wrap), Step(v) PROVE \E u : Does(u)
  BY DEF Does, Moves

LEMMA ArgsAre == ASSUME NEW n \in Args PROVE n \in Nat /\ Default(n) \in Nat /\ Default(n) > 0
  BY ScreenAssumption DEF Default

LEMMA CharacterDoes == ASSUME Proper(Win), Character PROVE \E v : Does(v)
<1>1. PICK c \in Chars \cup {Wide} : Step(WriteChar(Win, c))
  BY DEF Character
<1>2. Fine(WriteChar(Win, c), Win, Win.wrap)
  BY WriteCharFine
<1> QED BY <1>1, <1>2, DoesFine

LEMMA ControlDoes == ASSUME Proper(Win), Control PROVE \E v : Does(v)
<1>1. CASE Step(BackSpace(Win))
  BY <1>1, BackSpaceFine, DoesFine
<1>2. CASE Step(Return(Win))
  BY <1>2, ReturnFine, DoesFine
<1>3. CASE Step(LineFeed(Win, FALSE))
  <2>1. FALSE \in BOOLEAN
    OBVIOUS
  <2> QED BY <1>3, <2>1, LineFeedFine, DoesFine
<1>4. CASE Step(ForwardTab(Win))
  BY <1>4, ForwardTabFine, DoesFine
<1> QED BY <1>1, <1>2, <1>3, <1>4 DEF Control

LEMMA TabDoes == ASSUME Proper(Win), Tab PROVE \E v : Does(v)
<1> DEFINE A == Win.tabs \cup {cursor.x}
           B == Win.tabs \ {cursor.x}
           C == Win.tabs \cap {mem.width}
<1>1. A \in SUBSET Nat /\ B \in SUBSET Nat /\ C \in SUBSET Nat
  <2>1. Win.x = cursor.x
    BY DEF Win
  <2>2. Win.x \in Nat
    BY Counts
  <2>3. Win.tabs \in SUBSET Nat
    BY DEF Proper
  <2> QED BY <2>1, <2>2, <2>3
<1> HIDE DEF A, B, C
<1>2. CASE Step([Win EXCEPT !.tabs = @ \cup {cursor.x}])
  <2>1. Step([Win EXCEPT !.tabs = A])
    BY <1>2 DEF A
  <2> QED BY <1>1, <2>1, TabsSetFine, DoesFine
<1>3. CASE Step([Win EXCEPT !.tabs = @ \ {cursor.x}])
  <2>1. Step([Win EXCEPT !.tabs = B])
    BY <1>3 DEF B
  <2> QED BY <1>1, <2>1, TabsSetFine, DoesFine
<1>4. CASE Step([Win EXCEPT !.tabs = @ \cap {mem.width}])
  <2>1. Step([Win EXCEPT !.tabs = C])
    BY <1>4 DEF C
  <2> QED BY <1>1, <2>1, TabsSetFine, DoesFine
<1>5. ASSUME NEW n \in Args, NEW forward \in BOOLEAN, Step(Tabs(Win, Default(n), forward)) PROVE \E v : Does(v)
  BY <1>5, ArgsAre, TabsFine, DoesFine
<1> QED BY <1>2, <1>3, <1>4, <1>5 DEF Tab

LEMMA MotionDoes == ASSUME Proper(Win), Motion PROVE \E v : Does(v)
<1>1. ASSUME NEW a1 \in Args, NEW a2 \in Args, Step(GotoPos(Win, a1, a2)) PROVE \E v : Does(v)
  BY <1>1, ArgsAre, GotoPosFine, DoesFine
<1> SUFFICES ASSUME NEW n \in Args,
                    \/ Step(CursorUp(Win, Default(n)))
                    \/ Step(CursorDown(Win, Default(n)))
                    \/ Step(CursorRight(Win, Default(n)))
                    \/ Step(CursorLeft(Win, Default(n)))
                    \/ Step(CursorDown(Return(Win), Default(n)))
                    \/ Step(CursorUp(Return(Win), Default(n)))
                    \/ Step([Win EXCEPT !.x = Least(Default(n), mem.width) - 1])
                    \/ Step([Win EXCEPT !.y = Least(Default(n), mem.height) - 1])
             PROVE  \E v : Does(v)
  BY <1>1 DEF Motion
<1>2. Default(n) \in Nat /\ Default(n) > 0
  BY ArgsAre
<1>3. CASE Step(CursorUp(Win, Default(n)))
  BY <1>2, <1>3, CursorUpFine, DoesFine
<1>4. CASE Step(CursorDown(Win, Default(n)))
  BY <1>2, <1>4, CursorDownFine, DoesFine
<1>5. CASE Step(CursorRight(Win, Default(n)))
  BY <1>2, <1>5, CursorRightFine, DoesFine
<1>6. CASE Step(CursorLeft(Win, Default(n)))
  BY <1>2, <1>6, CursorLeftFine, DoesFine
<1>7. Fine(Return(Win), Win, Win.wrap) /\ Proper(Return(Win))
  BY ReturnFine DEF Fine
<1>8. CASE Step(CursorDown(Return(Win), Default(n)))
  <2>1. Fine(CursorDown(Return(Win), Default(n)), Return(Win), Win.wrap)
    BY <1>2, <1>7, CursorDownFine
  <2>2. Fine(CursorDown(Return(Win), Default(n)), Win, Win.wrap)
    BY <1>7, <2>1, FineOther
  <2> QED BY <1>8, <2>2, DoesFine
<1>9. CASE Step(CursorUp(Return(Win), Default(n)))
  <2>1. Fine(CursorUp(Return(Win), Default(n)), Return(Win), Win.wrap)
    BY <1>2, <1>7, CursorUpFine
  <2>2. Fine(CursorUp(Return(Win), Default(n)), Win, Win.wrap)
    BY <1>7, <2>1, FineOther
  <2> QED BY <1>9, <2>2, DoesFine
<1> DEFINE x == Least(Default(n), mem.width) - 1
           y == Least(Default(n), mem.height) - 1
<1>10. x \in 0..Margin(Win) /\ y \in 0..(Win.height - 1)
  <2>1. Win.width = mem.width /\ Win.height = mem.height
    BY DEF Win
  <2> QED BY <1>2, <2>1, Counts DEF Least
<1> HIDE DEF x, y
<1>11. CASE Step([Win EXCEPT !.x = Least(Default(n), mem.width) - 1])
  <2>1. Step([Win EXCEPT !.x = x])
    BY <1>11 DEF x
  <2>2. Fine([Win EXCEPT !.x = x], Win, Win.wrap)
    BY <1>10, PlacedX
  <2> QED BY <2>1, <2>2, DoesFine
<1>12. CASE Step([Win EXCEPT !.y = Least(Default(n), mem.height) - 1])
  <2>1. Step([Win EXCEPT !.y = y])
    BY <1>12 DEF y
  <2>2. Fine([Win EXCEPT !.y = y], Win, Win.wrap)
    BY <1>10, PlacedY
  <2> QED BY <2>1, <2>2, DoesFine
<1> QED BY <1>3, <1>4, <1>5, <1>6, <1>8, <1>9, <1>11, <1>12

LEMMA ScrollDoes == ASSUME Proper(Win), Scroll PROVE \E v : Does(v)
<1>1. CASE Step(LineFeed(Win, TRUE))
  <2>1. TRUE \in BOOLEAN
    OBVIOUS
  <2> QED BY <1>1, <2>1, LineFeedFine, DoesFine
<1>2. CASE Step(ReverseLineFeed(Win))
  BY <1>2, ReverseLineFeedFine, DoesFine
<1>3. ASSUME NEW n \in Args,
             \/ Step(InsertLine(Win, Default(n)))
             \/ Step(DeleteLine(Win, Default(n)))
             \/ Step(ScrollRegion(Win, Default(n)))
             \/ Step(ScrollRegion(Win, -Default(n)))
      PROVE  \E v : Does(v)
  <2> DEFINE k == Default(n)
  <2>1. k \in Nat
    BY ArgsAre
  <2> HIDE DEF k
  <2>2. /\ Fine(InsertLine(Win, k), Win, Win.wrap) /\ Fine(DeleteLine(Win, k), Win, Win.wrap)
        /\ Fine(ScrollRegion(Win, k), Win, Win.wrap) /\ Fine(ScrollRegion(Win, -k), Win, Win.wrap)
    BY <2>1, LinesFine
  <2>3. \/ Step(InsertLine(Win, k)) \/ Step(DeleteLine(Win, k))
        \/ Step(ScrollRegion(Win, k)) \/ Step(ScrollRegion(Win, -k))
    BY <1>3 DEF k
  <2> QED BY <2>2, <2>3, DoesFine
<1> QED BY <1>1, <1>2, <1>3 DEF Scroll

LEMMA MarginsDoes == ASSUME Proper(Win), Margins PROVE \E v : Does(v)
<1>1. PICK a1 \in Args, a2 \in Args : Step(SetRegion(Win, a1, a2))
  BY DEF Margins
<1> QED BY <1>1, ArgsAre, SetRegionFine, DoesFine

LEMMA EraseDoes == ASSUME Proper(Win), Erase PROVE \E v : Does(v)
<1>1. Win.x = cursor.x /\ Win.width = mem.width
  BY DEF Win
<1>2. \A n \in Nat : n > 0 =>
        /\ Fine(ClearToEOS(Win), Win, Win.wrap) /\ Fine(ClearFromBOS(Win), Win, Win.wrap)
        /\ Fine(ClearLineRegion(Win, Win.x, Win.width - 1), Win, Win.wrap)
        /\ Fine(ClearLineRegion(Win, 0, Win.x), Win, Win.wrap)
        /\ Fine(ClearLineRegion(Win, 0, Win.width - 1), Win, Win.wrap)
        /\ Fine(ClearLineRegion(Win, Win.x, Least(Win.x + n, Win.width) - 1), Win, Win.wrap)
  BY EraseFine
<1>3. 1 \in Nat /\ 1 > 0
  OBVIOUS
<1>4. CASE Step(ClearToEOS(Win))
  BY <1>2, <1>3, <1>4, DoesFine
<1>5. CASE Step(ClearFromBOS(Win))
  BY <1>2, <1>3, <1>5, DoesFine
<1>6. CASE Step(ClearScreen(Win))
  BY <1>6, ClearScreenFine, DoesFine
<1>7. CASE Step(ClearLineRegion(Win, cursor.x, mem.width - 1))
  BY <1>1, <1>2, <1>3, <1>7, DoesFine
<1>8. CASE Step(ClearLineRegion(Win, 0, cursor.x))
  BY <1>1, <1>2, <1>3, <1>8, DoesFine
<1>9. CASE Step(ClearLineRegion(Win, 0, mem.width - 1))
  BY <1>1, <1>2, <1>3, <1>9, DoesFine
<1>10. ASSUME NEW n \in Args, Step(ClearLineRegion(Win, cursor.x, Least(cursor.x + Default(n), mem.width) - 1))
       PROVE  \E v : Does(v)
  <2>1. Default(n) \in Nat /\ Default(n) > 0
    BY ArgsAre
  <2>2. Step(ClearLineRegion(Win, Win.x, Least(Win.x + Default(n), Win.width) - 1))
    BY <1>1, <1>10
  <2> QED BY <1>2, <2>1, <2>2, DoesFine
<1> QED BY <1>4, <1>5, <1>6, <1>7, <1>8, <1>9, <1>10 DEF Erase

LEMMA EditDoes == ASSUME Proper(Win), Edit PROVE \E v : Does(v)
<1>1. PICK n \in Args : Step(InsertChar(Win, Default(n))) \/ Step(DeleteChar(Win, Default(n)))
  BY DEF Edit
<1> QED BY <1>1, ArgsAre, EditFine, DoesFine

LEMMA SetModesDoes == ASSUME Proper(Win), SetModes PROVE \E v : Does(v)
<1>1. PICK on \in BOOLEAN : \/ Step([Win EXCEPT !.insert = on]) \/ Step([Win EXCEPT !.wrap = on])
                            \/ Step(Home([Win EXCEPT !.origin = on]))
  BY DEF SetModes
<1>2. /\ Fine([Win EXCEPT !.insert = on], Win, Win.wrap) /\ Fine([Win EXCEPT !.wrap = on], Win, Win.wrap)
      /\ Fine([Win EXCEPT !.origin = on], Win, Win.wrap)
  BY ModeFine
<1> DEFINE u == [Win EXCEPT !.origin = on]
<1>3. Fine(u, Win, Win.wrap) /\ (Step([Win EXCEPT !.insert = on]) \/ Step([Win EXCEPT !.wrap = on]) \/ Step(Home(u)))
  BY <1>1, <1>2
<1> HIDE DEF u
<1>4. Fine(Home(u), Win, Win.wrap)
  <2>1. Fine(Home(u), u, Win.wrap)
    BY <1>3, HomeFine DEF Fine
  <2> QED BY <1>3, <2>1, FineOther
<1> QED BY <1>2, <1>3, <1>4, DoesFine

LEMMA SavesDoes == ASSUME Proper(Win), Saves PROVE \E v : Does(v)
  BY SaveCursorFine, RestoreCursorFine, DoesFine DEF Saves

LEMMA ResetDoes == ASSUME Proper(Win), Reset PROVE \E v : Does(v)
<1>1. CASE Step(ResetWindow(ClearScreen(Win)))
  <2>1. Fine(ClearScreen(Win), Win, Win.wrap)
    BY ClearScreenFine
  <2>2. Fine(ResetWindow(ClearScreen(Win)), ClearScreen(Win), Win.wrap)
    BY <2>1, ResetWindowFine DEF Fine
  <2>3. Fine(ResetWindow(ClearScreen(Win)), Win, Win.wrap)
    BY <2>1, <2>2, FineOther
  <2> QED BY <1>1, <2>3, DoesFine
<1>2. CASE Step(FillWithEs(Win))
  BY <1>2, FillWithEsFine, DoesFine
<1> QED BY <1>1, <1>2 DEF Reset

LEMMA AltModesDoes == ASSUME Proper(Win), AltModes PROVE \E v : Does(v)
<1>1. PICK on \in BOOLEAN, mode \in {47, 1047, 1049} : Step(AltScreen(Win, on, mode))
  BY DEF AltModes
<1>2. Moves(AltScreen(Win, on, mode), Win)
  BY AltScreenMoves
<1> QED BY <1>1, <1>2 DEF Does

LEMMA ResizeDoes == ASSUME Proper(Win), Resize PROVE \E v : Does(v)
<1>1. Win.width = mem.width /\ Win.height = mem.height /\ Win.hlines = mem.hlines
  BY DEF Win
<1>2. mem.width \in Widths /\ mem.height \in Heights /\ Len(mem.hlines) \in Nat
  BY <1>1 DEF Proper, Memory, Past
<1>3. ASSUME NEW wi \in Widths, NEW he \in Heights, NEW hi \in Nat, Step(ChangeWindowSize(Win, wi, he, hi))
      PROVE  \E v : Does(v)
  BY <1>3, ChangeChanged DEF Does, Moves
<1>4. CASE \E wi \in Widths, he \in Heights : Step(ChangeWindowSize(Win, wi, he, Len(mem.hlines)))
  BY <1>2, <1>3, <1>4
<1>5. CASE \E hi \in Histories : Step(ChangeWindowSize(Win, mem.width, mem.height, hi))
  BY <1>2, <1>3, <1>5, ScreenAssumption
<1> QED BY <1>4, <1>5 DEF Resize

LEMMA NextDoes == ASSUME Proper(Win), Next PROVE \E v : Does(v)
  BY CharacterDoes, ControlDoes, TabDoes, MotionDoes, ScrollDoes, MarginsDoes, EraseDoes, EditDoes,
     SetModesDoes, SavesDoes, ResetDoes, AltModesDoes, ResizeDoes
  DEF Next

LEMMA MovesProper == ASSUME NEW v, NEW w, Moves(v, w) PROVE Proper(v) /\ IsWin(v)
  BY DEF Moves, Fine, Changed, Entering, Leaving, Proper, Memory

-----------------------------------------------------------------------------
(* The history is in order                                                 *)

LEMMA FreshProper ==
  ASSUME NEW wi \in Widths, NEW he \in Heights, NEW hi \in Histories, NEW compact \in BOOLEAN
  PROVE  LET v == Fresh(wi, he, hi, compact) IN Proper(v) /\ (wi >= 2 => Whole(v)) /\ v.alt.on = FALSE /\ v.width = wi
<1> DEFINE L == BlankLines(he, wi)
           H == BlankLines(hi, wi)
           T == Stops(0, wi - 1)
           v == [width |-> wi, height |-> he, lines |-> L, hlines |-> H,
                 histidx |-> 0, scrollback |-> 0, x |-> 0, y |-> 0, top |-> 0, bot |-> he - 1,
                 insert |-> FALSE, wrap |-> TRUE, origin |-> FALSE, compact |-> compact, tabs |-> T,
                 saved |-> Nowhere, alt |-> [on |-> FALSE, cursor |-> Nowhere, screen |-> NoScreen],
                 pushed |-> H]
<1>1. Fresh(wi, he, hi, compact) = v
  BY DEF Fresh
<1>2. wi \in Nat /\ wi > 0 /\ he \in Nat /\ he > 0 /\ hi \in Nat
  <2>1. Widths \subseteq Nat \ {0} /\ Heights \subseteq Nat \ {0} /\ Histories \subseteq Nat
    BY DEF ScreenAssumption
  <2>2. wi \in Nat \ {0} /\ he \in Nat \ {0} /\ hi \in Nat
    BY <2>1
  <2> QED BY <2>2
<1>3. wi >= 2 => Sheet(L, he, wi, TRUE) /\ Sheet(H, hi, wi, TRUE)
  BY <1>2, SheetBlank
<1>4. IsRows(L, he, wi) /\ IsRows(H, hi, wi)
  BY <1>2, BlankLinesAre
<1>5. Len(H) = hi
  BY <1>2, <1>4, RowsLength
<1>6. T \in SUBSET Nat
  BY DEF Stops
<1> HIDE DEF L, H, T
<1>7. /\ IsWin(v) /\ v.width = wi /\ v.height = he /\ v.lines = L /\ v.hlines = H /\ v.histidx = 0 /\ v.scrollback = 0
      /\ v.x = 0 /\ v.y = 0 /\ v.top = 0 /\ v.bot = he - 1 /\ v.tabs = T /\ v.saved = Nowhere /\ v.pushed = H
      /\ v.alt = [on |-> FALSE, cursor |-> Nowhere, screen |-> NoScreen]
  BY DEF IsWin, WinFields
<1> HIDE DEF v
<1>8. Past(v)
  <2>1. IsRows(v.hlines, hi, wi) /\ v.width = wi /\ v.histidx = 0 /\ v.pushed = v.hlines
    BY <1>4, <1>7
  <2> QED BY ONLY <1>2, <2>1, FreshPast
<1>9. Memory(v)
  BY <1>2, <1>4, <1>5, <1>7, <1>8 DEF Memory
<1>10. IsCursor(Nowhere) /\ Place(Nowhere, v) /\ Place(v, v)
  BY <1>2, <1>7 DEF Nowhere, IsCursor, Place, Margin
<1>11. PutAway(v)
  <2>1. /\ v.alt = [f \in {"on", "cursor", "screen"} |-> v.alt[f]] /\ v.alt.on = FALSE
        /\ v.alt.cursor = Nowhere /\ v.alt.screen = NoScreen
    BY <1>7
  <2> QED BY <1>10, <2>1 DEF PutAway
<1>12. Proper(v)
  BY <1>2, <1>6, <1>7, <1>9, <1>10, <1>11 DEF Proper
<1>13. wi >= 2 => Whole(v)
  BY <1>3, <1>5, <1>7 DEF Whole, Sheet
<1> QED BY <1>1, <1>7, <1>12, <1>13

\* At first the window is a fresh one.
LEMMA InitIs ==
  ASSUME Init
  PROVE  /\ Proper(Win) /\ (Win.width >= 2 => Whole(Win)) /\ Win.alt.on = FALSE /\ entered = NoScreen
<1>1. PICK wi \in Widths, he \in Heights, hi \in Histories, compact \in BOOLEAN : Holds(Fresh(wi, he, hi, compact))
  BY DEF Init
<1> DEFINE v == Fresh(wi, he, hi, compact)
<1>2. Proper(v) /\ (wi >= 2 => Whole(v)) /\ v.alt.on = FALSE /\ v.width = wi
  BY FreshProper
<1>3. Holds(v)
  BY <1>1
<1> HIDE DEF v
<1>4. IsWin(v)
  BY <1>2 DEF Proper, Memory
<1>5. Win = v
  BY <1>3, <1>4 DEF Holds, Win, IsWin, WinFields
<1> QED BY <1>2, <1>5 DEF Init

\* What a step leads to.
LEMMA NextIs ==
  ASSUME Proper(Win), [Next]_vars
  PROVE  \E v : /\ Moves(v, Win) /\ Win' = v
                /\ \/ entered' = entered /\ v = Win
                   \/ entered' = IF ~v.alt.on \/ (Win.alt.on /\ ~SameSize(Win, v)) THEN NoScreen
                                 ELSE IF Win.alt.on THEN entered ELSE Seen(Win)
<1>1. CASE Next
  <2>1. PICK v : Does(v)
    BY <1>1, NextDoes
  <2>2. Moves(v, Win) /\ Step(v) /\ IsWin(v)
    BY <2>1, MovesProper DEF Does
  <2>3. alt = Win.alt
    BY DEF Win
  <2> QED BY <2>2, <2>3, StepIs
<1>2. CASE UNCHANGED vars
  <2>1. Win' = Win /\ entered' = entered
    BY <1>2 DEF Win, vars
  <2>2. Moves(Win, Win)
    BY FineItself DEF Moves
  <2> QED BY <2>1, <2>2
<1> QED BY <1>1, <1>2

LEMMA ProperStep == Proper(Win) /\ [Next]_vars => Proper(Win)'
<1> SUFFICES ASSUME Proper(Win), [Next]_vars PROVE Proper(Win)'
  OBVIOUS
<1>1. PICK v : Moves(v, Win) /\ Win' = v
  BY NextIs
<1>2. Proper(v)
  BY <1>1, MovesProper
<1> QED BY <1>1, <1>2

\* The window stays proper: the cursors and the region are within it, every line
\* of it and of the screen put away is as wide as it is read, and the history is
\* what was pushed into it.
THEOREM Invariance == Spec => []Proper(Win)
<1>1. Init => Proper(Win)
  BY InitIs
<1>2. Proper(Win) /\ [Next]_vars => Proper(Win)'
  BY ProperStep
<1> QED BY <1>1, <1>2, PTL DEF Spec

\* WAddLineToHist goes round the ring and ChangeWindowSize lays it out anew; all
\* the same the history is read in the order its lines were pushed in.
THEOREM Ordered == Spec => []OldestFirst
<1>1. Proper(Win) => OldestFirst
  <2>1. Win.pushed = pushed
    BY DEF Win
  <2> QED BY <2>1 DEF Proper, Memory, Past, OldestFirst
<1> QED BY <1>1, Invariance, PTL

-----------------------------------------------------------------------------
(* Back from the alternate screen                                          *)

\* While the alternate screen is shown at its size, what was seen is put away.
SetAside(w, e) ==
  e # NoScreen =>
    /\ w.alt.on /\ SameSize(w.alt.screen, w)
    /\ e = [doc |-> Document(w.alt.screen), width |-> w.width, height |-> w.height,
            x |-> w.alt.cursor.x, y |-> w.alt.cursor.y]

AsideKept(v, e, w, d) == SetAside(v, e) /\ (d # NoScreen /\ ~v.alt.on => Seen(v) = d)

LEMMA AsideStep ==
  ASSUME NEW w, Proper(w), w.x <= w.width, NEW d, SetAside(w, d), NEW v, Moves(v, w), NEW e,
         \/ e = d /\ v = w
         \/ e = IF ~v.alt.on \/ (w.alt.on /\ ~SameSize(w, v)) THEN NoScreen ELSE IF w.alt.on THEN d ELSE Seen(w)
  PROVE  AsideKept(v, e, w, d)
<1>1. CASE e = d /\ v = w
  BY <1>1 DEF AsideKept, SetAside
<1>2. CASE e = IF ~v.alt.on \/ (w.alt.on /\ ~SameSize(w, v)) THEN NoScreen ELSE IF w.alt.on THEN d ELSE Seen(w)
  <2>1. CASE v.alt.on = w.alt.on /\ v.alt.screen = w.alt.screen /\ ~SameSize(w, v)
    BY <1>2, <2>1 DEF AsideKept, SetAside
  <2>2. CASE v.alt = w.alt /\ SameSize(w, v)
    BY <1>2, <2>2 DEF AsideKept, SetAside, SameSize
  <2>3. CASE ~w.alt.on /\ Entering(v, w)
    <3>1. e = Seen(w)
      <4>1. v.alt.on
        BY <2>3 DEF Entering
      <4> QED BY <1>2, <2>3, <4>1
    <3>2. v.alt.cursor.x = w.x
      <4>1. w.x \in Nat /\ w.width \in Nat
        BY Counts
      <4>2. v.alt.cursor.x = Least(w.x, w.width)
        BY <2>3 DEF Entering
      <4> QED BY <4>1, <4>2 DEF Least
    <3>3. /\ v.alt.on /\ v.width = w.width /\ v.height = w.height /\ Len(v.hlines) = Len(w.hlines)
          /\ v.alt.screen = Away(w) /\ v.alt.cursor.y = w.y
      BY <2>3 DEF Entering, SameSize
    <3>4. Document(Away(w)) = Document(w) /\ SameSize(Away(w), w)
      BY DEF Document, History, Oldest, SameSize, Away
    <3>5. SameSize(v.alt.screen, v)
      BY <3>3, <3>4 DEF SameSize
    <3>6. SetAside(v, e)
      BY <3>1, <3>2, <3>3, <3>4, <3>5 DEF SetAside, Seen
    <3> QED BY <3>3, <3>6 DEF AsideKept
  <2>4. CASE w.alt.on /\ Leaving(v, w)
    <3>1. e = NoScreen
      <4>1. v.alt.on = FALSE
        BY <2>4 DEF Leaving
      <4> QED BY <1>2, <4>1
    <3>2. ASSUME d # NoScreen PROVE Seen(v) = d
      <4>1. /\ Document(v) = Document(w.alt.screen) /\ v.x = w.alt.cursor.x /\ v.y = w.alt.cursor.y
            /\ v.width = w.width /\ v.height = w.height
        BY <2>4, <3>2 DEF SetAside, Leaving, SameSize
      <4> QED BY <3>2, <4>1 DEF SetAside, Seen
    <3> QED BY <3>1, <3>2 DEF AsideKept, SetAside
  <2>5. Fine(v, w, w.wrap) => v.alt = w.alt /\ SameSize(w, v)
    BY DEF Fine, Kept, SameSize
  <2>6. Changed(v, w) => \/ v.alt.on = w.alt.on /\ v.alt.screen = w.alt.screen /\ ~SameSize(w, v)
                         \/ v.alt = w.alt /\ SameSize(w, v)
    BY DEF Changed, SameSize
  <2> QED BY <2>1, <2>2, <2>3, <2>4, <2>5, <2>6 DEF Moves
<1> QED BY <1>1, <1>2

Aside == Proper(Win) /\ SetAside(Win, entered)

LEMMA AsideNext ==
  ASSUME Aside, cursor.x <= mem.width, [Next]_vars
  PROVE  Aside' /\ (entered # NoScreen /\ ~alt'.on => Seen(Win)' = entered)
<1>1. PICK v : /\ Moves(v, Win) /\ Win' = v
               /\ \/ entered' = entered /\ v = Win
                  \/ entered' = IF ~v.alt.on \/ (Win.alt.on /\ ~SameSize(Win, v)) THEN NoScreen
                                ELSE IF Win.alt.on THEN entered ELSE Seen(Win)
  BY NextIs DEF Aside
<1>2. Win.x <= Win.width
  BY DEF Win
<1> DEFINE e == entered'
<1>3. \/ e = entered /\ v = Win
      \/ e = IF ~v.alt.on \/ (Win.alt.on /\ ~SameSize(Win, v)) THEN NoScreen
             ELSE IF Win.alt.on THEN entered ELSE Seen(Win)
  BY <1>1
<1> HIDE DEF e
<1>4. AsideKept(v, e, Win, entered)
  BY <1>1, <1>2, <1>3, AsideStep DEF Aside
<1>5. Win'.alt = alt'
  BY DEF Win
<1>6. Proper(v)
  BY <1>1, MovesProper
<1> QED BY <1>1, <1>4, <1>5, <1>6 DEF Aside, AsideKept, e

\* EnterAltScreen puts the screen, the history and the cursor away and LeaveAltScreen
\* takes them back: unless the size changed meanwhile, all is as it was.  Only a
\* wide character in a window of one column takes the cursor where it cannot be kept.
THEOREM Restored == Spec /\ [](cursor.x <= mem.width) => AltRestores
<1> DEFINE P == cursor.x <= mem.width
           A == entered # NoScreen /\ ~alt'.on => Seen(Win)' = entered
<1>1. Init => Aside
  BY InitIs DEF Aside, SetAside
<1>2. Aside /\ P /\ [Next]_vars => Aside' /\ A
  BY AsideNext
<1>3. [][A]_vars => AltRestores
  BY DEF AltRestores
<1>4. Spec /\ []P => [][A]_vars
  <2> HIDE DEF P, A
  <2> QED BY <1>1, <1>2, PTL DEF Spec
<1> QED BY <1>3, <1>4

\* So in every window of two columns and more.
THEOREM RestoredWider == 1 \notin Widths /\ Spec => AltRestores
<1> SUFFICES ASSUME 1 \notin Widths PROVE Spec => AltRestores
  OBVIOUS
<1> DEFINE P == cursor.x <= mem.width
<1>1. Proper(Win) => P
  <2> SUFFICES ASSUME Proper(Win) PROVE P
    OBVIOUS
  <2>1. Win.width = mem.width /\ Win.x = cursor.x
    BY DEF Win
  <2>2. Win.width \in Widths
    BY DEF Proper, Memory
  <2> QED BY <2>1, <2>2, Counts DEF Margin
<1>2. Spec => []P
  <2> HIDE DEF P
  <2> QED BY <1>1, Invariance, PTL
<1> QED BY <1>2, Restored

-----------------------------------------------------------------------------
(* Whole characters                                                        *)

\* The window and the screen that is put away are n columns wide, and whole.
AllWhole(w, n) == w.width = n /\ Whole(w) /\ (w.alt.on => w.alt.screen.width = n /\ Whole(w.alt.screen))

LEMMA WholeStep ==
  ASSUME NEW n \in Nat, n >= 2, NEW w, AllWhole(w, n), w.wrap, NEW v, Moves(v, w), v.width = n
  PROVE  AllWhole(v, n)
<1>1. CASE Fine(v, w, w.wrap)
  BY <1>1 DEF AllWhole, Fine, Kept
<1>2. CASE Changed(v, w)
  BY <1>2 DEF AllWhole, Changed
<1>3. CASE Entering(v, w)
  <2>1. Whole(Away(w)) /\ Away(w).width = n
    BY DEF AllWhole, Whole, Away
  <2> QED BY <1>3, <2>1 DEF AllWhole, Entering
<1>4. CASE w.alt.on /\ Leaving(v, w)
  BY <1>4 DEF AllWhole, Leaving
<1> QED BY <1>1, <1>2, <1>3, <1>4 DEF Moves

LEMMA WholeSeen == ASSUME NEW n \in Nat, n >= 2, Proper(Win), AllWhole(Win, n) PROVE WholeCharacters
<1>1. Win.lines = mem.lines /\ Win.width = mem.width /\ Win.height = mem.height
  BY DEF Win
<1>2. mem.width = n /\ mem.height \in Nat /\ IsRows(mem.lines, mem.height, n) /\ WholeRows(mem.lines, mem.height, n)
  BY <1>1, Counts DEF AllWhole, Whole, Proper, Memory
<1> SUFFICES ASSUME NEW i \in DOMAIN mem.lines, NEW x \in 0..(n - 1)
             PROVE  /\ At(mem.lines[i], x) = Right => x > 0 /\ At(mem.lines[i], x - 1) = Wide
                    /\ At(mem.lines[i], x) = Wide => x < n - 1 /\ At(mem.lines[i], x + 1) = Right
  BY <1>2 DEF WholeCharacters
<1> DEFINE l == mem.lines[i]
           j == x + 1
<1>3. i \in 1..mem.height
  BY <1>2 DEF IsRows
<1>4. WholeLine(l, n)
  BY <1>2, <1>3 DEF WholeRows
<1>5. j \in 1..n /\ At(l, x) = l[j] /\ At(l, x - 1) = l[j - 1] /\ At(l, x + 1) = l[j + 1]
  BY DEF At
<1> HIDE DEF l
<1> QED BY <1>4, <1>5 DEF WholeLine, l

\* Whatever is written over a half of a wide character, erased, inserted, deleted,
\* scrolled or put away takes the other half along, in a window that wraps and keeps
\* its width, of two columns or more: MKillDwRight and MKillDwLeft are called wherever
\* cells move.
THEOREM Undivided ==
  ASSUME NEW n \in Nat, n >= 2
  PROVE  Spec /\ [](modes.wrap /\ mem.width = n) => []WholeCharacters
<1> DEFINE P == modes.wrap /\ mem.width = n
           J == Proper(Win) /\ AllWhole(Win, n)
<1>1. Init /\ P => J
  <2>1. Win.width = mem.width
    BY DEF Win
  <2> QED BY <2>1, InitIs DEF AllWhole
<1>2. J /\ P /\ P' /\ [Next]_vars => J'
  <2> SUFFICES ASSUME J, P, P', [Next]_vars PROVE J'
    OBVIOUS
  <2>1. PICK v : Moves(v, Win) /\ Win' = v
    BY NextIs
  <2>2. Win.wrap /\ Win'.width = n
    BY DEF Win
  <2>3. AllWhole(v, n)
    BY <2>1, <2>2, WholeStep
  <2>4. Proper(v)
    BY <2>1, MovesProper
  <2> QED BY <2>1, <2>3, <2>4
<1>3. J => WholeCharacters
  BY WholeSeen
<1> HIDE DEF P, J
<1>4. Spec /\ []P => []WholeCharacters
  BY <1>1, <1>2, <1>3, PTL DEF Spec
<1> QED BY <1>4 DEF P

-----------------------------------------------------------------------------
(* Types                                                                   *)

LEMMA RowsShaped ==
  ASSUME NEW n \in Nat, NEW width \in Nat, NEW s, IsRows(s, n, width)
  PROVE  Len(s) = n /\ Shaped(s, width)
<1>1. Len(s) = n
  BY RowsLength
<1>2. DOMAIN s = 1..n
  BY DEF IsRows
<1>3. ASSUME NEW i \in 1..n PROVE Len(s[i]) = width + 1
  BY LineLength DEF IsRows
<1> QED BY <1>1, <1>2, <1>3 DEF Shaped

\* No control sequence takes the cursor, those saved or the region of scrolling
\* out of the window, and no line is read at a width it does not have: not in a
\* window of a new size, nor in the screen put away while the size changes.
THEOREM Typed == Spec => []TypeOK
<1>1. ASSUME Proper(Win) PROVE TypeOK
  <2> DEFINE s == alt.screen
  <2>1. /\ Win.width = mem.width /\ Win.height = mem.height /\ Win.lines = mem.lines /\ Win.hlines = mem.hlines
        /\ Win.histidx = mem.histidx /\ Win.scrollback = mem.scrollback /\ Win.x = cursor.x /\ Win.y = cursor.y
        /\ Win.top = region.top /\ Win.bot = region.bot /\ Win.saved = saved /\ Win.alt = alt
    BY DEF Win
  <2>2. mem.width \in Nat /\ mem.height \in Nat /\ Len(mem.hlines) \in Nat
    BY <1>1, <2>1, Counts DEF Memory, Past
  <2>3. Inside(cursor) /\ Inside(saved) /\ Inside(alt.cursor)
    BY <1>1, <2>1 DEF Proper, PutAway, Place, Margin, Inside
  <2>4. 0 <= region.top /\ region.top <= region.bot /\ region.bot < mem.height
    BY <1>1, <2>1 DEF Proper
  <2>5. Len(mem.lines) = mem.height /\ Shaped(mem.lines, mem.width) /\ Shaped(mem.hlines, mem.width)
    <3>1. IsRows(mem.lines, mem.height, mem.width) /\ IsRows(mem.hlines, Len(mem.hlines), mem.width)
      BY <1>1, <2>1 DEF Proper, Memory, Past
    <3> QED BY ONLY <2>2, <3>1, RowsShaped
  <2>6. mem.histidx \in 0..Most(0, Len(mem.hlines) - 1) /\ mem.scrollback \in 0..Len(mem.hlines)
    BY <1>1, <2>1, <2>2 DEF Proper, Memory, Past, Most
  <2>7. /\ Len(s.lines) = s.height /\ Shaped(s.lines, s.width) /\ Shaped(s.hlines, s.width)
        /\ alt.on = (s # NoScreen)
    <3>1. CASE alt.on
      <4>1. /\ s.width \in Widths /\ s.height \in Heights /\ IsRows(s.lines, s.height, s.width)
            /\ IsRows(s.hlines, Len(s.hlines), s.width) /\ Len(s.hlines) \in Nat
        BY <1>1, <2>1, <3>1 DEF Proper, PutAway, Past
      <4>2. s.width \in Nat /\ s.width > 0 /\ s.height \in Nat
        BY <4>1, Sizes
      <4>3. s # NoScreen
        BY <4>2 DEF NoScreen
      <4>4. alt.on \in BOOLEAN
        BY <1>1, <2>1 DEF Proper, PutAway
      <4>5. Len(s.lines) = s.height /\ Shaped(s.lines, s.width) /\ Shaped(s.hlines, s.width)
        <5> HIDE DEF s
        <5> QED BY ONLY <4>1, <4>2, RowsShaped
      <4> QED BY <3>1, <4>3, <4>4, <4>5
    <3>2. CASE ~alt.on
      <4>1. s = NoScreen /\ alt.on \in BOOLEAN
        BY <1>1, <2>1, <3>2 DEF Proper, PutAway
      <4>2. Len(<<>>) = 0 /\ Shaped(<<>>, 0)
        BY DEF Shaped
      <4> QED BY <3>2, <4>1, <4>2 DEF NoScreen
    <3> QED BY <3>1, <3>2
  <2> QED BY <2>3, <2>4, <2>5, <2>6, <2>7 DEF TypeOK
<1> QED BY <1>1, Invariance, PTL

=============================================================================
