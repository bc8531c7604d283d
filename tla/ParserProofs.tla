---------------------------- MODULE ParserProofs -----------------------------
(***************************************************************************)
(* What holds of the parser for any batches, displays and sizes.           *)
(***************************************************************************)
EXTENDS Parser, FiniteSetTheorems, SequenceTheorems, NaturalsInduction, WellFoundedInduction, TLAPS

USE ParserAssumption

-----------------------------------------------------------------------------
(* The window as a record                                                  *)

WinFields ==
  {"state", "kind", "im", "args", "num", "str", "stop", "outbuf", "inlen", "pdisplay", "utf8", "pending", "c1",
   "mbcs", "gr", "sets", "L", "R", "ss", "fontL", "fontR", "rend", "modes", "told", "saved", "title", "hstatus"}

IsWin(w) == w = [f \in WinFields |-> w[f]]

\* v differs from w in nothing the parser's own state consists of.
Like(v, w) ==
  /\ IsWin(v) /\ v.state = w.state /\ v.kind = w.kind /\ v.im = w.im /\ v.args = w.args /\ v.num = w.num
  /\ v.str = w.str /\ v.outbuf = w.outbuf /\ v.utf8 = w.utf8

LEMMA LikeItself == ASSUME NEW w, IsWin(w) PROVE Like(w, w)
  BY DEF Like

LEMMA LikeOther == ASSUME NEW u, NEW v, NEW w, Like(u, v), Like(v, w) PROVE Like(u, w)
  BY DEF Like

LEMMA SetFontsLike == ASSUME NEW w, IsWin(w) PROVE Like(SetFonts(w), w)
  BY DEF Like, IsWin, WinFields, SetFonts

LEMMA ResetCharsetsLike == ASSUME NEW w, IsWin(w) PROVE Like(ResetCharsets(w), w)
<1> DEFINE v == [w EXCEPT !.gr = 0, !.sets = Usual, !.L = 0, !.R = 2, !.ss = 0]
<1>1. Like(v, w)
  BY DEF Like, IsWin, WinFields
<1>2. ResetCharsets(w) = SetFonts(v)
  BY DEF ResetCharsets
<1> HIDE DEF v
<1> QED BY <1>1, <1>2, SetFontsLike, LikeOther DEF Like

LEMMA DesignateCharsetLike == ASSUME NEW w, IsWin(w), NEW f, NEW n PROVE Like(DesignateCharset(w, f, n), w)
  BY DEF Like, IsWin, WinFields, DesignateCharset

LEMMA MapCharsetLike == ASSUME NEW w, IsWin(w), NEW n PROVE Like(MapCharset(w, n), w)
  BY DEF Like, IsWin, WinFields, MapCharset

LEMMA MapCharsetRLike == ASSUME NEW w, IsWin(w), NEW n PROVE Like(MapCharsetR(w, n), w)
  BY DEF Like, IsWin, WinFields, MapCharsetR

LEMMA SingleShiftLike == ASSUME NEW w, IsWin(w), NEW n PROVE Like(SingleShift(w, n), w)
  BY DEF Like, IsWin, WinFields, SingleShift

LEMMA EndShiftLike == ASSUME NEW w, IsWin(w) PROVE Like(EndShift(w), w)
<1> DEFINE v == SetFonts(w)
<1>1. Like(v, w)
  BY SetFontsLike
<1>2. EndShift(w) = IF w.ss = 0 THEN w ELSE [v EXCEPT !.ss = 0]
  BY DEF EndShift
<1> HIDE DEF v
<1>3. Like([v EXCEPT !.ss = 0], v)
  BY <1>1 DEF Like, IsWin, WinFields
<1> QED BY <1>1, <1>2, <1>3, LikeItself, LikeOther

LEMMA SaveCursorLike == ASSUME NEW w, IsWin(w) PROVE Like(SaveCursor(w), w)
  BY DEF Like, IsWin, WinFields, SaveCursor

LEMMA RestoreCursorLike == ASSUME NEW w, IsWin(w) PROVE Like(RestoreCursor(w), w)
<1> DEFINE v == [w EXCEPT !.sets = w.saved.sets, !.L = w.saved.L, !.R = w.saved.R, !.rend = w.saved.rend, !.ss = 0]
<1>1. Like(v, w)
  BY DEF Like, IsWin, WinFields
<1>2. RestoreCursor(w) = IF ~w.saved.on THEN w ELSE SetFonts(v)
  BY DEF RestoreCursor
<1> HIDE DEF v
<1>3. Like(SetFonts(v), v)
  BY <1>1, SetFontsLike DEF Like
<1> QED BY <1>1, <1>2, <1>3, LikeItself, LikeOther

LEMMA SetModeLike == ASSUME NEW w, IsWin(w), NEW name, NEW n PROVE Like(SetMode(w, name, n), w)
<1> DEFINE m == [w.modes EXCEPT ![name] = n]
           t == [w.told EXCEPT ![name] = IF name = "autolf" THEN @ ELSE n]
<1>1. SetMode(w, name, n) = [w EXCEPT !.modes = m, !.told = t]
  BY DEF SetMode, IsWin, WinFields
<1> HIDE DEF m, t
<1> QED BY <1>1 DEF Like, IsWin, WinFields

LEMMA ReportLike == ASSUME NEW w, IsWin(w), NEW n PROVE Like(Report(w, n), w)
  BY DEF Like, IsWin, WinFields, Report

LEMMA SpecialLike == ASSUME NEW w, IsWin(w), NEW c PROVE Like(Special(w, c), w)
  BY MapCharsetLike, LikeItself DEF Special

LEMMA SelectRenditionLike == ASSUME NEW w, IsWin(w) PROVE Like(SelectRendition(w), w)
<1>1. PICK e : SelectRendition(w) = [w EXCEPT !.rend = e]
  BY DEF SelectRendition
<1> QED BY <1>1 DEF Like, IsWin, WinFields

LEMMA AnsiModeLike == ASSUME NEW w, IsWin(w), NEW a, NEW on PROVE Like(AnsiMode(w, a, on), w)
  BY SetModeLike, LikeItself DEF AnsiMode

LEMMA LiteralLike == ASSUME NEW w, IsWin(w), NEW c PROVE Like(Literal(w, c), w)
<1> DEFINE font == IF w.mbcs = <<>> THEN ShownFont(w, c) ELSE w.mbcs[2]
           u == [w EXCEPT !.mbcs = <<c, font>>]
           v == [w EXCEPT !.mbcs = <<>>]
<1>1. Literal(w, c) = IF w.utf8 THEN EndShift(w)
                      ELSE IF w.mbcs = <<>> /\ font \in DoubleFonts /\ c # " " THEN u ELSE EndShift(v)
  BY DEF Literal
<1> HIDE DEF font
<1>2. Like(u, w) /\ Like(v, w)
  BY DEF Like, IsWin, WinFields
<1> HIDE DEF u, v
<1>3. Like(EndShift(v), v) /\ Like(EndShift(w), w)
  BY <1>2, EndShiftLike DEF Like
<1> QED BY <1>1, <1>2, <1>3, LikeOther

LEMMA PrivateModeLike == ASSUME NEW w, IsWin(w), NEW a, NEW on PROVE Like(PrivateMode(w, a, on), w)
<1> DEFINE v == [ResetCharsets(w) EXCEPT !.gr = w.gr]
<1>1. Like(v, w)
  <2>1. Like(ResetCharsets(w), w)
    BY ResetCharsetsLike
  <2> QED BY <2>1 DEF Like, IsWin, WinFields
<1>2. \/ PrivateMode(w, a, on) \in {w, v, SaveCursor(w), RestoreCursor(w)}
      \/ \E name, n : PrivateMode(w, a, on) = SetMode(w, name, n)
  <2> HIDE DEF v
  <2> QED BY DEF PrivateMode, v
<1> HIDE DEF v
<1> QED BY <1>1, <1>2, SetModeLike, SaveCursorLike, RestoreCursorLike, LikeItself

-----------------------------------------------------------------------------
(* Numbers, and steps that are repeated                                    *)

Below == {p \in Nat \X Nat : p[1] < p[2]}

\* A set of numbers that is not empty has a least one.
LEMMA Smallest ==
  ASSUME NEW S \in SUBSET Nat, S # {}
  PROVE  \E x \in S : \A y \in S : x <= y
<1>1. IsWellFoundedOn(Below, Nat)
  BY NatLessThanWellFounded DEF OpToRel, Below
<1>2. \E x \in S : \A y \in S : ~(<<y, x>> \in Below)
  <2>1. S \subseteq Nat
    OBVIOUS
  <2> QED BY <1>1, <2>1, WFMin, Zenon
<1>3. PICK x \in S : \A y \in S : ~(<<y, x>> \in Below)
  BY <1>2
<1>4. ASSUME NEW y \in S PROVE x <= y
  <2>1. y < x => <<y, x>> \in Below
    BY DEF Below
  <2> QED BY <1>3, <2>1
<1> QED BY <1>4

\* What holds of 0, and of the number after each it holds of, holds up to n.
LEMMA UpTo ==
  ASSUME NEW n \in Nat, NEW G \in SUBSET (0..n), 0 \in G,
         \A i \in 0..(n - 1) : i \in G => i + 1 \in G
  PROVE  G = 0..n
<1> SUFFICES ASSUME G # 0..n PROVE FALSE
  OBVIOUS
<1>1. PICK x \in (0..n) \ G : \A y \in (0..n) \ G : x <= y
  <2>1. PICK y \in 0..n : y \notin G
    OBVIOUS
  <2>2. (0..n) \ G \in SUBSET Nat /\ (0..n) \ G # {}
    BY <2>1
  <2> QED BY <2>2, Smallest
<1>2. x # 0 /\ x - 1 \in 0..(n - 1)
  BY <1>1
<1>3. x - 1 \in G
  BY <1>1, <1>2
<1> QED BY <1>1, <1>2, <1>3

\* The modes of a sequence are set one after the other.
LEMMA EachModeIs ==
  ASSUME NEW w, NEW N \in Nat, w.num = N, NEW p, NEW on
  PROVE  \E h : /\ h[0] = w /\ h[N] = EachMode(w, p, on)
                /\ \A k \in 1..N : h[k] = OneMode(h[k - 1], p, w.args[k - 1], on)
<1> DEFINE Is(g, m) == g = [k \in 0..m |-> IF k = 0 THEN w ELSE OneMode(g[k - 1], p, w.args[k - 1], on)]
           G == {m \in 0..N : \E g : Is(g, m)}
           f == CHOOSE f : Is(f, N)
<1>1. 0 \in G
  <2>1. Is([k \in 0..0 |-> w], 0)
    OBVIOUS
  <2> HIDE DEF Is
  <2> QED BY <2>1
<1>2. ASSUME NEW m \in 0..(N - 1), m \in G PROVE m + 1 \in G
  <2>1. PICK g : Is(g, m)
    BY <1>2
  <2> DEFINE h == [k \in 0..(m + 1) |-> IF k = 0 THEN w ELSE OneMode(g[k - 1], p, w.args[k - 1], on)]
  <2>2. ASSUME NEW k \in 1..(m + 1) PROVE h[k - 1] = g[k - 1]
    <3>1. k - 1 \in 0..m /\ k - 1 \in 0..(m + 1)
      OBVIOUS
    <3> QED BY <2>1, <3>1
  <2>3. ASSUME NEW k \in 0..(m + 1)
        PROVE  h[k] = IF k = 0 THEN w ELSE OneMode(h[k - 1], p, w.args[k - 1], on)
    <3>1. k # 0 => k \in 1..(m + 1)
      OBVIOUS
    <3> QED BY <2>2, <3>1
  <2>4. Is(h, m + 1)
    <3>1. h = [k \in 0..(m + 1) |-> h[k]]
      OBVIOUS
    <3> HIDE DEF h
    <3> QED BY <2>3, <3>1
  <2> HIDE DEF Is, h
  <2> QED BY <2>4
<1>3. G = 0..N
  <2>1. G \in SUBSET (0..N)
    OBVIOUS
  <2> HIDE DEF G
  <2> QED BY ONLY <1>1, <1>2, <2>1, UpTo, N \in Nat
<1>4. Is(f, N)
  <2>1. N \in 0..N
    OBVIOUS
  <2> HIDE DEF Is
  <2>2. \E g : Is(g, N)
    BY <1>3, <2>1
  <2> QED BY <2>2
<1>5. EachMode(w, p, on) = f[N]
  BY DEF EachMode
<1> HIDE DEF f
<1>6. f[0] = w /\ \A k \in 1..N : f[k] = OneMode(f[k - 1], p, w.args[k - 1], on)
  <2>1. 0 \in 0..N /\ \A k \in 1..N : k \in 0..N /\ k # 0
    OBVIOUS
  <2> QED BY <1>4, <2>1
<1> QED BY <1>5, <1>6

LEMMA EachModeLike ==
  ASSUME NEW w, IsWin(w), w.num \in Nat, NEW p, NEW on
  PROVE  Like(EachMode(w, p, on), w)
<1> DEFINE N == w.num
<1>1. PICK h : /\ h[0] = w /\ h[N] = EachMode(w, p, on)
               /\ \A k \in 1..N : h[k] = OneMode(h[k - 1], p, w.args[k - 1], on)
  <2>1. N \in Nat /\ w.num = N
    OBVIOUS
  <2> HIDE DEF N
  <2> QED BY ONLY <2>1, EachModeIs
<1> DEFINE G == {m \in 0..N : Like(h[m], w)}
<1> HIDE DEF N
<1>2. N \in Nat
  BY DEF N
<1>3. 0 \in G
  BY <1>1, <1>2, LikeItself
<1>4. ASSUME NEW m \in 0..(N - 1), m \in G PROVE m + 1 \in G
  <2>1. m + 1 \in 1..N /\ m + 1 \in 0..N /\ (m + 1) - 1 = m
    BY <1>2
  <2>2. h[m + 1] = OneMode(h[m], p, w.args[m], on)
    BY <1>1, <2>1
  <2>3. Like(h[m], w) /\ IsWin(h[m])
    BY <1>4 DEF Like
  <2>4. Like(h[m + 1], h[m])
    BY <2>2, <2>3, AnsiModeLike, PrivateModeLike DEF OneMode
  <2>5. Like(h[m + 1], w)
    BY ONLY <2>3, <2>4, LikeOther
  <2> QED BY <2>1, <2>5
<1>5. G = 0..N
  <2>1. G \in SUBSET (0..N)
    OBVIOUS
  <2> HIDE DEF G
  <2> QED BY ONLY <1>2, <1>3, <1>4, <2>1, UpTo
<1> QED BY <1>1, <1>2, <1>5

-----------------------------------------------------------------------------
(* What is read, and what is printed                                       *)

\* The bytes of a print job are put into the buffer one after the other.
Puts(h, r, s, N) ==
  h[0] = r /\ h[N] = PrintChars(r, s) /\ \A k \in 1..N : h[k] = PrintChar(h[k - 1], s[k])

LEMMA PrintCharsIs ==
  ASSUME NEW r, NEW s, NEW N \in Nat, Len(s) = N
  PROVE  \E h : Puts(h, r, s, N)
<1> DEFINE Is(g, m) == g = [k \in 0..m |-> IF k = 0 THEN r ELSE PrintChar(g[k - 1], s[k])]
           G == {m \in 0..N : \E g : Is(g, m)}
           f == CHOOSE f : Is(f, N)
<1>1. 0 \in G
  <2>1. Is([k \in 0..0 |-> r], 0)
    OBVIOUS
  <2> HIDE DEF Is
  <2> QED BY <2>1
<1>2. ASSUME NEW m \in 0..(N - 1), m \in G PROVE m + 1 \in G
  <2>1. PICK g : Is(g, m)
    BY <1>2
  <2> DEFINE h == [k \in 0..(m + 1) |-> IF k = 0 THEN r ELSE PrintChar(g[k - 1], s[k])]
  <2>2. ASSUME NEW k \in 1..(m + 1) PROVE h[k - 1] = g[k - 1]
    <3>1. k - 1 \in 0..m /\ k - 1 \in 0..(m + 1)
      OBVIOUS
    <3> QED BY <2>1, <3>1
  <2>3. ASSUME NEW k \in 0..(m + 1)
        PROVE  h[k] = IF k = 0 THEN r ELSE PrintChar(h[k - 1], s[k])
    <3>1. k # 0 => k \in 1..(m + 1)
      OBVIOUS
    <3> QED BY <2>2, <3>1
  <2>4. Is(h, m + 1)
    <3>1. h = [k \in 0..(m + 1) |-> h[k]]
      OBVIOUS
    <3> HIDE DEF h
    <3> QED BY <2>3, <3>1
  <2> HIDE DEF Is, h
  <2> QED BY <2>4
<1>3. G = 0..N
  <2>1. G \in SUBSET (0..N)
    OBVIOUS
  <2> HIDE DEF G
  <2> QED BY ONLY <1>1, <1>2, <2>1, UpTo, N \in Nat
<1>4. Is(f, N)
  <2>1. N \in 0..N
    OBVIOUS
  <2> HIDE DEF Is
  <2>2. \E g : Is(g, N)
    BY <1>3, <2>1
  <2> QED BY <2>2
<1>5. PrintChars(r, s) = f[N]
  BY DEF PrintChars
<1> HIDE DEF f
<1>6. f[0] = r /\ \A k \in 1..N : f[k] = PrintChar(f[k - 1], s[k])
  <2>1. 0 \in 0..N /\ \A k \in 1..N : k \in 0..N /\ k # 0
    OBVIOUS
  <2> QED BY <1>4, <2>1
<1>7. Puts(f, r, s, N)
  BY <1>5, <1>6 DEF Puts
<1> QED BY <1>7

\* What WriteString makes of a batch before it flushes.
Reading(r, buf) ==
  LET read[n \in 0..Len(buf)] == IF n = 0 THEN r ELSE ReadByte(read[n - 1], buf[n])
  IN read[Len(buf)]

\* The bytes of a batch are read one after the other.
Steps(h, r, buf, N) ==
  h[0] = r /\ h[N] = Reading(r, buf) /\ \A k \in 1..N : h[k] = ReadByte(h[k - 1], buf[k])

LEMMA ReadingIs ==
  ASSUME NEW r, NEW buf, NEW N \in Nat, Len(buf) = N
  PROVE  \E h : Steps(h, r, buf, N)
<1> DEFINE Is(g, m) == g = [k \in 0..m |-> IF k = 0 THEN r ELSE ReadByte(g[k - 1], buf[k])]
           G == {m \in 0..N : \E g : Is(g, m)}
           f == CHOOSE f : Is(f, N)
<1>1. 0 \in G
  <2>1. Is([k \in 0..0 |-> r], 0)
    OBVIOUS
  <2> HIDE DEF Is
  <2> QED BY <2>1
<1>2. ASSUME NEW m \in 0..(N - 1), m \in G PROVE m + 1 \in G
  <2>1. PICK g : Is(g, m)
    BY <1>2
  <2> DEFINE h == [k \in 0..(m + 1) |-> IF k = 0 THEN r ELSE ReadByte(g[k - 1], buf[k])]
  <2>2. ASSUME NEW k \in 1..(m + 1) PROVE h[k - 1] = g[k - 1]
    <3>1. k - 1 \in 0..m /\ k - 1 \in 0..(m + 1)
      OBVIOUS
    <3> QED BY <2>1, <3>1
  <2>3. ASSUME NEW k \in 0..(m + 1)
        PROVE  h[k] = IF k = 0 THEN r ELSE ReadByte(h[k - 1], buf[k])
    <3>1. k # 0 => k \in 1..(m + 1)
      OBVIOUS
    <3> QED BY <2>2, <3>1
  <2>4. Is(h, m + 1)
    <3>1. h = [k \in 0..(m + 1) |-> h[k]]
      OBVIOUS
    <3> HIDE DEF h
    <3> QED BY <2>3, <3>1
  <2> HIDE DEF Is, h
  <2> QED BY <2>4
<1>3. G = 0..N
  <2>1. G \in SUBSET (0..N)
    OBVIOUS
  <2> HIDE DEF G
  <2> QED BY ONLY <1>1, <1>2, <2>1, UpTo, N \in Nat
<1>4. Is(f, N)
  <2>1. N \in 0..N
    OBVIOUS
  <2> HIDE DEF Is
  <2>2. \E g : Is(g, N)
    BY <1>3, <2>1
  <2> QED BY <2>2
<1>5. Reading(r, buf) = f[N]
  BY DEF Reading
<1> HIDE DEF f
<1>6. f[0] = r /\ \A k \in 1..N : f[k] = ReadByte(f[k - 1], buf[k])
  <2>1. 0 \in 0..N /\ \A k \in 1..N : k \in 0..N /\ k # 0
    OBVIOUS
  <2> QED BY <1>4, <2>1
<1> QED BY <1>5, <1>6 DEF Steps

\* The bytes of a string are looked at one after the other.
LEMMA WithoutNulIs ==
  ASSUME NEW s, NEW N \in Nat, Len(s) = N
  PROVE  \E h : /\ h[0] = <<>> /\ h[N] = WithoutNul(s)
                /\ \A k \in 1..N : h[k] = (IF s[k] = "nul" THEN h[k - 1] ELSE Append(h[k - 1], s[k]))
<1> DEFINE Is(g, m) == g = [k \in 0..m |-> IF k = 0 THEN <<>> ELSE (IF s[k] = "nul" THEN g[k - 1] ELSE Append(g[k - 1], s[k]))]
           G == {m \in 0..N : \E g : Is(g, m)}
           f == CHOOSE f : Is(f, N)
<1>1. 0 \in G
  <2>1. Is([k \in 0..0 |-> <<>>], 0)
    OBVIOUS
  <2> HIDE DEF Is
  <2> QED BY <2>1
<1>2. ASSUME NEW m \in 0..(N - 1), m \in G PROVE m + 1 \in G
  <2>1. PICK g : Is(g, m)
    BY <1>2
  <2> DEFINE h == [k \in 0..(m + 1) |-> IF k = 0 THEN <<>> ELSE (IF s[k] = "nul" THEN g[k - 1] ELSE Append(g[k - 1], s[k]))]
  <2>2. ASSUME NEW k \in 1..(m + 1) PROVE h[k - 1] = g[k - 1]
    <3>1. k - 1 \in 0..m /\ k - 1 \in 0..(m + 1)
      OBVIOUS
    <3> QED BY <2>1, <3>1
  <2>3. ASSUME NEW k \in 0..(m + 1)
        PROVE  h[k] = IF k = 0 THEN <<>> ELSE (IF s[k] = "nul" THEN h[k - 1] ELSE Append(h[k - 1], s[k]))
    <3>1. k # 0 => k \in 1..(m + 1)
      OBVIOUS
    <3> QED BY <2>2, <3>1
  <2>4. Is(h, m + 1)
    <3>1. h = [k \in 0..(m + 1) |-> h[k]]
      OBVIOUS
    <3> HIDE DEF h
    <3> QED BY <2>3, <3>1
  <2> HIDE DEF Is, h
  <2> QED BY <2>4
<1>3. G = 0..N
  <2>1. G \in SUBSET (0..N)
    OBVIOUS
  <2> HIDE DEF G
  <2> QED BY ONLY <1>1, <1>2, <2>1, UpTo, N \in Nat
<1>4. Is(f, N)
  <2>1. N \in 0..N
    OBVIOUS
  <2> HIDE DEF Is
  <2>2. \E g : Is(g, N)
    BY <1>3, <2>1
  <2> QED BY <2>2
<1>5. WithoutNul(s) = f[N]
  BY DEF WithoutNul
<1> HIDE DEF f
<1>6. f[0] = <<>> /\ \A k \in 1..N : f[k] = (IF s[k] = "nul" THEN f[k - 1] ELSE Append(f[k - 1], s[k]))
  <2>1. 0 \in 0..N /\ \A k \in 1..N : k \in 0..N /\ k # 0
    OBVIOUS
  <2> QED BY <1>4, <2>1
<1> QED BY <1>5, <1>6

\* The digits of parameter i are taken one after the other.
LEMMA ValueIs ==
  ASSUME NEW s, NEW i, NEW N \in Nat, Len(s) = N
  PROVE  \E h : /\ h[0] = 0 /\ h[N] = Value(s, i)
                /\ \A k \in 1..N : h[k] = (IF s[k] \in Digits /\ Before(s, k) = i /\ h[k - 1] < MaxArg THEN 10 * h[k - 1] + Digit[s[k]] ELSE h[k - 1])
<1> DEFINE Is(g, m) == g = [k \in 0..m |-> IF k = 0 THEN 0 ELSE (IF s[k] \in Digits /\ Before(s, k) = i /\ g[k - 1] < MaxArg THEN 10 * g[k - 1] + Digit[s[k]] ELSE g[k - 1])]
           G == {m \in 0..N : \E g : Is(g, m)}
           f == CHOOSE f : Is(f, N)
<1>1. 0 \in G
  <2>1. Is([k \in 0..0 |-> 0], 0)
    OBVIOUS
  <2> HIDE DEF Is
  <2> QED BY <2>1
<1>2. ASSUME NEW m \in 0..(N - 1), m \in G PROVE m + 1 \in G
  <2>1. PICK g : Is(g, m)
    BY <1>2
  <2> DEFINE h == [k \in 0..(m + 1) |-> IF k = 0 THEN 0 ELSE (IF s[k] \in Digits /\ Before(s, k) = i /\ g[k - 1] < MaxArg THEN 10 * g[k - 1] + Digit[s[k]] ELSE g[k - 1])]
  <2>2. ASSUME NEW k \in 1..(m + 1) PROVE h[k - 1] = g[k - 1]
    <3>1. k - 1 \in 0..m /\ k - 1 \in 0..(m + 1)
      OBVIOUS
    <3> QED BY <2>1, <3>1
  <2>3. ASSUME NEW k \in 0..(m + 1)
        PROVE  h[k] = IF k = 0 THEN 0 ELSE (IF s[k] \in Digits /\ Before(s, k) = i /\ h[k - 1] < MaxArg THEN 10 * h[k - 1] + Digit[s[k]] ELSE h[k - 1])
    <3>1. k # 0 => k \in 1..(m + 1)
      OBVIOUS
    <3> QED BY <2>2, <3>1
  <2>4. Is(h, m + 1)
    <3>1. h = [k \in 0..(m + 1) |-> h[k]]
      OBVIOUS
    <3> HIDE DEF h
    <3> QED BY <2>3, <3>1
  <2> HIDE DEF Is, h
  <2> QED BY <2>4
<1>3. G = 0..N
  <2>1. G \in SUBSET (0..N)
    OBVIOUS
  <2> HIDE DEF G
  <2> QED BY ONLY <1>1, <1>2, <2>1, UpTo, N \in Nat
<1>4. Is(f, N)
  <2>1. N \in 0..N
    OBVIOUS
  <2> HIDE DEF Is
  <2>2. \E g : Is(g, N)
    BY <1>3, <2>1
  <2> QED BY <2>2
<1>5. Value(s, i) = f[N]
  BY DEF Value
<1> HIDE DEF f
<1>6. f[0] = 0 /\ \A k \in 1..N : f[k] = (IF s[k] \in Digits /\ Before(s, k) = i /\ f[k - 1] < MaxArg THEN 10 * f[k - 1] + Digit[s[k]] ELSE f[k - 1])
  <2>1. 0 \in 0..N /\ \A k \in 1..N : k \in 0..N /\ k # 0
    OBVIOUS
  <2> QED BY <1>4, <2>1
<1> QED BY <1>5, <1>6

\* One more byte.
LEMMA WithoutNulNext ==
  ASSUME NEW S, NEW s \in Seq(S), NEW c \in S
  PROVE  WithoutNul(Append(s, c)) = IF c = "nul" THEN WithoutNul(s) ELSE Append(WithoutNul(s), c)
<1> DEFINE N == Len(s)
           t == Append(s, c)
<1>1. N \in Nat /\ Len(t) = N + 1 /\ t[N + 1] = c /\ \A k \in 1..N : t[k] = s[k]
  OBVIOUS
<1>2. PICK h : /\ h[0] = <<>> /\ h[N] = WithoutNul(s)
               /\ \A k \in 1..N : h[k] = (IF s[k] = "nul" THEN h[k - 1] ELSE Append(h[k - 1], s[k]))
  <2>1. N \in Nat /\ Len(s) = N
    BY <1>1
  <2> HIDE DEF N
  <2> QED BY ONLY <2>1, WithoutNulIs
<1>3. PICK g : /\ g[0] = <<>> /\ g[N + 1] = WithoutNul(t)
               /\ \A k \in 1..(N + 1) : g[k] = (IF t[k] = "nul" THEN g[k - 1] ELSE Append(g[k - 1], t[k]))
  <2>1. N + 1 \in Nat /\ Len(t) = N + 1
    BY <1>1
  <2> HIDE DEF N, t
  <2> QED BY ONLY <2>1, WithoutNulIs
<1> HIDE DEF N, t
<1> DEFINE G == {m \in 0..N : h[m] = g[m]}
<1>4. 0 \in G
  BY <1>1, <1>2, <1>3
<1>5. ASSUME NEW m \in 0..(N - 1), m \in G PROVE m + 1 \in G
  <2>1. m + 1 \in 1..N /\ m + 1 \in 1..(N + 1) /\ m + 1 \in 0..N /\ (m + 1) - 1 = m
    BY <1>1
  <2>2. h[m] = g[m] /\ s[m + 1] = t[m + 1]
    BY <1>1, <1>5, <2>1
  <2>3. h[m + 1] = (IF s[m + 1] = "nul" THEN h[m] ELSE Append(h[m], s[m + 1]))
    BY <1>2, <2>1
  <2>4. g[m + 1] = (IF t[m + 1] = "nul" THEN g[m] ELSE Append(g[m], t[m + 1]))
    BY <1>3, <2>1
  <2> QED BY <2>1, <2>2, <2>3, <2>4
<1>6. G = 0..N
  <2>1. G \in SUBSET (0..N)
    OBVIOUS
  <2> HIDE DEF G
  <2> QED BY ONLY <1>1, <1>4, <1>5, <2>1, UpTo
<1>7. h[N] = g[N]
  BY <1>1, <1>6
<1>8. N + 1 \in 1..(N + 1) /\ (N + 1) - 1 = N
  BY <1>1
<1>9. g[N + 1] = (IF t[N + 1] = "nul" THEN g[N] ELSE Append(g[N], t[N + 1]))
  BY <1>3, <1>8
<1> QED BY <1>1, <1>2, <1>3, <1>7, <1>9 DEF t

LEMMA WithoutNulNone == WithoutNul(<<>>) = <<>>
<1>1. Len(<<>>) = 0 /\ 0 \in Nat
  OBVIOUS
<1> DEFINE e == <<>>
<1>2. Len(e) = 0
  OBVIOUS
<1> HIDE DEF e
<1>3. PICK h : h[0] = <<>> /\ h[0] = WithoutNul(e)
  BY ONLY <1>1, <1>2, WithoutNulIs
<1> QED BY <1>3 DEF e

LEMMA BeforeSame ==
  ASSUME NEW S, NEW s \in Seq(S), NEW c \in S, NEW i \in 1..(Len(s) + 1)
  PROVE  Before(Append(s, c), i) = Before(s, i)
<1>1. ASSUME NEW j \in 1..(i - 1) PROVE Append(s, c)[j] = s[j]
  OBVIOUS
<1>2. {j \in 1..(i - 1) : Append(s, c)[j] \in Separators} = {j \in 1..(i - 1) : s[j] \in Separators}
  BY <1>1
<1> QED BY <1>2 DEF Before

LEMMA BeforeNext ==
  ASSUME NEW S, NEW s \in Seq(S), NEW c \in S, NEW n, n = Before(s, Len(s) + 1)
  PROVE  /\ n \in Nat
         /\ Before(Append(s, c), Len(s) + 2) = IF c \in Separators THEN n + 1 ELSE n
<1> DEFINE N == Len(s)
           t == Append(s, c)
           A == {j \in 1..N : s[j] \in Separators}
           B == {j \in 1..(N + 1) : t[j] \in Separators}
<1>1. N \in Nat /\ t[N + 1] = c /\ \A j \in 1..N : t[j] = s[j]
  OBVIOUS
<1>2. (N + 1) - 1 = N /\ (N + 2) - 1 = N + 1
  BY <1>1
<1>3. Before(s, N + 1) = Cardinality(A) /\ Before(t, N + 2) = Cardinality(B)
  BY <1>2 DEF Before
<1> HIDE DEF t, N
<1>4. B = IF c \in Separators THEN A \cup {N + 1} ELSE A
  <2>1. ASSUME NEW j PROVE j \in B <=> (j \in A \/ (j = N + 1 /\ c \in Separators))
    <3>1. j \in 1..(N + 1) <=> (j \in 1..N \/ j = N + 1)
      BY <1>1
    <3>2. N + 1 \notin 1..N
      BY <1>1
    <3> QED BY <1>1, <3>1, <3>2
  <2> HIDE DEF A, B
  <2> QED BY <2>1
<1>5. IsFiniteSet(A) /\ N + 1 \notin A
  <2>1. 1 \in Int /\ N \in Int
    BY <1>1
  <2>2. IsFiniteSet(1..N)
    BY ONLY <2>1, FS_Interval
  <2>3. A \subseteq 1..N /\ N + 1 \notin 1..N
    BY <1>1
  <2> HIDE DEF A
  <2> QED BY <2>2, <2>3, FS_Subset
<1> HIDE DEF A, B
<1>6. Cardinality(A) \in Nat /\ Cardinality(A \cup {N + 1}) = Cardinality(A) + 1
  BY <1>5, FS_CardinalityType, FS_AddElement
<1> QED BY <1>3, <1>4, <1>6 DEF t, N

LEMMA BeforeNone == Before(<<>>, Len(<<>>) + 1) = 0
<1>1. Len(<<>>) = 0
  OBVIOUS
<1>2. {j \in 1..((0 + 1) - 1) : <<>>[j] \in Separators} = {}
  OBVIOUS
<1> QED BY <1>1, <1>2, FS_EmptySet DEF Before

\* What one more byte of a sequence makes of parameter i.
OneDigit(v, s, i, c) ==
  IF c \in Digits /\ Before(s, Len(s) + 1) = i /\ v < MaxArg THEN 10 * v + Digit[c] ELSE v

LEMMA ValueNext ==
  ASSUME NEW S, NEW s \in Seq(S), NEW c \in S, NEW i
  PROVE  Value(Append(s, c), i) = OneDigit(Value(s, i), s, i, c)
<1> DEFINE N == Len(s)
           t == Append(s, c)
           F(v, x, k) == IF x[k] \in Digits /\ Before(x, k) = i /\ v < MaxArg THEN 10 * v + Digit[x[k]] ELSE v
<1>1. N \in Nat /\ Len(t) = N + 1 /\ t[N + 1] = c /\ \A k \in 1..N : t[k] = s[k]
  OBVIOUS
<1>2. \A k \in 1..(N + 1) : Before(t, k) = Before(s, k)
  BY BeforeSame
<1>3. PICK h : h[0] = 0 /\ h[N] = Value(s, i) /\ \A k \in 1..N : h[k] = F(h[k - 1], s, k)
  <2>1. N \in Nat /\ Len(s) = N
    BY <1>1
  <2> HIDE DEF N
  <2> QED BY ONLY <2>1, ValueIs
<1>4. PICK g : g[0] = 0 /\ g[N + 1] = Value(t, i) /\ \A k \in 1..(N + 1) : g[k] = F(g[k - 1], t, k)
  <2>1. N + 1 \in Nat /\ Len(t) = N + 1
    BY <1>1
  <2> HIDE DEF N, t
  <2> QED BY ONLY <2>1, ValueIs
<1>5. ASSUME NEW k \in 1..N, NEW v PROVE F(v, t, k) = F(v, s, k)
  <2>1. k \in 1..(N + 1) /\ t[k] = s[k]
    BY <1>1
  <2>2. Before(t, k) = Before(s, k)
    BY <1>2, <2>1
  <2> HIDE DEF t, N
  <2> QED BY <2>1, <2>2
<1>6. ASSUME NEW v PROVE F(v, t, N + 1) = OneDigit(v, s, i, c)
  <2>1. N + 1 \in 1..(N + 1)
    BY <1>1
  <2>2. t[N + 1] = c /\ Before(t, N + 1) = Before(s, N + 1)
    BY <1>1, <1>2, <2>1
  <2> HIDE DEF t
  <2> QED BY <2>2 DEF OneDigit
<1> HIDE DEF N, t, F
<1> DEFINE G == {m \in 0..N : h[m] = g[m]}
<1>7. 0 \in G
  BY <1>1, <1>3, <1>4
<1>8. ASSUME NEW m \in 0..(N - 1), m \in G PROVE m + 1 \in G
  <2>1. m + 1 \in 1..N /\ m + 1 \in 1..(N + 1) /\ m + 1 \in 0..N /\ (m + 1) - 1 = m
    BY <1>1
  <2>2. h[m] = g[m]
    BY <1>8
  <2>3. h[m + 1] = F(h[m], s, m + 1)
    BY <1>3, <2>1
  <2>4. g[m + 1] = F(g[m], t, m + 1)
    BY <1>4, <2>1
  <2> QED BY <1>5, <2>1, <2>2, <2>3, <2>4
<1>9. G = 0..N
  <2>1. G \in SUBSET (0..N)
    OBVIOUS
  <2> HIDE DEF G
  <2> QED BY ONLY <1>1, <1>7, <1>8, <2>1, UpTo
<1>10. h[N] = g[N]
  BY <1>1, <1>9
<1>11. N + 1 \in 1..(N + 1) /\ (N + 1) - 1 = N
  BY <1>1
<1>12. g[N + 1] = F(g[N], t, N + 1)
  BY <1>4, <1>11
<1> QED BY <1>3, <1>4, <1>6, <1>10, <1>12 DEF t

LEMMA ValueNone == ASSUME NEW i PROVE Value(<<>>, i) = 0
<1> DEFINE e == <<>>
<1>1. Len(e) = 0 /\ 0 \in Nat
  OBVIOUS
<1> HIDE DEF e
<1>3. PICK h : h[0] = 0 /\ h[0] = Value(e, i)
  BY ONLY <1>1, ValueIs
<1> QED BY <1>3 DEF e

LEMMA MinIs ==
  ASSUME NEW a \in Nat, NEW b \in Nat
  PROVE  Min({a, b}) = IF a <= b THEN a ELSE b
  BY DEF Min

-----------------------------------------------------------------------------
(* The invariant                                                           *)

\* What strings are for.
StringKinds == {"OSC", "APC", "DCS", "PM", "GM", "AKA"}
States == Prints \cup {"LIT", "ESC", "CSI", "ASTR", "STRESC"}

IsRec(r) == r = [f \in {"win", "dis", "raw", "printed", "job"} |-> r[f]]
Chars == Alphabet \cup Points \cup {"cut", "esc", "[", "4", "i"}
Texts == Seq(Chars)

Shape(r) ==
  /\ IsRec(r) /\ IsWin(r.win) /\ r.win.state \in States
  /\ r.win.state \in {"ASTR", "STRESC"} => r.win.kind \in StringKinds
  /\ r.win.num \in 0..MaxArgs /\ r.win.args = [k \in 0..(MaxArgs - 1) |-> r.win.args[k]]
  /\ r.win.str \in Texts /\ r.raw \in Texts /\ r.printed \in Texts
  /\ r.win.outbuf \in Seq(Alphabet)

\* Print jobs, strings and parameters are what was sent.
Job(r) == r.printed \o r.win.str \o Held(r.win.state) = r.raw
Done(r) == r.printed \o <<"esc", "[", "4", "i">> = r.raw
Jobs(r) ==
  /\ ~r.win.utf8 /\ r.win.state \in Prints /\ r.job = "on" => Job(r)
  /\ r.job = "done" => r.win.state = "LIT" /\ (~r.win.utf8 => Done(r))
Strings(r) ==
  ~r.win.utf8 /\ r.win.state \in {"ASTR", "STRESC"} =>
    WithoutNul(r.win.str \o Held(r.win.state)) = WithoutNul(r.raw)
Parameters(r) ==
  r.win.state = "CSI" =>
    /\ r.win.num = Min({MaxArgs, Before(r.raw, Len(r.raw) + 1)})
    /\ \A k \in 0..(MaxArgs - 1) : r.win.args[k] = Value(r.raw, k)
Sound(r) == Shape(r) /\ Jobs(r) /\ Strings(r) /\ Parameters(r)

\* What stays when the window is reset in the middle of something.
Same(v, w) == v.utf8 = w.utf8 /\ v.outbuf = w.outbuf
Near(v, w) ==
  /\ IsWin(v) /\ v.state \in {w.state, "LIT"} /\ v.im = w.im /\ v.args = w.args /\ v.num = w.num
  /\ v.str = w.str /\ Same(v, w)

LEMMA LikeNear == ASSUME NEW v, NEW w, Like(v, w) PROVE Near(v, w)
  BY DEF Like, Near, Same

LEMMA ResetWindowNear ==
  ASSUME NEW w, IsWin(w)
  PROVE  Near(ResetWindow(w), w) /\ ResetWindow(w).state = "LIT"
<1> DEFINE v == ResetCharsets(w)
           m == [NoModes EXCEPT !.extmouse = w.modes.extmouse]
           s == [v.saved EXCEPT !.on = FALSE]
<1>1. Like(v, w)
  BY ResetCharsetsLike
<1>2. ResetWindow(w) = [v EXCEPT !.modes = m, !.saved = s, !.state = "LIT", !.kind = "NONE", !.rend = NoRend]
  <2>1. v = [f \in WinFields |-> v[f]]
    BY <1>1 DEF Like, IsWin
  <2> HIDE DEF m
  <2> QED BY <2>1 DEF ResetWindow, WinFields, m
<1> DEFINE x == ResetWindow(w)
<1> HIDE DEF v, m, s
<1>3. IsWin(v)
  BY <1>1 DEF Like
<1>4. /\ IsWin(x) /\ x.state = "LIT" /\ x.im = v.im /\ x.args = v.args /\ x.num = v.num
      /\ x.str = v.str /\ x.utf8 = v.utf8 /\ x.outbuf = v.outbuf
  BY <1>2, <1>3 DEF IsWin, WinFields
<1> HIDE DEF x
<1>5. Near(x, w) /\ x.state = "LIT"
  BY <1>1, <1>4 DEF Near, Same, Like
<1> QED BY <1>5 DEF x

LEMMA FullResetNear ==
  ASSUME NEW w, IsWin(w)
  PROVE  Near(FullReset(w), w) /\ FullReset(w).state = "LIT"
<1> DEFINE v == ResetWindow(w)
<1>1. Near(v, w) /\ v.state = "LIT"
  BY ResetWindowNear
<1>2. PICK t : FullReset(w) = [v EXCEPT !.told = t]
  <2> HIDE DEF v
  <2>1. FullReset(w) = [v EXCEPT !.told.keypad = 0, !.told.cursorkeys = 0]
    BY DEF FullReset, v
  <2>2. v = [f \in WinFields |-> v[f]]
    BY <1>1 DEF Near, IsWin
  <2>3. FullReset(w) = [v EXCEPT !.told = [[v.told EXCEPT !.keypad = 0] EXCEPT !.cursorkeys = 0]]
    BY <2>1, <2>2 DEF WinFields
  <2> QED BY <2>3
<1> HIDE DEF v
<1> QED BY <1>1, <1>2 DEF Near, Same, IsWin, WinFields

LEMMA DoESCNear ==
  ASSUME NEW w, IsWin(w), NEW c, NEW im
  PROVE  Near(DoESC(w, c, im), w)
<1>1. CASE im = <<>>
  <2> DEFINE x == DoESC(w, c, im)
  <2>1. \/ x = Report(w, 7) \/ x = SaveCursor(w) \/ x = RestoreCursor(w) \/ x = FullReset(w)
        \/ x = SetMode(w, "keypad", 1) \/ x = SetMode(w, "keypad", 0)
        \/ x = MapCharset(w, 2) \/ x = MapCharset(w, 3)
        \/ x = MapCharsetR(w, 1) \/ x = MapCharsetR(w, 2) \/ x = MapCharsetR(w, 3)
        \/ x = SingleShift(w, 2) \/ x = SingleShift(w, 3) \/ x = w
    BY ONLY <1>1 DEF DoESC
  <2>2. x = FullReset(w) \/ Like(x, w)
    BY <2>1, ReportLike, SetModeLike, MapCharsetLike, MapCharsetRLike, SingleShiftLike,
       SaveCursorLike, RestoreCursorLike, LikeItself
  <2> QED BY <2>2, LikeNear, FullResetNear
<1>2. CASE im # <<>>
  <2>1. \/ DoESC(w, c, im) = w
        \/ DoESC(w, c, im) = DesignateCharset(w, FontOf(c, Designates[im][2]), Designates[im][1])
    BY ONLY <1>2 DEF DoESC
  <2>2. Like(DoESC(w, c, im), w)
    BY <2>1, DesignateCharsetLike, LikeItself
  <2> QED BY <2>2, LikeNear
<1> QED BY <1>1, <1>2

-----------------------------------------------------------------------------
(* Control sequences                                                       *)

\* Nothing but the window has changed, and in that nothing of the parser's.
Beside(x, r) == IsRec(x) /\ Like(x.win, r.win) /\ x.raw = r.raw /\ x.printed = r.printed /\ x.job = r.job

\* A print job begins.
Begun(x, r) ==
  /\ IsRec(x) /\ IsWin(x.win) /\ Same(x.win, r.win) /\ x.win.state = "PRIN"
  /\ x.win.num = r.win.num /\ x.win.args = r.win.args
  /\ x.win.str = <<>> /\ x.raw = <<>> /\ x.printed = <<>> /\ x.job \in {"on", "lost"}

LEMMA SetBeside ==
  ASSUME NEW r, IsRec(r), NEW v, Like(v, r.win)
  PROVE  Beside([r EXCEPT !.win = v], r)
  BY DEF Beside, IsRec

LEMMA PrintStartIs ==
  ASSUME NEW r, IsRec(r), IsWin(r.win)
  PROVE  Beside(PrintStart(r), r) \/ Begun(PrintStart(r), r)
<1>1. r = [f \in {"win", "dis", "raw", "printed", "job"} |-> r[f]] /\ r.win = [f \in WinFields |-> r.win[f]]
  BY DEF IsRec, IsWin
<1> DEFINE d == PrintDisplay(r)
<1>2. CASE d = None
  <2> DEFINE v == [r.win EXCEPT !.pdisplay = None]
  <2>1. PrintStart(r) = [r EXCEPT !.win = v]
    BY <1>1, <1>2 DEF PrintStart
  <2>2. Like(v, r.win)
    BY DEF Like, IsWin, WinFields
  <2> HIDE DEF v
  <2> QED BY <2>1, <2>2, SetBeside
<1>3. CASE d # None
  <2> DEFINE v == [[[r.win EXCEPT !.pdisplay = d] EXCEPT !.str = <<>>] EXCEPT !.state = "PRIN"]
             j == IF r.dis.printcmd /\ d \notin r.dis.pipes /\ ~r.dis.printer THEN "lost" ELSE "on"
             e == [r.dis EXCEPT !.pipes = IF r.dis.printcmd /\ r.dis.printer THEN @ \cup {d} ELSE @]
  <2>1. PrintStart(r) = [r EXCEPT !.win = v, !.raw = <<>>, !.printed = <<>>, !.job = j, !.dis = e]
    BY <1>1, <1>3 DEF PrintStart, WinFields
  <2>2. IsWin(v) /\ Same(v, r.win) /\ v.state = "PRIN" /\ v.str = <<>> /\ v.num = r.win.num /\ v.args = r.win.args
    BY DEF Same, IsWin, WinFields
  <2>3. j \in {"on", "lost"}
    OBVIOUS
  <2> HIDE DEF v, j, e
  <2> QED BY <2>1, <2>2, <2>3 DEF Begun, IsRec
<1> QED BY <1>2, <1>3

LEMMA WindowCSILike ==
  ASSUME NEW w, IsWin(w), w.num \in Nat, NEW c
  PROVE  Like(WindowCSI(w, c), w)
<1> DEFINE x == WindowCSI(w, c)
           im == w.im
<1>1. <<>> # <<" ">> /\ <<>> # <<"?">> /\ <<>> # <<">">> /\ <<" ">> # <<"?">> /\ <<" ">> # <<">">> /\ <<"?">> # <<">">>
  OBVIOUS
<1>2. \/ x = w \/ x = SelectRendition(w) \/ x = SaveCursor(w) \/ x = RestoreCursor(w)
      \/ \E p, on : x = EachMode(w, p, on)
      \/ \E n : x = Report(w, n)
      \/ \E name, n : x = SetMode(w, name, n)
  <2>1. CASE im = <<>>
    <3>1. CASE c \in {"m", "h", "l"}
      BY ONLY <1>1, <2>1, <3>1 DEF WindowCSI
    <3>2. CASE c \in {"n", "c", "x"}
      <4>1. CASE c = "n"
        BY ONLY <1>1, <2>1, <4>1 DEF WindowCSI
      <4>2. CASE c \in {"c", "x"}
        BY ONLY <1>1, <2>1, <4>2 DEF WindowCSI
      <4> QED BY <3>2, <4>1, <4>2
    <3>3. CASE c \in {"p", "t"}
      <4>1. CASE c = "p"
        BY ONLY <1>1, <2>1, <4>1 DEF WindowCSI
      <4>2. CASE c = "t"
        BY ONLY <1>1, <2>1, <4>2 DEF WindowCSI
      <4> QED BY <3>3, <4>1, <4>2
    <3>4. CASE c \notin {"m", "h", "l", "n", "c", "x", "p", "t"}
      BY ONLY <1>1, <2>1, <3>4 DEF WindowCSI
    <3> QED BY <3>1, <3>2, <3>3, <3>4
  <2>2. CASE im # <<>>
    BY ONLY <1>1, <2>2 DEF WindowCSI
  <2> QED BY <2>1, <2>2
<1> HIDE DEF x
<1>3. Like(x, w)
  BY <1>2, LikeItself, SelectRenditionLike, SaveCursorLike, RestoreCursorLike, EachModeLike, ReportLike, SetModeLike
<1> QED BY <1>3 DEF x

LEMMA DoCSIIs ==
  ASSUME NEW r, IsRec(r), IsWin(r.win), r.win.num \in Nat, NEW c
  PROVE  Beside(DoCSI(r, c), r) \/ Begun(DoCSI(r, c), r)
<1>1. DoCSI(r, c) = PrintStart(r) \/ DoCSI(r, c) = [r EXCEPT !.win = WindowCSI(r.win, c)]
  BY DEF DoCSI
<1>2. Like(WindowCSI(r.win, c), r.win)
  BY WindowCSILike
<1> QED BY <1>1, <1>2, SetBeside, PrintStartIs

-----------------------------------------------------------------------------
(* What is sound by itself                                                 *)

\* The handler of a byte keeps the invariant, and what was put aside.
Fine(x, r) == Sound(x) /\ Same(x.win, r.win)

LEMMA SetWindow ==
  ASSUME NEW r, IsRec(r), NEW v, IsWin(v), NEW x, x = [r EXCEPT !.win = v]
  PROVE  IsRec(x) /\ x.win = v /\ x.raw = r.raw /\ x.printed = r.printed /\ x.job = r.job /\ x.dis = r.dis
  BY DEF IsRec

LEMMA BesideShape ==
  ASSUME NEW r, Shape(r), NEW x, Beside(x, r)
  PROVE  Shape(x) /\ Same(x.win, r.win) /\ x.win.state = r.win.state /\ x.job = r.job
  BY DEF Shape, Beside, Like, Same

LEMMA NearShape ==
  ASSUME NEW r, Shape(r), r.win.state \notin {"ASTR", "STRESC"}, NEW v, Near(v, r.win), NEW x, x = [r EXCEPT !.win = v]
  PROVE  Shape(x) /\ Same(x.win, r.win) /\ x.win.state \in {r.win.state, "LIT"} /\ x.job = r.job
<1>1. IsRec(x) /\ x.win = v /\ x.raw = r.raw /\ x.printed = r.printed /\ x.job = r.job
  BY SetWindow DEF Near, Shape
<1>2. "LIT" \in States
  BY DEF States
<1> QED BY <1>1, <1>2 DEF Shape, Near, Same

\* A sequence or a string that has ended leaves nothing to be collected.
LEMMA EndedSound ==
  ASSUME NEW r, Shape(r), r.win.state \in {"LIT", "ESC"}, r.job # "done"
  PROVE  Sound(r)
  BY DEF Sound, Jobs, Strings, Parameters, Prints

LEMMA StartCSIFine ==
  ASSUME NEW r, Shape(r), r.job = "none"
  PROVE  Fine(StartCSI(r), r)
<1> DEFINE w == r.win
           v == [w EXCEPT !.num = 0, !.im = <<>>, !.args = NoArgs, !.state = "CSI"]
           x == StartCSI(r)
<1>1. IsRec(r) /\ IsWin(w)
  BY DEF Shape
<1>2. x = [r EXCEPT !.win = v, !.raw = <<>>]
  BY <1>1 DEF StartCSI, IsRec, IsWin, WinFields
<1>3. /\ IsWin(v) /\ v.num = 0 /\ v.args = NoArgs /\ v.state = "CSI"
      /\ v.str = w.str /\ v.outbuf = w.outbuf /\ v.utf8 = w.utf8
  BY <1>1 DEF IsWin, WinFields
<1> HIDE DEF v, x
<1>4. IsRec(x) /\ x.win = v /\ x.raw = <<>> /\ x.printed = r.printed /\ x.job = "none"
  BY <1>1, <1>2 DEF IsRec
<1>5. Shape(x)
  <2>1. NoArgs = [k \in 0..(MaxArgs - 1) |-> NoArgs[k]] /\ \A k \in 0..(MaxArgs - 1) : NoArgs[k] = 0
    BY DEF NoArgs
  <2>2. x.win.args = [k \in 0..(MaxArgs - 1) |-> x.win.args[k]]
    BY <2>1, <1>3, <1>4
  <2>3. x.win.str \in Texts /\ x.printed \in Texts /\ x.win.outbuf \in Seq(Alphabet)
    BY <1>3, <1>4 DEF Shape
  <2>4. x.raw \in Texts
    BY <1>4 DEF Texts
  <2>5. x.win.state \in States /\ x.win.state \notin {"ASTR", "STRESC"} /\ x.win.num \in 0..MaxArgs /\ IsWin(x.win)
    BY <1>3, <1>4 DEF States
  <2> QED BY <1>4, <2>2, <2>3, <2>4, <2>5 DEF Shape
<1>6. Parameters(x)
  <2>1. Before(x.raw, Len(x.raw) + 1) = 0
    BY <1>4, BeforeNone
  <2>2. Min({MaxArgs, 0}) = 0
    BY MinIs
  <2>3. \A k \in 0..(MaxArgs - 1) : x.win.args[k] = Value(x.raw, k)
    BY <1>3, <1>4, ValueNone DEF NoArgs
  <2> QED BY <1>3, <1>4, <2>1, <2>2, <2>3 DEF Parameters
<1>7. Sound(x)
  BY <1>3, <1>4, <1>5, <1>6 DEF Sound, Jobs, Strings, Prints
<1>8. Same(x.win, r.win)
  BY <1>3, <1>4 DEF Same
<1> QED BY <1>7, <1>8 DEF Fine, x

LEMMA StringStartFine ==
  ASSUME NEW r, Shape(r), r.job = "none", NEW kind \in StringKinds
  PROVE  Fine(StringStart(r, kind), r)
<1> DEFINE w == r.win
           v == [w EXCEPT !.kind = kind, !.str = <<>>, !.state = "ASTR"]
           x == StringStart(r, kind)
<1>1. IsRec(r) /\ IsWin(w)
  BY DEF Shape
<1>2. x = [r EXCEPT !.win = v, !.raw = <<>>]
  BY <1>1 DEF StringStart, IsRec, IsWin, WinFields
<1>3. /\ IsWin(v) /\ v.num = w.num /\ v.args = w.args /\ v.state = "ASTR" /\ v.kind = kind
      /\ v.str = <<>> /\ v.outbuf = w.outbuf /\ v.utf8 = w.utf8
  BY <1>1 DEF IsWin, WinFields
<1> HIDE DEF v, x
<1>4. IsRec(x) /\ x.win = v /\ x.raw = <<>> /\ x.printed = r.printed /\ x.job = "none"
  BY <1>1, <1>2 DEF IsRec
<1>5. <<>> \in Texts
  BY DEF Texts
<1>6. Shape(x)
  BY <1>3, <1>4, <1>5 DEF Shape, States
<1>7. Strings(x)
  <2>1. Held("ASTR") = <<>>
    BY DEF Held
  <2>2. x.win.str \o Held(x.win.state) = x.raw
    BY <1>3, <1>4, <2>1
  <2> QED BY <2>2 DEF Strings
<1>8. Sound(x)
  BY <1>3, <1>4, <1>6, <1>7 DEF Sound, Jobs, Parameters, Prints
<1>9. Same(x.win, r.win)
  BY <1>3, <1>4 DEF Same
<1> QED BY <1>8, <1>9 DEF Fine, x

\* x differs from r in the state alone.
Moved(x, r, t) ==
  /\ Shape(x) /\ Same(x.win, r.win) /\ x.win.state = t /\ x.win.kind = r.win.kind /\ x.win.str = r.win.str
  /\ x.raw = r.raw /\ x.printed = r.printed /\ x.job = r.job /\ x.dis = r.dis

LEMMA SetState ==
  ASSUME NEW r, Shape(r), NEW t \in States, t \in {"ASTR", "STRESC"} => r.win.kind \in StringKinds
  PROVE  Moved([r EXCEPT !.win.state = t], r, t)
<1> DEFINE w == r.win
           v == [w EXCEPT !.state = t]
           x == [r EXCEPT !.win.state = t]
<1>1. IsRec(r) /\ IsWin(w)
  BY DEF Shape
<1>2. x = [r EXCEPT !.win = v]
  BY <1>1 DEF IsRec
<1>3. /\ IsWin(v) /\ v.num = w.num /\ v.args = w.args /\ v.state = t /\ v.kind = w.kind
      /\ v.str = w.str /\ v.outbuf = w.outbuf /\ v.utf8 = w.utf8
  BY <1>1 DEF IsWin, WinFields
<1> HIDE DEF v, x
<1>4. IsRec(x) /\ x.win = v /\ x.raw = r.raw /\ x.printed = r.printed /\ x.job = r.job /\ x.dis = r.dis
  BY ONLY <1>1, <1>2 DEF IsRec
<1>5. Shape(x)
  BY <1>3, <1>4 DEF Shape
<1>6. Moved(x, r, t)
  BY <1>3, <1>4, <1>5 DEF Same, Moved
<1> QED BY <1>6 DEF x

LEMMA SetLit ==
  ASSUME NEW r, Shape(r)
  PROVE  Moved([r EXCEPT !.win.state = "LIT"], r, "LIT")
<1>1. "LIT" \in States /\ "LIT" \notin {"ASTR", "STRESC"}
  BY DEF States
<1> QED BY ONLY <1>1, SetState, Shape(r), Zenon

LEMMA FineAfter ==
  ASSUME NEW x, NEW q, NEW r, Fine(x, q), Same(q.win, r.win)
  PROVE  Fine(x, r)
  BY DEF Fine, Same

LEMMA NearFine ==
  ASSUME NEW r, Shape(r), r.win.state \in {"LIT", "ESC"}, r.job # "done", NEW v, Near(v, r.win), NEW x, x = [r EXCEPT !.win = v]
  PROVE  Fine(x, r)
<1>1. Shape(x) /\ Same(x.win, r.win) /\ x.win.state \in {r.win.state, "LIT"} /\ x.job = r.job
  BY NearShape
<1>2. Sound(x)
  BY <1>1, EndedSound
<1> QED BY <1>1, <1>2 DEF Fine

LEMMA LiteralByteFine ==
  ASSUME NEW r, Shape(r), r.win.state = "LIT", r.job = "none", NEW c
  PROVE  Fine(LiteralByte(r, c), r)
<1> DEFINE cut == c \in Controls \cup {" "} \/ (c \in DOMAIN C1 /\ r.win.c1)
           u == [r.win EXCEPT !.mbcs = <<>>]
           q == IF cut THEN [r EXCEPT !.win = u] ELSE r
           x == LiteralByte(r, c)
<1>1. IsRec(r) /\ IsWin(r.win)
  BY DEF Shape
<1>2. q = IF cut THEN [r EXCEPT !.win.mbcs = <<>>] ELSE r
  BY <1>1 DEF IsRec
<1>3. Beside(q, r)
  <2>1. Like(u, r.win)
    BY <1>1 DEF Like, IsWin, WinFields
  <2> HIDE DEF u
  <2>2. Beside([r EXCEPT !.win = u], r)
    BY <1>1, <2>1, SetBeside
  <2>3. Beside(r, r)
    BY <1>1, LikeItself DEF Beside
  <2> QED BY <2>2, <2>3
<1>4. Shape(q) /\ Same(q.win, r.win) /\ q.win.state = "LIT" /\ q.job = "none"
  BY <1>3, BesideShape
<1> DEFINE w == q.win
           e == [w EXCEPT !.im = <<>>, !.state = "ESC"]
<1>5. \/ x = [q EXCEPT !.win.im = <<>>, !.win.state = "ESC"]
      \/ x = [q EXCEPT !.win = Special(@, c)]
      \/ x = StartCSI(q) \/ x = StringStart(q, "DCS") \/ x = q
      \/ x = [q EXCEPT !.win = DoESC(@, C1[c], <<>>)]
      \/ x = [q EXCEPT !.win = Literal(@, c)]
  <2> DEFINE q0 == IF cut THEN [r EXCEPT !.win.mbcs = <<>>] ELSE r
  <2>1. x = CASE c = "esc" -> [q0 EXCEPT !.win.im = <<>>, !.win.state = "ESC"]
    [] c \in Controls \ {"esc"} -> [q0 EXCEPT !.win = Special(@, c)]
    [] c \in DOMAIN C1 /\ q0.win.c1 ->
        (CASE c = "c1[" -> StartCSI(q0) [] c = "c1P" -> StringStart(q0, "DCS") [] c = "c1\\" -> q0
           [] OTHER -> [q0 EXCEPT !.win = DoESC(@, C1[c], <<>>)])
    [] OTHER -> [q0 EXCEPT !.win = Literal(@, c)]
    BY DEF LiteralByte
  <2>2. q0 = q
    BY <1>2
  <2> HIDE DEF q0, x, q
  <2>3. c \in DOMAIN C1 => c \notin Controls
    BY DEF C1, Controls, Specials
  <2>4. "esc" \in Controls
    BY DEF Controls
  <2>5. CASE c = "esc"
    BY ONLY <2>1, <2>2, <2>3, <2>4, <2>5
  <2>6. CASE c \in Controls \ {"esc"}
    BY ONLY <2>1, <2>2, <2>3, <2>4, <2>6
  <2>7. CASE c \in DOMAIN C1 /\ q.win.c1
    BY ONLY <2>1, <2>2, <2>3, <2>4, <2>7
  <2>8. CASE c \notin Controls /\ ~(c \in DOMAIN C1 /\ q.win.c1)
    BY ONLY <2>1, <2>2, <2>3, <2>4, <2>8
  <2> QED BY <2>4, <2>5, <2>6, <2>7, <2>8
<1> HIDE DEF x, q
<1>6. IsRec(q) /\ IsWin(w)
  BY <1>4 DEF Shape
<1>7. [q EXCEPT !.win.im = <<>>, !.win.state = "ESC"] = [q EXCEPT !.win = e]
  BY <1>6 DEF IsRec, IsWin, WinFields
<1>8. Fine([q EXCEPT !.win = e], q)
  <2>1. /\ IsWin(e) /\ e.num = w.num /\ e.args = w.args /\ e.state = "ESC"
        /\ e.str = w.str /\ e.outbuf = w.outbuf /\ e.utf8 = w.utf8
    BY <1>6 DEF IsWin, WinFields
  <2> DEFINE y == [q EXCEPT !.win = e]
  <2> HIDE DEF e
  <2>2. IsRec(y) /\ y.win = e /\ y.raw = q.raw /\ y.printed = q.printed /\ y.job = q.job
    BY <1>6, <2>1, SetWindow
  <2> HIDE DEF y
  <2>3. Shape(y)
    BY <1>4, <2>1, <2>2 DEF Shape, States
  <2>4. Sound(y)
    BY <1>4, <2>1, <2>2, <2>3, EndedSound
  <2>5. Same(y.win, q.win)
    BY <2>1, <2>2 DEF Same
  <2>6. Fine(y, q)
    BY <2>4, <2>5 DEF Fine
  <2> QED BY <2>6 DEF y
<1>9. Fine([q EXCEPT !.win = Special(@, c)], q) /\ Fine([q EXCEPT !.win = Literal(@, c)], q)
  <2>1. Near(Special(w, c), w) /\ Near(Literal(w, c), w)
    BY <1>6, SpecialLike, LiteralLike, LikeNear
  <2> QED BY <1>4, <2>1, NearFine
<1>10. Fine([q EXCEPT !.win = DoESC(@, C1[c], <<>>)], q)
  <2>1. Near(DoESC(w, C1[c], <<>>), w)
    BY <1>6, DoESCNear
  <2> QED BY <1>4, <2>1, NearFine
<1>11. Fine(StartCSI(q), q) /\ Fine(StringStart(q, "DCS"), q)
  BY <1>4, StartCSIFine, StringStartFine DEF StringKinds
<1>12. Fine(q, q)
  BY <1>4, EndedSound DEF Fine, Same
<1>13. Fine(x, q)
  BY ONLY <1>5, <1>7, <1>8, <1>9, <1>10, <1>11, <1>12
<1>14. Fine(x, r)
  BY <1>4, <1>13, FineAfter
<1> QED BY <1>14 DEF x

-----------------------------------------------------------------------------
(* Parameters                                                              *)

\* The parameters are those of s.
Counted(w, s) ==
  /\ w.num = Min({MaxArgs, Before(s, Len(s) + 1)})
  /\ \A k \in 0..(MaxArgs - 1) : w.args[k] = Value(s, k)

\* What one more byte makes of them.
Counts(v, w, c) ==
  /\ v.num = IF c \in Separators /\ w.num < MaxArgs THEN w.num + 1 ELSE w.num
  /\ v.args = IF c \in Digits /\ w.num < MaxArgs /\ w.args[w.num] < MaxArg
              THEN [w.args EXCEPT ![w.num] = 10 * @ + Digit[c]] ELSE w.args

LEMMA CountedNext ==
  ASSUME NEW s \in Texts, NEW c \in Chars, NEW w, w.args = [k \in 0..(MaxArgs - 1) |-> w.args[k]],
         Counted(w, s), NEW v, Counts(v, w, c)
  PROVE  Counted(v, Append(s, c)) /\ v.num \in 0..MaxArgs /\ v.args = [k \in 0..(MaxArgs - 1) |-> v.args[k]]
<1> DEFINE t == Append(s, c)
           n == Before(s, Len(s) + 1)
<1>1. s \in Seq(Chars) /\ Len(s) \in Nat /\ Len(t) = Len(s) + 1
  BY DEF Texts
<1>2. n \in Nat /\ Before(t, Len(s) + 2) = IF c \in Separators THEN n + 1 ELSE n
  BY <1>1, BeforeNext
<1>3. \A k : Value(t, k) = IF c \in Digits /\ n = k /\ Value(s, k) < MaxArg THEN 10 * Value(s, k) + Digit[c] ELSE Value(s, k)
  BY <1>1, ValueNext DEF OneDigit
<1>4. Len(t) + 1 = Len(s) + 2
  BY <1>1
<1>5. c \in Digits => c \notin Separators
  BY DEF Digits, Separators
<1> HIDE DEF t, n
<1>6. w.num = IF MaxArgs <= n THEN MaxArgs ELSE n
  BY <1>2, MinIs DEF Counted, n
<1>7. v.num = Min({MaxArgs, Before(t, Len(t) + 1)}) /\ v.num \in 0..MaxArgs
  <2>1. Before(t, Len(t) + 1) = IF c \in Separators THEN n + 1 ELSE n
    BY <1>2, <1>4
  <2> DEFINE m == Before(t, Len(t) + 1)
  <2> HIDE DEF m
  <2>2. m = IF c \in Separators THEN n + 1 ELSE n
    BY <2>1 DEF m
  <2>3. Min({MaxArgs, m}) = IF MaxArgs <= m THEN MaxArgs ELSE m
    BY <1>2, <2>2, MinIs
  <2>4. v.num = IF c \in Separators /\ w.num < MaxArgs THEN w.num + 1 ELSE w.num
    BY DEF Counts
  <2>5. v.num = Min({MaxArgs, m}) /\ v.num \in 0..MaxArgs
    BY <1>2, <1>6, <2>2, <2>3, <2>4
  <2> QED BY <2>5 DEF m
<1>8. ASSUME NEW k \in 0..(MaxArgs - 1)
      PROVE  v.args[k] = Value(t, k)
  <2>1. w.args[k] = Value(s, k)
    BY DEF Counted
  <2>2. w.num < MaxArgs => w.num = n
    BY <1>2, <1>6
  <2>3. n = k => w.num = k /\ w.num < MaxArgs
    BY <1>2, <1>6
  <2>4. CASE c \in Digits /\ w.num < MaxArgs /\ w.args[w.num] < MaxArg
    <3>1. v.args = [w.args EXCEPT ![w.num] = 10 * @ + Digit[c]]
      BY <2>4 DEF Counts
    <3>2. v.args[k] = IF w.num = k THEN 10 * w.args[k] + Digit[c] ELSE w.args[k]
      BY <3>1
    <3>3. CASE n = k
      BY <1>3, <2>1, <2>3, <2>4, <3>2, <3>3
    <3>4. CASE n # k
      BY <1>3, <2>1, <2>2, <2>4, <3>2, <3>4
    <3> QED BY <3>3, <3>4
  <2>5. CASE ~(c \in Digits /\ w.num < MaxArgs /\ w.args[w.num] < MaxArg)
    <3>1. v.args = w.args
      BY <2>5 DEF Counts
    <3>2. ~(c \in Digits /\ n = k /\ Value(s, k) < MaxArg)
      BY <2>1, <2>3, <2>5
    <3>3. Value(t, k) = Value(s, k)
      BY <1>3, <3>2
    <3> QED BY <2>1, <3>1, <3>3
  <2> QED BY <2>4, <2>5
<1>9. v.args = [k \in 0..(MaxArgs - 1) |-> v.args[k]]
  BY DEF Counts
<1> QED BY <1>7, <1>8, <1>9 DEF Counted, t

LEMMA NextArgShape ==
  ASSUME NEW r, Shape(r), NEW x, x = [r EXCEPT !.win = NextArg(@)]
  PROVE  /\ Shape(x) /\ Same(x.win, r.win) /\ x.win.state = r.win.state /\ x.job = r.job /\ x.raw = r.raw
         /\ x.win.num = IF r.win.num < MaxArgs THEN r.win.num + 1 ELSE r.win.num
         /\ x.win.args = r.win.args
<1> DEFINE w == r.win
           v == NextArg(w)
<1>1. IsRec(r) /\ IsWin(w) /\ w.num \in 0..MaxArgs
  BY DEF Shape
<1>2. /\ IsWin(v) /\ v.args = w.args /\ v.state = w.state /\ v.kind = w.kind
      /\ v.str = w.str /\ v.outbuf = w.outbuf /\ v.utf8 = w.utf8
      /\ v.num = IF w.num < MaxArgs THEN w.num + 1 ELSE w.num
  BY <1>1 DEF IsWin, WinFields, NextArg
<1>3. x = [r EXCEPT !.win = v]
  BY <1>1 DEF IsRec
<1> HIDE DEF v
<1>4. IsRec(x) /\ x.win = v /\ x.raw = r.raw /\ x.printed = r.printed /\ x.job = r.job /\ x.dis = r.dis
  BY ONLY <1>1, <1>3 DEF IsRec
<1>5. v.num \in 0..MaxArgs
  BY <1>1, <1>2
<1>6. Shape(x)
  BY <1>2, <1>4, <1>5 DEF Shape
<1> QED BY <1>2, <1>4, <1>6 DEF Same

LEMMA EndCSIFine ==
  ASSUME NEW r, Shape(r), r.win.state = "CSI", r.job = "none", NEW c
  PROVE  Fine(EndCSI(r, c), r)
<1> DEFINE p == [r EXCEPT !.win = NextArg(@)]
           q == DoCSI(p, c)
           x == EndCSI(r, c)
<1>1. x = IF q.win.state = "PRIN" THEN q ELSE [q EXCEPT !.win.state = "LIT"]
  BY DEF EndCSI
<1>2. Shape(p) /\ Same(p.win, r.win) /\ p.win.state = "CSI" /\ p.job = "none"
  BY NextArgShape
<1> HIDE DEF p, x
<1>3. Beside(q, p) \/ Begun(q, p)
  BY <1>2, DoCSIIs DEF Shape
<1> HIDE DEF q
<1>4. CASE Beside(q, p)
  <2>1. Shape(q) /\ Same(q.win, p.win) /\ q.win.state = "CSI" /\ q.job = "none"
    BY <1>2, <1>4, BesideShape
  <2>2. x = [q EXCEPT !.win.state = "LIT"]
    BY <1>1, <2>1
  <2>3. Moved(x, q, "LIT")
    BY <2>1, <2>2, SetLit
  <2>4. Sound(x)
    BY <2>1, <2>3, EndedSound DEF Moved
  <2> QED BY <1>2, <2>1, <2>3, <2>4 DEF Fine, Same, Moved, x
<1>5. CASE Begun(q, p)
  <2>1. x = q
    BY <1>1, <1>5 DEF Begun
  <2>2. Held("PRIN") = <<>>
    BY DEF Held
  <2>3. <<>> \in Texts
    BY DEF Texts
  <2>4. Shape(q)
    BY <1>2, <1>5, <2>3 DEF Shape, Begun, States, Prints, Same
  <2>5. Job(q)
    BY <1>5, <2>2 DEF Job, Begun
  <2>6. Sound(q)
    BY <1>5, <2>4, <2>5 DEF Sound, Jobs, Strings, Parameters, Begun
  <2> QED BY <1>2, <1>5, <2>1, <2>6 DEF Fine, Same, Begun, x
<1> QED BY <1>3, <1>4, <1>5

LEMMA CSISound ==
  ASSUME NEW x, Shape(x), x.win.state = "CSI", x.job = "none", Counted(x.win, x.raw)
  PROVE  Sound(x)
  BY DEF Sound, Jobs, Strings, Parameters, Prints, Counted

LEMMA RereadFine ==
  ASSUME NEW r, Shape(r), r.job = "none", NEW c
  PROVE  Fine(LiteralByte([r EXCEPT !.win.state = "LIT"], c), r)
<1> DEFINE q == [r EXCEPT !.win.state = "LIT"]
<1>1. Moved(q, r, "LIT")
  BY SetLit
<1> HIDE DEF q
<1>2. Fine(LiteralByte(q, c), q)
  BY <1>1, LiteralByteFine DEF Moved
<1>3. Fine(LiteralByte(q, c), r)
  BY <1>1, <1>2, FineAfter DEF Moved
<1> QED BY <1>3 DEF q

LEMMA ControlByteFine ==
  ASSUME NEW r, Shape(r), r.win.state = "CSI", r.job = "none",
         NEW s \in Texts, NEW c \in Chars, r.raw = Append(s, c), Counted(r.win, s)
  PROVE  Fine(ControlByte(r, c), r)
<1> DEFINE w == r.win
           x == ControlByte(r, c)
           im == IF w.im = <<>> THEN <<c>> ELSE <<"bad">>
           reread == LiteralByte([r EXCEPT !.win.state = "LIT"], c)
<1> SUFFICES Fine(x, r)
  OBVIOUS
<1>1. IsRec(r) /\ IsWin(w) /\ w.num \in 0..MaxArgs /\ w.args = [k \in 0..(MaxArgs - 1) |-> w.args[k]]
  BY DEF Shape
<1>2. \/ c \in Digits /\ x = [r EXCEPT !.win = ArgDigit(@, Digit[c])]
      \/ c \in Separators /\ x = [r EXCEPT !.win = NextArg(@)]
      \/ c \in Specials /\ x = [r EXCEPT !.win = Special(@, c)]
      \/ c \in Finals /\ x = EndCSI(r, c)
      \/ c \in Intermediates \cup Private /\ x = [r EXCEPT !.win.im = IF @ = <<>> THEN <<c>> ELSE <<"bad">>]
      \/ x = reread
  <2>1. CASE c \in Digits
    BY ONLY <2>1 DEF ControlByte, Digits, Separators, Specials, Finals, Intermediates, Private
  <2>2. CASE c \in Separators
    BY ONLY <2>2 DEF ControlByte, Digits, Separators, Specials, Finals, Intermediates, Private
  <2>3. CASE c \in Specials
    BY ONLY <2>3 DEF ControlByte, Digits, Separators, Specials, Finals, Intermediates, Private
  <2>4. CASE c \in Finals
    BY ONLY <2>4 DEF ControlByte, Digits, Separators, Specials, Finals, Intermediates, Private
  <2>5. CASE c \in Intermediates \cup Private
    BY ONLY <2>5 DEF ControlByte, Digits, Separators, Specials, Finals, Intermediates, Private
  <2>6. CASE c \notin Digits \cup Separators \cup Specials \cup Finals \cup Intermediates \cup Private
    BY ONLY <2>6 DEF ControlByte
  <2> QED BY <2>1, <2>2, <2>3, <2>4, <2>5, <2>6
<1>8. Fine(EndCSI(r, c), r) /\ Fine(reread, r)
  BY EndCSIFine, RereadFine
<1> HIDE DEF x, reread
<1>3. ASSUME NEW v, Counts(v, w, c), IsWin(v), v.state = w.state, v.str = w.str, v.outbuf = w.outbuf, v.utf8 = w.utf8,
             IsRec(x), x.win = v, x.raw = r.raw, x.printed = r.printed, x.job = r.job
      PROVE  Fine(x, r)
  <2>1. IsRec(x) /\ x.win = v /\ x.raw = r.raw /\ x.printed = r.printed /\ x.job = r.job
    BY <1>3
  <2>2. Counted(v, r.raw) /\ v.num \in 0..MaxArgs /\ v.args = [k \in 0..(MaxArgs - 1) |-> v.args[k]]
    BY <1>1, <1>3, CountedNext
  <2>3. Shape(x)
    BY <1>3, <2>1, <2>2 DEF Shape
  <2>4. Sound(x)
    BY <1>3, <2>1, <2>2, <2>3, CSISound
  <2> QED BY <1>3, <2>1, <2>4 DEF Fine, Same
<1>4. CASE c \in Digits /\ x = [r EXCEPT !.win = ArgDigit(@, Digit[c])]
  <2> DEFINE v == ArgDigit(w, Digit[c])
  <2>1. c \notin Separators
    BY <1>4 DEF Digits, Separators
  <2>2. /\ IsWin(v) /\ v.state = w.state /\ v.str = w.str /\ v.outbuf = w.outbuf /\ v.utf8 = w.utf8
        /\ v.num = w.num
        /\ v.args = IF w.num < MaxArgs /\ w.args[w.num] < MaxArg
                    THEN [w.args EXCEPT ![w.num] = 10 * @ + Digit[c]] ELSE w.args
    <3> DEFINE a == [w.args EXCEPT ![w.num] = 10 * @ + Digit[c]]
    <3>1. v = IF w.num < MaxArgs /\ w.args[w.num] < MaxArg THEN [w EXCEPT !.args = a] ELSE w
      BY <1>1 DEF ArgDigit, IsWin, WinFields
    <3> HIDE DEF a, v
    <3>2. /\ IsWin(v) /\ v.state = w.state /\ v.str = w.str /\ v.outbuf = w.outbuf /\ v.utf8 = w.utf8
          /\ v.num = w.num /\ v.args = IF w.num < MaxArgs /\ w.args[w.num] < MaxArg THEN a ELSE w.args
      BY ONLY <1>1, <3>1 DEF IsWin, WinFields
    <3> QED BY <3>2 DEF a
  <2>3. x = [r EXCEPT !.win = v]
    BY <1>1, <1>4 DEF IsRec
  <2> HIDE DEF v
  <2>5. IsRec(x) /\ x.win = v /\ x.raw = r.raw /\ x.printed = r.printed /\ x.job = r.job
    BY ONLY <1>1, <2>3 DEF IsRec
  <2>4. Counts(v, w, c)
    BY <1>4, <2>1, <2>2 DEF Counts
  <2> QED BY <1>3, <2>2, <2>4, <2>5
<1>5. CASE c \in Separators /\ x = [r EXCEPT !.win = NextArg(@)]
  <2> DEFINE v == NextArg(w)
  <2>1. c \notin Digits
    BY <1>5 DEF Digits, Separators
  <2>2. /\ IsWin(v) /\ v.state = w.state /\ v.str = w.str /\ v.outbuf = w.outbuf /\ v.utf8 = w.utf8
        /\ v.num = (IF w.num < MaxArgs THEN w.num + 1 ELSE w.num) /\ v.args = w.args
    BY <1>1 DEF NextArg, IsWin, WinFields
  <2>3. x = [r EXCEPT !.win = v]
    BY <1>1, <1>5 DEF IsRec
  <2> HIDE DEF v
  <2>5. IsRec(x) /\ x.win = v /\ x.raw = r.raw /\ x.printed = r.printed /\ x.job = r.job
    BY ONLY <1>1, <2>3 DEF IsRec
  <2>4. Counts(v, w, c)
    BY <1>5, <2>1, <2>2 DEF Counts
  <2> QED BY <1>3, <2>2, <2>4, <2>5
<1>6. CASE c \in Specials /\ x = [r EXCEPT !.win = Special(@, c)]
  <2> DEFINE v == Special(w, c)
  <2>1. c \notin Digits /\ c \notin Separators
    BY <1>6 DEF Digits, Separators, Specials
  <2>2. Like(v, w)
    BY <1>1, SpecialLike
  <2>3. x = [r EXCEPT !.win = v]
    BY <1>1, <1>6 DEF IsRec
  <2> HIDE DEF v
  <2>5. IsRec(x) /\ x.win = v /\ x.raw = r.raw /\ x.printed = r.printed /\ x.job = r.job
    BY ONLY <1>1, <2>3 DEF IsRec
  <2>4. Counts(v, w, c)
    BY <2>1, <2>2 DEF Counts, Like
  <2> QED BY <1>3, <2>2, <2>4, <2>5 DEF Like
<1>7. CASE c \in Intermediates \cup Private /\ x = [r EXCEPT !.win.im = IF @ = <<>> THEN <<c>> ELSE <<"bad">>]
  <2> DEFINE v == [w EXCEPT !.im = im]
  <2>1. c \notin Digits /\ c \notin Separators
    BY <1>7 DEF Digits, Separators, Intermediates, Private
  <2>2. /\ IsWin(v) /\ v.state = w.state /\ v.str = w.str /\ v.outbuf = w.outbuf /\ v.utf8 = w.utf8
        /\ v.num = w.num /\ v.args = w.args
    BY <1>1 DEF IsWin, WinFields
  <2>3. x = [r EXCEPT !.win = v]
    BY <1>1, <1>7 DEF IsRec, IsWin, WinFields
  <2> HIDE DEF v
  <2>5. IsRec(x) /\ x.win = v /\ x.raw = r.raw /\ x.printed = r.printed /\ x.job = r.job
    BY ONLY <1>1, <2>3 DEF IsRec
  <2>4. Counts(v, w, c)
    BY <2>1, <2>2 DEF Counts
  <2> QED BY <1>3, <2>2, <2>4, <2>5
<1> QED BY ONLY <1>2, <1>4, <1>5, <1>6, <1>7, <1>8

LEMMA EscapeByteFine ==
  ASSUME NEW r, Shape(r), r.win.state = "ESC", r.job = "none", NEW c
  PROVE  Fine(EscapeByte(r, c), r)
<1> DEFINE w == r.win
           x == EscapeByte(r, c)
           im == IF w.im = <<>> THEN <<c>> ELSE IF w.im = <<"$">> THEN <<"$", c>> ELSE <<"bad">>
           reread == LiteralByte([r EXCEPT !.win.state = "LIT"], c)
<1> SUFFICES Fine(x, r)
  OBVIOUS
<1>1. IsRec(r) /\ IsWin(w)
  BY DEF Shape
<1>2. \/ x = StartCSI(r)
      \/ c \in DOMAIN StringKind /\ x = StringStart(r, StringKind[c])
      \/ x = [r EXCEPT !.win = [Special(@, c) EXCEPT !.state = "LIT"]]
      \/ x = [r EXCEPT !.win.im = im]
      \/ x = [r EXCEPT !.win = [DoESC(@, c, w.im) EXCEPT !.state = "LIT"]]
      \/ x = reread
  <2> DEFINE M == Intermediates \ {"!", "\""}
             F == (Finals \ {"[", "]", "_", "P", "^", "k"}) \cup Digits \cup Private \cup Separators
             D == DOMAIN StringKind
  <2>1. /\ D = {"]", "_", "P", "^", "!", "k", "\""} 
        /\ \A b \in D : b # "[" /\ b \notin Specials /\ b \notin M /\ b \notin F
    BY DEF StringKind, Specials, Intermediates, Finals, Digits, Private, Separators
  <2>2. /\ \A b \in Specials : b # "[" /\ b \notin M /\ b \notin F
        /\ \A b \in M : b # "[" /\ b \notin F
        /\ "[" \notin F
    <3>1. \A b \in Specials : b # "[" /\ b \notin M
      BY ONLY DEF Specials, Intermediates, M
    <3>2. \A b \in Specials : b \notin F
      BY ONLY DEF Specials, Finals, Digits, Private, Separators, F
    <3>3. \A b \in M : b # "[" /\ b \notin Finals
      BY ONLY DEF Intermediates, Finals, M
    <3>4. \A b \in M : b \notin Digits /\ b \notin Private /\ b \notin Separators
      BY ONLY DEF Intermediates, Digits, Private, Separators, M
    <3>5. "[" \notin F
      BY ONLY DEF Finals, Digits, Private, Separators, F
    <3> QED BY <3>1, <3>2, <3>3, <3>4, <3>5 DEF F
  <2>3. x = CASE c = "[" -> StartCSI(r)
    [] c \in D -> StringStart(r, StringKind[c])
    [] c \in Specials -> [r EXCEPT !.win = [Special(@, c) EXCEPT !.state = "LIT"]]
    [] c \in M -> [r EXCEPT !.win.im = im]
    [] c \in F -> [r EXCEPT !.win = [DoESC(@, c, w.im) EXCEPT !.state = "LIT"]]
    [] OTHER -> reread
    BY DEF EscapeByte
  <2> HIDE DEF M, F, D, x
  <2>4. CASE c = "["
    BY ONLY <2>1, <2>2, <2>3, <2>4
  <2>5. CASE c \in D
    BY ONLY <2>1, <2>2, <2>3, <2>5 DEF D
  <2>6. CASE c \in Specials
    BY ONLY <2>1, <2>2, <2>3, <2>6
  <2>7. CASE c \in M
    BY ONLY <2>1, <2>2, <2>3, <2>7
  <2>8. CASE c \in F
    BY ONLY <2>1, <2>2, <2>3, <2>8
  <2>9. CASE c # "[" /\ c \notin D /\ c \notin Specials /\ c \notin M /\ c \notin F
    BY ONLY <2>3, <2>9
  <2> QED BY ONLY <2>4, <2>5, <2>6, <2>7, <2>8, <2>9
<1>8. Fine(StartCSI(r), r) /\ Fine(reread, r)
  BY StartCSIFine, RereadFine
<1> HIDE DEF x, im, reread
<1>3. ASSUME NEW u, Near(u, w)
      PROVE  Fine([r EXCEPT !.win = [u EXCEPT !.state = "LIT"]], r)
  <2> DEFINE v == [u EXCEPT !.state = "LIT"]
  <2>1. Near(v, w)
    BY <1>3 DEF Near, Same, IsWin, WinFields
  <2> HIDE DEF v
  <2>2. Fine([r EXCEPT !.win = v], r)
    BY <2>1, NearFine
  <2> QED BY <2>2 DEF v
<1>4. CASE x = [r EXCEPT !.win = [Special(@, c) EXCEPT !.state = "LIT"]]
  <2> DEFINE u == Special(w, c)
  <2>1. Near(u, w)
    BY <1>1, SpecialLike, LikeNear
  <2>2. x = [r EXCEPT !.win = [u EXCEPT !.state = "LIT"]]
    BY <1>1, <1>4 DEF IsRec
  <2> HIDE DEF u
  <2>3. Fine([r EXCEPT !.win = [u EXCEPT !.state = "LIT"]], r)
    BY ONLY <1>3, <2>1, Zenon
  <2> QED BY ONLY <2>2, <2>3
<1>5. CASE x = [r EXCEPT !.win = [DoESC(@, c, w.im) EXCEPT !.state = "LIT"]]
  <2> DEFINE u == DoESC(w, c, w.im)
  <2>1. Near(u, w)
    BY <1>1, DoESCNear
  <2>2. x = [r EXCEPT !.win = [u EXCEPT !.state = "LIT"]]
    BY <1>1, <1>5 DEF IsRec
  <2> HIDE DEF u
  <2>3. Fine([r EXCEPT !.win = [u EXCEPT !.state = "LIT"]], r)
    BY ONLY <1>3, <2>1, Zenon
  <2> QED BY ONLY <2>2, <2>3
<1>6. CASE x = [r EXCEPT !.win.im = im]
  <2> DEFINE v == [w EXCEPT !.im = im]
  <2>1. /\ IsWin(v) /\ v.state = w.state /\ v.str = w.str /\ v.outbuf = w.outbuf /\ v.utf8 = w.utf8
        /\ v.num = w.num /\ v.args = w.args
    BY <1>1 DEF IsWin, WinFields
  <2>2. x = [r EXCEPT !.win = v]
    BY <1>1, <1>6 DEF IsRec, IsWin, WinFields
  <2> HIDE DEF v
  <2>3. IsRec(x) /\ x.win = v /\ x.raw = r.raw /\ x.printed = r.printed /\ x.job = r.job
    BY ONLY <1>1, <2>2 DEF IsRec
  <2>4. Shape(x)
    BY <2>1, <2>3 DEF Shape
  <2>5. Sound(x)
    BY <2>1, <2>3, <2>4, EndedSound
  <2>6. Same(x.win, r.win)
    BY <2>1, <2>3 DEF Same
  <2> QED BY <2>5, <2>6 DEF Fine
<1>7. CASE c \in DOMAIN StringKind /\ x = StringStart(r, StringKind[c])
  <2>1. StringKind[c] \in StringKinds
    BY <1>7 DEF StringKind, StringKinds
  <2>2. Fine(StringStart(r, StringKind[c]), r)
    BY <2>1, StringStartFine
  <2> QED BY ONLY <1>7, <2>2
<1> QED BY ONLY <1>2, <1>4, <1>5, <1>6, <1>7, <1>8

-----------------------------------------------------------------------------
(* Strings                                                                 *)

LEMMA MessageBeside == ASSUME NEW r, Shape(r), NEW S PROVE Beside(Message(r, S), r)
<1> DEFINE e == [r.dis EXCEPT !.status = IF SelectSeq(r.win.str, LAMBDA c : c \notin Controls) = <<>> THEN @ ELSE @ \cup (S \ Hard)]
           x == Message(r, S)
<1>1. IsRec(r) /\ IsWin(r.win)
  BY DEF Shape
<1>2. x = [r EXCEPT !.dis = e]
  BY <1>1 DEF Message, IsRec
<1> HIDE DEF e, x
<1>3. IsRec(x) /\ x.win = r.win /\ x.raw = r.raw /\ x.printed = r.printed /\ x.job = r.job
  BY <1>1, <1>2 DEF IsRec
<1>4. Beside(x, r)
  BY <1>1, <1>3, LikeItself DEF Beside
<1> QED BY <1>4 DEF x

\* A string ends, and with it the collecting of its text.
LEMMA EndStringFine ==
  ASSUME NEW r, Shape(r), r.win.state \in {"ASTR", "STRESC"}, r.job = "none"
  PROVE  Fine(EndString(r), r)
<1> DEFINE q == [r EXCEPT !.win.state = "LIT"]
           y == StringEnd(r)
           x == EndString(r)
<1>1. Moved(q, r, "LIT")
  BY SetLit
<1>2. IsRec(q) /\ IsWin(q.win) /\ Shape(q)
  BY <1>1 DEF Shape, Moved
<1>3. \/ y = q
      \/ y = [q EXCEPT !.win.hstatus = OscValue(r.win.str)[1]]
      \/ y = [q EXCEPT !.win.hstatus = r.win.str]
      \/ y = Message(q, Shown(r))
      \/ y = Message(q, r.dis.on)
      \/ y = [q EXCEPT !.win.title = Printable(r.win.str)]
  <2>1. r.win.kind \in StringKinds
    BY DEF Shape
  <2>2. y = CASE r.win.kind = "OSC" -> IF OscValue(r.win.str) = <<>> THEN q ELSE [q EXCEPT !.win.hstatus = OscValue(r.win.str)[1]]
    [] r.win.kind = "APC" -> [q EXCEPT !.win.hstatus = r.win.str]
    [] r.win.kind = "PM" -> Message(q, Shown(r))
    [] r.win.kind = "GM" -> Message(q, r.dis.on)
    [] r.win.kind = "AKA" -> IF r.win.str = <<>> THEN q ELSE [q EXCEPT !.win.title = Printable(r.win.str)]
    [] r.win.kind = "DCS" -> q
    BY DEF StringEnd
  <2> HIDE DEF q, y
  <2> QED BY ONLY <2>1, <2>2 DEF StringKinds
<1> HIDE DEF q, y
<1>4. \A v : Like(v, q.win) => Beside([q EXCEPT !.win = v], q)
  BY <1>2, SetBeside
<1>5. \A h : Beside([q EXCEPT !.win.hstatus = h], q) /\ Beside([q EXCEPT !.win.title = h], q)
  <2> TAKE h
  <2> DEFINE u == [q.win EXCEPT !.hstatus = h]
             v == [q.win EXCEPT !.title = h]
  <2>1. Like(u, q.win) /\ Like(v, q.win)
    BY <1>2 DEF Like, IsWin, WinFields
  <2>2. [q EXCEPT !.win.hstatus = h] = [q EXCEPT !.win = u] /\ [q EXCEPT !.win.title = h] = [q EXCEPT !.win = v]
    BY <1>2 DEF IsRec
  <2> HIDE DEF u, v
  <2>3. Beside([q EXCEPT !.win = u], q) /\ Beside([q EXCEPT !.win = v], q)
    BY <1>2, <2>1, SetBeside
  <2> QED BY ONLY <2>2, <2>3
<1>6. Beside(Message(q, Shown(r)), q) /\ Beside(Message(q, r.dis.on), q)
  BY <1>2, MessageBeside
<1>7. Beside(q, q)
  BY <1>2, LikeItself DEF Beside
<1>8. Beside(y, q)
  <2>1. Beside([q EXCEPT !.win.hstatus = OscValue(r.win.str)[1]], q)
    BY ONLY <1>5, Zenon
  <2>2. Beside([q EXCEPT !.win.hstatus = r.win.str], q)
    BY ONLY <1>5, Zenon
  <2>3. Beside([q EXCEPT !.win.title = Printable(r.win.str)], q)
    BY ONLY <1>5, Zenon
  <2> QED BY ONLY <1>3, <1>6, <1>7, <2>1, <2>2, <2>3
<1>9. Shape(y) /\ Same(y.win, q.win) /\ y.win.state = "LIT" /\ y.job = "none"
  BY <1>1, <1>2, <1>8, BesideShape DEF Moved
<1>10. x = y \/ x = [y EXCEPT !.win.stop = TRUE]
  BY DEF EndString, y
<1> HIDE DEF x
<1>11. Beside(x, y)
  <2> DEFINE u == [y.win EXCEPT !.stop = TRUE]
  <2>1. IsRec(y) /\ IsWin(y.win)
    BY <1>9 DEF Shape
  <2>2. Like(u, y.win) /\ Like(y.win, y.win)
    BY <2>1, LikeItself DEF Like, IsWin, WinFields
  <2>3. x = y \/ x = [y EXCEPT !.win = u]
    BY <1>10, <2>1 DEF IsRec
  <2> HIDE DEF u
  <2>4. Beside([y EXCEPT !.win = u], y) /\ Beside(y, y)
    BY <2>1, <2>2, SetBeside DEF Beside
  <2> QED BY ONLY <2>3, <2>4
<1>12. Shape(x) /\ Same(x.win, y.win) /\ x.win.state = "LIT" /\ x.job = "none"
  BY <1>9, <1>11, BesideShape
<1>13. Sound(x)
  BY <1>12, EndedSound
<1>14. Fine(x, r)
  BY <1>1, <1>9, <1>12, <1>13 DEF Fine, Same, Moved
<1> QED BY <1>14 DEF x

\* A character of a string, unless the string is too long.
LEMMA StringCharIs ==
  ASSUME NEW r, Shape(r), NEW c \in Chars
  PROVE  LET x == StringChar(r, c) IN
         /\ Shape(x) /\ Same(x.win, r.win) /\ x.raw = r.raw /\ x.job = r.job
         /\ \/ x.win.state = "LIT"
            \/ x.win.state = r.win.state /\ x.win.str = Append(r.win.str, Byte(c))
<1> DEFINE w == r.win
           x == StringChar(r, c)
           v == [w EXCEPT !.str = Append(@, Byte(c))]
<1>1. IsRec(r) /\ IsWin(w) /\ w.str \in Seq(Chars)
  BY DEF Shape, Texts
<1>2. CASE Len(w.str) >= MaxStr - 1
  <2>1. x = [r EXCEPT !.win.state = "LIT"]
    BY <1>2 DEF StringChar
  <2> HIDE DEF x
  <2>2. Moved(x, r, "LIT")
    BY <2>1, SetLit
  <2>3. Shape(x) /\ Same(x.win, r.win) /\ x.raw = r.raw /\ x.job = r.job /\ x.win.state = "LIT"
    BY <2>2 DEF Moved
  <2> QED BY <2>3 DEF x
<1>3. CASE ~(Len(w.str) >= MaxStr - 1)
  <2>1. x = [r EXCEPT !.win = v]
    BY <1>1, <1>3 DEF StringChar, IsRec, IsWin, WinFields
  <2>2. /\ IsWin(v) /\ v.state = w.state /\ v.kind = w.kind /\ v.num = w.num /\ v.args = w.args
        /\ v.str = Append(w.str, Byte(c)) /\ v.outbuf = w.outbuf /\ v.utf8 = w.utf8
    BY <1>1 DEF IsWin, WinFields
  <2> HIDE DEF v, x
  <2>3. IsRec(x) /\ x.win = v /\ x.raw = r.raw /\ x.printed = r.printed /\ x.job = r.job
    BY ONLY <1>1, <2>1 DEF IsRec
  <2>4. v.str \in Seq(Chars)
    <3>1. Byte(c) \in Chars
      BY DEF Byte, Chars
    <3> HIDE DEF w
    <3> QED BY ONLY <1>1, <2>2, <3>1
  <2>5. Shape(x)
    BY <2>2, <2>3, <2>4 DEF Shape, Texts
  <2>6. Shape(x) /\ Same(x.win, r.win) /\ x.raw = r.raw /\ x.job = r.job
        /\ x.win.state = r.win.state /\ x.win.str = Append(r.win.str, Byte(c))
    BY <2>2, <2>3, <2>5 DEF Same
  <2> QED BY <2>6 DEF x
<1> QED BY <1>2, <1>3

LEMMA HeldIs ==
  /\ Held("ASTR") = <<>> /\ Held("STRESC") = <<"esc">> /\ Held("PRIN") = <<>> /\ Held("PRINESC") = <<"esc">>
  /\ Held("PRINCSI") = <<"esc", "[">> /\ Held("PRIN4") = <<"esc", "[", "4">> /\ Held("LIT") = <<>>
  BY DEF Held

LEMMA Joined == ASSUME NEW S, NEW s \in Seq(S), NEW c \in S PROVE s \o <<c>> = Append(s, c)
  OBVIOUS

LEMMA JoinedNone == ASSUME NEW S, NEW s \in Seq(S) PROVE s \o <<>> = s
  OBVIOUS

\* The string, and what of it is still held back, are those of s.
LEMMA StringSound ==
  ASSUME NEW x, Shape(x), x.win.state \in {"ASTR", "STRESC"}, x.job = "none",
         ~x.win.utf8 => WithoutNul(x.win.str \o Held(x.win.state)) = WithoutNul(x.raw)
  PROVE  Sound(x)
  BY DEF Sound, Jobs, Strings, Parameters, Prints

LEMMA StringCharFine ==
  ASSUME NEW r, Shape(r), r.win.state \in {"ASTR", "STRESC"}, r.job = "none", NEW c \in Chars,
         NEW x, x = StringChar(r, c),
         r.win.state = x.win.state /\ ~x.win.utf8 /\ x.win.str = Append(r.win.str, Byte(c))
           => WithoutNul(x.win.str \o Held(x.win.state)) = WithoutNul(r.raw)
  PROVE  Fine(x, r)
<1>1. /\ Shape(x) /\ Same(x.win, r.win) /\ x.raw = r.raw /\ x.job = r.job
      /\ \/ x.win.state = "LIT"
         \/ x.win.state = r.win.state /\ x.win.str = Append(r.win.str, Byte(c))
  BY StringCharIs
<1>2. CASE x.win.state = "LIT"
  BY <1>1, <1>2, EndedSound DEF Fine
<1>3. CASE x.win.state = r.win.state /\ x.win.str = Append(r.win.str, Byte(c))
  <2>1. Sound(x)
    BY <1>1, <1>3, StringSound
  <2> QED BY <1>1, <2>1 DEF Fine
<1> QED BY <1>1, <1>2, <1>3

LEMMA StringByteFine ==
  ASSUME NEW r, Shape(r), r.win.state = "ASTR", r.job = "none",
         NEW s \in Texts, NEW c \in Chars, r.raw = Append(s, c), ~r.win.utf8 => c \notin Points,
         ~r.win.utf8 => WithoutNul(r.win.str) = WithoutNul(s)
  PROVE  Fine(StringByte(r, c), r)
<1> DEFINE w == r.win
           x == StringByte(r, c)
           t == w.str
<1> SUFFICES Fine(x, r)
  OBVIOUS
<1>1. IsRec(r) /\ IsWin(w) /\ t \in Seq(Chars) /\ s \in Seq(Chars) /\ w.kind \in StringKinds /\ "esc" \in Chars
  BY DEF Shape, Texts, Chars
<1>2. WithoutNul(r.raw) = IF c = "nul" THEN WithoutNul(s) ELSE Append(WithoutNul(s), c)
  BY <1>1, WithoutNulNext
<1>3. \/ c = "nul" /\ x = r
      \/ c = "esc" /\ x = [r EXCEPT !.win.state = "STRESC"]
      \/ x = EndString(r)
      \/ c \notin {"nul", "esc"} /\ x = StringChar(r, c)
  <2>1. c = "nul" => x = r
    BY DEF StringByte
  <2>2. c = "esc" => x = [r EXCEPT !.win.state = "STRESC"]
    BY DEF StringByte
  <2>3. c \notin {"nul", "esc"} => x \in {EndString(r), StringChar(r, c)}
    BY DEF StringByte
  <2> QED BY <2>1, <2>2, <2>3
<1> HIDE DEF x
<1>4. CASE c = "nul" /\ x = r
  <2>1. t \o Held("ASTR") = t
    BY <1>1, HeldIs, JoinedNone
  <2>2. Sound(r)
    BY <1>2, <1>4, <2>1, StringSound
  <2> QED BY <1>4, <2>2 DEF Fine, Same
<1>5. CASE c = "esc" /\ x = [r EXCEPT !.win.state = "STRESC"]
  <2>1. "STRESC" \in States
    BY DEF States
  <2>2. Moved([r EXCEPT !.win.state = "STRESC"], r, "STRESC")
    BY ONLY <1>1, <2>1, SetState, Shape(r), Zenon
  <2>3. Moved(x, r, "STRESC")
    BY ONLY <1>5, <2>2
  <2>4. t \o Held("STRESC") = Append(t, "esc")
    BY <1>1, HeldIs, Joined
  <2>5. WithoutNul(Append(t, "esc")) = Append(WithoutNul(t), "esc")
    BY <1>1, WithoutNulNext
  <2>6. ~x.win.utf8 => WithoutNul(x.win.str \o Held(x.win.state)) = WithoutNul(x.raw)
    BY <1>2, <1>5, <2>3, <2>4, <2>5 DEF Moved, Same
  <2>7. Sound(x)
    BY <2>3, <2>6, StringSound DEF Moved
  <2> QED BY <2>3, <2>7 DEF Moved, Fine
<1>6. CASE c \notin {"nul", "esc"} /\ x = StringChar(r, c)
  <2>1. ~r.win.utf8 => Byte(c) = c
    BY DEF Byte
  <2>2. WithoutNul(Append(t, c)) = Append(WithoutNul(t), c)
    BY <1>1, <1>6, WithoutNulNext
  <2>3. Append(t, c) \o Held("ASTR") = Append(t, c)
    BY <1>1, HeldIs, JoinedNone
  <2>4. x.win.utf8 = r.win.utf8
    BY <1>6, StringCharIs DEF Same
  <2>5. ASSUME x.win.state = r.win.state, ~x.win.utf8, x.win.str = Append(r.win.str, Byte(c))
        PROVE  WithoutNul(x.win.str \o Held(x.win.state)) = WithoutNul(r.raw)
    BY <1>2, <1>6, <2>1, <2>2, <2>3, <2>4, <2>5
  <2> QED BY <1>6, <2>5, StringCharFine
<1>7. CASE x = EndString(r)
  BY <1>7, EndStringFine
<1> QED BY ONLY <1>3, <1>4, <1>5, <1>6, <1>7

LEMMA EscapedByteFine ==
  ASSUME NEW r, Shape(r), r.win.state = "STRESC", r.job = "none",
         NEW s \in Texts, NEW c \in Chars, r.raw = Append(s, c), ~r.win.utf8 => c \notin Points,
         ~r.win.utf8 => WithoutNul(r.win.str \o <<"esc">>) = WithoutNul(s)
  PROVE  Fine(EscapedByte(r, c), r)
<1> DEFINE w == r.win
           x == EscapedByte(r, c)
           t == w.str
           te == Append(t, "esc")
           q == [r EXCEPT !.win.state = "ASTR"]
           y == StringChar(q, "esc")
<1> SUFFICES Fine(x, r)
  OBVIOUS
<1>1. IsRec(r) /\ IsWin(w) /\ t \in Seq(Chars) /\ s \in Seq(Chars) /\ w.kind \in StringKinds /\ "esc" \in Chars
  BY DEF Shape, Texts, Chars
<1>2. WithoutNul(r.raw) = IF c = "nul" THEN WithoutNul(s) ELSE Append(WithoutNul(s), c)
  BY <1>1, WithoutNulNext
<1>3. te \in Seq(Chars) /\ t \o <<"esc">> = te
  BY <1>1, Joined
<1>4. Byte("esc") = "esc" /\ (~r.win.utf8 => Byte(c) = c)
  BY DEF Byte, Points
<1>5. \/ x = EndString(r)
      \/ c = "esc" /\ x = StringChar(r, "esc")
      \/ x = StringChar(y, c)
  BY DEF EscapedByte
<1> HIDE DEF x, te
<1>6. CASE x = EndString(r)
  BY <1>6, EndStringFine
<1>7. CASE c = "esc" /\ x = StringChar(r, "esc")
  <2>1. x.win.utf8 = r.win.utf8
    BY <1>1, <1>7, StringCharIs DEF Same
  <2>2. te \o Held("STRESC") = Append(te, "esc")
    BY <1>1, <1>3, HeldIs, Joined
  <2>3. WithoutNul(Append(te, "esc")) = Append(WithoutNul(te), "esc")
    BY <1>1, <1>3, WithoutNulNext
  <2>4. ASSUME x.win.state = r.win.state, ~x.win.utf8, x.win.str = Append(r.win.str, Byte("esc"))
        PROVE  WithoutNul(x.win.str \o Held(x.win.state)) = WithoutNul(r.raw)
    BY <1>2, <1>3, <1>4, <1>7, <2>1, <2>2, <2>3, <2>4 DEF te
  <2> QED BY <1>1, <1>7, <2>4, StringCharFine
<1>8. CASE x = StringChar(y, c)
  <2>1. "ASTR" \in States
    BY DEF States
  <2>2. Moved(q, r, "ASTR")
    BY ONLY <1>1, <2>1, SetState, Shape(r), Zenon
  <2> HIDE DEF q
  <2>3. /\ Shape(y) /\ Same(y.win, q.win) /\ y.raw = q.raw /\ y.job = q.job
        /\ \/ y.win.state = "LIT"
           \/ y.win.state = "ASTR" /\ y.win.str = te
    BY <1>1, <1>4, <2>2, StringCharIs DEF Moved, te
  <2> HIDE DEF y
  <2>4. /\ Shape(x) /\ Same(x.win, y.win) /\ x.raw = y.raw /\ x.job = y.job
        /\ \/ x.win.state = "LIT"
           \/ x.win.state = y.win.state /\ x.win.str = Append(y.win.str, Byte(c))
    BY <1>8, <2>3, StringCharIs
  <2>5. Same(x.win, r.win) /\ x.raw = r.raw /\ x.job = "none"
    BY <2>2, <2>3, <2>4 DEF Same, Moved
  <2>6. CASE x.win.state = "LIT"
    BY <2>4, <2>5, <2>6, EndedSound DEF Fine
  <2>7. CASE x.win.state = "ASTR" /\ y.win.str = te /\ x.win.str = Append(te, Byte(c))
    <3>1. WithoutNul(Append(te, c)) = IF c = "nul" THEN WithoutNul(te) ELSE Append(WithoutNul(te), c)
      BY <1>3, WithoutNulNext
    <3>2. Append(te, c) \o Held("ASTR") = Append(te, c)
      BY <1>3, HeldIs, JoinedNone
    <3>3. ~x.win.utf8 => WithoutNul(x.win.str \o Held(x.win.state)) = WithoutNul(x.raw)
      BY <1>2, <1>3, <1>4, <2>5, <2>7, <3>1, <3>2 DEF Same
    <3>4. Sound(x)
      BY <2>4, <2>5, <2>7, <3>3, StringSound
    <3> QED BY <2>5, <3>4 DEF Fine
  <2> QED BY ONLY <2>3, <2>4, <2>6, <2>7
<1> QED BY ONLY <1>5, <1>6, <1>7, <1>8

-----------------------------------------------------------------------------
(* Printing                                                                *)

LEMMA ConcatAppend ==
  ASSUME NEW S, NEW a \in Seq(S), NEW b \in Seq(S), NEW c \in S
  PROVE  a \o Append(b, c) = Append(a \o b, c)
<1>1. <<c>> \in Seq(S) /\ a \o b \in Seq(S)
  BY ConcatProperties
<1>2. Append(b, c) = b \o <<c>> /\ Append(a \o b, c) = (a \o b) \o <<c>>
  BY <1>1, Joined
<1>3. (a \o b) \o <<c>> = a \o (b \o <<c>>)
  BY <1>1, ConcatAssociative
<1> QED BY <1>2, <1>3

\* What has been collected of a print job.
SoFar(r) == r.printed \o r.win.str

\* A step of printing: the job is lost, or it has grown by s.
Printed(x, r, s) ==
  /\ Shape(x) /\ Same(x.win, r.win) /\ x.win.state = r.win.state /\ x.raw = r.raw
  /\ x.job = "lost" \/ (x.job = r.job /\ SoFar(x) = SoFar(r) \o s)

LEMMA PrintFlushIs ==
  ASSUME NEW r, Shape(r)
  PROVE  Printed(PrintFlush(r), r, <<>>) /\ PrintFlush(r).win.str = <<>>
<1> DEFINE w == r.win
           d == w.pdisplay
           gone == w.str # <<>> /\ (d = None \/ (r.dis.printcmd /\ (d \notin r.dis.pipes \/ ~r.dis.printer)))
           v == [w EXCEPT !.str = <<>>]
           p == IF gone THEN r.printed ELSE r.printed \o w.str
           j == IF gone THEN "lost" ELSE r.job
           e == [r.dis EXCEPT !.pipes = IF gone /\ r.dis.printcmd THEN @ \ {d} ELSE @]
           x == PrintFlush(r)
<1>1. IsRec(r) /\ IsWin(w) /\ w.str \in Seq(Chars) /\ r.printed \in Seq(Chars)
  BY DEF Shape, Texts
<1>2. x = [r EXCEPT !.win = v, !.printed = p, !.job = j, !.dis = e]
  BY <1>1 DEF PrintFlush, IsRec
<1>3. /\ IsWin(v) /\ v.state = w.state /\ v.kind = w.kind /\ v.num = w.num /\ v.args = w.args
      /\ v.str = <<>> /\ v.outbuf = w.outbuf /\ v.utf8 = w.utf8
  BY <1>1 DEF IsWin, WinFields
<1> HIDE DEF v, e, x, p, j
<1>4. IsRec(x) /\ x.win = v /\ x.raw = r.raw /\ x.printed = p /\ x.job = j
  BY ONLY <1>1, <1>2 DEF IsRec
<1>5. r.printed \o w.str \in Seq(Chars)
  BY <1>1, ConcatProperties
<1>6. p \in Seq(Chars) /\ <<>> \in Seq(Chars)
  BY <1>1, <1>5 DEF p
<1>7. Shape(x)
  BY <1>3, <1>4, <1>6 DEF Shape, Texts
<1>8. SoFar(x) = p
  BY <1>3, <1>4, <1>6, JoinedNone DEF SoFar
<1>9. SoFar(r) \o <<>> = r.printed \o w.str
  BY <1>5, JoinedNone DEF SoFar
<1>10. x.job = "lost" \/ (x.job = r.job /\ SoFar(x) = SoFar(r) \o <<>>)
  BY <1>4, <1>8, <1>9 DEF p, j
<1>11. Printed(x, r, <<>>) /\ x.win.str = <<>>
  BY <1>3, <1>4, <1>7, <1>10 DEF Printed, Same
<1> QED BY <1>11 DEF x

LEMMA PrintedAfter ==
  ASSUME NEW r, Shape(r), NEW x, NEW y, NEW s \in Texts, NEW c \in Chars,
         Printed(x, r, s), Printed(y, x, <<c>>)
  PROVE  Printed(y, r, Append(s, c))
<1>1. r.printed \in Seq(Chars) /\ r.win.str \in Seq(Chars) /\ s \in Seq(Chars)
  BY DEF Shape, Texts
<1>2. SoFar(r) \in Seq(Chars)
  BY <1>1, ConcatProperties DEF SoFar
<1>3. SoFar(r) \o s \in Seq(Chars)
  BY <1>1, <1>2, ConcatProperties
<1>4. (SoFar(r) \o s) \o <<c>> = Append(SoFar(r) \o s, c)
  BY <1>3, Joined
<1>5. SoFar(r) \o Append(s, c) = Append(SoFar(r) \o s, c)
  BY <1>1, <1>2, ConcatAppend
<1>6. y.job = "lost" \/ (y.job = r.job /\ SoFar(y) = SoFar(r) \o Append(s, c))
  BY <1>4, <1>5 DEF Printed
<1> QED BY <1>6 DEF Printed, Same

LEMMA PrintCharIs ==
  ASSUME NEW r, Shape(r), NEW c \in Chars
  PROVE  Printed(PrintChar(r, c), r, <<Byte(c)>>)
<1> DEFINE q == IF Len(r.win.str) >= MaxStr - 1 THEN PrintFlush(r) ELSE r
           w == q.win
           b == Byte(c)
           v == [w EXCEPT !.str = Append(@, b)]
           x == PrintChar(r, c)
<1>1. Printed(q, r, <<>>)
  <2>1. SoFar(r) \o <<>> = SoFar(r)
    <3>1. r.printed \in Seq(Chars) /\ r.win.str \in Seq(Chars)
      BY DEF Shape, Texts
    <3>2. SoFar(r) \in Seq(Chars)
      BY <3>1, ConcatProperties DEF SoFar
    <3> QED BY <3>2, JoinedNone
  <2>2. Printed(r, r, <<>>)
    BY <2>1 DEF Printed, Same
  <2> QED BY <2>2, PrintFlushIs
<1>2. x = [q EXCEPT !.win.str = Append(@, b)]
  BY DEF PrintChar
<1> HIDE DEF q, x
<1>3. IsRec(q) /\ IsWin(w) /\ w.str \in Seq(Chars) /\ q.printed \in Seq(Chars) /\ Shape(q)
  BY <1>1 DEF Printed, Shape, Texts
<1>4. b \in Chars
  BY DEF Byte, Chars
<1>5. x = [q EXCEPT !.win = v]
  BY <1>2, <1>3 DEF IsRec, IsWin, WinFields
<1>6. /\ IsWin(v) /\ v.state = w.state /\ v.kind = w.kind /\ v.num = w.num /\ v.args = w.args
      /\ v.str = Append(w.str, b) /\ v.outbuf = w.outbuf /\ v.utf8 = w.utf8
  BY <1>3 DEF IsWin, WinFields
<1> HIDE DEF v
<1>7. IsRec(x) /\ x.win = v /\ x.raw = q.raw /\ x.printed = q.printed /\ x.job = q.job
  BY ONLY <1>3, <1>5 DEF IsRec
<1> HIDE DEF b
<1>8. v.str \in Seq(Chars)
  <2> HIDE DEF w
  <2> QED BY ONLY <1>3, <1>4, <1>6
<1>9. Shape(x)
  BY <1>3, <1>6, <1>7, <1>8 DEF Shape, Texts
<1>10. SoFar(x) = SoFar(q) \o <<b>>
  <2>1. SoFar(q) \in Seq(Chars)
    BY <1>3, ConcatProperties DEF SoFar
  <2>2. SoFar(q) \o <<b>> = Append(SoFar(q), b)
    BY <1>4, <2>1, Joined
  <2>3. q.printed \o Append(w.str, b) = Append(q.printed \o w.str, b)
    <3> HIDE DEF w
    <3>1. q.printed \in Seq(Chars) /\ w.str \in Seq(Chars) /\ b \in Chars
      BY <1>3, <1>4
    <3>2. \A f, g \in Seq(Chars), e \in Chars : f \o Append(g, e) = Append(f \o g, e)
      BY ConcatAppend
    <3> QED BY ONLY <3>1, <3>2, Zenon
  <2> QED BY <1>6, <1>7, <2>2, <2>3 DEF SoFar
<1>11. Printed(x, q, <<b>>)
  BY <1>6, <1>7, <1>9, <1>10 DEF Printed, Same
<1>12. <<>> \in Texts /\ Append(<<>>, b) = <<b>>
  BY DEF Texts
<1>13. Printed(x, r, Append(<<>>, b))
  BY <1>1, <1>4, <1>11, <1>12, PrintedAfter
<1>14. Printed(x, r, <<b>>)
  BY <1>12, <1>13
<1> QED BY <1>14 DEF x, b

\* What PrintChars prints, as far as it fits a char.
LEMMA PrintCharsPrinted ==
  ASSUME NEW r, Shape(r), NEW s \in Texts, \A i \in 1..Len(s) : s[i] \notin Points
  PROVE  Printed(PrintChars(r, s), r, s)
<1> DEFINE N == Len(s)
           To(k) == SubSeq(s, 1, k)
<1>1. s \in Seq(Chars) /\ N \in Nat /\ \A i \in 1..N : s[i] \in Chars
  BY DEF Texts
<1>0. PICK h : Puts(h, r, s, N)
  BY ONLY <1>1, PrintCharsIs
<1>2. /\ h[0] = r /\ h[N] = PrintChars(r, s)
      /\ \A k \in 1..N : h[k] = PrintChar(h[k - 1], s[k])
  BY ONLY <1>0 DEF Puts
<1>3. To(N) = s /\ To(0) = <<>>
  BY <1>1, SubSeqFull, SubSeqEmpty
<1>4. \A k \in 1..N : To(k) = Append(To(k - 1), s[k]) /\ To(k - 1) \in Texts
  <2> TAKE k \in 1..N
  <2>1. SubSeq(s, 1, k) = SubSeq(s, 1, k - 1) \o <<s[k]>>
    BY <1>1, SubSeqRecursiveSecond
  <2>2. SubSeq(s, 1, k - 1) \in Seq(Chars)
    BY <1>1
  <2>3. s[k] \in Chars
    BY <1>1
  <2> HIDE DEF To
  <2> QED BY <2>1, <2>2, <2>3, Joined DEF To, Texts
<1> DEFINE G == {k \in 0..N : Printed(h[k], r, To(k))}
<1> HIDE DEF To, N
<1>5. 0 \in G
  <2>1. SoFar(r) \o <<>> = SoFar(r)
    <3>1. r.printed \in Seq(Chars) /\ r.win.str \in Seq(Chars)
      BY DEF Shape, Texts
    <3>2. SoFar(r) \in Seq(Chars)
      BY <3>1, ConcatProperties DEF SoFar
    <3> QED BY <3>2, JoinedNone
  <2>2. Printed(r, r, <<>>)
    BY <2>1 DEF Printed, Same
  <2> QED BY <1>1, <1>2, <1>3, <2>2
<1>6. \A i \in 0..(N - 1) : i \in G => i + 1 \in G
  <2> SUFFICES ASSUME NEW i \in 0..(N - 1), Printed(h[i], r, To(i))
               PROVE  Printed(h[i + 1], r, To(i + 1))
    BY <1>1
  <2> DEFINE k == i + 1
  <2>1. k \in 1..N /\ k - 1 = i
    BY <1>1
  <2> HIDE DEF k
  <2>2. h[k] = PrintChar(h[i], s[k]) /\ To(k) = Append(To(i), s[k]) /\ To(i) \in Texts /\ s[k] \in Chars
    BY <1>1, <1>2, <1>4, <2>1
  <2>3. Byte(s[k]) = s[k]
    BY <2>1 DEF Byte, N
  <2>4. Shape(h[i])
    BY DEF Printed
  <2>5. Printed(h[k], h[i], <<s[k]>>)
    <3>1. Printed(PrintChar(h[i], s[k]), h[i], <<Byte(s[k])>>)
      BY <2>2, <2>4, PrintCharIs
    <3> QED BY ONLY <2>2, <2>3, <3>1
  <2>6. Printed(h[k], r, Append(To(i), s[k]))
    BY <2>2, <2>5, PrintedAfter
  <2> QED BY ONLY <2>2, <2>6 DEF k
<1>7. G = 0..N
  <2>1. G \in SUBSET (0..N)
    OBVIOUS
  <2> HIDE DEF G
  <2> QED BY <1>1, <1>5, <1>6, <2>1, UpTo
<1>8. Printed(h[N], r, To(N))
  <2>1. N \in G
    BY ONLY <1>1, <1>7
  <2> QED BY <2>1
<1> QED BY ONLY <1>2, <1>3, <1>8

\* The shape stays whatever is printed.
LEMMA PrintCharsShape ==
  ASSUME NEW r, Shape(r), NEW s \in Texts
  PROVE  LET x == PrintChars(r, s) IN
         Shape(x) /\ Same(x.win, r.win) /\ x.win.state = r.win.state /\ x.raw = r.raw /\ x.job \in {r.job, "lost"}
<1> DEFINE N == Len(s)
           Good(x) == Shape(x) /\ Same(x.win, r.win) /\ x.win.state = r.win.state /\ x.raw = r.raw /\ x.job \in {r.job, "lost"}
<1>1. s \in Seq(Chars) /\ N \in Nat /\ \A i \in 1..N : s[i] \in Chars
  BY DEF Texts
<1>0. PICK h : Puts(h, r, s, N)
  BY ONLY <1>1, PrintCharsIs
<1>2. /\ h[0] = r /\ h[N] = PrintChars(r, s)
      /\ \A k \in 1..N : h[k] = PrintChar(h[k - 1], s[k])
  BY ONLY <1>0 DEF Puts
<1> DEFINE G == {k \in 0..N : Good(h[k])}
<1> HIDE DEF N
<1>3. 0 \in G
  BY <1>1, <1>2 DEF Same
<1>4. \A i \in 0..(N - 1) : i \in G => i + 1 \in G
  <2> SUFFICES ASSUME NEW i \in 0..(N - 1), Good(h[i])
               PROVE  Good(h[i + 1])
    BY <1>1
  <2> DEFINE k == i + 1
  <2>1. k \in 1..N /\ k - 1 = i
    BY <1>1
  <2> HIDE DEF k
  <2>2. h[k] = PrintChar(h[i], s[k]) /\ s[k] \in Chars
    BY <1>1, <1>2, <2>1
  <2>3. Printed(h[k], h[i], <<Byte(s[k])>>)
    BY <2>2, PrintCharIs
  <2>4. Good(h[k])
    BY <2>3 DEF Printed, Same
  <2> QED BY ONLY <2>4 DEF k
<1>5. G = 0..N
  <2>1. G \in SUBSET (0..N)
    OBVIOUS
  <2> HIDE DEF G
  <2> QED BY <1>1, <1>3, <1>4, <2>1, UpTo
<1>6. Good(h[N])
  <2>1. N \in G
    BY ONLY <1>1, <1>5
  <2> QED BY <2>1
<1> HIDE DEF Good
<1>7. Good(PrintChars(r, s))
  BY ONLY <1>2, <1>6
<1> QED BY <1>7 DEF Good

\* While it lasts, a print job is what was sent.
LEMMA JobSound ==
  ASSUME NEW x, Shape(x), x.win.state \in Prints, x.job # "done",
         ~x.win.utf8 /\ x.job = "on" => SoFar(x) \o Held(x.win.state) = x.raw
  PROVE  Sound(x)
<1>1. Jobs(x)
  BY DEF Jobs, Job, SoFar
<1> QED BY <1>1 DEF Sound, Strings, Parameters, Prints

LEMMA Grown ==
  ASSUME NEW S, NEW a \in S, NEW b \in S, NEW d \in S, NEW e \in S
  PROVE  /\ Append(<<>>, a) = <<a>> /\ Append(<<a>>, b) = <<a, b>> /\ Append(<<a, b>>, d) = <<a, b, d>>
         /\ Append(<<a, b, d>>, e) = <<a, b, d, e>>
<1>1. Append(<<>>, a) = <<a>>
  OBVIOUS
<1>2. Append(<<a>>, b) = <<a, b>>
  <2> DEFINE x == Append(<<a>>, b)
             y == <<a, b>>
  <2>1. x \in Seq(S) /\ y \in Seq(S)
    OBVIOUS
  <2>2. Len(x) = 2 /\ Len(y) = 2
    OBVIOUS
  <2>3. \A i \in 1..2 : x[i] = y[i]
    OBVIOUS
  <2> HIDE DEF x, y
  <2>4. x = y
    BY <2>1, <2>2, <2>3, SeqEqual
  <2> QED BY <2>4 DEF x, y
<1>3. Append(<<a, b>>, d) = <<a, b, d>>
  <2> DEFINE x == Append(<<a, b>>, d)
             y == <<a, b, d>>
  <2>1. x \in Seq(S) /\ y \in Seq(S)
    OBVIOUS
  <2>2. Len(x) = 3 /\ Len(y) = 3
    OBVIOUS
  <2>3. \A i \in 1..3 : x[i] = y[i]
    OBVIOUS
  <2> HIDE DEF x, y
  <2>4. x = y
    BY <2>1, <2>2, <2>3, SeqEqual
  <2> QED BY <2>4 DEF x, y
<1>4. Append(<<a, b, d>>, e) = <<a, b, d, e>>
  <2> DEFINE x == Append(<<a, b, d>>, e)
             y == <<a, b, d, e>>
  <2>1. x \in Seq(S) /\ y \in Seq(S)
    OBVIOUS
  <2>2. Len(x) = 4 /\ Len(y) = 4
    OBVIOUS
  <2>3. \A i \in 1..4 : x[i] = y[i]
    OBVIOUS
  <2> HIDE DEF x, y
  <2>4. x = y
    BY <2>1, <2>2, <2>3, SeqEqual
  <2> QED BY <2>4 DEF x, y
<1> QED BY <1>1, <1>2, <1>3, <1>4

LEMMA SentEnd ==
  /\ Append(<<>>, "esc") = <<"esc">> /\ Append(<<"esc">>, "[") = <<"esc", "[">>
  /\ Append(<<"esc", "[">>, "4") = <<"esc", "[", "4">> /\ Append(<<"esc", "[", "4">>, "i") = <<"esc", "[", "4", "i">>
<1>1. "esc" \in Chars /\ "[" \in Chars /\ "4" \in Chars /\ "i" \in Chars
  BY DEF Chars
<1> QED BY ONLY <1>1, Grown

LEMMA HeldShape ==
  ASSUME NEW t \in Prints
  PROVE  Held(t) \in Texts /\ \A i \in 1..Len(Held(t)) : Held(t)[i] \notin Points
<1>1. t \in {"PRIN", "PRINESC", "PRINCSI", "PRIN4"}
  BY DEF Prints
<1>2. "esc" \in Chars /\ "[" \in Chars /\ "4" \in Chars /\ "esc" \notin Points /\ "[" \notin Points /\ "4" \notin Points
  BY DEF Chars, Points
<1>3. CASE t = "PRIN"
  <2>1. Held(t) = <<>> /\ Len(<<>>) = 0
    BY <1>3, HeldIs
  <2> QED BY ONLY <2>1, EmptySeq DEF Texts
<1>4. CASE t = "PRINESC"
  <2>1. Held(t) = <<"esc">>
    BY <1>4, HeldIs
  <2> QED BY ONLY <1>2, <2>1 DEF Texts
<1>5. CASE t = "PRINCSI"
  <2>1. Held(t) = <<"esc", "[">>
    BY <1>5, HeldIs
  <2> QED BY ONLY <1>2, <2>1 DEF Texts
<1>6. CASE t = "PRIN4"
  <2>1. Held(t) = <<"esc", "[", "4">>
    BY <1>6, HeldIs
  <2> QED BY ONLY <1>2, <2>1 DEF Texts
<1> QED BY <1>1, <1>3, <1>4, <1>5, <1>6

LEMMA PrintEndFine ==
  ASSUME NEW r, Shape(r), r.win.state = "PRIN4", r.job # "done",
         NEW s \in Texts, r.raw = Append(s, "i"),
         ~r.win.utf8 /\ r.job = "on" => SoFar(r) \o Held("PRIN4") = s
  PROVE  Fine(PrintEnd(r), r)
<1> DEFINE q == PrintFlush(r)
           w == q.win
           v == [w EXCEPT !.state = "LIT", !.pdisplay = None]
           e == [q.dis EXCEPT !.pipes = @ \ {r.win.pdisplay}]
           j == IF q.job = "on" THEN "done" ELSE q.job
           x == PrintEnd(r)
           tail == <<"esc", "[", "4">>
<1>1. Printed(q, r, <<>>) /\ w.str = <<>>
  BY PrintFlushIs
<1>2. x = [q EXCEPT !.win.state = "LIT", !.win.pdisplay = None, !.dis.pipes = @ \ {r.win.pdisplay}, !.job = IF @ = "on" THEN "done" ELSE @]
  BY DEF PrintEnd
<1> HIDE DEF q, x
<1>3. IsRec(q) /\ IsWin(w) /\ Shape(q) /\ q.printed \in Seq(Chars) /\ s \in Seq(Chars)
  BY <1>1 DEF Printed, Shape, Texts
<1>4. x = [q EXCEPT !.win = v, !.dis = e, !.job = j]
  BY <1>2, <1>3 DEF IsRec, IsWin, WinFields
<1>5. /\ IsWin(v) /\ v.state = "LIT" /\ v.num = w.num /\ v.args = w.args
      /\ v.str = w.str /\ v.outbuf = w.outbuf /\ v.utf8 = w.utf8
  BY <1>3 DEF IsWin, WinFields
<1> HIDE DEF v, e, j
<1>6. IsRec(x) /\ x.win = v /\ x.raw = q.raw /\ x.printed = q.printed /\ x.job = j
  BY ONLY <1>3, <1>4 DEF IsRec
<1>7. Shape(x)
  BY <1>3, <1>5, <1>6 DEF Shape, States
<1>8. x.job = "done" => q.job = "on" /\ r.job = "on" /\ SoFar(q) = SoFar(r) \o <<>>
  BY <1>1, <1>6 DEF Printed, j
<1>9. ASSUME x.job = "done", ~x.win.utf8
      PROVE  Done(x)
  <2>1. ~r.win.utf8
    BY <1>1, <1>5, <1>6, <1>9 DEF Printed, Same
  <2>2. SoFar(r) \in Seq(Chars)
    BY ConcatProperties DEF SoFar, Shape, Texts
  <2>3. q.printed = SoFar(r)
    <3>1. SoFar(q) = q.printed
      BY <1>1, <1>3, JoinedNone DEF SoFar
    <3> QED BY <1>8, <1>9, <2>2, <3>1, JoinedNone
  <2>4. q.printed \o tail = s
    BY <1>8, <1>9, <2>1, <2>3, HeldIs
  <2>5. "i" \in Chars /\ tail \in Seq(Chars)
    BY DEF Chars
  <2>6. Append(tail, "i") = <<"esc", "[", "4", "i">>
    BY ONLY SentEnd
  <2> HIDE DEF tail
  <2>7. q.printed \o Append(tail, "i") = Append(q.printed \o tail, "i")
    <3>1. \A f, g \in Seq(Chars), b \in Chars : f \o Append(g, b) = Append(f \o g, b)
      BY ConcatAppend
    <3> QED BY ONLY <1>3, <2>5, <3>1, Zenon
  <2>8. x.raw = Append(s, "i")
    BY <1>1, <1>6 DEF Printed
  <2> QED BY <1>6, <2>4, <2>6, <2>7, <2>8 DEF Done
<1>10. Jobs(x)
  BY <1>5, <1>6, <1>9 DEF Jobs, Prints
<1>11. Sound(x)
  BY <1>5, <1>6, <1>7, <1>10 DEF Sound, Strings, Parameters
<1>12. Fine(x, r)
  BY <1>1, <1>5, <1>6, <1>11 DEF Fine, Same, Printed
<1> QED BY <1>12 DEF x

LEMMA PrinterByteFine ==
  ASSUME NEW r, Shape(r), r.win.state \in Prints, r.job # "done",
         NEW s \in Texts, NEW c \in Chars, r.raw = Append(s, c), ~r.win.utf8 => c \notin Points,
         ~r.win.utf8 /\ r.job = "on" => SoFar(r) \o Held(r.win.state) = s
  PROVE  Fine(PrinterByte(r, c), r)
<1> DEFINE t == r.win.state
           next == CASE t = "PRIN" /\ c = "esc" -> "PRINESC" [] t = "PRINESC" /\ c = "[" -> "PRINCSI"
                     [] t = "PRINCSI" /\ c = "4" -> "PRIN4" [] OTHER -> "PRIN"
           m == Append(Held(t), c)
           p == PrintChars(r, m)
           x == PrinterByte(r, c)
<1> SUFFICES Fine(x, r)
  OBVIOUS
<1>1. \/ t = "PRIN4" /\ c = "i" /\ x = PrintEnd(r)
      \/ next # "PRIN" /\ x = [r EXCEPT !.win.state = next]
      \/ x = [p EXCEPT !.win.state = "PRIN"]
  BY DEF PrinterByte
<1>2. next \in States /\ next \in Prints /\ next \notin {"ASTR", "STRESC"}
  BY DEF States, Prints
<1>3. next # "PRIN" => Held(next) = m
  <2>1. next # "PRIN" => \/ t = "PRIN" /\ c = "esc" /\ next = "PRINESC"
                         \/ t = "PRINESC" /\ c = "[" /\ next = "PRINCSI"
                         \/ t = "PRINCSI" /\ c = "4" /\ next = "PRIN4"
    OBVIOUS
  <2>2. Append(<<>>, "esc") = <<"esc">> /\ Append(<<"esc">>, "[") = <<"esc", "[">> /\ Append(<<"esc", "[">>, "4") = <<"esc", "[", "4">>
    BY ONLY SentEnd
  <2> HIDE DEF next
  <2> QED BY ONLY <2>1, <2>2, HeldIs
<1>4. Held(t) \in Seq(Chars) /\ \A i \in 1..Len(Held(t)) : Held(t)[i] \notin Points
  BY HeldShape DEF Texts
<1>5. SoFar(r) \in Seq(Chars)
  BY ConcatProperties DEF SoFar, Shape, Texts
<1>6. SoFar(r) \o m = Append(SoFar(r) \o Held(t), c)
  BY <1>4, <1>5, ConcatAppend
<1> HIDE DEF next, x
<1>7. CASE t = "PRIN4" /\ c = "i" /\ x = PrintEnd(r)
  BY <1>7, PrintEndFine
<1>8. CASE next # "PRIN" /\ x = [r EXCEPT !.win.state = next]
  <2>1. Moved([r EXCEPT !.win.state = next], r, next)
    BY ONLY <1>2, SetState, Shape(r), Zenon
  <2>2. Moved(x, r, next)
    BY ONLY <1>8, <2>1
  <2>3. ~x.win.utf8 /\ x.job = "on" => SoFar(x) \o Held(x.win.state) = x.raw
    BY <1>3, <1>6, <1>8, <2>2 DEF Moved, Same, SoFar
  <2>4. Sound(x)
    BY <1>2, <2>2, <2>3, JobSound DEF Moved
  <2> QED BY <2>2, <2>4 DEF Fine, Moved
<1>9. CASE x = [p EXCEPT !.win.state = "PRIN"]
  <2>1. m \in Seq(Chars)
    BY <1>4
  <2>2. Shape(p) /\ Same(p.win, r.win) /\ p.win.state = t /\ p.raw = r.raw /\ p.job \in {r.job, "lost"}
    BY <2>1, PrintCharsShape DEF Texts
  <2>3. ~r.win.utf8 => Printed(p, r, m)
    <3>1. ~r.win.utf8 => \A i \in 1..Len(m) : m[i] \notin Points
      BY <1>4
    <3> QED BY <2>1, <3>1, PrintCharsPrinted DEF Texts
  <2> HIDE DEF p, m
  <2>4. "PRIN" \in States /\ "PRIN" \in Prints /\ "PRIN" \notin {"ASTR", "STRESC"}
    BY DEF States, Prints
  <2>5. Moved([p EXCEPT !.win.state = "PRIN"], p, "PRIN")
    BY ONLY <2>2, <2>4, SetState, Zenon
  <2>6. Moved(x, p, "PRIN")
    BY ONLY <1>9, <2>5
  <2>7. ASSUME ~x.win.utf8, x.job = "on"
        PROVE  SoFar(x) \o Held(x.win.state) = x.raw
    <3>1. ~r.win.utf8 /\ p.job = "on" /\ SoFar(x) = SoFar(p) /\ x.raw = Append(s, c)
      BY <2>2, <2>6, <2>7 DEF Moved, Same, SoFar
    <3>2. r.job = "on" /\ SoFar(p) = SoFar(r) \o m
      BY <2>3, <3>1 DEF Printed
    <3>3. SoFar(x) = x.raw
      BY <1>6, <3>1, <3>2
    <3>4. SoFar(p) \in Seq(Chars)
      BY <2>2, ConcatProperties DEF SoFar, Shape, Texts
    <3> QED BY <2>6, <3>1, <3>3, <3>4, HeldIs, JoinedNone DEF Moved
  <2>8. x.job # "done"
    BY <2>2, <2>6 DEF Moved
  <2>9. Sound(x)
    BY <2>4, <2>6, <2>7, <2>8, JobSound DEF Moved
  <2> QED BY <2>2, <2>6, <2>9 DEF Fine, Moved, Same
<1> QED BY ONLY <1>1, <1>7, <1>8, <1>9

-----------------------------------------------------------------------------
(* A character                                                             *)

LEMMA SoundLike ==
  ASSUME NEW r, Sound(r), NEW x, IsRec(x), Like(x.win, r.win), x.raw = r.raw, x.printed = r.printed,
         x.job \in {r.job, "lost"}
  PROVE  Fine(x, r)
<1>1. Shape(x)
  BY DEF Sound, Shape, Like
<1>2. Jobs(x)
  BY DEF Sound, Jobs, Job, Done, Like
<1>3. Strings(x) /\ Parameters(x)
  BY DEF Sound, Strings, Parameters, Like
<1> QED BY <1>1, <1>2, <1>3 DEF Sound, Fine, Same, Like

LEMMA TakenFine ==
  ASSUME NEW r, Sound(r), NEW c \in Chars, ~r.win.utf8 => c \notin Points
  PROVE  Fine(Taken(r, c), r)
<1> DEFINE st == r.win.state
           s == r.raw
           a == IF st \in {"LIT", "ESC"} THEN <<>> ELSE Append(s, c)
           j == IF st \in Prints THEN r.job ELSE "none"
           q == [r EXCEPT !.raw = IF st \in {"LIT", "ESC"} THEN <<>> ELSE Append(@, c), !.job = IF st \in Prints THEN @ ELSE "none"]
           x == Taken(r, c)
<1> SUFFICES Fine(x, r)
  OBVIOUS
<1>1. Shape(r) /\ IsRec(r) /\ IsWin(r.win) /\ s \in Seq(Chars) /\ s \in Texts
  BY DEF Sound, Shape, Texts
<1>2. /\ st \in Prints => x = PrinterByte(q, c)
      /\ st = "ASTR" => x = StringByte(q, c)
      /\ st = "STRESC" => x = EscapedByte(q, c)
      /\ st = "ESC" => x = EscapeByte(q, c)
      /\ st = "CSI" => x = ControlByte(q, c)
      /\ st = "LIT" => x = LiteralByte(q, c)
  <2>1. x = CASE st \in Prints -> PrinterByte(q, c)
    [] st = "ASTR" -> StringByte(q, c)
    [] st = "STRESC" -> EscapedByte(q, c)
    [] st = "ESC" -> EscapeByte(q, c)
    [] st = "CSI" -> ControlByte(q, c)
    [] st = "LIT" -> LiteralByte(q, c)
    BY DEF Taken
  <2> HIDE DEF q, x
  <2> QED BY ONLY <2>1 DEF Prints
<1>3. q = [r EXCEPT !.raw = a, !.job = j]
  BY <1>1 DEF IsRec
<1> HIDE DEF q, x, a, j
<1>4. IsRec(q) /\ q.win = r.win /\ q.printed = r.printed /\ q.raw = a /\ q.job = j
  BY ONLY <1>1, <1>3 DEF IsRec
<1>5. a \in Texts
  BY <1>1 DEF a, Texts
<1>6. Shape(q)
  BY <1>1, <1>4, <1>5 DEF Shape
<1>7. Same(q.win, r.win)
  BY <1>4 DEF Same
<1>8. st \in States /\ q.win.state = st
  BY <1>1, <1>4 DEF Shape
<1> SUFFICES Fine(x, q)
  BY <1>7, FineAfter
<1>9. CASE st \in Prints
  <2>1. q.job = r.job /\ q.raw = Append(s, c) /\ r.job # "done"
    BY <1>4, <1>9 DEF a, j, Prints, Sound, Jobs
  <2>2. ~q.win.utf8 /\ q.job = "on" => SoFar(q) \o Held(q.win.state) = s
    BY <1>4, <1>9, <2>1 DEF Sound, Jobs, Job, SoFar
  <2> QED BY <1>1, <1>2, <1>4, <1>6, <1>9, <2>1, <2>2, PrinterByteFine
<1> DEFINE t == r.win.str
<1>10. t \in Seq(Chars)
  BY <1>1 DEF Shape, Texts
<1>11. CASE st = "ASTR"
  <2>1. q.job = "none" /\ q.raw = Append(s, c)
    BY <1>4, <1>11 DEF a, j, Prints
  <2>2. ~q.win.utf8 => WithoutNul(q.win.str) = WithoutNul(s)
    BY <1>4, <1>10, <1>11, HeldIs, JoinedNone DEF Sound, Strings
  <2> QED BY <1>1, <1>2, <1>4, <1>6, <1>11, <2>1, <2>2, StringByteFine
<1>12. CASE st = "STRESC"
  <2>1. q.job = "none" /\ q.raw = Append(s, c)
    BY <1>4, <1>12 DEF a, j, Prints
  <2>2. ~q.win.utf8 => WithoutNul(q.win.str \o <<"esc">>) = WithoutNul(s)
    BY <1>4, <1>12, HeldIs DEF Sound, Strings
  <2> QED BY <1>1, <1>2, <1>4, <1>6, <1>12, <2>1, <2>2, EscapedByteFine
<1>13. CASE st = "CSI"
  <2>1. q.job = "none" /\ q.raw = Append(s, c)
    BY <1>4, <1>13 DEF a, j, Prints
  <2>2. Counted(q.win, s)
    BY <1>4, <1>13 DEF Sound, Parameters, Counted
  <2> QED BY <1>1, <1>2, <1>4, <1>6, <1>13, <2>1, <2>2, ControlByteFine
<1>14. CASE st \in {"ESC", "LIT"}
  <2>1. q.job = "none"
    BY <1>4, <1>14 DEF j, Prints
  <2>2. CASE st = "ESC"
    BY <1>2, <1>6, <1>8, <2>1, <2>2, EscapeByteFine
  <2>3. CASE st = "LIT"
    BY <1>2, <1>6, <1>8, <2>1, <2>3, LiteralByteFine
  <2> QED BY <1>14, <2>2, <2>3
<1> QED BY ONLY <1>8, <1>9, <1>11, <1>12, <1>13, <1>14 DEF States

LEMMA ForgetFine ==
  ASSUME NEW r, Sound(r)
  PROVE  Fine(Forget(r), r)
<1> DEFINE w == r.win
           v == [w EXCEPT !.str = <<>>, !.args = NoArgs, !.num = 0, !.im = <<>>]
           a == IF r.job = "done" THEN r.raw ELSE <<>>
           p == IF r.job = "done" THEN r.printed ELSE <<>>
           j == IF r.job = "lost" THEN "none" ELSE r.job
           x == Forget(r)
<1>1. IsRec(r) /\ IsWin(w) /\ Shape(r)
  BY DEF Sound, Shape
<1>2. CASE w.state # "LIT"
  <2>1. x = r
    BY <1>2 DEF Forget
  <2> QED BY <2>1 DEF Fine, Same
<1>3. CASE w.state = "LIT"
  <2>1. x = [r EXCEPT !.win = v, !.raw = a, !.printed = p, !.job = j]
    BY <1>1, <1>3 DEF Forget, IsRec, IsWin, WinFields
  <2>2. /\ IsWin(v) /\ v.state = "LIT" /\ v.num = 0 /\ v.args = NoArgs
        /\ v.str = <<>> /\ v.outbuf = w.outbuf /\ v.utf8 = w.utf8
    BY <1>1, <1>3 DEF IsWin, WinFields
  <2> HIDE DEF v, x, a, p, j
  <2>3. IsRec(x) /\ x.win = v /\ x.raw = a /\ x.printed = p /\ x.job = j
    BY ONLY <1>1, <2>1 DEF IsRec
  <2>4. a \in Texts /\ p \in Texts /\ <<>> \in Texts
    BY <1>1, EmptySeq DEF Shape, Texts, a, p
  <2>5. NoArgs = [k \in 0..(MaxArgs - 1) |-> NoArgs[k]]
    BY DEF NoArgs
  <2>6. Shape(x)
    <3>1. x.win.args = [k \in 0..(MaxArgs - 1) |-> x.win.args[k]]
      BY <2>2, <2>3, <2>5
    <3>2. x.win.num \in 0..MaxArgs /\ x.win.outbuf \in Seq(Alphabet)
      BY <1>1, <2>2, <2>3 DEF Shape
    <3> QED BY <2>2, <2>3, <2>4, <3>1, <3>2 DEF Shape, States
  <2>7. Jobs(x)
    <3>1. x.job = "done" => r.job = "done" /\ x.raw = r.raw /\ x.printed = r.printed
      BY <2>3 DEF j, a, p
    <3>2. x.win.state = "LIT" /\ x.win.utf8 = w.utf8
      BY <2>2, <2>3
    <3>3. "LIT" \notin Prints
      BY DEF Prints
    <3> QED BY <3>1, <3>2, <3>3 DEF Sound, Jobs, Done
  <2>8. Sound(x) /\ Same(x.win, r.win)
    BY <2>2, <2>3, <2>6, <2>7 DEF Sound, Strings, Parameters, Same
  <2> QED BY <2>8 DEF x, Fine
<1> QED BY <1>2, <1>3

LEMMA CharacterFine ==
  ASSUME NEW r, Sound(r), NEW c \in Chars, ~r.win.utf8 => c \notin Points
  PROVE  Fine(Character(r, c), r)
<1>1. Fine(Taken(r, c), r)
  BY TakenFine
<1>2. Fine(Forget(Taken(r, c)), Taken(r, c))
  BY <1>1, ForgetFine DEF Fine
<1> QED BY <1>1, <1>2, FineAfter DEF Fine, Character

-----------------------------------------------------------------------------
(* A batch                                                                 *)

LEMMA DecodedIs ==
  ASSUME NEW w, NEW c \in Alphabet
  PROVE  \/ Decoded(w, c) = <<>>
         \/ \E a \in Chars : Decoded(w, c) = <<a>> /\ (~w.utf8 => a \notin Points)
         \/ \E a, b \in Chars : Decoded(w, c) = <<a, b>> /\ w.utf8
<1>1. c \in Chars /\ c \notin Points /\ "uni" \in Chars /\ "repl" \in Chars
  BY DEF Chars, Points
<1>2. CASE ~w.utf8
  <2>1. Decoded(w, c) = <<c>>
    BY ONLY <1>2 DEF Decoded
  <2> QED BY <1>1, <1>2, <2>1
<1>3. CASE w.utf8
  <2>1. Decoded(w, c) \in {<<>>, <<"uni">>, <<"repl">>, <<"repl", c>>, <<c>>}
    <3>1. CASE c = "u2"
      BY ONLY <1>3, <3>1 DEF Decoded
    <3>2. CASE c = "u1"
      BY ONLY <1>3, <3>2 DEF Decoded
    <3>3. CASE c \notin {"u1", "u2"}
      BY ONLY <1>3, <3>3 DEF Decoded
    <3> QED BY ONLY <3>1, <3>2, <3>3
  <2> QED BY ONLY <1>1, <1>3, <2>1
<1> QED BY <1>2, <1>3

LEMMA CharactersAre ==
  ASSUME NEW r
  PROVE  /\ Characters(r, <<>>) = r
         /\ \A a : Characters(r, <<a>>) = Character(r, a)
         /\ \A a, b : Characters(r, <<a, b>>) = Character(Character(r, a), b)
<1>1. Len(<<>>) = 0 /\ (\A a : <<a>> # <<>> /\ Len(<<a>>) = 1 /\ <<a>>[1] = a)
      /\ \A a, b : <<a, b>> # <<>> /\ Len(<<a, b>>) = 2 /\ <<a, b>>[1] = a /\ <<a, b>>[2] = b
  OBVIOUS
<1>2. Characters(r, <<>>) = r
  BY ONLY <1>1 DEF Characters
<1>3. ASSUME NEW a PROVE Characters(r, <<a>>) = Character(r, a)
  BY ONLY <1>1 DEF Characters
<1>4. ASSUME NEW a, NEW b PROVE Characters(r, <<a, b>>) = Character(Character(r, a), b)
  BY ONLY <1>1 DEF Characters
<1> QED BY <1>2, <1>3, <1>4

LEMMA CharactersFine ==
  ASSUME NEW r, Sound(r), NEW w, w.utf8 = r.win.utf8, NEW c \in Alphabet
  PROVE  Fine(Characters(r, Decoded(w, c)), r)
<1> DEFINE s == Decoded(w, c)
<1>1. CASE s = <<>>
  <2>1. Characters(r, s) = r
    BY <1>1, CharactersAre
  <2> QED BY <2>1 DEF Fine, Same
<1>2. CASE \E a \in Chars : s = <<a>> /\ (~w.utf8 => a \notin Points)
  <2>1. PICK a \in Chars : s = <<a>> /\ (~w.utf8 => a \notin Points)
    BY <1>2
  <2>2. Characters(r, s) = Character(r, a)
    BY <2>1, CharactersAre
  <2> QED BY <2>1, <2>2, CharacterFine
<1>3. CASE \E a, b \in Chars : s = <<a, b>> /\ w.utf8
  <2>1. PICK a \in Chars, b \in Chars : s = <<a, b>> /\ w.utf8
    BY <1>3
  <2> DEFINE q == Character(r, a)
             x == Character(q, b)
  <2>2. Characters(r, s) = x
    BY <2>1, CharactersAre
  <2>3. Fine(q, r)
    BY <2>1, CharacterFine
  <2>4. q.win.utf8 = w.utf8 /\ Sound(q)
    BY <2>3 DEF Fine, Same
  <2> HIDE DEF q
  <2>5. Fine(x, q)
    BY <2>1, <2>4, CharacterFine
  <2> QED BY <2>2, <2>3, <2>5, FineAfter DEF Fine
<1> HIDE DEF s
<1>4. \/ s = <<>>
      \/ \E a \in Chars : s = <<a>> /\ (~w.utf8 => a \notin Points)
      \/ \E a, b \in Chars : s = <<a, b>> /\ w.utf8
  BY DecodedIs DEF s
<1> QED BY ONLY <1>1, <1>2, <1>3, <1>4

LEMMA PutAsideSound ==
  ASSUME NEW r, Sound(r), NEW b \in Seq(Alphabet), NEW x, x = [r EXCEPT !.win.outbuf = b]
  PROVE  Sound(x)
<1> DEFINE w == r.win
           v == [w EXCEPT !.outbuf = b]
<1>1. IsRec(r) /\ IsWin(w) /\ Shape(r)
  BY DEF Sound, Shape
<1>2. x = [r EXCEPT !.win = v]
  BY <1>1 DEF IsRec
<1>3. /\ IsWin(v) /\ v.state = w.state /\ v.kind = w.kind /\ v.num = w.num /\ v.args = w.args
      /\ v.str = w.str /\ v.outbuf = b /\ v.utf8 = w.utf8
  BY <1>1 DEF IsWin, WinFields
<1> HIDE DEF v
<1>4. IsRec(x) /\ x.win = v /\ x.raw = r.raw /\ x.printed = r.printed /\ x.job = r.job
  BY ONLY <1>1, <1>2 DEF IsRec
<1>5. Shape(x)
  BY <1>1, <1>3, <1>4 DEF Shape
<1>6. Jobs(x)
  BY <1>3, <1>4 DEF Sound, Jobs, Job, Done
<1>7. Strings(x) /\ Parameters(x)
  BY <1>3, <1>4 DEF Sound, Strings, Parameters
<1> QED BY <1>5, <1>6, <1>7 DEF Sound

LEMMA ReadByteSound ==
  ASSUME NEW r, Sound(r), NEW c \in Alphabet
  PROVE  Sound(ReadByte(r, c))
<1>1. CASE r.win.stop
  <2> DEFINE x == ReadByte(r, c)
             b == Append(r.win.outbuf, c)
  <2>1. IsRec(r) /\ IsWin(r.win) /\ r.win.outbuf \in Seq(Alphabet)
    BY DEF Sound, Shape
  <2>2. x = [r EXCEPT !.win.outbuf = b]
    BY <1>1, <2>1 DEF ReadByte, IsRec, IsWin, WinFields
  <2>3. b \in Seq(Alphabet)
    BY <2>1
  <2> HIDE DEF b, x
  <2>4. Sound(x)
    BY <2>2, <2>3, PutAsideSound
  <2> QED BY <2>4 DEF x
<1>2. CASE ~r.win.stop
  <2> DEFINE v == [r.win EXCEPT !.pending = r.win.utf8 /\ c = "u1"]
             q == [r EXCEPT !.win.pending = r.win.utf8 /\ c = "u1"]
  <2>1. ReadByte(r, c) = Characters(q, Decoded(r.win, c))
    BY <1>2 DEF ReadByte
  <2>2. IsRec(r) /\ IsWin(r.win)
    BY DEF Sound, Shape
  <2>3. q = [r EXCEPT !.win = v]
    BY <2>2 DEF IsRec
  <2>4. Like(v, r.win)
    BY <2>2 DEF Like, IsWin, WinFields
  <2> HIDE DEF q, v
  <2>5. IsRec(q) /\ q.win = v /\ q.raw = r.raw /\ q.printed = r.printed /\ q.job = r.job
    BY ONLY <2>2, <2>3 DEF IsRec
  <2>6. Fine(q, r)
    BY <2>4, <2>5, SoundLike
  <2>7. Fine(Characters(q, Decoded(r.win, c)), q)
    BY <2>6, CharactersFine DEF Fine, Same
  <2> QED BY <2>1, <2>7 DEF Fine
<1> QED BY <1>1, <1>2

LEMMA ReadingSound ==
  ASSUME NEW r, Sound(r), NEW buf, NEW N \in Nat, Len(buf) = N, \A i \in 1..N : buf[i] \in Alphabet
  PROVE  Sound(Reading(r, buf))
<1>0. PICK h : Steps(h, r, buf, N)
  BY ReadingIs
<1>1. /\ h[0] = r /\ h[N] = Reading(r, buf)
      /\ \A k \in 1..N : h[k] = ReadByte(h[k - 1], buf[k])
  BY <1>0 DEF Steps
<1> DEFINE G == {k \in 0..N : Sound(h[k])}
<1>2. 0 \in G
  BY <1>1
<1>3. \A i \in 0..(N - 1) : i \in G => i + 1 \in G
  <2> SUFFICES ASSUME NEW i \in 0..(N - 1), Sound(h[i])
               PROVE  Sound(h[i + 1])
    OBVIOUS
  <2>1. i + 1 \in 1..N /\ (i + 1) - 1 = i
    OBVIOUS
  <2>2. h[i + 1] = ReadByte(h[i], buf[i + 1]) /\ buf[i + 1] \in Alphabet
    BY <1>1, <2>1
  <2>3. Sound(ReadByte(h[i], buf[i + 1]))
    BY <2>2, ReadByteSound
  <2> QED BY ONLY <2>2, <2>3
<1>4. G = 0..N
  <2>1. G \in SUBSET (0..N)
    OBVIOUS
  <2> HIDE DEF G
  <2> QED BY <1>2, <1>3, <2>1, UpTo
<1>5. N \in G
  BY ONLY <1>4, N \in Nat
<1> QED BY <1>1, <1>5

LEMMA WriteStringSound ==
  ASSUME NEW r, Sound(r), NEW buf \in Seq(Alphabet)
  PROVE  Sound(WriteString(r, buf))
<1> DEFINE y == Reading(r, buf)
           v == [y.win EXCEPT !.stop = FALSE]
           q == [y EXCEPT !.win.stop = FALSE]
           x == WriteString(r, buf)
<1>1. Sound(y)
  <2>1. Len(buf) \in Nat /\ \A i \in 1..Len(buf) : buf[i] \in Alphabet
    OBVIOUS
  <2> QED BY <2>1, ReadingSound
<1>2. x = IF q.win.state = "PRIN" /\ ~q.dis.printcmd THEN PrintFlush(q) ELSE q
  BY DEF WriteString, Reading
<1> HIDE DEF x, y
<1>3. IsRec(y) /\ IsWin(y.win)
  BY <1>1 DEF Sound, Shape
<1>4. q = [y EXCEPT !.win = v]
  BY <1>3 DEF IsRec
<1>5. Like(v, y.win)
  BY <1>3 DEF Like, IsWin, WinFields
<1> HIDE DEF q, v
<1>6. IsRec(q) /\ q.win = v /\ q.raw = y.raw /\ q.printed = y.printed /\ q.job = y.job
  BY ONLY <1>3, <1>4 DEF IsRec
<1>7. Sound(q)
  BY <1>1, <1>5, <1>6, SoundLike DEF Fine
<1>8. ASSUME q.win.state = "PRIN" PROVE Sound(PrintFlush(q))
  <2> DEFINE z == PrintFlush(q)
  <2>1. Shape(q) /\ "PRIN" \in Prints
    BY <1>7 DEF Sound, Prints
  <2>2. Printed(z, q, <<>>)
    BY <2>1, PrintFlushIs
  <2> HIDE DEF z
  <2>3. q.job # "done"
    BY <1>7, <1>8 DEF Sound, Jobs
  <2>4. SoFar(q) \in Seq(Chars)
    BY <2>1, ConcatProperties DEF SoFar, Shape, Texts
  <2>5. SoFar(q) \o <<>> = SoFar(q)
    BY <2>4, JoinedNone
  <2>6. ~q.win.utf8 /\ q.job = "on" => SoFar(q) \o Held("PRIN") = q.raw
    BY <1>7, <1>8, <2>1 DEF Sound, Jobs, Job, SoFar
  <2>7. ~z.win.utf8 /\ z.job = "on" => SoFar(z) \o Held(z.win.state) = z.raw
    BY <1>8, <2>2, <2>5, <2>6 DEF Printed, Same
  <2>8. Sound(z)
    BY <1>8, <2>1, <2>2, <2>3, <2>7, JobSound DEF Printed
  <2> QED BY <2>8 DEF z
<1>9. Sound(x)
  BY <1>2, <1>7, <1>8
<1> QED BY <1>9 DEF x

-----------------------------------------------------------------------------
(* The actions                                                             *)

LEMMA InitSound == ASSUME Init PROVE Sound(Now)
<1>1. PICK utf8 \in BOOLEAN, c1 \in BOOLEAN : win = NewWindow(utf8, c1)
  BY DEF Init
<1>2. raw = <<>> /\ printed = <<>> /\ job = "none"
  BY DEF Init
<1>3. IsRec(Now) /\ Now.win = win /\ Now.raw = raw /\ Now.printed = printed /\ Now.job = job
  BY DEF IsRec, Now
<1> DEFINE w == [state |-> "LIT", kind |-> "NONE", im |-> <<>>, args |-> NoArgs, num |-> 0,
    str |-> <<>>, stop |-> FALSE, outbuf |-> <<>>, inlen |-> 0, pdisplay |-> None,
    utf8 |-> utf8, pending |-> FALSE, c1 |-> c1, mbcs |-> <<>>, gr |-> 0, sets |-> Usual, L |-> 0, R |-> 2, ss |-> 0,
    fontL |-> "ascii", fontR |-> "ascii", rend |-> NoRend, modes |-> NoModes, told |-> NoModes,
    saved |-> [on |-> FALSE, sets |-> Usual, L |-> 0, R |-> 2, rend |-> NoRend], title |-> <<>>, hstatus |-> <<>>]
<1>4. win = ResetCharsets(w)
  BY <1>1 DEF NewWindow
<1>5. IsWin(w)
  BY DEF IsWin, WinFields
<1>6. w.state = "LIT" /\ w.str = <<>> /\ w.outbuf = <<>> /\ w.args = NoArgs /\ w.num = 0
  OBVIOUS
<1> HIDE DEF w
<1>7. Like(win, w)
  BY <1>4, <1>5, ResetCharsetsLike
<1>8. NoArgs = [k \in 0..(MaxArgs - 1) |-> NoArgs[k]]
  BY DEF NoArgs
<1>9. <<>> \in Texts /\ <<>> \in Seq(Alphabet)
  BY DEF Texts
<1>10. Shape(Now)
  <2>1. win.args = [k \in 0..(MaxArgs - 1) |-> win.args[k]]
    BY <1>6, <1>7, <1>8 DEF Like
  <2>2. win.num \in 0..MaxArgs
    BY <1>6, <1>7 DEF Like
  <2> QED BY <1>2, <1>3, <1>6, <1>7, <1>9, <2>1, <2>2 DEF Shape, States, Like
<1> QED BY <1>2, <1>3, <1>6, <1>7, <1>10, EndedSound DEF Like

\* A step that leaves what the parser has collected alone.
LEMMA StepLike ==
  ASSUME Sound(Now), Like(win', win), UNCHANGED <<raw, printed>>, job' \in {job, "lost"}
  PROVE  Sound(Now)'
<1>1. IsRec(Now') /\ Now'.win = win' /\ Now'.raw = raw /\ Now'.printed = printed /\ Now'.job = job'
  BY DEF IsRec, Now
<1>2. Now.win = win /\ Now.raw = raw /\ Now.printed = printed /\ Now.job = job
  BY DEF Now
<1>3. Fine(Now', Now)
  BY <1>1, <1>2, SoundLike
<1> QED BY <1>3 DEF Fine, Sound, Shape, Jobs, Job, Done, Strings, Parameters, IsRec, IsWin

\* What becomes of a sound record is sound.
LEMMA BecomeSound ==
  ASSUME NEW r, Sound(r), Become(r)
  PROVE  Sound(Now)'
<1>1. IsRec(r)
  BY DEF Sound, Shape
<1>2. Now' = [win |-> r.win, dis |-> r.dis, raw |-> r.raw, printed |-> r.printed, job |-> r.job]
  BY DEF Become, Now
<1>3. Now' = r
  BY ONLY <1>1, <1>2 DEF IsRec
<1>4. Sound(Now')
  BY <1>3
<1> QED BY <1>4

LEMMA NowIs ==
  /\ Now.win = win /\ Now.raw = raw /\ Now.printed = printed /\ Now.job = job
  /\ Now = [f \in {"win", "dis", "raw", "printed", "job"} |-> Now[f]]
  BY DEF Now

LEMMA DiedSound ==
  ASSUME Sound(Now), Died
  PROVE  Sound(Now)'
<1> DEFINE v == ResetWindow(win)
           j == IF job = "on" THEN "lost" ELSE job
           r == [Now EXCEPT !.win = ResetWindow(@), !.job = IF @ = "on" THEN "lost" ELSE @]
<1>1. Become(Forget(r))
  BY DEF Died
<1>2. IsWin(win) /\ Shape(Now)
  BY NowIs DEF Sound, Shape
<1>3. Near(v, win) /\ v.state = "LIT"
  BY <1>2, ResetWindowNear
<1>4. r = [Now EXCEPT !.win = v, !.job = j]
  BY NowIs
<1> HIDE DEF r, v, j
<1>5. IsRec(r) /\ r.win = v /\ r.raw = raw /\ r.printed = printed /\ r.job = j
  BY ONLY <1>4, NowIs DEF IsRec
<1>6. Shape(r)
  BY <1>2, <1>3, <1>5, NowIs DEF Shape, Near, Same, States
<1>7. Jobs(r)
  <2>1. r.job = "done" => job = "done"
    BY <1>5 DEF j
  <2>2. "LIT" \notin Prints
    BY DEF Prints
  <2> QED BY <1>3, <1>5, <2>1, <2>2, NowIs DEF Sound, Jobs, Done, Near, Same
<1>8. Sound(r)
  BY <1>3, <1>5, <1>6, <1>7 DEF Sound, Strings, Parameters
<1>9. Sound(Forget(r))
  BY <1>8, ForgetFine DEF Fine
<1> QED BY <1>1, <1>9, BecomeSound

LEMMA ReadSound ==
  ASSUME Sound(Now), NEW buf \in Batches, Read(buf)
  PROVE  Sound(Now)'
<1>1. buf \in Seq(Alphabet)
  OBVIOUS
<1>2. Sound(WriteString(Now, buf)) /\ Become(WriteString(Now, buf))
  BY <1>1, WriteStringSound DEF Read
<1> QED BY <1>2, BecomeSound

LEMMA ResumeSound ==
  ASSUME Sound(Now), Resume
  PROVE  Sound(Now)'
<1> DEFINE r == [Now EXCEPT !.win.outbuf = <<>>]
<1>1. win.outbuf \in Seq(Alphabet) /\ <<>> \in Seq(Alphabet)
  BY NowIs DEF Sound, Shape
<1>2. Sound(r)
  BY <1>1, PutAsideSound
<1>3. Become(WriteString(r, win.outbuf))
  BY DEF Resume
<1> HIDE DEF r
<1>4. Sound(WriteString(r, win.outbuf))
  BY <1>1, <1>2, WriteStringSound
<1> QED BY <1>3, <1>4, BecomeSound

LEMMA EnvironmentSound ==
  ASSUME Sound(Now), NEW d, NEW how,
         Consume \/ PrinterDies \/ StatusGone(d) \/ Key(d) \/ Attach(d) \/ FreeDisplay(d) \/ Show(d, how)
  PROVE  Sound(Now)'
<1>1. IsWin(win)
  BY NowIs DEF Sound, Shape
<1>2. CASE PrinterDies \/ StatusGone(d) \/ Key(d) \/ Attach(d)
  <2>1. UNCHANGED <<win, raw, printed, job>>
    BY <1>2 DEF PrinterDies, StatusGone, Key, Attach
  <2>2. Like(win', win)
    BY <1>1, <2>1, LikeItself
  <2> QED BY <2>1, <2>2, StepLike
<1>3. CASE Consume
  <2>1. win' = [win EXCEPT !.inlen = 0] /\ UNCHANGED <<raw, printed, job>>
    BY <1>3 DEF Consume
  <2>2. Like(win', win)
    BY <1>1, <2>1 DEF Like, IsWin, WinFields
  <2> QED BY <2>1, <2>2, StepLike
<1>4. CASE FreeDisplay(d)
  <2>1. /\ win' = [win EXCEPT !.pdisplay = IF @ = d THEN None ELSE @]
        /\ job' \in {job, "lost"} /\ UNCHANGED <<raw, printed>>
    BY <1>4 DEF FreeDisplay
  <2>2. Like(win', win)
    BY <1>1, <2>1 DEF Like, IsWin, WinFields
  <2> QED BY <2>1, <2>2, StepLike
<1>5. CASE Show(d, how)
  <2>1. win' = [win EXCEPT !.told = IF how = "fore" THEN win.modes ELSE @] /\ UNCHANGED <<raw, printed, job>>
    BY <1>5 DEF Show
  <2>2. Like(win', win)
    BY <1>1, <2>1 DEF Like, IsWin, WinFields
  <2> QED BY <2>1, <2>2, StepLike
<1> QED BY <1>2, <1>3, <1>4, <1>5

LEMMA NextSound ==
  ASSUME Sound(Now), [Next]_vars
  PROVE  Sound(Now)'
<1>1. CASE UNCHANGED vars
  <2>1. UNCHANGED <<win, raw, printed, job>>
    BY <1>1 DEF vars
  <2>2. IsWin(win)
    BY NowIs DEF Sound, Shape
  <2>3. Like(win', win)
    BY <2>1, <2>2, LikeItself
  <2> QED BY <2>1, <2>3, StepLike
<1>2. CASE \E buf \in Batches : Read(buf)
  BY <1>2, ReadSound
<1>3. CASE Resume
  BY <1>3, ResumeSound
<1>4. CASE Died
  BY <1>4, DiedSound
<1>5. CASE \/ Consume \/ PrinterDies
           \/ \E d \in Displays : StatusGone(d) \/ Key(d) \/ Attach(d) \/ FreeDisplay(d)
           \/ \E d \in Displays, how \in {"fore", "region", "away"} : Show(d, how)
  BY <1>5, EnvironmentSound
<1> QED BY <1>1, <1>2, <1>3, <1>4, <1>5 DEF Next

-----------------------------------------------------------------------------
(* The theorems                                                            *)

\* What the parser has collected is what it was sent, wherever a batch ends
\* (WriteString), whatever happens to the displays meanwhile and however long
\* strings and batches are.
THEOREM Invariance == Spec => []Sound(Now)
<1>1. Init => Sound(Now)
  BY InitSound
<1>2. Sound(Now) /\ [Next]_vars => Sound(Now)'
  BY NextSound
<1> QED BY <1>1, <1>2, PTL DEF Spec

\* A print job whose display and printer last is printed as it was sent, in
\* order and without the bytes that end it (PrintChar, PrintFlush and the PRIN
\* states of WriteString), for every size of the print buffer.  Jobs with ESC \
\* in them are excepted, see PrintWhole.
THEOREM PrintsWhole == Spec => []PrintWhole
<1>1. Sound(Now) => PrintWhole
  BY NowIs DEF Sound, Jobs, Job, Done, PrintWhole
<1> QED BY <1>1, Invariance, PTL

\* Strings and parameters are collected as they are sent (StringChar and the
\* ASTR, STRESC and CSI states of WriteString), for every MAXSTR and MAXARGS.
THEOREM Collects == Spec => []Collected
<1>1. Sound(Now) => Collected
  BY NowIs DEF Sound, Strings, Parameters, Collected, StringsRight, ParametersRight
<1> QED BY <1>1, Invariance, PTL

=============================================================================
