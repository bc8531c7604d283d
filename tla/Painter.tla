------------------------------ MODULE Painter -------------------------------
(* What a display writes to its terminal so that it shows the regions of    *)
(* the user: the primitives of display.c, which know the terminal only by   *)
(* its capabilities and by what was sent to it before, and the functions of *)
(* layer.c that repeat each step of a window in every region that shows it. *)
(*                                                                          *)
(* The terminal is modelled with the cells it shows, its cursor, scrolling  *)
(* region and insert mode; the window by the operators of Screen.  Left out *)
(* are renditions and colours (so that every bce is 0), wide characters and *)
(* encodings, the hardware status line, pauses of a layer, and the costs of *)
(* cursor motions: a terminal has cheap relative ones, or none.             *)
EXTENDS Integers, FiniteSetsExt, SequencesExt

CONSTANTS
  Terminals,  \* sets of capabilities, by the names of termcap.c
  Layouts,    \* what is shown: see Start
  Letters     \* characters the program writes

VARIABLES
  d,          \* the display, the terminal behind it and the window in front
  left        \* steps left (bound: each layout has a number of steps)

Mem == INSTANCE Screen WITH
  Chars <- Letters, Wide <- "W", Widths <- {1}, Heights <- {1}, Histories <- {0}, Args <- {0},
  mem <- 0, cursor <- 0, region <- 0, modes <- 0, tabs <- {}, saved <- 0, alt <- 0, entered <- 0,
  pushed <- <<>>

vars == <<d, left>>

Blank == " "
Bar == "#"      \* a cell of a caption or between two regions (standout)
Side == "|"     \* right of a window that is narrower than its region
Under == "-"    \* below one that is lower
Other == "o"    \* a cell of the window in the other region
None == ""      \* no character, no match (mline_null; no D_lpchar)

Least(a, b) == IF a < b THEN a ELSE b
Most(a, b) == IF a > b THEN a ELSE b
Can(t, cap) == cap \in t.caps
CLP(t) == ~Can(t, "am") \/ Can(t, "xn")

-----------------------------------------------------------------------------
(* The terminal: each of these is the effect of one capability.             *)

RowOf(t, y) == t.cells[y + 1]
Shifted(row, x, n) ==
  [i \in DOMAIN row |-> IF i <= x THEN row[i] ELSE IF i <= x + n THEN Blank ELSE row[i - n]]
Closed(row, x, n) ==
  [i \in DOMAIN row |-> IF i <= x THEN row[i] ELSE IF i + n <= Len(row) THEN row[i + n] ELSE Blank]
Wiped(row, from, to) == [i \in DOMAIN row |-> IF i - 1 \in from..to THEN Blank ELSE row[i]]
Empties(t, n) == [i \in 1..n |-> [x \in 1..t.wi |-> Blank]]

\* The rows from..to move up by n, or down by -n.
Moved(t, from, to, n) ==
  LET kept == SubSeq(t.cells, from + 1, to + 1)
      k == Least(IF n < 0 THEN -n ELSE n, Len(kept))
  IN [t EXCEPT !.cells = SubSeq(@, 1, from)
        \o (IF n > 0 THEN SubSeq(kept, k + 1, Len(kept)) \o Empties(t, k)
            ELSE Empties(t, k) \o SubSeq(kept, 1, Len(kept) - k))
        \o SubSeq(@, to + 2, t.he)]

At(t, x, y) == [t EXCEPT !.tx = x, !.ty = y, !.pend = FALSE]
Newline(t) ==
  IF t.ty = t.tbot THEN Moved(At(t, t.tx, t.ty), t.ttop, t.tbot, 1)
  ELSE At(t, t.tx, Least(t.ty + 1, t.he - 1))
ReverseIndex(t) ==
  IF t.ty = t.ttop THEN Moved(At(t, t.tx, t.ty), t.ttop, t.tbot, -1) ELSE At(t, t.tx, Most(t.ty - 1, 0))
Higher(t, n) == At(t, t.tx, Most(t.ty - n, IF t.ty >= t.ttop THEN t.ttop ELSE 0))
\* Op for each of from..to, in order; and n times.
Through(t, Op(_, _), from, to) == FoldLeft(Op, t, [i \in 1..(to - from + 1) |-> from + i - 1])
Times(t, Op(_), n) == Through(t, LAMBDA u, i : Op(u), 1, n)

\* Lines are inserted and deleted from the cursor's to the end of the region.
Lines(t, n) == IF t.ty \in t.ttop..t.tbot THEN Moved(At(t, 0, t.ty), t.ty, t.tbot, n) ELSE t
OnRow(t, row) == [t EXCEPT !.cells[t.ty + 1] = row]
InsertCells(t, n) == OnRow(t, Shifted(RowOf(t, t.ty), t.tx, n))
DeleteCells(t, n) == OnRow(t, Closed(RowOf(t, t.ty), t.tx, n))
ToEnd(t) == OnRow(t, Wiped(RowOf(t, t.ty), t.tx, t.wi - 1))
ToStart(t) == OnRow(t, Wiped(RowOf(t, t.ty), 0, t.tx))
Below(t) == [ToEnd(t) EXCEPT !.cells = SubSeq(@, 1, t.ty + 1) \o Empties(t, t.he - t.ty - 1)]
Cleared(t) == [At(t, 0, 0) EXCEPT !.cells = Empties(t, t.he)]
Region(t, top, bot) == [At(t, 0, 0) EXCEPT !.ttop = top, !.tbot = bot]

\* A character: in the last column the cursor wraps at once, or only when the
\* next one comes ("xn"), or never (no "am").
Placed(t, c) ==
  OnRow(t, IF t.tins THEN [Shifted(RowOf(t, t.ty), t.tx, 1) EXCEPT ![t.tx + 1] = c]
           ELSE [RowOf(t, t.ty) EXCEPT ![t.tx + 1] = c])
NextRow(t) == [Newline(t) EXCEPT !.tx = 0]
Advanced(t) ==
  IF t.tx < t.wi - 1 THEN [t EXCEPT !.tx = @ + 1]
  ELSE IF ~Can(t, "am") THEN t
  ELSE IF Can(t, "xn") THEN [t EXCEPT !.pend = TRUE] ELSE NextRow(t)
Typed(t, c) == Advanced(Placed(IF t.pend THEN NextRow(t) ELSE t, c))

-----------------------------------------------------------------------------
(* display.c: x, y, top, bot, insert and lp are D_x, D_y, D_top, D_bot,      *)
(* D_insert and D_lpchar while D_lp_missing.                                *)

\* Relative motions are used if the column is known, and where they are not
\* dearer than a carriage return would be, which leads to an absolute one.
Cheap(t, dx, x1, x2) == Can(t, "rel") /\ x1 >= 0 /\ ~(dx < 0 /\ x2 + 1 < -dx)
Relative(t, dx, dy) ==
  Times(Higher([t EXCEPT !.tx = Least(Most(@ + dx, 0), t.wi - 1), !.pend = FALSE], Most(-dy, 0)), Newline, dy)
Away(t, y1, y2) ==
  \/ y1 < 0
  \/ y2 > t.bot /\ y1 <= t.bot
  \/ y2 < t.top /\ y1 >= t.top
  \/ y1 > t.bot /\ y2 > y1
  \/ y1 < t.top /\ y2 < y1

Went(t, x1, x2, y2) ==
  IF x1 = x2 /\ t.y = y2 THEN t
  ELSE [(IF ~Away(t, t.y, y2) /\ Cheap(t, x2 - x1, x1, x2) THEN Relative(t, x2 - x1, y2 - t.y)
         ELSE At(t, x2, y2)) EXCEPT !.x = x2, !.y = y2]
GotoPos(t, x2, y2) ==
  Went(t, IF t.x < t.wi THEN t.x ELSE IF CLP(t) /\ Can(t, "am") THEN -1 ELSE t.x - 1,
       Least(x2, t.wi - 1), y2)

\* Where the cursor is believed after a character.
Tracked(t, x) ==
  IF x < t.wi THEN [t EXCEPT !.x = x]
  ELSE IF ~Can(t, "am") THEN [t EXCEPT !.x = t.wi - 1]
  ELSE IF CLP(t) /\ x = t.wi THEN [t EXCEPT !.x = x]
  ELSE [t EXCEPT !.x = x - t.wi, !.y = IF @ < t.he - 1 /\ @ # t.bot THEN @ + 1 ELSE @]
RAW_PUTCHAR(t, c) == Tracked(Typed(t, c), t.x + 1)

InsertMode(t, on) == IF on # t.insert /\ Can(t, "im") THEN [t EXCEPT !.insert = on, !.tins = on] ELSE t
Overwriting(t) == IF t.x < t.wi - 1 THEN InsertMode(t, FALSE) ELSE t
PUTCHAR(t, c) == RAW_PUTCHAR(Overwriting(t), c)

\* Its callers have seen to it that the terminal can insert.
INSERTCHAR(t, c) ==
  RAW_PUTCHAR(IF t.insert \/ t.x >= t.wi - 1 THEN t
              ELSE IF Can(t, "ic") THEN InsertCells(t, 1) ELSE InsertMode(t, TRUE), c)

\* The last character of the region would scroll it: it is left missing.
Back(t, y, goes) == IF goes THEN GotoPos(t, t.wi - 1, y) ELSE t
PUTCHARLP(t, c) ==
  LET last == t.x >= t.wi - 1 /\ ~CLP(t)
  IN IF last /\ t.y = t.bot THEN [t EXCEPT !.lp = c]
     ELSE Back(RAW_PUTCHAR(Overwriting(t), c), t.y, last)

WriteLP(t, x2, y2) == [PUTCHAR(GotoPos(t, x2, y2), t.lp) EXCEPT !.lp = None]
PutChar(t, c, x, y) == PUTCHARLP(GotoPos(t, x, y), c)

RECURSIVE Fill(_, _, _)
Fill(t, c, n) == IF n <= 0 THEN t ELSE Fill(PUTCHARLP(t, c), c, n - 1)

ChangeScrollRegion(t, top, bot) ==
  IF top = bot THEN t
  ELSE IF ~Can(t, "cs") THEN [t EXCEPT !.top = 0, !.bot = t.he - 1]
  ELSE IF t.top = top /\ t.bot = bot THEN t
  ELSE [Region(t, top, bot) EXCEPT !.top = top, !.bot = bot, !.x = -1, !.y = -1]

\* Lines as DisplayLine gets them: functions of the columns of the display, the
\* mark of a line that runs on included.
Unknown(t) == [x \in 0..t.wi |-> None]
Empty(t) == [x \in 0..t.wi |-> Blank]
Offset(t, line, xoff) ==
  [x \in 0..t.wi |-> IF x - xoff + 1 \in DOMAIN line THEN line[x - xoff + 1] ELSE Blank]

Drawn(t, old, new, x, y, to) ==
  IF (x < to \/ x # t.wi - 1 \/ new[x + 1] # Mem!NUL) /\ old[x] = new[x] THEN t
  ELSE PUTCHAR(GotoPos(t, x, y), new[x])
RECURSIVE Draw(_, _, _, _, _, _)
Draw(t, old, new, x, y, to) ==
  IF x > to THEN t ELSE Draw(Drawn(t, old, new, x, y, to), old, new, x + 1, y, to)

\* The last two cells are written in the wrong order, the second pushed right.
PushedLast(t, new, y) ==
  INSERTCHAR(GotoPos(PUTCHAR(GotoPos(t, t.wi - 2, y), new[t.wi - 1]), t.wi - 2, y), new[t.wi - 2])
DeleteLast(t) ==
  IF Can(t, "dc") THEN DeleteCells(t, 1) ELSE IF Can(t, "ce") THEN ToEnd(t) ELSE t
LineEnd(t, old, new, y, pushes, misses) ==
  IF pushes THEN PushedLast(t, new, y) ELSE IF misses /\ old[t.wi - 1] # Blank THEN DeleteLast(t) ELSE t
DisplayLine(t, old, new, y, from, to) ==
  LET last == t.wi - 1
      keeps == CLP(t) \/ y # t.bot \/ to # last
      same == t.lp = None /\ old[last] = new[last]
      pushes == ~keeps /\ ~same /\ (Can(t, "ic") \/ Can(t, "im")) /\ from < to
      lp == IF keeps \/ same THEN t.lp ELSE IF pushes \/ new[last] = Blank THEN None ELSE new[last]
  IN LineEnd(Draw([t EXCEPT !.lp = lp], old, new, from, y, IF keeps THEN to ELSE IF pushes THEN last - 2 ELSE last - 1),
             old, new, y, pushes, ~keeps /\ ~same)

ClearLine(t, old, y, from, to) ==
  IF from = 0 /\ Can(t, "cb") /\ (to # t.wi - 1 \/ (t.x = to /\ t.y = y)) THEN ToStart(GotoPos(t, to, y))
  ELSE IF to = t.wi - 1 /\ Can(t, "ce") THEN ToEnd(GotoPos(t, from, y))
  ELSE DisplayLine(t, old, Empty(t), y, from, to)

-----------------------------------------------------------------------------
(* Refreshing a part of the display from the windows its regions show.      *)

OfWindow(cv) == cv.shows = "window"
LWidth(t, cv) == IF OfWindow(cv) THEN t.win.width ELSE cv.xe - cv.xs + 1
LHeight(t, cv) == IF OfWindow(cv) THEN t.win.height ELSE cv.ye - cv.ys + 1
Line(t, cv, y) ==
  IF OfWindow(cv) THEN t.win.lines[y + 1]
  ELSE [x \in 1..(cv.xe - cv.xs + 2) |-> IF x <= cv.xe - cv.xs + 1 THEN Other ELSE Blank]

\* Of the regions with a cell of from..to in row y, the leftmost.
Regions(t, y, from, to) == {cv \in ToSet(t.cvs) : y \in cv.ys..cv.ye /\ from <= cv.xe /\ to >= cv.xs}
CaptionAt(t, y, x) == {cv \in ToSet(t.cvs) : y = cv.ye + 1 /\ x \in cv.xs..cv.xe}
Separated(t, y, x) == \E cv \in ToSet(t.cvs) : x = cv.xe + 1 /\ y \in cv.ys..(cv.ye + 1)

LCDisplayLine(t, cv, y, xs, xe, blank) ==
  LET from == Most(xs + cv.xoff, cv.xs)
      to == Least(xe + cv.xoff, cv.xe)
  IN IF y + cv.yoff \notin cv.ys..cv.ye \/ from > to THEN t
     ELSE DisplayLine(t, IF blank THEN Empty(t) ELSE Unknown(t), Offset(t, Line(t, cv, y), cv.xoff),
                      y + cv.yoff, from, to)

\* The rest of the row, from the column from on.
RECURSIVE RefreshRow(_, _, _, _, _), WinRedisplayLine(_, _, _, _, _, _)
Gap(t, y, from, to, blank) ==
  IF blank \/ from > to THEN t ELSE DisplayLine(t, Unknown(t), Empty(t), y, from, to)
Sided(t, cv, y, from) == IF cv.xoff + LWidth(t, cv) = from THEN PutChar(t, Side, from, y) ELSE t
SidedAt(t, cv, from) == IF cv.xoff + LWidth(t, cv) = from THEN from + 1 ELSE from
\* Columns of the bottom line of a window that ends above.
Ruled(t, cv, y, from) ==
  IF y - cv.yoff = LHeight(t, cv) THEN Most(0, Least(cv.xe, cv.xoff + LWidth(t, cv) - 1) - from + 1) ELSE 0
OfRegion(t, cv, y, from, to, blank) ==
  LET yy == y - cv.yoff
      xx == Least(Least(to, cv.xe), cv.xoff + LWidth(t, cv) - 1)
  IN IF yy >= LHeight(t, cv) \/ from - cv.xoff >= LWidth(t, cv)
     THEN RefreshRow(Gap(t, y, from, cv.xe, blank), y, cv.xe + 1, to, blank)
     ELSE RefreshRow(WinRedisplayLine(t, cv, yy, from - cv.xoff, xx - cv.xoff, blank), y, xx + 1, to, blank)
WithRule(t, cv, y, from, to, blank, n) ==
  OfRegion(IF n > 0 THEN Fill(GotoPos(t, from, y), Under, n) ELSE t, cv, y, from + n, to, blank)
AtRegion(t, cv, y, from, to, blank) ==
  LET start == SidedAt(t, cv, from)
  IN WithRule(Sided(t, cv, y, from), cv, y, start, to, blank, Ruled(t, cv, y, start))
Leftmost(cvs) == CHOOSE cv \in cvs : \A o \in cvs : cv.xs <= o.xs
RefreshFrom(t, cvs, y, from, to, blank) ==
  IF cvs = {} THEN t ELSE AtRegion(t, Leftmost(cvs), y, Most(from, Leftmost(cvs).xs), to, blank)
RefreshRegions(t, cvs, y, from, to, blank) ==
  RefreshFrom(Gap(t, y, from, IF cvs = {} THEN to ELSE Leftmost(cvs).xs - 1, blank), cvs, y, from, to, blank)
RefreshRow(t, y, from, to, blank) ==
  IF from > to THEN t
  ELSE IF CaptionAt(t, y, from) # {}
  THEN LET xx == Least(to, (CHOOSE cv \in CaptionAt(t, y, from) : TRUE).xe)
       IN RefreshRow(Fill(GotoPos(t, from, y), Bar, xx - from + 1), y, xx + 1, to, blank)
  ELSE IF Separated(t, y, from) THEN RefreshRow(PutChar(t, Bar, from, y), y, from + 1, to, blank)
  ELSE RefreshRegions(t, Regions(t, y, from, to), y, from, to, blank)

RefreshLine(t, y, from, to, blank) ==
  LET wipe == ~blank /\ Can(t, "ce") /\ to = t.wi - 1 /\ from < to
  IN RefreshRow(IF wipe THEN ToEnd(GotoPos(t, from, y)) ELSE t, y, from, to, blank \/ wipe)

RefreshRows(t, ys, xs, xe, ye, blank) == Through(t, LAMBDA u, y : RefreshLine(u, y, xs, xe, blank), ys, ye)

\* A character is inserted, and the rest of the line up to xe moves right.
Inserted(t, c, x, xe, y) ==
  IF x = xe THEN PUTCHARLP(t, c)
  ELSE IF ~(Can(t, "ic") \/ Can(t, "im")) \/ xe # t.wi - 1 THEN GotoPos(RefreshLine(t, y, x, xe, FALSE), x + 1, y)
  ELSE IF Can(t, "im") \/ t.insert THEN RAW_PUTCHAR(InsertMode(t, TRUE), c)
  ELSE RAW_PUTCHAR(InsertCells(t, 1), c)
InsChar(t, c, x, xe, y) ==
  IF y = t.bot /\ ~CLP(t) /\ x = t.wi - 1 THEN [GotoPos(t, x, y) EXCEPT !.lp = c]
  ELSE Inserted([GotoPos(t, x, y) EXCEPT !.lp = IF y = t.bot /\ ~CLP(t) /\ xe = t.wi - 1 THEN None ELSE @],
                c, x, xe, y)

\* Behind: the cursor waits behind the last cell of the row, where the terminal
\* wraps by itself.  Writing that cell again brings it there, perhaps.
Behind(t, y) == t.x = t.wi /\ t.y = y
Bonus(t, y) ==
  IF Behind(t, y) \/ ~CLP(t) \/ y < 0 THEN t ELSE RefreshLine(t, y, t.wi - 1, t.wi - 1, FALSE)
Passed(t, y) == IF Behind(t, y) THEN t ELSE GotoPos(t, 0, Least(y + 1, t.he - 1))

\* The character is written there, or inserted.
Place(t, c, x, xe, y, ins, by) ==
  IF ins /\ ~(by /\ t.insert) THEN InsChar(t, c, x, xe, y)
  ELSE IF by THEN RAW_PUTCHAR([t EXCEPT !.x = 0, !.y = y], c) ELSE PutChar(t, c, x, y)
Wrapping(t, c, x, xe, y, ins, by) == Place(IF by THEN InsertMode(t, ins) ELSE t, c, x, xe, y, ins, by)

\* The terminal must not scroll when it wraps.
Free(t, y) == IF y = t.bot THEN ChangeScrollRegion(t, 0, t.he - 1) ELSE t

ByTerminal(t, x, xs) == xs = 0 /\ x = t.wi /\ Can(t, "am")

\* LWrapChar from the row y of the window, where it does not scroll: WrapChar if
\* the end of the line and the start of the next one are in view.
LWrapOn(t, cv, c, y, ins) ==
  LET xe == cv.xoff + LWidth(t, cv) - 1
      row == y + cv.yoff
      next == Least(y + 1, LHeight(t, cv) - 1) + cv.yoff
      wraps == row \in cv.ys..cv.ye /\ xe \in cv.xs..cv.xe /\ ~(ins /\ xe > cv.ye)
      by == wraps /\ ByTerminal(t, xe + 1, cv.xoff)
  IN IF next \notin cv.ys..cv.ye \/ cv.xoff \notin cv.xs..cv.xe THEN t
     ELSE Wrapping(IF by THEN Passed(Bonus(Free(t, row), row), row) ELSE t, c, cv.xoff, Least(xe, cv.xe),
                   IF wraps THEN Least(row + 1, t.he - 1) ELSE next, ins, by)

\* A line that continues the one above it is reached by wrapping.
WinRedisplayLine(t, cv, y, from, to, blank) ==
  LET runs == from = 0 /\ y > 0 /\ OfWindow(cv) /\ Line(t, cv, y - 1)[LWidth(t, cv) + 1] = Mem!NUL
  IN LCDisplayLine(IF runs THEN LWrapOn(t, cv, Line(t, cv, y)[1], y - 1, FALSE) ELSE t, cv, y,
                   IF runs THEN 1 ELSE from, to, blank)

-----------------------------------------------------------------------------
(* Clearing and scrolling.                                                  *)

\* A row of the area: by the terminal, or against what the window has there.
OneCanvas(t, y, from, to) ==
  {cv \in ToSet(t.cvs) : y \in cv.ys..cv.ye /\ from >= cv.xs /\ to <= cv.xe
     /\ (y - cv.yoff) \in 0..(LHeight(t, cv) - 1) /\ to >= cv.xoff /\ from - cv.xoff < LWidth(t, cv)}
LClearLine(t, cv, y, xs, xe) ==
  ClearLine(t, Offset(t, Line(t, cv, y), cv.xoff), y + cv.yoff,
            Most(Least(xs, LWidth(t, cv) - 1) + cv.xoff, cv.xs), Least(Least(xe, LWidth(t, cv) - 1) + cv.xoff, cv.xe))
ClearRow(t, y, from, to, uself) ==
  IF from = 0 /\ Can(t, "cb") /\ (to # t.wi - 1 \/ (t.x = to /\ t.y = y)) THEN ToStart(GotoPos(t, to, y))
  ELSE IF to = t.wi - 1 /\ Can(t, "ce") THEN ToEnd(GotoPos(t, from, y))
  ELSE IF uself /\ OneCanvas(t, y, from, to) # {}
  THEN LET cv == CHOOSE cv \in OneCanvas(t, y, from, to) : TRUE
       IN LClearLine(t, cv, y - cv.yoff, from - cv.xoff, to - cv.xoff)
  ELSE ClearLine(t, Unknown(t), y, from, to)
ClearRows(t, x1, y1, xs, xe, x2, y2, uself) ==
  Through(t, LAMBDA u, y : ClearRow(u, y, IF y = y1 THEN x1 ELSE xs, IF y = y2 THEN x2 ELSE xe, uself), y1, y2)

\* From x1 in row y1 to x2 in row y2, in the rows between from xs to xe.
Wipe(t, x1, y1, xs, xe, x2, y2, uself) ==
  LET toEnd == x2 = t.wi - 1 /\ (xs = 0 \/ y1 = y2) /\ xe = t.wi - 1 /\ y2 = t.he - 1
  IN IF toEnd /\ x1 = 0 /\ y1 = 0 THEN [Cleared(t) EXCEPT !.x = 0, !.y = 0]
     ELSE IF toEnd /\ Can(t, "cd") /\ (y1 < y2 \/ ~Can(t, "ce")) THEN Below(GotoPos(t, x1, y1))
     ELSE ClearRows(t, x1, y1, xs, xe, x2, y2, uself)

\* The cell kept back is forgotten when it is cleared.
Forgotten(t, y1, xe, x2, y2) ==
  IF y1 <= t.bot /\ xe = t.wi - 1 /\ (y2 > t.bot \/ (y2 = t.bot /\ x2 = t.wi - 1))
  THEN [t EXCEPT !.lp = None] ELSE t
ClearArea(t, x1, y1, xs, xe, x2, y2, uself) ==
  Wipe(Forgotten(t, y1, xe, Least(x2, t.wi - 1), y2), Least(x1, t.wi - 1), y1, xs, xe, Least(x2, t.wi - 1), y2, uself)

RefreshArea(t, xs, ys, xe, ye, blank) ==
  LET wipe == ~blank /\ xs = 0 /\ xe = t.wi - 1 /\ ye = t.he - 1 /\ (ys = 0 \/ Can(t, "cd"))
  IN RefreshRows(IF wipe THEN ClearArea(t, xs, ys, xs, xe, xe, ye, FALSE) ELSE t, ys, xs, xe, ye, blank \/ wipe)

\* Cells of a line move: the missing character becomes visible or goes.
Restored(t, y, n) ==
  IF t.lp = None \/ y # t.bot THEN t
  ELSE [(IF n > 0 THEN WriteLP(t, t.wi - 1 - n, y) ELSE t) EXCEPT !.lp = None]
Blanks(t, n) == IF t.insert \/ ~Can(t, "ic") THEN Times(InsertMode(t, TRUE), LAMBDA u : INSERTCHAR(u, Blank), n)
                ELSE InsertCells(t, n)
ScrollH(t, y, xs, xe, n) ==
  IF xe # t.wi - 1 \/ ~(IF n > 0 THEN Can(t, "dc") ELSE t.insert \/ Can(t, "ic") \/ Can(t, "im"))
  THEN RefreshLine(IF xe # t.wi - 1 THEN t ELSE GotoPos(t, xs, y), y, xs, xe, FALSE)
  ELSE LET k == Least(IF n < 0 THEN -n ELSE n, xe - xs + 1)
       IN IF n > 0 THEN Restored(DeleteCells(GotoPos(t, xs, y), k), y, k)
          ELSE Restored(Blanks(GotoPos(t, xs, y), k), y, -k)

\* Where the missing character will be after n lines have gone.
Missing(t, ys, ye, n) == IF t.bot \notin ys..ye THEN t.bot ELSE t.bot - n
ForRegion(t, ys, ye, aldl) ==
  LET first == IF ys < t.top \/ t.bot # ye THEN ChangeScrollRegion(t, ys, ye) ELSE t
  IN IF first.top # ys /\ ~aldl THEN ChangeScrollRegion(first, ys, ye) ELSE first
DeleteLines(t, y, n) == Lines(GotoPos(t, 0, y), n)
InsertLines(t, y, n) == Lines(GotoPos(t, 0, y), -n)

ScrollLines(t, xs, ys, xe, ye, k, up) ==
  IF (up \/ Can(t, "sr")) /\ t.top = ys /\ t.bot = ye /\ ~(k > 1 /\ Can(t, "al"))
  THEN IF up THEN Times(GotoPos(t, 0, ye), Newline, k) ELSE Times(GotoPos(t, 0, ys), ReverseIndex, k)
  ELSE IF ye = t.bot THEN IF up THEN DeleteLines(t, ys, k) ELSE InsertLines(t, ys, k)
  ELSE IF up THEN InsertLines(DeleteLines(t, ys, k), ye + 1 - k, k)
  ELSE InsertLines(DeleteLines(t, ye + 1 - k, k), ys, k)
Scrollable(t, ys, ye, up) == Can(t, "al") \/ ((up \/ Can(t, "sr")) /\ t.top = ys /\ t.bot = ye)

\* At last the missing character is written where it has come to.
LastLP(t, missy) == IF t.lp # None /\ missy # t.bot THEN WriteLP(t, t.wi - 1, missy) ELSE t
Scrolled(t, xs, ys, xe, ye, k, up, missy, part) ==
  IF k = 0 THEN t
  ELSE IF part \/ ~Scrollable(t, ys, ye, up) THEN RefreshArea(t, xs, ys, xe, ye, FALSE)
  ELSE LastLP(ScrollLines(t, xs, ys, xe, ye, k, up), missy)

\* Writing the missing character scrolls by one line, if the region is the same.
Writes(t, ys, ye, up, oldbot) == t.lp # None /\ (oldbot # t.bot \/ (up /\ t.top = ys /\ t.bot = ye))
Pushing(t, xs, ys, xe, ye, k, up, missy, part, oldbot) ==
  LET writes == ~part /\ Writes(t, ys, ye, up, oldbot)
  IN Scrolled(IF writes THEN WriteLP(t, t.wi - 1, oldbot) ELSE t, xs, ys, xe, ye,
              IF writes /\ oldbot = t.bot THEN k - 1 ELSE k, up, missy, part)

MostLeft(t) == Min({cv.xs : cv \in ToSet(t.cvs)})
MostRight(t) == Max({cv.xe : cv \in ToSet(t.cvs)})
ScrollV(t, xs, ys, xe, ye, n) ==
  LET up == n > 0
      k == IF up THEN n ELSE -n
      missy == Missing(t, ys, ye, n)
      gone == t.bot \in ys..ye /\ missy \notin ys..ye
      part == xs > MostLeft(t) \/ xe < MostRight(t)
  IN IF n = 0 THEN t
     ELSE IF k >= ye - ys + 1 THEN ClearArea(t, xs, ys, xs, xe, xe, ye, FALSE)
     ELSE Pushing(IF part THEN t ELSE ForRegion([t EXCEPT !.lp = IF gone THEN None ELSE @], ys, ye, Can(t, "al")),
                  xs, ys, xe, ye, k, up, missy, part, t.bot)

-----------------------------------------------------------------------------
(* layer.c: what the window does, in each region that shows it.             *)

Each(t, Op(_, _)) == FoldLeft(LAMBDA u, cv : IF OfWindow(cv) THEN Op(u, cv) ELSE u, t, t.cvs)

\* The cursor is put into the region in front, at its edge if it is outside.
Clip(x, from, to) == Least(Most(x, from), to)
PutCursor(t, cv, x, y) == GotoPos(t, Clip(x + cv.xoff, cv.xs, cv.xe), Clip(y + cv.yoff, cv.ys, cv.ye))
LaySetCursor(t) ==
  IF OfWindow(Head(t.cvs)) THEN PutCursor(t, Head(t.cvs), t.win.x, t.win.y) ELSE PutCursor(t, Head(t.cvs), 0, 0)
LGotoPosAt(t, x) == IF OfWindow(Head(t.cvs)) THEN PutCursor(t, Head(t.cvs), x, t.win.y) ELSE t
LGotoPos(t) == LGotoPosAt(t, t.win.x)

LPutChar(t, cv, c, x, y) ==
  IF y + cv.yoff \in cv.ys..cv.ye /\ x + cv.xoff \in cv.xs..cv.xe THEN PutChar(t, c, x + cv.xoff, y + cv.yoff) ELSE t

\* What comes in at the left edge of a region is the cell that was outside.
Repaired(t, from, y1, to, y2, outside) == IF outside THEN RefreshArea(t, from, y1, to, y2, TRUE) ELSE t
LInsChar(t, cv, c, x, y, old) ==
  LET xs == Most(x + cv.xoff, cv.xs)
      xe == Least(t.win.width - 1 + cv.xoff, cv.xe)
      row == y + cv.yoff
      in == IF x + cv.xoff >= cv.xs THEN c ELSE IF old = <<>> THEN Blank ELSE old[xs - cv.xoff]
  IN IF row \notin cv.ys..cv.ye \/ xs > xe THEN t
     ELSE Repaired(InsChar(t, in, xs, xe, row), xs, row, xs, row, x + cv.xoff < cv.xs /\ old = <<>>)

\* What comes into a region from outside of it is drawn.
LScrollH(t, cv, n, y, xs, xe) ==
  LET from == Most(xs + cv.xoff, cv.xs)
      to == Least(xe + cv.xoff, cv.xe)
      newFrom == Most(IF n > 0 THEN to + 1 - n ELSE xs + cv.xoff - n, cv.xs)
      newTo == Least(IF n > 0 THEN xe + cv.xoff - n ELSE from - 1 - n, cv.xe)
      row == y + cv.yoff
  IN IF row \notin cv.ys..cv.ye \/ from > to THEN t
     ELSE Repaired(ScrollH(t, row, from, to, n), newFrom, row, newTo, row, to - from # xe - xs /\ newFrom <= newTo)

\* mutant: lines that come into a region from outside of it are not drawn
LScrollV_inside(t, cv, n, ys, ye) ==
  LET top == Most(ys + cv.yoff, cv.ys)
      bot == Least(ye + cv.yoff, cv.ye)
  IN IF top > bot THEN t ELSE ScrollV(t, cv.xs, top, cv.xe, bot, n)

LScrollV(t, cv, n, ys, ye) ==
  LET top == Most(ys + cv.yoff, cv.ys)
      bot == Least(ye + cv.yoff, cv.ye)
      newTop == Most(IF n > 0 THEN bot + 1 - n ELSE ys + cv.yoff - n, cv.ys)
      newBot == Least(IF n > 0 THEN ye + cv.yoff - n ELSE top - 1 - n, cv.ye)
      xs == Most(cv.xoff, cv.xs)
      xe == Least(LWidth(t, cv) - 1 + cv.xoff, cv.xe)
  IN IF n = 0 \/ top > bot \/ xs > xe THEN t
     ELSE Repaired(ScrollV(t, cv.xs, top, cv.xe, bot, n), xs, newTop, xe, newBot, bot - top # ye - ys /\ newTop <= newBot)

\* An area within one window, clipped to the region; a line at the right of a
\* window that is narrower than its region is drawn again.
Sides(t, x, ys, ye) == Through(t, LAMBDA u, y : PutChar(u, Side, x, y), ys, ye)
WithSides(t, cv, y1, y2, draws) == IF draws THEN Sides(t, cv.xoff + t.win.width, y1, y2) ELSE t
Area(t, cv, x1, y1, x2, y2, all) ==
  WithSides(ClearArea(t, x1, y1, cv.xs, cv.xe, x2, y2, TRUE), cv, y1, y2, all /\ x2 > cv.xoff + t.win.width - 1)
LClearArea(t, cv, x1, ys, x2, ye) ==
  LET xs == Least(x1, t.win.width - 1)
      xe == Least(x2, t.win.width - 1)
      from == Most(xs + cv.xoff, cv.xs)
      to == Least(xe + cv.xoff, cv.xe)
      top == Most(IF from > cv.xe THEN ys + cv.yoff + 1 ELSE ys + cv.yoff, cv.ys)
      bot == Least(IF to < cv.xs THEN ye + cv.yoff - 1 ELSE ye + cv.yoff, cv.ye)
  IN IF top > bot THEN t
     ELSE Area(t, cv, IF xs = 0 \/ top # ys + cv.yoff THEN cv.xs ELSE from, top,
               IF xe = t.win.width - 1 \/ bot # ye + cv.yoff THEN cv.xe ELSE to, bot, xe = t.win.width - 1)

\* WrapChar with the region ys..ye, whose last row is the cursor's: screen scrolls
\* it and wraps from the row above, or the terminal scrolls itself as it wraps.
WrapLast(t, c, xs, xe, ye, ins, by, own) ==
  Wrapping(IF by /\ ~own THEN Passed(Bonus(t, ye - 1), ye - 1) ELSE t, c, xs, xe, ye, ins, by)
Brought(t, x, y, goes) == IF goes THEN GotoPos(t, x, y) ELSE t
WrapReady(t, c, xs, ys, xe, ye, ins, by, own) ==
  LET itself == own /\ Behind(t, ye)
  IN WrapLast(Brought(ScrollV(t, xs, ys, xe, ye, IF itself THEN 0 ELSE 1), xs, ye, own /\ ~itself),
              c, xs, xe, ye, ins, by, own)
WrapFrom(t, c, xs, ys, xe, ye, ins, by) ==
  LET own == by /\ t.bot = ye /\ t.x = t.wi /\ Can(t, "be")
  IN WrapReady(IF own THEN Bonus(t, ye) ELSE t, c, xs, ys, xe, ye, ins, by, own)
WrapScroll(t, c, x, xs, ys, xe, ye, ins) ==
  LET by == ByTerminal(t, x, xs)
  IN WrapFrom(IF by THEN ChangeScrollRegion(t, ys, ye) ELSE t, c, xs, ys, xe, ye, ins, by)

\* LWrapChar from the last line of the region: WrapChar if the region's row is in
\* view from its start to its end.
InView(cv, w, y) == y + cv.yoff \in cv.ys..cv.ye /\ cv.xoff >= cv.xs /\ cv.xoff + w.width - 1 <= cv.xe
LWrapScroll(t, cv, c, w) ==
  WrapScroll(t, c, cv.xoff + w.width, cv.xoff, Most(w.top + cv.yoff, cv.ys), cv.xoff + w.width - 1, w.bot + cv.yoff, w.insert)
LPlace(t, cv, c, x, y, ins, old) == IF ins THEN LInsChar(t, cv, c, x, y, old) ELSE LPutChar(t, cv, c, x, y)

-----------------------------------------------------------------------------
(* The steps of the program: the window's memory changes, and the regions.  *)

Become(t, win) == [t EXCEPT !.win = win]
Step(t) == left > 0 /\ left' = left - 1 /\ \E next \in {t} : d' = next

LOfChar(t, w, cv, c) ==
  LET wraps == w.x = w.width
  IN IF wraps /\ w.y # w.bot THEN LWrapOn(t, cv, c, w.y, w.insert)
     ELSE IF wraps /\ InView(cv, w, w.bot) THEN LWrapScroll(t, cv, c, w)
     ELSE LPlace(IF wraps THEN LScrollV(t, cv, 1, w.top, w.bot) ELSE t, cv, c, IF wraps THEN 0 ELSE w.x, w.y,
                 w.insert /\ w.x # w.width - 1, IF wraps THEN <<>> ELSE w.lines[w.y + 1])
\* Three wraps go wrong on the display, see the README: in the last line of the
\* window below its region, and in insert mode where the start of the line is out
\* of view, or the region is drawn again because it cannot be scrolled.
Astray(w) ==
  /\ w.x = w.width
  /\ \/ w.y # w.bot /\ w.y = w.height - 1
     \/ w.insert /\ \E cv \in ToSet(d.cvs) : OfWindow(cv) /\
          IF w.y = w.bot THEN cv.xs > MostLeft(d) \/ cv.xe < MostRight(d) ELSE cv.xoff \notin cv.xs..cv.xe
Character ==
  /\ ~Astray(d.win)
  /\ \E c \in Letters : Step(Each(Become(d, Mem!WriteChar(d.win, c)), LAMBDA t, cv : LOfChar(t, d.win, cv, c)))

\* The cursor moves only.
Goes(t, win) == LGotoPos(Become(t, win))
Motion ==
  \/ Step(Goes(d, Mem!Return(d.win)))
  \/ Step(Goes(d, Mem!BackSpace(d.win)))
  \/ \E x \in 0..(d.win.width - 1), y \in 0..(d.win.height - 1) :
       Step(Goes(d, Mem!GotoPos(d.win, y + 1, x + 1)))
Margins == \E top, bot \in 1..d.win.height : top < bot /\ Step(Goes(d, Mem!SetRegion(d.win, top, bot)))

Scrolling(n, ys, ye) ==
  Step(LGotoPos(Each(Become(d, Mem!MScrollV(d.win, n, ys, ye)), LAMBDA t, cv : LScrollV(t, cv, n, ys, ye))))
Scrolls(w) ==
  {<<2, w.top, w.bot>>, <<-2, w.top, w.bot>>}
    \cup (IF w.y = w.bot THEN {<<1, w.top, w.bot>>} ELSE {})
    \cup (IF w.y = w.top THEN {<<-1, w.top, w.bot>>} ELSE {})
    \cup (IF Mem!InRegion(w) THEN {<<1, w.y, w.bot>>, <<-1, w.y, w.bot>>} ELSE {})
Scroll ==
  \/ \E s \in Scrolls(d.win) : Scrolling(s[1], s[2], s[3])
  \/ d.win.y # d.win.bot /\ Step(Goes(d, Mem!LineFeed(d.win, FALSE)))
  \/ d.win.y # d.win.top /\ Step(Goes(d, Mem!ReverseLineFeed(d.win)))

Editing(n) ==
  LET w == d.win x == Mem!Column(w) IN
  Step(LGotoPosAt(Each(Become(d, Mem!MScrollH(w, n, w.y, x, w.width - 1)),
                      LAMBDA t, cv : LScrollH(t, cv, n, w.y, x, w.width - 1)), x))
\* So does a missing character that is deleted with the rest of its line.
Edit == \E n \in {-2, -1, 1, 2} : (d.lp # None => n < d.win.width - Mem!Column(d.win)) /\ Editing(n)

\* What is cleared is cleared on the display first.
Clearing(win, x1, ys, x2, ye) ==
  Step(LGotoPos(Become(Each(d, LAMBDA t, cv : LClearArea(t, cv, x1, ys, x2, ye)), win)))
Erased(win, x1, ys, x2, ye) == [win |-> win, x1 |-> x1, ys |-> ys, x2 |-> x2, ye |-> ye]
Erasures(w) ==
  {Erased(IF w.x = 0 /\ w.y = 0 THEN Mem!ClearScreen(w) ELSE Mem!ClearToEOS(w), w.x, w.y, w.width - 1, w.height - 1),
   Erased(Mem!ClearFromBOS(w), 0, 0, w.x, w.y),
   Erased(Mem!ClearScreen(w), 0, 0, w.width - 1, w.height - 1),
   Erased(Mem!ClearLineRegion(w, w.x, w.width - 1), w.x, w.y, w.width - 1, w.y),
   Erased(Mem!ClearLineRegion(w, 0, w.x), 0, w.y, w.x, w.y)}
Erase == \E e \in Erasures(d.win) : Clearing(e.win, e.x1, e.ys, e.x2, e.ye)

\* The insert mode of the window is that of the displays that show it.
SetInsert ==
  \E on \in BOOLEAN : Step(InsertMode([d EXCEPT !.win.insert = on], on))

-----------------------------------------------------------------------------
(* What the user does, and what screen does by itself.                      *)

LayRestore(t) == InsertMode(t, OfWindow(Head(t.cvs)) /\ t.win.insert)
Redisplayed(t) ==
  LET blank == ClearArea(ChangeScrollRegion(InsertMode(t, FALSE), 0, t.he - 1), 0, 0, 0, t.wi - 1, t.wi - 1, t.he - 1, FALSE)
  IN LaySetCursor(LayRestore(RefreshArea(blank, 0, 0, t.wi - 1, t.he - 1, TRUE)))
Redisplay == Step(Redisplayed(d))

\* A message of n cells is shown in the last row, and removed (MakeStatus and
\* RemoveStatus; meanwhile the windows wait, see WindowIO).
RECURSIVE Say(_, _)
Say(t, n) == IF n = 0 THEN t ELSE Say(Typed(t, Bar), n - 1)
Room(t) == IF CLP(t) THEN t.wi ELSE t.wi - 1
\* Up to two blanks set it off, one after the other, if there is room.
Padded(t, n) ==
  IF n = Room(t) THEN t
  ELSE IF n + 1 = Room(t) THEN At(Typed(t, Blank), n, t.ty)
  ELSE At(Typed(Typed(t, Blank), Blank), n, t.ty)
Said(t, n) == [Padded(Say(InsertMode(GotoPos(t, 0, t.he - 1), FALSE), n), n) EXCEPT !.x = -1]
Again(t, n, x, y) ==
  LaySetCursor(GotoPos(RefreshLine(GotoPos(t, 0, t.he - 1), t.he - 1, 0, Least(n + 2, Room(t)) - 1, FALSE), x, y))
Message ==
  \E n \in 1..Room(d) : Step(Times(Said(d, n), LAMBDA t : Again(t, n, d.x, d.y), IF d.captions THEN 2 ELSE 1))

\* The view of a window that is larger than its region follows the cursor (the
\* end of serv_select_fn): up or down to the cursor's row, and half the region
\* to the left or right at least, but not past the edge.
Viewed(t, i, cv) == [t EXCEPT !.cvs[i] = cv]
DrawLines(t, cv, ys, ye) ==
  Through(t, LAMBDA u, y : WinRedisplayLine(u, cv, y, 0, LWidth(u, cv) - 1, TRUE), ys, ye)
ViewV(t, i, cv, n) ==
  LET he == LHeight(t, cv) k == Least(IF n < 0 THEN -n ELSE n, he) IN
  DrawLines(LScrollV(Viewed(t, i, cv), cv, IF n < 0 THEN -k ELSE k, 0, he - 1), cv,
            IF n < 0 THEN 0 ELSE he - k, IF n < 0 THEN k - 1 ELSE he - 1)
ShiftLine(t, cv, y, n) ==
  LET wi == LWidth(t, cv) IN
  WinRedisplayLine(LScrollH(t, cv, n, y, 0, wi - 1), cv, y,
                   IF n < 0 THEN 0 ELSE wi - n, IF n < 0 THEN -n - 1 ELSE wi - 1, TRUE)
ShiftLines(t, cv, n) == Through(t, LAMBDA u, y : ShiftLine(u, cv, y, n), 0, LHeight(t, cv) - 1)
HalfOrMore(cv, n) == Most(n, (cv.xe - cv.xs + 1) \div 2)
ToLeft(cv, x) == Least(HalfOrMore(cv, cv.xs - x), cv.xs - cv.xoff)
ToRight(t, cv, x) == Least(HalfOrMore(cv, x - cv.xe), cv.xoff + LWidth(t, cv) - 1 - cv.xe)
ViewH(t, i, cv, n) ==
  ShiftLines(Viewed(t, i, cv), cv, IF n < 0 THEN -Least(-n, LWidth(t, cv)) ELSE Least(n, LWidth(t, cv)))

InFront(t, i) == IF i = 1 THEN LaySetCursor(t) ELSE t
Vertical(t, i, cv, y) ==
  IF y \in cv.ys..cv.ye THEN t
  ELSE InFront(ViewV(t, i, [cv EXCEPT !.yoff = (IF y < cv.ys THEN cv.ys ELSE cv.ye) - t.win.y], y - Clip(y, cv.ys, cv.ye)), i)
Beyond(t, cv, x) ==
  IF x < cv.xs THEN -ToLeft(cv, x) ELSE IF x > cv.xe THEN ToRight(t, cv, x) ELSE 0
Horizontal(t, i, cv, n) == IF n = 0 THEN t ELSE InFront(ViewH(t, i, [cv EXCEPT !.xoff = @ - n], n), i)
Sideways(t, i, cv) == Horizontal(t, i, cv, Beyond(t, cv, Mem!Column(t.win) + cv.xoff))
ViewSideways(t, i) == Sideways(t, i, t.cvs[i])
View(t, i) ==
  IF OfWindow(t.cvs[i]) THEN ViewSideways(Vertical(t, i, t.cvs[i], t.win.y + t.cvs[i].yoff), i) ELSE t
Views(t) == Through(t, View, 1, Len(t.cvs))
Settled(t) == IF Len(t.cvs) > 1 THEN LaySetCursor(LayRestore(t)) ELSE t
Normalize == Step(Settled(Views(d)))

\* The terminal is initialised and drawn; the window has text in all cells.
Start(caps, l) ==
  Redisplayed(
    [caps |-> caps, wi |-> l.wi, he |-> l.he, cvs |-> l.cvs, captions |-> l.captions,
     cells |-> [y \in 1..l.he |-> [x \in 1..l.wi |-> Blank]], tx |-> 0, ty |-> 0, pend |-> FALSE,
     ttop |-> 0, tbot |-> l.he - 1, tins |-> FALSE,
     x |-> 0, y |-> 0, top |-> 0, bot |-> l.he - 1, insert |-> FALSE, lp |-> None, win |-> l.win])

Init == \E caps \in Terminals, l \in Layouts : d = Start(caps, l) /\ left = l.steps
Next ==
  \/ Character \/ Motion \/ Margins \/ Scroll \/ Edit \/ Erase \/ SetInsert
  \/ Redisplay \/ Message \/ Normalize
Spec == Init /\ [][Next]_vars

-----------------------------------------------------------------------------
(* What the user must see.                                                  *)

\* A cell of a region: the window's, or what stands beside and below it.
InRegion(t, cv, x, y) ==
  LET wx == x - cv.xoff
      wy == y - cv.yoff
      wi == LWidth(t, cv)
      he == LHeight(t, cv)
  IN IF wy < he /\ wx < wi THEN Line(t, cv, wy)[wx + 1]
     ELSE IF wy < he /\ wx = wi THEN Side
     ELSE IF wy = he /\ wx < wi THEN Under ELSE Blank
Expected(t, x, y) ==
  IF CaptionAt(t, y, x) # {} \/ Separated(t, y, x) THEN Bar
  ELSE LET in == {cv \in ToSet(t.cvs) : x \in cv.xs..cv.xe /\ y \in cv.ys..cv.ye}
       IN IF in = {} THEN Blank ELSE InRegion(t, CHOOSE cv \in in : TRUE, x, y)

\* The terminal shows the regions, but for the one cell it cannot write and the
\* line at the side of a narrow window, which a scroll takes away, and
\* what screen believes of its cursor, scrolling region and insert mode is so.
Picture ==
  \A y \in 0..(d.he - 1), x \in 0..(d.wi - 1) :
    \/ d.cells[y + 1][x + 1] = Expected(d, x, y)
    \/ d.lp = Expected(d, x, y) /\ x = d.wi - 1 /\ y = d.bot
    \/ Expected(d, x, y) = Side /\ d.cells[y + 1][x + 1] = Blank
Belief ==
  /\ d.y >= 0 => d.ty = d.y
  /\ d.x >= 0 => d.tx = Least(d.x, d.wi - 1) /\ d.pend = (d.x = d.wi)
  /\ d.top = d.ttop /\ d.bot = d.tbot /\ d.insert = d.tins
ScreenShown == Picture /\ Belief

=============================================================================
