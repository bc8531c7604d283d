------------------------------- MODULE Screen -------------------------------
(* The memory of a window: what the terminal emulator (ansi.c) does to its  *)
(* lines, cursor, scrolling region and history, and what becomes of them    *)
(* when the window changes its size or enters and leaves the alternate      *)
(* screen (resize.c).                                                       *)
(*                                                                          *)
(* A line is a tuple of width + 1 cells; the last of them says whether the  *)
(* text runs on into the next line.  Left out are attributes, colours and   *)
(* fonts, encodings other than UTF-8, the row of autoaka, what displays are *)
(* told (the calls of layer.c), and lack of memory.                         *)
EXTENDS Integers, FiniteSetsExt, SequencesExt

CONSTANTS
  Chars,      \* characters one column wide
  Wide,       \* a character two columns wide
  Widths,     \* sizes a window may be given
  Heights,
  Histories,  \* lines of history that may be asked for
  Args        \* bound: parameters of control sequences; 0 where none is given

\* Cells that are no characters: a blank, the mark of a line that runs on, and
\* the right half of a wide character (dw_right).
Blank == " "
NUL == "NUL"
Right == "right"

ASSUME ScreenAssumption ==
  /\ {Blank, NUL, Right} \cap (Chars \cup {Wide}) = {} /\ Wide \notin Chars \cup {"E"}
  /\ Widths \subseteq Nat \ {0} /\ Heights \subseteq Nat \ {0} /\ Widths # {} /\ Heights # {}
  /\ Histories \subseteq Nat /\ Args \subseteq Nat

VARIABLES
  mem,      \* width, height, lines, hlines (a ring), histidx, scrollback
  cursor,   \* x, y; x = width at the magic margin
  region,   \* w_top, w_bot
  modes,    \* w_insert, w_wrap, w_origin, and compacthist of the daemon
  tabs,     \* columns with a tab stop
  saved,    \* w_saved
  alt,      \* w_alt: whether it is on, and the screen that is put away
  entered,  \* history: the screen when the alternate one was entered, until it changes size
  pushed    \* history: the lines last pushed into the history, in order

vars == <<mem, cursor, region, modes, tabs, saved, alt, entered, pushed>>

\* The window as one record, which the operators below work on.
Win == [width |-> mem.width, height |-> mem.height, lines |-> mem.lines,
        hlines |-> mem.hlines, histidx |-> mem.histidx, scrollback |-> mem.scrollback,
        x |-> cursor.x, y |-> cursor.y, top |-> region.top, bot |-> region.bot,
        insert |-> modes.insert, wrap |-> modes.wrap, origin |-> modes.origin,
        compact |-> modes.compact, tabs |-> tabs, saved |-> saved, alt |-> alt,
        pushed |-> pushed]

Put(w) ==
  /\ mem' = [width |-> w.width, height |-> w.height, lines |-> w.lines,
             hlines |-> w.hlines, histidx |-> w.histidx, scrollback |-> w.scrollback]
  /\ cursor' = [x |-> w.x, y |-> w.y]
  /\ region' = [top |-> w.top, bot |-> w.bot]
  /\ modes' = [insert |-> w.insert, wrap |-> w.wrap, origin |-> w.origin, compact |-> w.compact]
  /\ tabs' = w.tabs /\ saved' = w.saved /\ alt' = w.alt /\ pushed' = w.pushed

Least(a, b) == IF a < b THEN a ELSE b
Most(a, b) == IF a > b THEN a ELSE b
Default(a) == IF a = 0 THEN 1 ELSE a

-----------------------------------------------------------------------------
(* Cells and lines.                                                         *)

BlankLine(width) == [i \in 1..(width + 1) |-> Blank]
BlankLines(n, width) == <<>> \o [i \in 1..n |-> BlankLine(width)]

At(line, x) == line[x + 1]
Set(line, x, c) == [line EXCEPT ![x + 1] = c]
RunsOn(line) == Last(line) # Blank

\* A cell of a wide character is overwritten: the other half goes, too.  The
\* cell past the end of a line is not looked at.
MKillDwRight(line, x) ==
  IF At(line, x) # Right THEN line
  ELSE [i \in DOMAIN line |-> IF i \in {x, x + 1} THEN Blank ELSE line[i]]

MKillDwLeft(line, x) ==
  IF x + 2 > Len(line) \/ At(line, x + 1) # Right THEN line
  ELSE [i \in DOMAIN line |-> IF i \in {x + 1, x + 2} THEN Blank ELSE line[i]]

clear_mline(line, x, n) == [i \in DOMAIN line |-> IF i \in (x + 1)..(x + n) THEN Blank ELSE line[i]]

copy_mline(line, from, to, n) ==
  [i \in DOMAIN line |-> IF i \in (to + 1)..(to + n) THEN line[i - to + from] ELSE line[i]]

WithLine(w, y, line) == [w EXCEPT !.lines[y + 1] = line]

\* Both halves of c are copied, or the one there is.
Written(line, x, c) ==
  IF c = Wide THEN Set(Set(line, x, c), x + 1, Right) ELSE Set(line, x, c)

MPutChar(w, c, x, y) ==
  LET killed == MKillDwLeft(MKillDwRight(w.lines[y + 1], x), x)
      room == IF c = Wide THEN MKillDwLeft(Set(killed, x, c), x + 1) ELSE killed
  IN WithLine(w, y, Written(room, x, c))

\* mutant: half of a wide character stays at the margin
Opened_half(line, x, n) == IF n > 0 THEN copy_mline(line, x, x + 1, n) ELSE line

\* One cell is opened at x; what is pushed over the margin is lost, whole.
Opened(line, x, n) ==
  IF n > 0 THEN copy_mline(MKillDwRight(line, Len(line) - 2), x, x + 1, n) ELSE line

MInsChar(w, c, x, y) ==
  LET n == w.width - x - 1
      first == Set(Opened(MKillDwRight(w.lines[y + 1], x), x, n), x, c)
  IN WithLine(w, y, IF c = Wide THEN Set(Opened(first, x + 1, n - 1), x + 1, Right) ELSE first)

\* Cells of the line y move n columns to the left, or to the right if n < 0.
MScrollH(w, n, y, xs, xe) ==
  LET whole == MKillDwLeft(MKillDwRight(w.lines[y + 1], xs), xe)
      size == xe - xs + 1
      k == Least(IF n < 0 THEN -n ELSE n, size)
  IN WithLine(w, y,
       IF n > 0
       THEN clear_mline(IF k < size THEN copy_mline(MKillDwRight(whole, xs + k), xs + k, xs, size - k)
                        ELSE whole, xe + 1 - k, k)
       ELSE clear_mline(IF k < size THEN copy_mline(MKillDwLeft(whole, xe - k), xs, xs + k, size - k)
                        ELSE whole, xs, k))

MClearArea(w, x1, ys, x2, ye) ==
  LET xs == Least(x1, w.width - 1)
      xe == Least(x2, w.width - 1)
      first == [w EXCEPT !.lines[ys + 1] = MKillDwRight(@, xs)]
      both == [first EXCEPT !.lines[ye + 1] = MKillDwLeft(@, xe)]
      From(y) == IF y = ys THEN xs ELSE 0
      To(y) == IF y = ye THEN xe ELSE w.width - 1
      Cleared(y) == clear_mline(both.lines[y + 1], From(y), To(y) - From(y) + 1)
  IN [w EXCEPT !.lines =
       <<>> \o [i \in DOMAIN @ |-> IF i - 1 \in ys..ye THEN Cleared(i - 1) ELSE both.lines[i]]]

-----------------------------------------------------------------------------
(* Scrolling and the history.                                               *)

Oldest(w) == w.histidx + 1

\* The ring from its oldest line on (OLDWIN).
History(w) == SubSeq(w.hlines, Oldest(w), Len(w.hlines)) \o SubSeq(w.hlines, 1, w.histidx)

\* mutant: the ring is one line shorter for its index
WAddLineToHist_short(w, line) ==
  IF w.hlines = <<>> THEN w
  ELSE [w EXCEPT
         !.hlines[Oldest(w)] = line,
         !.histidx = IF @ + 2 >= Len(w.hlines) THEN 0 ELSE @ + 1,
         !.scrollback = Least(@ + 1, Len(w.hlines)),
         !.pushed = Append(Tail(@), line)]

WAddLineToHist(w, line) ==
  IF w.hlines = <<>> THEN w
  ELSE [w EXCEPT
         !.hlines[Oldest(w)] = line,
         !.histidx = IF @ + 1 >= Len(w.hlines) THEN 0 ELSE @ + 1,
         !.scrollback = Least(@ + 1, Len(w.hlines)),
         !.pushed = Append(Tail(@), line)]

\* The rows enter the history from top to bottom.
AddLines(w, rows) ==
  LET added[n \in 0..Len(rows)] == IF n = 0 THEN w ELSE WAddLineToHist(added[n - 1], rows[n])
  IN added[Len(rows)]

\* The last line between ys and ye with something on it, or ys - 1.
MFindUsedLine(w, ye, ys) ==
  Max({ys - 1} \cup {y \in ys..ye : \E x \in 0..(w.width - 1) : At(w.lines[y + 1], x) # Blank})

Rows(w, from, to) == SubSeq(w.lines, from + 1, to + 1)

\* n > 0 lines leave at ys, for the history if ys is the top of the region.
ScrollUp(w, n, ys, ye) ==
  IF n <= 0 THEN w
  ELSE [(IF ys = w.top THEN AddLines(w, Rows(w, ys, ys + n - 1)) ELSE w) EXCEPT
         !.lines = Rows(w, 0, ys - 1) \o Rows(w, ys + n, ye) \o BlankLines(n, w.width)
                   \o Rows(w, ye + 1, w.height - 1)]

ScrollDown(w, n, ys, ye) ==
  [w EXCEPT !.lines = Rows(w, 0, ys - 1) \o BlankLines(n, w.width) \o Rows(w, ys, ye - n)
                      \o Rows(w, ye + 1, w.height - 1)]

ScrollUsed(w, n, ys, ye) == ScrollUp(w, Least(n, ye - ys + 1), ys, ye)

MScrollV(w, n, ys, ye) ==
  IF n < 0 THEN ScrollDown(w, Least(-n, ye - ys + 1), ys, ye)
  ELSE ScrollUsed(w, Least(n, ye - ys + 1), ys, IF w.compact THEN MFindUsedLine(w, ye, ys) ELSE ye)

-----------------------------------------------------------------------------
(* Characters.                                                              *)

MWrapChar(w, c) ==
  LET marked == [w EXCEPT !.lines[w.y + 1] = Set(@, w.width, NUL)]
      scrolled == IF w.y = w.bot THEN MScrollV(marked, 1, w.top, w.bot) ELSE marked
      y == IF w.y # w.bot /\ w.y < w.height - 1 THEN w.y + 1 ELSE w.y
  IN [(IF w.insert THEN MInsChar(scrolled, c, 0, y) ELSE MPutChar(scrolled, c, 0, y)) EXCEPT
       !.x = 1, !.y = y]

\* A wide character does not start in the last column of a window that wraps.
Stepped(w, c) ==
  IF c = Wide /\ w.x = w.width - 1 /\ w.wrap THEN [w EXCEPT !.x = @ + 1] ELSE w

Inserted(w, c) ==
  IF w.x < w.width - 1
  THEN [(IF w.insert THEN MInsChar(w, c, w.x, w.y) ELSE MPutChar(w, c, w.x, w.y)) EXCEPT !.x = @ + 1]
  ELSE IF w.x = w.width - 1
  THEN [MPutChar(w, c, w.x, w.y) EXCEPT !.x = IF w.wrap THEN @ + 1 ELSE @]
  ELSE MWrapChar(w, c)

\* The end of WriteString: one character is put at the cursor.
WriteChar(w, c) == [Inserted(Stepped(w, c), c) EXCEPT !.x = IF c = Wide THEN @ + 1 ELSE @]

-----------------------------------------------------------------------------
(* Controls and the cursor.                                                 *)

BackSpace(w) ==
  IF w.x > 0 THEN [w EXCEPT !.x = @ - 1]
  ELSE IF w.wrap /\ w.y > 0 THEN [w EXCEPT !.x = w.width - 1, !.y = @ - 1] ELSE w

Return(w) == [w EXCEPT !.x = 0]

Down(w) ==
  IF w.y = w.bot THEN MScrollV(w, 1, w.top, w.bot)
  ELSE [w EXCEPT !.y = Least(@ + 1, w.height - 1)]

LineFeed(w, cr) == Down(IF cr THEN Return(w) ELSE w)

CursorUp(w, n) ==
  [w EXCEPT !.y = Most(@ - n, IF @ < w.top THEN 0 ELSE w.top)]

CursorDown(w, n) ==
  [w EXCEPT !.y = Least(@ + n, IF @ > w.bot THEN w.height - 1 ELSE w.bot)]

ReverseLineFeed(w) == IF w.y = w.top THEN MScrollV(w, -1, w.top, w.bot) ELSE CursorUp(w, 1)

RightBy(w, n) == [w EXCEPT !.x = Least(@ + n, w.width - 1)]
CursorRight(w, n) == RightBy(IF w.x = w.width THEN LineFeed(w, TRUE) ELSE w, n)
CursorLeft(w, n) == [w EXCEPT !.x = Most(@ - n, 0)]

\* From x on: the stop after it, the last column if there is none.
NextStop(w, x) == Min({w.width - 1} \cup {t \in w.tabs : t > x})
Tabbed(w) == [w EXCEPT !.x = IF @ >= w.width - 1 THEN w.width - 1 ELSE NextStop(w, @)]
ForwardTab(w) == Tabbed(IF w.x = w.width THEN LineFeed(w, TRUE) ELSE w)
BackwardTab(w) == [w EXCEPT !.x = Max({0} \cup {t \in w.tabs : t < w.x})]

GotoPos(w, a1, a2) ==
  [w EXCEPT
     !.y = Least(Default(a1) + (IF w.origin THEN w.top ELSE 0), w.height) - 1,
     !.x = Least(Default(a2), w.width) - 1]

SaveCursor(w) == [w EXCEPT !.saved = [on |-> TRUE, x |-> w.x, y |-> w.y]]
MoveTo(w, c) == IF c.on THEN [w EXCEPT !.x = c.x, !.y = c.y] ELSE w
RestoreCursor(w) == MoveTo(w, w.saved)

\* Home: the origin of the region in origin mode.
Home(w) == [w EXCEPT !.x = 0, !.y = IF w.origin THEN w.top ELSE 0]
SetRegion(w, a1, a2) ==
  LET bot == IF a2 = 0 THEN w.height ELSE a2
  IN IF bot > w.height \/ Default(a1) >= bot THEN w
     ELSE Home([w EXCEPT !.top = Default(a1) - 1, !.bot = bot - 1])

-----------------------------------------------------------------------------
(* Editing.                                                                 *)

Column(w) == IF w.x = w.width THEN w.x - 1 ELSE w.x
InsertChar(w, n) == MScrollH(w, -n, w.y, Column(w), w.width - 1)
DeleteChar(w, n) == MScrollH(w, n, w.y, Column(w), w.width - 1)

InRegion(w) == w.y \in w.top..w.bot
DeleteLine(w, n) == IF InRegion(w) THEN MScrollV(w, Least(n, w.bot - w.y + 1), w.y, w.bot) ELSE w
InsertLine(w, n) == IF InRegion(w) THEN MScrollV(w, -Least(n, w.bot - w.y + 1), w.y, w.bot) ELSE w
ScrollRegion(w, n) == MScrollV(w, n, w.top, w.bot)

ClearScreen(w) == MScrollV(w, w.height, 0, w.height - 1)
ClearFromBOS(w) == MClearArea(w, 0, 0, w.x, w.y)
ClearToEOS(w) ==
  IF w.x = 0 /\ w.y = 0 THEN ClearScreen(w)
  ELSE MClearArea(w, w.x, w.y, w.width - 1, w.height - 1)
ClearLineRegion(w, from, to) == MClearArea(w, from, w.y, to, w.y)

Filled(width) == [i \in 1..(width + 1) |-> IF i <= width THEN "E" ELSE Blank]
FillWithEs(w) ==
  [w EXCEPT !.x = 0, !.y = 0, !.lines = <<>> \o [i \in DOMAIN @ |-> Filled(w.width)]]

\* The tab stops of columns that are new.
Stops(from, to) == {t \in from..to : t > 0 /\ t % 8 = 0}

ResetWindow(w) ==
  [w EXCEPT !.wrap = TRUE, !.origin = FALSE, !.insert = FALSE, !.top = 0, !.bot = w.height - 1,
            !.saved.on = FALSE, !.x = 0, !.y = 0,
            !.tabs = (@ \cap {w.width}) \cup Stops(0, w.width - 1)]

-----------------------------------------------------------------------------
(* A new size (ChangeWindowSize).  The old lines and the new ones are each   *)
(* one document, the history and the screen; lines go from the end of the   *)
(* one to the end of the other.                                             *)

Document(w) == History(w) \o w.lines
CursorRow(w) == Len(w.hlines) + w.y + 1

\* The last n rows, after blank ones if there are not as many.
LastRows(rows, n, width) ==
  IF Len(rows) >= n THEN SubSeq(rows, Len(rows) - n + 1, Len(rows))
  ELSE BlankLines(n - Len(rows), width) \o rows

\* The rows above row i that run on into it.
RunOnAbove(rows, i) ==
  i - 1 - Max({0} \cup {j \in 1..(i - 1) : ~RunsOn(rows[j])})

\* What is to become of a window: its rows, and where the cursor goes.
Outcome(rows, x, y) == [rows |-> rows, x |-> x, y |-> y]

\* The width stays.  Rows below the cursor are dropped so that it stays on the
\* screen, with the rows above that run on into its row.
SameWidth(w, he, above) ==
  LET drop == Most(0, above - (w.y + he - w.height))
  IN Outcome(SubSeq(Document(w), 1, Len(w.hlines) + w.height - drop), w.x, w.y + he - w.height + drop)

\* Only the history changes: the rows are dropped from it.
SameScreen(w, drop) ==
  Outcome(SubSeq(History(w), 1, Len(w.hlines) - drop) \o w.lines, w.x, w.y + drop)

\* The column of the cursor, one back at the magic margin, as it was when counting.
Col(w) == IF w.width > 0 /\ w.x = w.width THEN w.x - 1 ELSE w.x

\* mutant: the row of the cursor ends at the cursor
Used_cursor(w, rows, i) ==
  LET last == Max({0} \cup {x \in 0..(w.width - 1) : At(rows[i], x) # Blank})
  IN IF i = CursorRow(w) THEN Col(w) + 1 ELSE last + 1

\* Blanks at the end of a paragraph are not kept, but for the cursor's place.
Used(w, rows, i) ==
  LET last == Max({0} \cup {x \in 0..(w.width - 1) : At(rows[i], x) # Blank})
  IN IF i = CursorRow(w) THEN Most(last, Col(w)) + 1 ELSE last + 1

Ends(rows) == {i \in DOMAIN rows : i = Len(rows) \/ ~RunsOn(rows[i])}

\* The text of the paragraph of rows from..to.
LineText(w, rows, from, to) ==
  [k \in 1..((to - from) * w.width + Used(w, rows, to)) |->
     At(rows[from + ((k - 1) \div w.width)], (k - 1) % w.width)]

\* Row i of the text at the new width; the last one does not run on.
Wrapped(text, i, wi) ==
  [x \in 1..(wi + 1) |->
     IF x = wi + 1 THEN IF i * wi >= Len(text) THEN Blank ELSE NUL
     ELSE IF (i - 1) * wi + x <= Len(text) THEN text[(i - 1) * wi + x] ELSE Blank]

HowMany(text, wi) == (Len(text) + wi - 1) \div wi
Rewrap(text, wi) == [i \in 1..HowMany(text, wi) |-> Wrapped(text, i, wi)]

\* The paragraphs of the rows from..to, from top to bottom, each wrapped anew.
Paragraphs(w, rows, from, to, wi) ==
  LET upto[i \in (from - 1)..to] ==
        IF i = from - 1 THEN <<>>
        ELSE IF i \notin Ends(rows) THEN upto[i - 1]
        ELSE upto[i - 1] \o Rewrap(LineText(w, rows, i - RunOnAbove(rows, i), i), wi)
  IN upto[to]

\* The cursor is offset characters into the paragraph start..end, which becomes
\* the rows par; before and after are the rows around it.  The rows that stay
\* above the cursor's in its paragraph must fit above it: if they do not, all
\* rows from the cursor's on move down, over the end.  The row that then comes
\* to where the paragraph ended before loses its mark.
Moved(before, par, after, offset, wi, addone, hi, he) ==
  LET row == offset \div wi
      ty == hi + he - 1 - Len(after) - (Len(par) - row - 1)
      shift == Least(row - (ty - hi), hi + he - 1 - ty)
      unmarked == IF shift > 0 /\ Len(par) - shift \in 1..row
                  THEN [par EXCEPT ![Len(par) - shift][wi + 1] = Blank] ELSE par
      all == before \o unmarked \o after
  IN IF ty < 0 THEN Outcome(all, 0, 0)
     ELSE Outcome(SubSeq(all, 1, Len(all) - Most(0, shift)), (offset % wi) + addone,
                  ty - hi + Most(0, shift))

AroundCursor(w, rows, start, end, wi, he, hi) ==
  Moved(Paragraphs(w, rows, 1, start - 1, wi),
        Rewrap(LineText(w, rows, start, end), wi),
        Paragraphs(w, rows, end + 1, Len(rows), wi),
        (CursorRow(w) - start) * w.width + Col(w), wi, w.x - Col(w), hi, he)

NewWidth(w, rows, wi, he, hi) ==
  IF rows = <<>> THEN Outcome(<<>>, 0, 0)
  ELSE AroundCursor(w, rows, CursorRow(w) - RunOnAbove(rows, CursorRow(w)),
                    Min({i \in Ends(rows) : i >= CursorRow(w)}), wi, he, hi)

Resized(w, wi, he, hi) ==
  IF w.width # wi THEN NewWidth(w, Document(w), wi, he, hi)
  ELSE IF w.height # he
  THEN SameWidth(w, he, Least(RunOnAbove(Document(w), CursorRow(w)), he))
  ELSE SameScreen(w, Most(0, Least(RunOnAbove(Document(w), CursorRow(w)), he) - w.y))

Within(c, dy, wi, he) == [c EXCEPT !.x = Least(@, wi), !.y = Most(0, Least(@ + dy, he - 1))]

TabsOf(w, wi) ==
  IF w.width = wi THEN w.tabs
  ELSE {t \in w.tabs : t < Least(w.width, wi)} \cup Stops(w.width, wi - 1)

\* The saved cursor goes with the cursor; both saved ones are kept in bounds.
Settled(w, o, doc, wi, he, hi) ==
  [w EXCEPT
     !.width = wi, !.height = he,
     !.lines = SubSeq(doc, hi + 1, hi + he), !.hlines = SubSeq(doc, 1, hi),
     !.histidx = 0, !.scrollback = Least(@, hi), !.pushed = SubSeq(doc, 1, hi),
     !.x = Least(o.x, wi), !.y = Least(o.y, he - 1),
     !.saved = Within(@, o.y - w.y, wi, he), !.alt.cursor = Within(@, 0, wi, he),
     !.top = 0, !.bot = he - 1, !.tabs = TabsOf(w, wi)]

Become(w, o, wi, he, hi) == Settled(w, o, LastRows(o.rows, hi + he, wi), wi, he, hi)

ChangeWindowSize(w, wi, he, hi) ==
  IF w.width = wi /\ w.height = he /\ Len(w.hlines) = hi THEN w
  ELSE Become(w, Resized(w, wi, he, hi), wi, he, hi)

-----------------------------------------------------------------------------
(* The alternate screen.                                                    *)

NoScreen == [width |-> 0, height |-> 0, lines |-> <<>>, hlines |-> <<>>, histidx |-> 0,
             pushed |-> <<>>]
Away(w) == [width |-> w.width, height |-> w.height, lines |-> w.lines, hlines |-> w.hlines,
            histidx |-> w.histidx, pushed |-> w.pushed]

Swapped(w, screen) ==
  [w EXCEPT !.width = screen.width, !.height = screen.height, !.lines = screen.lines,
            !.hlines = screen.hlines, !.histidx = screen.histidx, !.pushed = screen.pushed,
            !.alt.screen = Away(w)]

EnterAltScreen(w) ==
  [ChangeWindowSize(Swapped(w, NoScreen), w.width, w.height, Len(w.hlines)) EXCEPT !.alt.on = TRUE]

LeaveAltScreen(w) ==
  [ChangeWindowSize(Swapped(w, w.alt.screen), w.width, w.height, Len(w.hlines)) EXCEPT
     !.alt.on = FALSE, !.alt.screen = NoScreen]

\* mutant: the cursor is not put aside with the screen
PutAside_not(w) == w

PutAside(w) == [w EXCEPT !.alt.cursor = [on |-> TRUE, x |-> w.x, y |-> w.y]]

\* Of the modes 47, 1047 and 1049 the first forgets the saved cursor as it goes.
AltScreen(w, on, mode) ==
  IF on THEN IF w.alt.on THEN w ELSE EnterAltScreen(PutAside(w))
  ELSE [(IF w.alt.on THEN LeaveAltScreen(MoveTo(w, w.alt.cursor)) ELSE w) EXCEPT
         !.saved.on = @ /\ mode # 47]

-----------------------------------------------------------------------------
(* The steps: a character, a control or a control sequence, a command.      *)

Nowhere == [on |-> FALSE, x |-> 0, y |-> 0]

Fresh(wi, he, hi, compact) ==
  [width |-> wi, height |-> he, lines |-> BlankLines(he, wi), hlines |-> BlankLines(hi, wi),
   histidx |-> 0, scrollback |-> 0, x |-> 0, y |-> 0, top |-> 0, bot |-> he - 1,
   insert |-> FALSE, wrap |-> TRUE, origin |-> FALSE, compact |-> compact, tabs |-> Stops(0, wi - 1),
   saved |-> Nowhere, alt |-> [on |-> FALSE, cursor |-> Nowhere, screen |-> NoScreen],
   pushed |-> BlankLines(hi, wi)]

Holds(w) ==
  /\ mem = [width |-> w.width, height |-> w.height, lines |-> w.lines,
            hlines |-> w.hlines, histidx |-> w.histidx, scrollback |-> w.scrollback]
  /\ cursor = [x |-> w.x, y |-> w.y] /\ region = [top |-> w.top, bot |-> w.bot]
  /\ modes = [insert |-> w.insert, wrap |-> w.wrap, origin |-> w.origin, compact |-> w.compact]
  /\ tabs = w.tabs /\ saved = w.saved /\ alt = w.alt /\ pushed = w.pushed

Init ==
  /\ \E wi \in Widths, he \in Heights, hi \in Histories, compact \in BOOLEAN :
        Holds(Fresh(wi, he, hi, compact))
  /\ entered = NoScreen

\* What is seen of a window: its document and its cursor.
Seen(w) == [doc |-> Document(w), width |-> w.width, height |-> w.height, x |-> w.x, y |-> w.y]

SameSize(v, w) == v.width = w.width /\ v.height = w.height /\ Len(v.hlines) = Len(w.hlines)

Step(next) ==
  \E w \in {next} :
    /\ Put(w)
    /\ entered' = IF ~w.alt.on \/ (alt.on /\ ~SameSize(Win, w)) THEN NoScreen
                  ELSE IF alt.on THEN entered ELSE Seen(Win)

Character == \E c \in Chars \cup {Wide} : Step(WriteChar(Win, c))

\* n stops forward (CHT), or back (CBT).
Tabs(w, n, forward) ==
  LET at[i \in 0..n] ==
        IF i = 0 THEN w ELSE IF forward THEN ForwardTab(at[i - 1]) ELSE BackwardTab(at[i - 1])
  IN at[n]

Control ==
  \/ Step(BackSpace(Win))
  \/ Step(Return(Win))
  \/ Step(LineFeed(Win, FALSE))
  \/ Step(ForwardTab(Win))

Tab ==
  \/ Step([Win EXCEPT !.tabs = @ \cup {cursor.x}])
  \/ Step([Win EXCEPT !.tabs = @ \ {cursor.x}])
  \/ Step([Win EXCEPT !.tabs = @ \cap {mem.width}])
  \/ \E n \in Args, forward \in BOOLEAN : Step(Tabs(Win, Default(n), forward))

Motion ==
  \/ \E a1, a2 \in Args : Step(GotoPos(Win, a1, a2))
  \/ \E n \in Args :
       \/ Step(CursorUp(Win, Default(n)))
       \/ Step(CursorDown(Win, Default(n)))
       \/ Step(CursorRight(Win, Default(n)))
       \/ Step(CursorLeft(Win, Default(n)))
       \/ Step(CursorDown(Return(Win), Default(n)))
       \/ Step(CursorUp(Return(Win), Default(n)))
       \/ Step([Win EXCEPT !.x = Least(Default(n), mem.width) - 1])
       \/ Step([Win EXCEPT !.y = Least(Default(n), mem.height) - 1])

Scroll ==
  \/ Step(LineFeed(Win, TRUE))
  \/ Step(ReverseLineFeed(Win))
  \/ \E n \in Args :
       \/ Step(InsertLine(Win, Default(n)))
       \/ Step(DeleteLine(Win, Default(n)))
       \/ Step(ScrollRegion(Win, Default(n)))
       \/ Step(ScrollRegion(Win, -Default(n)))

Margins == \E a1, a2 \in Args : Step(SetRegion(Win, a1, a2))

Erase ==
  \/ Step(ClearToEOS(Win))
  \/ Step(ClearFromBOS(Win))
  \/ Step(ClearScreen(Win))
  \/ Step(ClearLineRegion(Win, cursor.x, mem.width - 1))
  \/ Step(ClearLineRegion(Win, 0, cursor.x))
  \/ Step(ClearLineRegion(Win, 0, mem.width - 1))
  \/ \E n \in Args : Step(ClearLineRegion(Win, cursor.x, Least(cursor.x + Default(n), mem.width) - 1))

Edit ==
  \E n \in Args :
    \/ Step(InsertChar(Win, Default(n)))
    \/ Step(DeleteChar(Win, Default(n)))

SetModes ==
  \E on \in BOOLEAN :
    \/ Step([Win EXCEPT !.insert = on])
    \/ Step([Win EXCEPT !.wrap = on])
    \/ Step(Home([Win EXCEPT !.origin = on]))

Saves ==
  \/ Step(SaveCursor(Win))
  \/ Step(RestoreCursor(Win))

Reset ==
  \/ Step(ResetWindow(ClearScreen(Win)))
  \/ Step(FillWithEs(Win))

AltModes == \E on \in BOOLEAN, mode \in {47, 1047, 1049} : Step(AltScreen(Win, on, mode))

Resize ==
  \/ \E wi \in Widths, he \in Heights : Step(ChangeWindowSize(Win, wi, he, Len(mem.hlines)))
  \/ \E hi \in Histories : Step(ChangeWindowSize(Win, mem.width, mem.height, hi))

Next == \/ Character \/ Control \/ Tab \/ Motion \/ Scroll \/ Margins \/ Erase \/ Edit
        \/ SetModes \/ Saves \/ Reset \/ AltModes \/ Resize

Spec == Init /\ [][Next]_vars

-----------------------------------------------------------------------------
(* Properties.                                                              *)

\* In a single column a wide character takes the cursor past the magic margin.
Inside(c) == c.x \in 0..(IF mem.width = 1 THEN 2 ELSE mem.width) /\ c.y \in 0..(mem.height - 1)
Shaped(rows, width) == \A i \in DOMAIN rows : Len(rows[i]) = width + 1

\* The cursor, those saved and the region are inside the window, and every line
\* of the screen, the history and the screen put away has the width it is read with.
TypeOK ==
  /\ Inside(cursor) /\ Inside(saved) /\ Inside(alt.cursor)
  /\ 0 <= region.top /\ region.top <= region.bot /\ region.bot < mem.height
  /\ Len(mem.lines) = mem.height /\ Shaped(mem.lines, mem.width) /\ Shaped(mem.hlines, mem.width)
  /\ mem.histidx \in 0..Most(0, Len(mem.hlines) - 1)
  /\ mem.scrollback \in 0..Len(mem.hlines)
  /\ Len(alt.screen.lines) = alt.screen.height
  /\ Shaped(alt.screen.lines, alt.screen.width) /\ Shaped(alt.screen.hlines, alt.screen.width)
  /\ alt.on = (alt.screen # NoScreen)

\* No operation leaves half of a wide character, as long as the window wraps
\* and keeps its width: what is written over either half, erased, inserted,
\* deleted or pushed over the margin takes the other half along.
WholeCharacters ==
  \A i \in DOMAIN mem.lines : \A x \in 0..(mem.width - 1) :
    /\ At(mem.lines[i], x) = Right => x > 0 /\ At(mem.lines[i], x - 1) = Wide
    /\ At(mem.lines[i], x) = Wide => x < mem.width - 1 /\ At(mem.lines[i], x + 1) = Right

\* The history holds the lines that were pushed into it, the oldest first.
OldestFirst == History(Win) = pushed

\* A program that comes back from the alternate screen finds all as it was.
AltRestores == [][entered # NoScreen /\ ~alt'.on => Seen(Win)' = entered]_vars

\* The characters of the document, and the cursor among them.
Tokens(w) ==
  LET doc == Document(w)
      Cells(i) ==
        IF i = CursorRow(w)
        THEN SubSeq(doc[i], 1, w.x) \o <<"cursor">> \o SubSeq(doc[i], w.x + 1, w.width)
        ELSE SubSeq(doc[i], 1, w.width)
  IN FlattenSeq([i \in DOMAIN doc |-> SelectSeq(Cells(i), LAMBDA c : c # Blank)])

Part(short, long) ==
  \E i \in 1..Len(long) : i + Len(short) - 1 <= Len(long) /\ SubSeq(long, i, i + Len(short) - 1) = short

\* Rows that the text from the cursor's row on takes at width wi, if that row
\* begins a row there, too; one more if not.
Taken(w, i, wi) ==
  (IF RunsOn(Document(w)[i]) THEN w.width ELSE Used(w, Document(w), i)) + wi - 1
RowsFromCursor(w, wi) ==
  MapThenSumSet(LAMBDA i : Taken(w, i, wi) \div wi, CursorRow(w)..Len(Document(w)))

\* There is room for the cursor: on a window as wide as before for the rows above
\* that run on into its row, else for all rows from its row on, wrapped anew.
Above == RunOnAbove(Document(Win), CursorRow(Win))
Room(wi, he, hi) ==
  IF wi = mem.width THEN Above < he /\ (he = mem.height => Above <= cursor.y)
  ELSE RowsFromCursor(Win, wi) + Least(Above, 1) <= he + hi

\* The window gets a new size.
Sized == ~SameSize(mem, mem') /\ alt'.on = alt.on

\* A new size loses text only at the ends of history and screen, and the cursor
\* stays between the characters it was between.
TextKept ==
  [][Sized /\ Room(mem'.width, mem'.height, Len(mem'.hlines)) =>
       Part(Tokens(Win)', Tokens(Win))]_vars

=============================================================================
