------------------------------ MODULE MCTerminal -----------------------------
(* Both ways to a terminal in one run, by scope: what its keys come to (the  *)
(* scopes of MCKeys), and "picture", what small terminals of four kinds show *)
(* of a window of two or three rows in regions that are as large, larger or  *)
(* smaller, alone, twice or beside another.                                  *)
EXTENDS MCKeys

VARIABLES d, left

Xterm == {"am", "xn", "cs", "sr", "al", "dc", "ic", "im", "ce", "cd", "be"}
Vt100 == {"am", "xn", "cs", "sr", "ce", "cd", "rel"}
Wyse == {"am", "al", "dc", "ic", "ce"}
Dumb == {"rel", "cb"}

Cv(xs, ys, xe, ye, shows) == [xs |-> xs, ys |-> ys, xe |-> xe, ye |-> ye, xoff |-> xs, yoff |-> ys, shows |-> shows]
Mem == INSTANCE Screen WITH
  Chars <- {"n"}, Wide <- "W", Widths <- {1}, Heights <- {1}, Histories <- {0}, Args <- {0},
  mem <- 0, cursor <- 0, region <- 0, modes <- 0, tabs <- {}, saved <- 0, alt <- 0, entered <- 0,
  pushed <- <<>>
\* A window with this text, and its cursor at the end of the last line but one.
Showing2(rows) ==
  [Mem!Fresh(Len(Head(rows)) - 1, Len(rows), 0, FALSE)
     EXCEPT !.lines = rows, !.x = Len(Head(rows)) - 2, !.y = Len(rows) - 2]
Rows3 == << <<"a", "b", "c", " ">>, <<"d", "e", "f", " ">>, <<"g", " ", "i", " ">> >>
Rows2 == << <<"a", "b", "c", " ">>, <<"d", " ", "f", " ">> >>
Narrow == << <<"a", "b", " ">>, <<"c", "d", " ">> >>
Layout(wi, he, captions, cvs, rows, steps) ==
  [wi |-> wi, he |-> he, captions |-> captions, cvs |-> cvs, win |-> Showing2(rows), steps |-> steps]

MCLayouts ==
  {Layout(3, 3, FALSE, <<Cv(0, 0, 2, 2, "window")>>, Rows3, 4),
   Layout(3, 3, FALSE, <<Cv(0, 0, 2, 2, "window")>>, Rows3, 3),                            \* the whole terminal
   Layout(3, 3, TRUE, <<Cv(0, 0, 2, 1, "window")>>, Rows2, 3),                             \* with a caption
   Layout(3, 3, TRUE, <<Cv(0, 0, 2, 1, "window")>>, Rows3, 3),                             \* a window that is higher
   Layout(2, 3, TRUE, <<Cv(0, 0, 1, 1, "window")>>, Rows2, 3),                             \* wider
   Layout(3, 3, FALSE, <<Cv(0, 0, 2, 2, "window")>>, Narrow, 4),                           \* and smaller
   Layout(3, 6, TRUE, <<Cv(0, 0, 2, 1, "window"), Cv(0, 3, 2, 4, "other")>>, Rows2, 3),    \* one above another
   Layout(3, 6, TRUE, <<Cv(0, 0, 2, 1, "window"), Cv(0, 3, 2, 4, "window")>>, Rows2, 3),   \* twice
   Layout(5, 3, TRUE, <<Cv(0, 0, 1, 1, "window"), Cv(3, 0, 4, 1, "window")>>, Narrow, 4)}  \* side by side

P == INSTANCE Painter WITH Terminals <- {Xterm, Vt100, Wyse, Dumb}, Layouts <- MCLayouts, Letters <- {"n"}

TerminalInit ==
  \/ KeysInit /\ d = <<>> /\ left = 0
  \/ Init /\ scope = "picture" /\ P!Init /\ (left = 4 => d.caps \in {Xterm, Wyse} \/ d.win.width = 2)
TerminalNext ==
  \/ scope # "picture" /\ MCNext /\ UNCHANGED <<d, left>>
  \/ scope = "picture" /\ P!Next /\ UNCHANGED <<vars, scope>>
TerminalSpec == TerminalInit /\ [][TerminalNext]_<<vars, scope, d, left>>

\* The terminal shows what screen means it to show, see Painter.
ScreenShown == scope = "picture" => P!ScreenShown

=============================================================================
