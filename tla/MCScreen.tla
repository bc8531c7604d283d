------------------------------ MODULE MCScreen ------------------------------
(* An instance of Screen in five scopes, each with the operations that meet *)
(* one hazard on the smallest screen that has it: wide characters, the      *)
(* history, new sizes, the alternate screen, and the cursor.                *)
EXTENDS Screen

VARIABLE scope

Size(wi, he, hi) == mem.width = wi /\ mem.height = he /\ Len(mem.hlines) = hi
Empty == mem.lines = BlankLines(mem.height, mem.width)

InScope ==
  CASE scope = "wide" -> (Size(4, 1, 0) \/ Size(3, 2, 0)) /\ modes.wrap /\ ~modes.origin /\ ~modes.compact
    [] scope = "lines" -> Size(1, 3, 2) /\ ~modes.wrap /\ ~modes.insert /\ ~modes.origin
    [] scope = "reflow" -> mem.height <= 2 /\ mem.width + Len(mem.hlines) <= 3 /\ ~modes.compact
    [] scope = "alt" -> mem.width = 1 /\ mem.height + Len(mem.hlines) <= 2 /\ ~modes.compact
    [] scope = "cursor" -> Size(4, 3, 0) /\ Empty /\ ~modes.compact

MCInit ==
  /\ \E wi \in Widths, he \in Heights, hi \in Histories, compact, wrap \in BOOLEAN :
       Holds([Fresh(wi, he, hi, compact) EXCEPT !.wrap = wrap])
  /\ entered = NoScreen
  /\ scope \in {"wide", "lines", "reflow", "alt", "cursor"} /\ InScope
  /\ modes.wrap = (scope # "lines")

Letter(c) == Step(WriteChar(Win, c))

MCNext ==
  /\ \/ scope = "wide" /\ (Letter("a") \/ Letter(Wide) \/ Motion \/ Erase \/ Edit \/ SetModes)
     \/ scope = "lines" /\ (Letter("a") \/ Letter("b") \/ Scroll \/ Margins \/ Reset)
     \/ scope = "reflow" /\ (Letter(IF cursor.y = 0 THEN "a" ELSE "b") \/ Step(LineFeed(Win, TRUE)) \/ Step(CursorUp(Win, 1)) \/ Resize)
     \/ scope = "alt" /\ (Letter("a") \/ AltModes \/ Saves \/ Resize)
     \/ scope = "cursor" /\ (Control \/ Tab \/ Motion \/ Margins \/ SetModes)
  /\ UNCHANGED scope /\ InScope'
MCSpec == MCInit /\ [][MCNext]_<<vars, scope>>

=============================================================================
