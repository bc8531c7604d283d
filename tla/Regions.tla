------------------------------ MODULE Regions ------------------------------
(* The regions of one display: the tree of canvases that split, remove,    *)
(* only, resize, focus, caption and a change of the terminal's size rebuild *)
(* (canvas.c, ChangeScreenSize in resize.c, the commands in process.c).     *)
(*                                                                          *)
(* A canvas is a record.  A region has an id and no kids; a slice (the      *)
(* "perp" canvas of the code) has the id 0 and the canvases of c_slperp as  *)
(* kids, all of one orientation.  D_canvas is the root, the only slice      *)
(* without an orientation; D_cvlist is the sequence of the tree's regions.  *)
(* The windows shown, focusminsize and resizing by percents are left out.   *)
EXTENDS Integers, SequencesExt

CONSTANTS
  Screens,       \* sizes of the terminal: <<width, height>>
  HStatus,       \* hardstatus line: "none", "first" or "last"
  Captions,      \* settings of the caption command: [always, top]
  Sizes,         \* arguments of resize: <<kind, number>>
  Flags,         \* its flags: the orientations chosen, none for the region's own
  RegionIds,     \* regions; their number is a bound: no split beyond it
  MaxAstray      \* bound: commands on trees the code does not mean to build

Orients == {"vert", "hori"}   \* SLICE_VERT: one above the other
Kinds == {"equal", "min", "max", "by", "to"}

ASSUME RegionsAssumption ==
  /\ RegionIds # {} /\ 0 \notin RegionIds /\ MaxAstray \in Nat
  /\ Screens \subseteq Nat \X Nat
  /\ Captions \subseteq [always : BOOLEAN, top : BOOLEAN]
  /\ Sizes \subseteq Kinds \X Int
  \* "by 0" returns at once, "to 0" is min (ResizeRegions)
  /\ \A s \in Sizes : (s[1] = "by" => s[2] # 0) /\ (s[1] = "to" => s[2] > 0)
  /\ Flags \subseteq SUBSET Orients

VARIABLES
  root,      \* D_canvas, with the tree below it
  fore,      \* D_forecv: the id of a region, 0 for NULL
  screen,    \* D_width, D_height
  caption,   \* captionalways, captiontop
  crashed,   \* the program divided by zero or followed a null pointer
  astray     \* commands since the tree was last as it is meant to be

vars == <<root, fore, screen, caption, crashed, astray>>

-----------------------------------------------------------------------------
(* Trees of canvases.                                                       *)

IsSlice(n) == n.kids # <<>>
IsRoot(n) == IsSlice(n) /\ n.orient = "unkn"

RECURSIVE RegionsOf(_)
RegionsOf(n) ==
  IF IsSlice(n) THEN FlattenSeq([k \in DOMAIN n.kids |-> RegionsOf(n.kids[k])]) ELSE <<n>>

Ids(n) == {r.id : r \in ToSet(RegionsOf(n))}

RECURSIVE At(_, _)
At(n, p) == IF p = <<>> THEN n ELSE At(n.kids[Head(p)], Tail(p))

RECURSIVE Put(_, _, _)
Put(n, p, m) ==
  IF p = <<>> THEN m ELSE [n EXCEPT !.kids[Head(p)] = Put(@, Tail(p), m)]

RECURSIVE PathTo(_, _)
PathTo(n, id) ==
  IF ~IsSlice(n) THEN <<>>
  ELSE LET k == CHOOSE k \in DOMAIN n.kids : id \in Ids(n.kids[k])
       IN <<k>> \o PathTo(n.kids[k], id)

AllWith(kids, orient, weight) ==
  [k \in DOMAIN kids |-> [kids[k] EXCEPT !.orient = orient, !.weight = weight]]

Splice(kids, k, new) == SubSeq(kids, 1, k - 1) \o new \o SubSeq(kids, k + 1, Len(kids))

WeightSum(kids) == FoldLeft(LAMBDA sum, c : sum + c.weight, 0, kids)

\* The division of C, which rounds towards zero.
Quot(a, b) ==
  LET Size(x) == IF x < 0 THEN -x ELSE x
      q == Size(a) \div Size(b)
  IN IF (a < 0) = (b < 0) THEN q ELSE -q

\* The most canvases that lie one beside the other along the slice.
RECURSIVE CountCanvas(_)
CountCanvasPerp(n) ==
  Max({1} \cup {CountCanvas(c.kids) : c \in {d \in ToSet(n.kids) : IsSlice(d)}})
CountCanvas(kids) ==
  FoldLeft(LAMBDA num, c : num + (IF IsSlice(c) THEN CountCanvasPerp(c) ELSE 1), 0, kids)

\* The kids of a slice take its place in the slice above it.
FreePerp(n) == IF IsSlice(n) THEN AllWith(n.kids, n.orient, n.weight) ELSE <<n>>

\* Takes a line from a canvas for a caption, or gives it back (by = -1).
Reserve(n, cap, by) ==
  CASE cap.always -> n
    [] ~cap.always /\ cap.top -> [n EXCEPT !.ys = @ + by]
    [] OTHER -> [n EXCEPT !.ye = @ - by]

-----------------------------------------------------------------------------
(* ResizeCanvas: a slice's space is shared out by weight, caption lines and *)
(* separator columns included.  What does not fit is closed.                *)

Span(n, orient) == IF orient = "vert" THEN n.ye - n.ys + 2 ELSE n.xe - n.xs + 2

Least(c) == 1 + IF IsSlice(c) THEN CountCanvasPerp(c) * 2 - 1 ELSE 1

RECURSIVE Shares(_, _, _)
Shares(kids, nh, w) ==
  IF kids = <<>> THEN <<>>
  ELSE LET c == Head(kids)
           hh == IF c.weight = 0 THEN 0 ELSE Quot(nh * c.weight, w)
       IN <<hh>> \o Shares(Tail(kids), nh - hh, w - c.weight)

RECURSIVE DividesByZero(_, _)
DividesByZero(kids, w) ==
  /\ kids # <<>>
  /\ \/ w = 0 /\ Head(kids).weight # 0
     \/ DividesByZero(Tail(kids), w - Head(kids).weight)

\* Shares below the least are raised at the cost of those above it.
Evened(kids, shares) ==
  LET Excess(k) == shares[k] - Least(kids[k])
      SumOf(S) == MapThenSumSet(Excess, S)
      rich == {k \in DOMAIN kids : Excess(k) > 0}
      got0 == SumOf(rich)
      need0 == -SumOf(DOMAIN kids \ rich)
      Give(acc, k) ==
        IF k \notin rich THEN [acc EXCEPT !.sizes = Append(@, Least(kids[k]))]
        ELSE LET hx == (acc.need * Excess(k)) \div acc.got
             IN [sizes |-> Append(acc.sizes, shares[k] - hx),
                 need |-> acc.need - hx, got |-> acc.got - Excess(k)]
  IN FoldLeft(Give, [sizes |-> <<>>, need |-> Min({need0, got0}), got |-> got0],
              [k \in DOMAIN kids |-> k]).sizes

Placed(c, n, i, hh) ==
  IF c.orient = "vert"
  THEN [c EXCEPT !.xs = n.xs, !.xe = n.xe, !.ys = i, !.ye = i + hh - 2]
  ELSE [c EXCEPT !.xs = i, !.xe = i + hh - 2, !.ys = n.ys, !.ye = n.ye]

ClippedLoose(hh, i, maxi) ==  \* mutant: a line too narrow for a region is left over
  IF i + hh > maxi + 2 THEN maxi + 2 - i ELSE hh

Clipped(hh, i, maxi) ==
  LET h == IF i + hh > maxi + 2 THEN maxi + 2 - i ELSE hh
  IN IF i + h = maxi + 1 THEN h + 1 ELSE h

\* A slice left with one canvas goes.
Flattened(c) ==
  IF Len(c.kids) # 1 THEN <<c>>
  ELSE AllWith(FreePerp(c.kids[1]), c.orient, c.weight)

ClosedOnly(acc, cap) ==  \* mutant: the line of the caption is not given back
  LET n == acc.root IN
  IF IsRoot(n) /\ Len(n.kids) = 1 /\ ~IsSlice(n.kids[1])
  THEN [acc EXCEPT !.root.kids[1].orient = "unkn"]
  ELSE acc

\* A canvas without a place is closed; the first and last region of a
\* display then needs no caption.
Closed(acc, cap) ==
  LET n == acc.root IN
  IF IsRoot(n) /\ Len(n.kids) = 1 /\ ~IsSlice(n.kids[1])
  THEN [acc EXCEPT !.root = [Reserve(n, cap, -1) EXCEPT
          !.kids[1] = Reserve([@ EXCEPT !.orient = "unkn"], cap, -1)]]
  ELSE acc

Crash(n) == [n EXCEPT !.kids = <<>>]   \* no canvas left: a crash

RECURSIVE ResizeCanvas(_, _)
Resized(c, cap) == Flattened(IF IsSlice(c) THEN ResizeCanvas(c, cap) ELSE c)

\* The canvases get their places from the start of the slice on (the third pass).
PlaceAll(n, sizes, cap) ==
  LET orient == n.kids[1].orient
      maxi == IF orient = "vert" THEN n.ye ELSE n.xe
      PlaceAt(acc, c, hh) ==
        [acc EXCEPT !.i = @ + hh, !.root.kids = @ \o Resized(Placed(c, n, acc.i, hh), cap)]
      Place(acc, k) ==
        IF acc.i > maxi THEN Closed(acc, cap)
        ELSE PlaceAt(acc, n.kids[k], Clipped(sizes[k], acc.i, maxi))
  IN FoldLeft(Place, [i |-> IF orient = "vert" THEN n.ys ELSE n.xs,
                      root |-> [n EXCEPT !.kids = <<>>]],
              [k \in DOMAIN n.kids |-> k]).root

Share(n, kids, wsum, cap) ==
  IF DividesByZero(kids, wsum) THEN Crash(n)
  ELSE PlaceAll(n, Evened(kids, Shares(kids, Span(n, kids[1].orient), wsum)), cap)

ResizeCanvas(n, cap) ==
  CASE n.kids = <<>> -> n
    [] n.kids # <<>> /\ n.kids[1].orient = "unkn" ->
         [n EXCEPT !.kids[1] =
            [@ EXCEPT !.xs = n.xs, !.xe = n.xe, !.ys = n.ys, !.ye = n.ye]]
    [] OTHER ->
         Share(n, n.kids, IF WeightSum(n.kids) = 0 THEN 1 ELSE WeightSum(n.kids), cap)

EqualizeOne(kids) == [k \in DOMAIN kids |-> [kids[k] EXCEPT !.weight = 1]]

\* EqualizeCanvas with gflag: every second level below is equalised too.
RECURSIVE EqualizeAll(_)
EqualizeAll(kids) ==
  LET Below(c) ==
        [c EXCEPT !.weight = CountCanvasPerp(c),
                  !.kids = [j \in DOMAIN @ |->
                     IF IsSlice(@[j]) THEN [@[j] EXCEPT !.kids = EqualizeAll(@)] ELSE @[j]]]
  IN [k \in DOMAIN kids |->
        IF IsSlice(kids[k]) THEN Below(kids[k]) ELSE [kids[k] EXCEPT !.weight = 1]]

-----------------------------------------------------------------------------
(* FindCanvas: the region at a position, or the nearest one that continues  *)
(* the row or the column of the region in focus.                            *)

Regions == RegionsOf(root)
Fore == At(root, PathTo(root, fore))

Covers(r, x, y) ==
  /\ x \in r.xs..r.xe
  /\ y \in r.ys..r.ye \cup {IF caption.top THEN r.ys - 1 ELSE r.ye + 1}

InCols(r, x) == x \in r.xs..r.xe
InRows(r, y) == y \in r.ys..r.ye + 1

\* Seen from region f the region r does not lie that way.
Elsewhere(f, r, x, y) ==
  \/ r.id = f.id
  \/ InCols(f, x) /\ \/ ~InCols(r, x)
                     \/ y < f.ys /\ y < r.ys
                     \/ y > f.ye + 1 /\ y > r.ye + 1
  \/ InRows(f, y) /\ \/ ~InRows(r, y)
                     \/ x < f.xs /\ x < r.xs
                     \/ x > f.xe /\ x > r.xe

Distance(f, r, x, y) ==
  IF Elsewhere(f, r, x, y) THEN 0
  ELSE CASE InRows(f, y) /\ x < r.xs -> r.xs - x
         [] InRows(f, y) /\ x > r.xe -> x - r.xe
         [] InCols(f, x) /\ y < r.ys -> r.ys - y
         [] InCols(f, x) /\ y > r.ye + 1 -> y - (r.ye + 1)
         [] OTHER -> 0

Nearest(far) ==  \* the first of them, 0 if there is none
  SelectInSeq(far, LAMBDA d : d > 0 /\ \A j \in DOMAIN far : far[j] > 0 => d <= far[j])

FirstOf(regions, k, else) == IF k = 0 THEN else ELSE regions[k].id

FindIn(regions, f, x, y) ==
  FirstOf(regions, SelectInSeq(regions, LAMBDA r : Covers(r, x, y)),
    FirstOf(regions, Nearest([k \in DOMAIN regions |-> Distance(f, regions[k], x, y)]), f.id))

FindCanvas(x, y) == FindIn(Regions, Fore, x, y)

-----------------------------------------------------------------------------
(* The commands.                                                            *)

Broken(t) == 0 \in Ids(t)

\* A command leaves the tree t with region f in focus; FreeCanvas clears
\* D_forecv when it frees the region.
Becomes(t, f) ==
  IF Broken(t) THEN crashed' = TRUE /\ UNCHANGED <<root, fore>>
  ELSE root' = t /\ fore' = (IF f \in Ids(t) THEN f ELSE 0) /\ UNCHANGED crashed

Canvas(id, orient) ==
  [id |-> id, orient |-> orient, weight |-> 1, kids |-> <<>>,
   xs |-> 0, xe |-> 0, ys |-> 0, ye |-> 0]

\* The root for a terminal of this size; slices: whether its top level has
\* more than one canvas.
RootFor(n, size, cap, several) ==
  LET line == IF several \/ cap.always THEN 1 ELSE 0 IN
  [n EXCEPT !.xs = 0, !.xe = size[1] - 1,
            !.ys = (IF cap.top THEN line ELSE 0) + (IF HStatus = "first" THEN 1 ELSE 0),
            !.ye = size[2] - 1 - (IF cap.top THEN 0 ELSE line)
                   - (IF HStatus = "last" THEN 1 ELSE 0)]

\* MakeDefaultCanvas.
Init ==
  /\ screen \in Screens /\ caption \in Captions /\ fore \in RegionIds
  /\ root = ResizeCanvas([RootFor(Canvas(0, "unkn"), screen, caption, FALSE)
                            EXCEPT !.kids = <<Canvas(fore, "unkn")>>], caption)
  /\ crashed = FALSE /\ astray = 0

AddPerp(c) ==
  [c EXCEPT !.id = 0, !.kids = <<[c EXCEPT !.orient = "unkn", !.weight = 1]>>]

FitsAny(par, orient) == TRUE  \* mutant: split does not look for room

Fits(par, orient) == Span(par, orient) - 1 >= 2 * (CountCanvas(par.kids) + 1) - 1

\* A split across the slice first puts the region in a slice of its own, and
\* leaves it there if there is no room for two.
AddCanvas(orient, id) ==
  LET p == PathTo(root, fore)
      across == Fore.orient \notin {"unkn", orient}
      t == IF across THEN Put(root, p, AddPerp(Fore)) ELSE root
      q == IF across THEN p \o <<1>> ELSE p
      above == At(t, Front(q))
      par == IF Len(q) = 1 /\ Len(above.kids) = 1 THEN Reserve(above, caption, 1) ELSE above
      new == Canvas(id, orient)
      old == [par.kids[Last(q)] EXCEPT !.orient = orient]
      kids == InsertAt(ReplaceAt(par.kids, Last(q), old), Last(q) + 1, new)
  IN /\ IF Fits(par, orient)
        THEN Becomes(Put(t, Front(q),
               ResizeCanvas([par EXCEPT !.kids = EqualizeOne(kids)], caption)), fore)
        ELSE Becomes(t, fore)
     /\ UNCHANGED <<screen, caption>>

\* The slice above without canvas k.  A single region left at the top needs no
\* caption; the root gets the lines par had.
Without(above, kids, k, par) ==
  LET left == EqualizeOne(RemoveAt(kids, k))
      Alone(c) == [Reserve(IF caption.always THEN above
                           ELSE [above EXCEPT !.ys = par.ys, !.ye = par.ye], caption, -1)
                     EXCEPT !.kids = <<[c EXCEPT !.orient = "unkn"]>>]
  IN IF Len(kids) = 2 /\ IsRoot(above) /\ ~IsSlice(left[1]) THEN Alone(left[1])
     ELSE [above EXCEPT !.kids = left]

\* The region's neighbour gets the focus.
RemoveFrom(at, kids, k, par) ==
  Becomes(Put(root, at, ResizeCanvas(Without(At(root, at), kids, k, par), caption)),
          RegionsOf(kids[IF k > 1 THEN k - 1 ELSE k + 1])[1].id)

RemoveAmong(at, kids, par) ==
  RemoveFrom(at, kids, SelectInSeq(kids, LAMBDA c : c.id = fore), par)

\* Two canvases in a slice below the root: the other takes the slice's place.
MovedUp(par) ==
  AllWith(FlattenSeq([k \in DOMAIN par.kids |-> FreePerp(par.kids[k])]), par.orient, par.weight)

RemoveAtPath(p, par) ==
  CASE Fore.orient = "unkn" \/ Len(par.kids) = 1 -> Becomes(root, fore)
    [] Fore.orient # "unkn" /\ Len(par.kids) = 2 /\ Len(p) > 1 ->
         RemoveAmong(Front(Front(p)),
           Splice(At(root, Front(Front(p))).kids, p[Len(p) - 1], MovedUp(par)), par)
    [] OTHER -> RemoveAmong(Front(p), par.kids, par)

RemCanvas ==
  /\ RemoveAtPath(PathTo(root, fore), At(root, Front(PathTo(root, fore))))
  /\ UNCHANGED <<screen, caption>>

OneCanvas ==
  LET par == At(root, Front(PathTo(root, fore))) IN
  /\ IF Len(par.kids) = 1 THEN Becomes(root, fore)
     ELSE Becomes(ResizeCanvas([Reserve(root, caption, -1)
                    EXCEPT !.kids = <<[Fore EXCEPT !.orient = "unkn"]>>], caption), fore)
  /\ UNCHANGED <<screen, caption>>

\* The neighbours that can give space to canvas k: those after it, then those
\* before it from the nearest on, down to the least they need.
Given(kids, k, diff) ==
  LET order == [j \in 1..Len(kids) - k |-> k + j] \o [j \in 1..k - 1 |-> k - j]
      Give(acc, j) ==
        LET least == IF IsSlice(acc.kids[j]) THEN CountCanvasPerp(acc.kids[j]) * 2 ELSE 2
            have == Max({0, Min({acc.kids[j].weight - least, diff - acc.done})})
        IN [kids |-> [acc.kids EXCEPT ![j].weight = @ - have], done |-> acc.done + have]
  IN FoldLeft(Give, [kids |-> kids, done |-> 0], order)

\* ChangeCanvasSize works on the weights, made the real sizes first.
RealSizes(kids) ==
  [k \in DOMAIN kids |-> [kids[k] EXCEPT !.weight = Span(kids[k], kids[k].orient)]]

\* ChangeCanvasSize: the canvas at p grows by diff (mode "by"), to diff
\* ("to") or to the least or the most weight there is.  With gflag space its
\* slice does not have is taken from the slice two levels up.
RECURSIVE ChangeCanvasSize(_, _, _, _, _)

CanvasesAt(t, p) == At(t, Front(p)).kids
WithCanvases(t, p, kids) == Put(t, Front(p), [At(t, Front(p)) EXCEPT !.kids = kids])
Upper(p) == Front(Front(p))                                    \* c_slback->c_slback
GoesUp(p, gflag) == gflag /\ Len(p) > 1 /\ Upper(p) # <<>>     \* which is not D_canvas

\* The changed tree and the space gained (done).
ToMost(t, p, gflag) ==
  LET kids == CanvasesAt(t, p)
      most == WithCanvases(t, p, [j \in DOMAIN kids |->
                [kids[j] EXCEPT !.weight = IF j = Last(p) THEN 1 ELSE 0]])
  IN IF GoesUp(p, gflag) THEN ChangeCanvasSize(most, Upper(p), "max", 1, gflag).tree ELSE most

Shrink(t, p, real, want) ==
  LET other == IF Last(p) < Len(real) THEN Last(p) + 1 ELSE Last(p) - 1
  IN IF Len(real) = 1 THEN Crash(t)
     ELSE WithCanvases(t, p, [real EXCEPT ![Last(p)].weight = @ + want, ![other].weight = @ - want])

Grow(more, p, done) ==
  [tree |-> WithCanvases(more.tree, p,
              [CanvasesAt(more.tree, p) EXCEPT ![Last(p)].weight = @ + done + more.done]),
   done |-> done + more.done]

\* What the neighbours could not give is asked of the slice above.
Ask(t, p, given, want, gflag) ==
  IF GoesUp(p, gflag) /\ given.done < want
  THEN ChangeCanvasSize(WithCanvases(t, p, given.kids), Upper(p), "by", want - given.done, gflag)
  ELSE [tree |-> WithCanvases(t, p, given.kids), done |-> 0]

GrowBy(t, p, given, want, gflag) == Grow(Ask(t, p, given, want, gflag), p, given.done)

ChangeBy(t, p, real, want, gflag) ==
  IF want < 0 THEN [tree |-> Shrink(t, p, real, want), done |-> want]
  ELSE GrowBy(t, p, Given(real, Last(p), want), want, gflag)

\* The canvas at p grows by size (mode "by"), to size ("to") or to the least
\* or the most weight there is.  With gflag space its slice does not have is
\* taken from the slice two levels up.
ChangeCanvasSize(t, p, mode, size, gflag) ==
  LET k == Last(p)
      real == RealSizes(CanvasesAt(t, p))
  IN CASE mode = "min" ->
            [tree |-> WithCanvases(t, p, [CanvasesAt(t, p) EXCEPT ![k].weight = 0]), done |-> 0]
       [] mode = "max" -> [tree |-> ToMost(t, p, gflag), done |-> size]
       [] mode = "to" /\ real[k].weight = size -> [tree |-> t, done |-> 0]
       [] mode = "to" /\ real[k].weight # size ->
            ChangeBy(t, p, real, size - real[k].weight, gflag)
       [] OTHER -> ChangeBy(t, p, real, size, gflag)

\* resize with "=": the top level, or with -l the region's own slice, and the
\* slice above it if the other orientation is chosen; D_canvas is equalised as
\* if it were a canvas of a slice.
Along(cv, orients, gflag) ==
  IF cv.kids[1].orient \notin orients THEN cv
  ELSE [cv EXCEPT !.kids = IF gflag THEN EqualizeAll(@) ELSE EqualizeOne(@)]

Across(at, cv, gflag) ==
  IF at = <<>>
  THEN [ResizeCanvas(IF gflag THEN EqualizeAll(<<cv>>)[1] ELSE cv, caption)
          EXCEPT !.weight = root.weight]
  ELSE Put(root, Front(at), ResizeCanvas(
         [At(root, Front(at)) EXCEPT !.kids = EqualizeOne(ReplaceAt(@, Last(at), cv))], caption))

EqualizedAt(at, cv, gflag, orients) ==
  IF (Orients \ {cv.kids[1].orient}) \cap orients = {}
  THEN Put(root, at, ResizeCanvas(Along(cv, orients, gflag), caption))
  ELSE Across(at, Along(cv, orients, gflag), gflag)

Equalized(gflag, orients) ==
  LET at == IF gflag THEN <<>> ELSE Front(PathTo(root, fore))
  IN EqualizedAt(at, At(root, at), gflag, orients)

ChangeAlong(t, p, arg, gflag, orients) ==
  IF Broken(t) \/ At(t, p).orient \notin orients THEN t
  ELSE ChangeCanvasSize(t, p, arg[1], arg[2], gflag).tree

\* The canvases of the chosen orientations around the region.
Changed(p, arg, gflag, orients) ==
  ChangeAlong(ChangeAlong(root, p, arg, gflag, orients), Front(p), arg, gflag, orients)

ResizeRegions(arg, gflag, flags) ==
  LET orients == IF flags = {} THEN {Fore.orient} ELSE flags
  IN /\ CASE Fore.orient = "unkn" -> Becomes(root, fore)
          [] Fore.orient # "unkn" /\ arg[1] = "equal" -> Becomes(Equalized(gflag, orients), fore)
          [] OTHER -> Becomes(ResizeCanvas(Changed(PathTo(root, fore), arg, gflag, orients),
                                           caption), fore)
     /\ UNCHANGED <<screen, caption>>

Directions == {"next", "prev", "top", "bottom", "up", "down", "left", "right"}

Beyond(f, where) ==
  CASE where = "up" -> FindCanvas(f.xs, f.ys - 1)
    [] where = "down" -> FindCanvas(f.xs, f.ye + 2)
    [] where = "left" -> FindCanvas(f.xs - 1, f.ys)
    [] where = "right" -> FindCanvas(f.xe + 1, f.ys)

Target(where) ==
  LET ids == [k \in DOMAIN Regions |-> Regions[k].id]
      k == SelectInSeq(ids, LAMBDA id : id = fore)
      n == Len(ids)
  IN CASE where = "next" -> ids[(k % n) + 1]
       [] where = "prev" -> ids[((k + n - 2) % n) + 1]
       [] where = "top" -> Head(ids)
       [] where = "bottom" -> Last(ids)
       [] OTHER -> Beyond(Fore, where)

SetForeCanvas(where) ==
  /\ fore' = Target(where)
  /\ UNCHANGED <<root, screen, caption, crashed>>

FocusedBlind(t) == Becomes(t, fore)  \* mutant: the focus is not looked after

\* A region that has lost the focus by being closed passes it to the first.
Focused(t) == Becomes(t, IF fore \in Ids(t) THEN fore ELSE RegionsOf(t)[1].id)

ChangeScreenSize(size, cap) ==
  /\ Focused(ResizeCanvas(RootFor(root, size, cap, Len(root.kids) > 1), cap))
  /\ screen' = size /\ caption' = cap

SetCaption(cap) == ChangeScreenSize(screen, cap)
ResizeScreen(size) == ChangeScreenSize(size, caption)

\* The tree as the code means it to be: a slice lies across the one above it
\* and has two canvases at least, but for a single region at the top.
RECURSIVE Branches(_)
Branches(n) ==
  IsSlice(n) => /\ Len(n.kids) > 1
                /\ \A c \in ToSet(n.kids) : c.orient = n.kids[1].orient /\ c.orient # n.orient
                /\ \A c \in ToSet(n.kids) : Branches(c)

Proper ==
  \/ Branches(root)
  \/ Len(root.kids) = 1 /\ ~IsSlice(root.kids[1]) /\ root.kids[1].orient = "unkn"

\* The lines regions, captions and hardstatus may use are used.
Caption == IF Len(Regions) > 1 \/ caption.always THEN 1 ELSE 0
TopLine == IF caption.top THEN Caption ELSE 0

OnScreen ==
  /\ root.xs = 0 /\ root.xe = screen[1] - 1
  /\ root.ys - TopLine = IF HStatus = "first" THEN 1 ELSE 0
  /\ root.ye + (Caption - TopLine) = screen[2] - 1 - IF HStatus = "last" THEN 1 ELSE 0

\* Without a region in focus the next key follows a null pointer.
KeyWithoutFocus ==
  /\ fore = 0
  /\ crashed' = TRUE
  /\ UNCHANGED <<root, fore, screen, caption, astray>>

Command ==
  /\ fore # 0
  /\ \/ \E orient \in Orients, id \in RegionIds \ Ids(root) : AddCanvas(orient, id)
     \/ RemCanvas
     \/ OneCanvas
     \/ \E arg \in Sizes, gflag \in BOOLEAN, flags \in Flags : ResizeRegions(arg, gflag, flags)
     \/ \E where \in Directions : SetForeCanvas(where)

Next ==
  /\ ~crashed
  /\ \/ KeyWithoutFocus
     \/ /\ astray < MaxAstray
        /\ \/ Command
           \/ \E size \in Screens : ResizeScreen(size)
           \/ \E cap \in Captions : SetCaption(cap)
        /\ astray' = IF Proper' /\ OnScreen' THEN 0 ELSE astray + 1

Spec == Init /\ [][Next]_vars

-----------------------------------------------------------------------------
(* Properties.                                                              *)

\* Every variable keeps its type; the tree never loses its root and never
\* holds a canvas twice, however slices are opened and spliced
\* (AddPerp, FreePerp).
TypeOK ==
  /\ screen \in Screens /\ caption \in Captions /\ crashed \in BOOLEAN
  /\ astray \in 0..MaxAstray
  /\ fore \in RegionIds \cup {0}
  /\ IsRoot(root) /\ Ids(root) \subseteq RegionIds
  /\ Cardinality(Ids(root)) = Len(Regions)

Apart(a, b) ==
  \/ a.xe + 1 < b.xs \/ b.xe + 1 < a.xs
  \/ a.ye + 1 < b.ys \/ b.ye + 1 < a.ys

Area(n) == (n.xe - n.xs + 2) * (n.ye - n.ys + 2)

\* If all the weights of a slice are zero (resize min) nobody gets the rest.
RECURSIVE Weighted(_)
Weighted(n) == IsSlice(n) => WeightSum(n.kids) > 0 /\ \A c \in ToSet(n.kids) : Weighted(c)

RECURSIVE Placeable(_)
Placeable(n) ==
  /\ n.xs <= n.xe /\ n.ys <= n.ye
  /\ \A c \in ToSet(n.kids) : Placeable(c)

\* Whatever the weights and however small the terminal, the rounding of
\* ResizeCanvas leaves regions, captions and separators side by side: they do
\* not overlap, stay inside D_canvas and, where a slice has weight to share
\* out, leave nothing of it unused.
Tiled ==
  /\ Proper /\ OnScreen => Placeable(root)
  /\ \A a, b \in ToSet(Regions) : a # b => Apart(a, b)
  /\ \A r \in ToSet(Regions) :
        r.xs >= root.xs /\ r.xe <= root.xe /\ r.ys >= root.ys /\ r.ye <= root.ye
  /\ Weighted(root) => MapThenSumSet(Area, ToSet(Regions)) = Area(root)

\* The line a caption needs is taken and given back in five places (AddCanvas,
\* RemCanvas, OneCanvas, ResizeCanvas, ChangeScreenSize).  Together they keep
\* D_canvas at the lines of the terminal, unless the tree is not proper or two
\* regions are closed at once.
OnScreenKept ==
  [][ (OnScreen /\ Proper /\ Len(Regions') >= Len(Regions) - 1) => OnScreen' ]_vars

RECURSIVE InDebt(_)
InDebt(n) == n.weight < 0 \/ \E c \in ToSet(n.kids) : InDebt(c)

\* Commands follow D_forecv and its neighbours without a test.  From a proper
\* tree without negative weights none of them follows a null pointer or divides
\* by zero, and the focus is on a region of the display afterwards.
Survives ==
  [][ Proper /\ ~InDebt(root) /\ fore # 0 => ~crashed' /\ fore' \in Ids(root') ]_vars

\* The space a tree needs along an orientation, caption lines and separators
\* included.
RECURSIVE Needs(_, _)
Needs(n, orient) ==
  LET each == [k \in DOMAIN n.kids |-> Needs(n.kids[k], orient)] IN
  IF ~IsSlice(n) THEN 2
  ELSE IF n.kids[1].orient = orient THEN FoldSeq(+, 0, each) ELSE Max(ToSet(each))

Room(n) == \A o \in Orients : Needs(root, o) <= Span(n, o)

\* ResizeCanvas closes the regions it has no place for.  No command loses a
\* region that way (remove closes the one in focus, only all others), since
\* AddCanvas counts what the tree needs; nor does a new size of the terminal
\* that has room for all of them.
RegionsKept ==
  [][ /\ Proper
      /\ \/ OnScreen /\ UNCHANGED <<screen, caption>>
         \/ Room(RootFor(root, screen', caption', Len(Regions) > 1))
      => Ids(root) \ {fore} \subseteq Ids(root') \/ Ids(root') = {fore} ]_vars

\* Both of these.
Kept == OnScreenKept /\ RegionsKept

=============================================================================
