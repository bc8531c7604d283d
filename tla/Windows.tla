------------------------------ MODULE Windows ------------------------------
(* The table of windows: the list ordered by number, doubly linked, and the *)
(* one ordered by use, singly linked (window.c); the displays, which show   *)
(* windows in their regions and remember two of them (SetCanvasWindow in    *)
(* canvas.c); groups; layouts, which keep windows by pointer (layout.c); and *)
(* the commands that make, kill, choose and renumber windows (process.c).   *)
(*                                                                          *)
(* The regions of a display are the sequence of the windows they show; how  *)
(* they lie is the business of Regions.  Overlays, permissions and the      *)
(* sizes of windows are left out.  All displays belong to one user.         *)
EXTENDS Integers, FiniteSetsExt, SequencesExt

CONSTANTS
  NULL,
  Win,         \* addresses of windows; their number is a bound
  Display,     \* displays, as many as may be attached at once
  Layout,      \* addresses of layouts
  Positions,   \* bound: the numbers of windows; below 2^16, the width of w_number
  MaxRegions,  \* bound: regions of a display
  Kinds,       \* types of windows that are made: "pty", "group"
  Zombies,     \* the settings of the zombie command: keep dead windows
  Titles,      \* bound: titles of windows, which sort goes by
  Rings        \* groups may be put into their own windows

ASSUME WindowsAssumption ==
  /\ NULL \notin Win \cup Display \cup Layout /\ "last" \notin Layout \cup {NULL}
  /\ IsFiniteSet(Win) /\ Win # {} /\ IsFiniteSet(Display) /\ Display # {}
  /\ Positions \subseteq Nat /\ \A n \in Positions : n < 256 * 256
  /\ MaxRegions \in Nat \ {0}
  /\ Kinds \subseteq {"pty", "group"}
  /\ Titles \subseteq Nat /\ Zombies \subseteq BOOLEAN /\ Rings \in BOOLEAN

VARIABLES
  tab,       \* the two lists: first_window, last_window, mru_window, and of
             \* every window w_next, w_prev, w_prev_mru, w_number
  kind,      \* what a window is: "free", "pty", "zombie", "group"
  group,     \* w_group
  disp,      \* per display: the windows of its regions, the region in focus
             \* (D_forecv), D_fore, D_other, D_layout
  displays,  \* the list of attached displays
  fore,      \* the window commands work on
  lay,       \* per layout: windows, region in focus, lay_autosave
  layouts,   \* the list of layouts
  memory,    \* layout_last, layout_attach, u_detachwin, u_detachotherwin
  ghosts     \* history: windows freed while fore pointed to them

vars == <<tab, kind, group, disp, displays, fore, lay, layouts, memory, ghosts>>

State == [tab |-> tab, kind |-> kind, group |-> group, disp |-> disp, displays |-> displays,
          fore |-> fore, lay |-> lay, layouts |-> layouts, memory |-> memory, ghosts |-> ghosts]

Becomes(s) ==
  /\ tab' = s.tab /\ kind' = s.kind /\ group' = s.group /\ disp' = s.disp
  /\ displays' = s.displays /\ fore' = s.fore /\ lay' = s.lay /\ layouts' = s.layouts
  /\ memory' = s.memory /\ ghosts' = s.ghosts

-----------------------------------------------------------------------------
(* The lists.                                                               *)

Follow(seq, link) ==
  IF seq = <<>> \/ link[Last(seq)] = NULL THEN seq ELSE Append(seq, link[Last(seq)])

\* The windows met from start along a pointer; one too many if it never ends.
Chain(start, link) ==
  LET met[n \in 0..Cardinality(Win)] ==
        IF n = 0 THEN IF start = NULL THEN <<>> ELSE <<start>> ELSE Follow(met[n - 1], link)
  IN met[Cardinality(Win)]

ByNumber(t) == Chain(t.first, t.next)
Backwards(t) == Chain(t.last, t.prev)
ByUse(t) == Chain(t.mru, t.prevmru)

HeadOf(seq) == IF seq = <<>> THEN NULL ELSE seq[1]
FirstOf(seq, Test(_)) ==
  LET found == {i \in DOMAIN seq : Test(seq[i])}
  IN IF found = {} THEN NULL ELSE seq[Min(found)]
Place(seq, w) == CHOOSE i \in DOMAIN seq : seq[i] = w
Without(seq, w) == RemoveAt(seq, Place(seq, w))

\* The search starts at the nearer end.
GetWindowByNumber(t, n) ==
  LET lo == t.number[t.first]
      hi == t.number[t.last]
      w == IF lo + (hi - lo) \div 2 > n
           THEN FirstOf(ByNumber(t), LAMBDA v : t.number[v] >= n)
           ELSE FirstOf(Backwards(t), LAMBDA v : t.number[v] <= n)
  IN IF n \in lo..hi /\ t.number[w] = n THEN w ELSE NULL

UnlinkUse(t, w) ==
  LET newer == FirstOf(ByUse(t), LAMBDA v : t.prevmru[v] = w)
  IN IF t.mru = w THEN [t EXCEPT !.mru = t.prevmru[w]]
     ELSE IF newer = NULL THEN t
     ELSE [t EXCEPT !.prevmru[newer] = t.prevmru[w]]

UnlinkNumber(t, w) ==
  [t EXCEPT
     !.first = IF t.prev[w] = NULL THEN t.next[w] ELSE @,
     !.last = IF t.next[w] = NULL THEN t.prev[w] ELSE @,
     !.next = [v \in Win |-> IF v = t.prev[w] THEN t.next[w] ELSE t.next[v]],
     !.prev = [v \in Win |-> IF v = t.next[w] THEN t.prev[w] ELSE t.prev[v]]]

Cleared(t, w) == [t EXCEPT !.next[w] = NULL, !.prev[w] = NULL, !.prevmru[w] = NULL]

remove_window_from_list(t, w) == Cleared(UnlinkUse(UnlinkNumber(t, w), w), w)

\* Between before and after, of which either may be NULL.
Link(t, w, before, after) ==
  [t EXCEPT
     !.first = IF before = NULL THEN w ELSE @,
     !.last = IF after = NULL THEN w ELSE @,
     !.next = [v \in Win |-> IF v = w THEN after ELSE IF v = before THEN w ELSE t.next[v]],
     !.prev = [v \in Win |-> IF v = w THEN before ELSE IF v = after THEN w ELSE t.prev[v]],
     !.prevmru[w] = t.mru,
     !.mru = w]

\* p goes ahead of win, or to the end if win is NULL; it is the one used last.
add_window_to_list(t, p, win) ==
  Link(t, p, IF win = NULL THEN t.last ELSE IF win = t.first THEN NULL ELSE t.prev[win], win)

ToHead(t, w) ==
  IF t.mru = w THEN t ELSE [UnlinkUse(t, w) EXCEPT !.prevmru[w] = t.mru, !.mru = w]

Placed(t, w) ==
  add_window_to_list(t, w, FirstOf(ByNumber(t), LAMBDA v : t.number[v] >= t.number[w]))

Renumbered(t, w, n) == [remove_window_from_list(t, w) EXCEPT !.number[w] = n]

Exchanged(t, a, b, old, n) ==
  IF b = NULL THEN Placed(Renumbered(t, a, n), a)
  ELSE Placed(Placed(Renumbered(Renumbered(t, a, n), b, old), a), b)

SwapWindows(t, old, dest) ==
  IF old = dest THEN t
  ELSE Exchanged(t, GetWindowByNumber(t, old), GetWindowByNumber(t, dest), old, dest)

-----------------------------------------------------------------------------
(* What displays show.                                                      *)

Blank == [cvs |-> <<>>, focus |-> 0, fore |-> NULL, other |-> NULL, layout |-> NULL]
Shows(s, d, w) == w \in ToSet(s.disp[d].cvs)
Live == {w \in Win : kind[w] # "free"}

\* w_layer.l_cvlist: a group is shown by the layer of the region itself.
OwnLayer(s, w) == s.kind[w] # "group" /\ \E d \in ToSet(s.displays) : Shows(s, d, w)

SetFore(s, d, w) ==
  [s EXCEPT !.disp[d].fore = w, !.fore = w, !.tab = IF w = NULL THEN @ ELSE ToHead(@, w)]

Show(s, d, i, w) ==
  [s EXCEPT !.disp[d].cvs[i] = w,
            !.disp[d].other = IF w # NULL /\ @ = w THEN s.tab.prevmru[w] ELSE @]

\* D_other is the window of the command, which need not be the one that was shown.
Leave(s, d, i) ==
  IF s.disp[d].cvs[i] # NULL /\ i = s.disp[d].focus
  THEN [s EXCEPT !.disp[d].other = s.fore, !.disp[d].fore = NULL]
  ELSE s

ShownAnywhere(s, d, i, w) == SetFore(s, d, w)  \* mutant: whatever region it is in

Shown(s, d, i, w) == IF i = s.disp[d].focus THEN SetFore(s, d, w) ELSE s

SetCanvasWindow(s, d, i, w) == Shown(Show(Leave(s, d, i), d, i, w), d, i, w)

SetForeWindow(s, d, w) ==
  IF d = NULL THEN [s EXCEPT !.fore = w] ELSE SetCanvasWindow(s, d, s.disp[d].focus, w)

Activate(s, d) == IF d = NULL THEN s ELSE [s EXCEPT !.fore = s.disp[d].fore]

SwitchWindow(s, d, w) ==
  IF w = NULL THEN s
  ELSE IF d = NULL THEN [s EXCEPT !.fore = w]
  ELSE IF w = s.disp[d].fore THEN s
  ELSE Activate(SetForeWindow(s, d, w), d)

\* w, unless it is on the display already: then one that is on none, or at
\* least not on this one.
FindNiceWindow(s, d, w) ==
  LET unseen == FirstOf(ByUse(s.tab), LAMBDA v : ~OwnLayer(s, v))
      elsewhere == FirstOf(ByUse(s.tab), LAMBDA v : OwnLayer(s, v) /\ ~Shows(s, d, v))
  IN IF d = NULL \/ (w # NULL /\ ~Shows(s, d, w)) THEN w
     ELSE IF unseen # NULL THEN unseen ELSE elsewhere

-----------------------------------------------------------------------------
(* Layouts.                                                                 *)

NoLayout == [cvs |-> <<>>, focus |-> 0, autosave |-> TRUE]

Saved(s, d, l) ==
  [s EXCEPT !.lay[l].cvs = s.disp[d].cvs, !.lay[l].focus = s.disp[d].focus]

AutosaveLayout(s, d) ==
  LET l == s.disp[d].layout
  IN IF l = NULL \/ ~s.lay[l].autosave THEN s ELSE Saved(s, d, l)

\* The regions are freed with D_forecv out of the way, so that SetCanvasWindow
\* changes neither D_fore nor D_other; the new ones start blank.
Emptied(s, d, n, focus) ==
  [s EXCEPT !.disp[d].cvs = <<>> \o [i \in 1..n |-> NULL], !.disp[d].focus = focus]

PutWindowCv(s, d, cvs) ==
  LET put[n \in 0..Len(cvs)] == IF n = 0 THEN s ELSE SetCanvasWindow(put[n - 1], d, n, cvs[n])
  IN put[Len(cvs)]

Loaded(s, d, l, cvs, focus) ==
  [PutWindowCv(Emptied(s, d, Len(cvs), focus), d, cvs) EXCEPT !.disp[d].layout = l]

LoadSaved(s, d, l) ==
  IF l = NULL THEN Loaded(s, d, NULL, <<NULL>>, 1)
  ELSE Loaded(s, d, l, s.lay[l].cvs, s.lay[l].focus)

LoadLayout(s, d, l) == IF d = NULL THEN s ELSE LoadSaved(AutosaveLayout(s, d), d, l)

Linked(s, l) ==
  [s EXCEPT !.layouts = Append(@, l), !.lay[l] = [cvs |-> <<NULL>>, focus |-> 1, autosave |-> TRUE]]

NewLayout(s, d, l) ==
  IF d = NULL THEN [Linked(s, l) EXCEPT !.memory.attach = l]
  ELSE [Saved(LoadLayout(Linked(s, l), d, NULL), d, l) EXCEPT !.disp[d].layout = l]

SaveLayout(s, d, l) ==
  [Saved(IF l \in ToSet(s.layouts) THEN s ELSE Linked(s, l), d, l) EXCEPT !.disp[d].layout = l]

Unlinked(s, d, l) ==
  [s EXCEPT !.layouts = Without(@, l), !.lay[l] = NoLayout,
            !.disp = [e \in Display |->
               IF e = d /\ @[e].layout = l THEN [@[e] EXCEPT !.layout = NULL] ELSE @[e]]]

\* Another layout is loaded: the display's own, or the one after l, or the first.
Reloaded(s, d, k) ==
  IF s.layouts = <<>> THEN Activate(s, d)
  ELSE Activate(LoadLayout(s, d,
         IF d # NULL /\ s.disp[d].layout # NULL THEN s.disp[d].layout
         ELSE IF k \in DOMAIN s.layouts THEN s.layouts[k] ELSE s.layouts[1]), d)

RemoveLayout(s, d, l) ==
  Reloaded(Unlinked(s, d, l), d, Place(s.layouts, l))

UpdateLayoutNone(s, w) == s  \* mutant: layouts keep a window that is freed

Swept(cvs, w) == [i \in DOMAIN cvs |-> IF cvs[i] = w THEN NULL ELSE cvs[i]]

UpdateLayoutCanvas(s, w) ==
  [s EXCEPT !.lay = [l \in Layout |-> [s.lay[l] EXCEPT !.cvs = Swept(s.lay[l].cvs, w)]]]

-----------------------------------------------------------------------------
(* The end of a window.                                                     *)

KilledLoose(t, w) ==  \* mutant: the neighbours keep their pointers
  IF t.first = t.last THEN t
  ELSE [t EXCEPT !.first = IF w = t.first THEN t.next[w] ELSE @,
                 !.last = IF w = t.last THEN t.prev[w] ELSE @]

\* KillWindow takes the window off the lists and leaves its own pointers.
Killed(t, w) ==
  IF t.first = t.last THEN t
  ELSE [t EXCEPT
     !.first = IF w = t.first THEN t.next[w] ELSE @,
     !.last = IF w # t.first /\ w = t.last THEN t.prev[w] ELSE @,
     !.next = [v \in Win |-> IF w # t.first /\ v = t.prev[w] THEN
                                IF w = t.last THEN NULL ELSE t.next[w]
                             ELSE t.next[v]],
     !.prev = [v \in Win |-> IF v = t.next[w] /\ (w = t.first \/ w # t.last) THEN
                                IF w = t.first THEN NULL ELSE t.prev[w]
                             ELSE t.prev[v]]]

\* d_other, when it is the window that goes.
OtherThen(s, d, w) ==
  LET f == s.disp[d].fore
  IN IF f # NULL /\ s.tab.prevmru[f] # w THEN s.tab.prevmru[f] ELSE s.tab.prevmru[w]

Forget(s, d, w) ==
  [s.disp[d] EXCEPT !.other = IF @ = w THEN OtherThen(s, d, w) ELSE @,
                    !.fore = IF @ = w THEN NULL ELSE @]

\* A group leaves its windows to its own group.
Orphaned(s, w) ==
  IF s.kind[w] # "group" THEN s.group
  ELSE [v \in Win |-> IF s.group[v] = w /\ v \in ToSet(ByUse(s.tab)) THEN s.group[w] ELSE s.group[v]]

FreeWindow(s, w) ==
  [s EXCEPT !.group = [Orphaned(s, w) EXCEPT ![w] = NULL],
            !.disp = [d \in Display |-> Forget(s, d, w)],
            !.kind[w] = "free",
            !.tab = [Cleared(@, w) EXCEPT !.number[w] = 0],
            !.ghosts = IF s.fore = w THEN @ \cup {w} ELSE @]

Replace(s, d, i, w) ==
  IF s.disp[d].cvs[i] = w THEN SetCanvasWindow(s, d, i, FindNiceWindow(s, d, s.disp[d].other)) ELSE s

ReplaceEach(s, d, w) ==
  LET gone[n \in 0..Len(s.disp[d].cvs)] == IF n = 0 THEN s ELSE Replace(gone[n - 1], d, n, w)
  IN gone[Len(s.disp[d].cvs)]

SwitchAway(s, d, w) == IF Shows(s, d, w) THEN Activate(ReplaceEach(s, d, w), d) ELSE s

LeaveDisplays(s, w) ==
  LET left[n \in 0..Len(s.displays)] == IF n = 0 THEN s ELSE SwitchAway(left[n - 1], s.displays[n], w)
  IN left[Len(s.displays)]

\* The daemon ends with its last window (Finit).
Nothing ==
  [tab |-> [first |-> NULL, last |-> NULL, mru |-> NULL, next |-> [w \in Win |-> NULL],
            prev |-> [w \in Win |-> NULL], prevmru |-> [w \in Win |-> NULL],
            number |-> [w \in Win |-> 0]],
   kind |-> [w \in Win |-> "free"], group |-> [w \in Win |-> NULL],
   disp |-> [d \in Display |-> Blank], displays |-> <<>>, fore |-> NULL,
   lay |-> [l \in Layout |-> NoLayout], layouts |-> <<>>,
   memory |-> [last |-> NULL, attach |-> "last", win |-> -1, other |-> -1], ghosts |-> {}]

Survived(s, w) == FreeWindow(UpdateLayoutCanvas(LeaveDisplays(s, w), w), w)

KillWindow(s, w) ==
  IF ByUse(UnlinkUse(s.tab, w)) = <<>> THEN Nothing
  ELSE Survived([s EXCEPT !.tab = Killed(UnlinkUse(@, w), w)], w)

\* What becomes of a display that shows a window freed before is not modelled.
Kill(s, w) ==
  LET k == KillWindow(s, w)
  IN (\A d \in Display : ToSet(k.disp[d].cvs) \cap s.ghosts = {}) /\ Becomes(k)

-----------------------------------------------------------------------------
(* Commands, with the display and the window they work on.                  *)

With(f) == [State EXCEPT !.fore = f]

Keys == {<<d, disp[d].fore>> : d \in ToSet(displays)}

\* screen -X takes the first display there is and any window.  Without windows,
\* .screenrc makes the first one.
Remote ==
  {IF displays = <<>> THEN NULL ELSE displays[1]} \X (IF Live = {} THEN {NULL} ELSE Live)

GroupFor(f) == IF f = NULL THEN NULL ELSE IF kind[f] = "group" THEN f ELSE group[f]

FreeNumber(start) == Min({n \in start..start + Cardinality(Win) : \A w \in Live : tab.number[w] # n})

Listed(s, p, n) ==
  add_window_to_list([s.tab EXCEPT !.number[p] = n], p,
                     FirstOf(ByNumber(s.tab), LAMBDA v : s.tab.number[v] > n))

Remembered(s, d) ==
  IF d = NULL \/ s.disp[d].fore = NULL THEN s ELSE [s EXCEPT !.disp[d].other = s.disp[d].fore]

MakeWindow(d, f, p, type, n) ==
  /\ kind[p] = "free" /\ n \in Positions
  /\ LET s == [With(f) EXCEPT !.kind[p] = type, !.group[p] = GroupFor(f), !.ghosts = @ \ {p},
                              !.tab = Listed(State, p, n)]
     IN Becomes(Activate(SetForeWindow(Remembered(s, d), d, p), d))

DoCommandScreen(d, f) ==
  \E p \in Win, type \in Kinds, start \in Positions : MakeWindow(d, f, p, type, FreeNumber(start))

DoCommandKill(f) == f # NULL /\ Kill(With(f), f)

\* Around the ring from fore, to the next one of its group.
Ring(seq, f) ==
  SubSeq(seq, Place(seq, f) + 1, Len(seq)) \o SubSeq(seq, 1, Place(seq, f))

NextIn(seq, f) ==
  IF f = NULL THEN IF seq = <<>> THEN NULL ELSE seq[1]
  ELSE FirstOf(Ring(seq, f), LAMBDA v : group[v] = group[f])

NextWindow(f) == NextIn(ByNumber(tab), f)
PreviousWindow(f) == NextIn(Backwards(tab), f)

MoreWindows(f) == tab.mru # NULL /\ (f = NULL \/ tab.prevmru[tab.mru] # NULL)

DoCommandNext(d, f) == MoreWindows(f) /\ Becomes(SwitchWindow(With(f), d, NextWindow(f)))
DoCommandPrev(d, f) == MoreWindows(f) /\ Becomes(SwitchWindow(With(f), d, PreviousWindow(f)))

\* What a dangling D_other leads to is not modelled.
DoCommandOther(d, f) ==
  LET o == IF d = NULL THEN NULL ELSE disp[d].other
  IN /\ MoreWindows(f) /\ o \in Live \cup {NULL}
     /\ Becomes(SwitchWindow(With(f), d, IF o = NULL THEN NextWindow(f) ELSE o))

DoCommandParent(d, f) ==
  MoreWindows(f) /\ f # NULL /\ Becomes(SwitchWindow(With(f), d, group[f]))

DoCommandSelect(d, f) ==
  \/ \E n \in Positions : tab.first # NULL /\ Becomes(SwitchWindow(With(f), d, GetWindowByNumber(tab, n)))
  \/ Becomes(Activate(SetForeWindow(With(f), d, NULL), d))
  \/ f # NULL /\ Becomes(Activate(SetForeWindow(With(f), d, f), d))

DoCommandNumber(f) ==
  \E n \in Positions : f # NULL /\ Becomes([With(f) EXCEPT !.tab = SwapWindows(@, tab.number[f], n)])

Bumped(f, w) == [With(f) EXCEPT !.tab = SwapWindows(@, tab.number[f], tab.number[w])]

DoCommandBump(f) ==
  /\ f # NULL
  /\ \/ tab.number[f] < tab.number[NextWindow(f)] /\ Becomes(Bumped(f, NextWindow(f)))
     \/ tab.number[f] > tab.number[PreviousWindow(f)] /\ Becomes(Bumped(f, PreviousWindow(f)))

CollapseFromOne(f) ==  \* mutant: off by one
  Becomes([With(f) EXCEPT !.tab.number =
    [w \in Win |-> IF kind[w] = "free" THEN 0 ELSE Place(ByNumber(tab), w)]])

CollapseWindowlist(f) ==
  Becomes([With(f) EXCEPT !.tab.number =
    [w \in Win |-> IF kind[w] = "free" THEN 0 ELSE Place(ByNumber(tab), w) - 1]])

\* One comparison of sort.  After an exchange the code swaps its two pointers as
\* well, so they stay at the places i and j of the list.
Compared(t, title, i, j) ==
  LET list == ByNumber(t)
  IN IF title[list[j]] < title[list[i]] THEN SwapWindows(t, t.number[list[i]], t.number[list[j]]) ELSE t

Pairs(n) == [k \in 1..n * n |-> <<((k - 1) \div n) + 1, ((k - 1) % n) + 1>>]

SortedBy(t, title, n) ==
  LET sorted[k \in 0..n * n] ==
        IF k = 0 THEN t
        ELSE LET p == Pairs(n)[k]
             IN IF p[1] < p[2] THEN Compared(sorted[k - 1], title, p[1], p[2]) ELSE sorted[k - 1]
  IN sorted[n * n]

\* Titles change all the time: any may be there.
DoCommandSort(f) ==
  /\ tab.first # tab.last
  /\ \E title \in [Live -> Titles] :
        Becomes([With(f) EXCEPT !.tab = SortedBy(@, title, Cardinality(Live))])

\* Without Rings no group is put into one of its own windows.
DoCommandGroup(f) ==
  /\ f # NULL
  /\ \E g \in {NULL} \cup {w \in Live : kind[w] = "group" /\ w # f} :
        /\ Rings \/ f \notin ToSet(Chain(g, group))
        /\ Becomes([With(f) EXCEPT !.group[f] = g])

ShowCommand(d, f) ==
  \/ DoCommandScreen(d, f) \/ DoCommandKill(f) \/ DoCommandNext(d, f) \/ DoCommandPrev(d, f)
  \/ DoCommandOther(d, f) \/ DoCommandParent(d, f) \/ DoCommandSelect(d, f)

ListCommand(f) ==
  \/ DoCommandNumber(f) \/ DoCommandBump(f) \/ CollapseWindowlist(f)
  \/ DoCommandSort(f) \/ DoCommandGroup(f)

-----------------------------------------------------------------------------
(* Regions and layouts, by commands of a display.                           *)

Region(d, f, cvs, focus, w) ==
  Becomes(Activate([With(f) EXCEPT !.disp[d].cvs = cvs, !.disp[d].focus = focus,
                                   !.disp[d].fore = w], d))

\* The new region is blank and comes after the one in focus.
DoCommandSplit(d, f) ==
  LET c == disp[d]
  IN Len(c.cvs) < MaxRegions /\ Region(d, f, InsertAt(c.cvs, c.focus + 1, NULL), c.focus, c.fore)

\* Which region gets the focus depends on how they lie.
DoCommandRemove(d, f) ==
  LET c == disp[d]
  IN \E j \in DOMAIN c.cvs \ {c.focus} :
        Region(d, f, RemoveAt(c.cvs, c.focus), IF j < c.focus THEN j ELSE j - 1, c.cvs[j])

DoCommandOnly(d, f) ==
  Len(disp[d].cvs) > 1 /\ Region(d, f, <<disp[d].cvs[disp[d].focus]>>, 1, disp[d].fore)

SetForeCanvas(d, j) ==
  LET w == disp[d].cvs[j]
  IN [State EXCEPT !.disp[d].focus = j, !.disp[d].fore = w, !.fore = w,
                   !.disp[d].other = IF @ = w THEN NULL ELSE @]

DoCommandFocus(d) == \E j \in DOMAIN disp[d].cvs \ {disp[d].focus} : Becomes(SetForeCanvas(d, j))

RegionCommand(d, f) ==
  \/ DoCommandSplit(d, f) \/ DoCommandRemove(d, f) \/ DoCommandOnly(d, f) \/ DoCommandFocus(d)

\* select, next and prev choose any other layout; the default one, a single blank
\* region, may be chosen again.
SelectLayout(d, f, l) ==
  (l = NULL \/ l # disp[d].layout) /\ Becomes(Activate(LoadLayout(With(f), d, l), d))

\* layout_last, layout_attach and other displays go on to point to a layout that
\* is removed; what follows is not modelled.
DoCommandLayoutRemove(d, f) ==
  \E l \in ToSet(layouts) :
     /\ l \notin {memory.last, memory.attach}
     /\ \A e \in ToSet(displays) \ {d} : disp[e].layout # l
     /\ Becomes(RemoveLayout(With(f), d, l))

DoCommandLayout(d, f) ==
  \/ \E l \in Layout \ ToSet(layouts) :
        \/ Becomes(Activate(NewLayout(With(f), d, l), d))
        \/ d # NULL /\ Becomes(SaveLayout(With(f), d, l))
  \/ \E l \in ToSet(layouts) : d # NULL /\ (Becomes(SaveLayout(With(f), d, l)) \/ SelectLayout(d, f, l))
  \/ d # NULL /\ SelectLayout(d, f, NULL)
  \/ \E on \in BOOLEAN, l \in Layout \cap {IF d = NULL THEN memory.attach ELSE disp[d].layout} :
        Becomes([With(f) EXCEPT !.lay[l].autosave = on])
  \/ \E l \in ToSet(layouts) \cup {NULL, "last"} : Becomes([With(f) EXCEPT !.memory.attach = l])
  \/ DoCommandLayoutRemove(d, f)

-----------------------------------------------------------------------------
(* What happens by itself.                                                  *)

WindowDied(w) ==
  \/ kind[w] = "pty" /\ TRUE \in Zombies /\ Becomes([State EXCEPT !.kind[w] = "zombie"])
  \/ kind[w] = "pty" /\ FALSE \in Zombies /\ Kill(State, w)

\* The zombie keys: onerror or resurrect, and destroy.
RemakeWindow(w) == kind[w] = "zombie" /\ Becomes([State EXCEPT !.kind[w] = "pty"])
DestroyZombie(w) == kind[w] = "zombie" /\ Kill(State, w)

Noted(s, d) ==
  LET f == s.disp[d].fore
      o == s.disp[d].other
  IN IF f = NULL THEN s
     ELSE [s EXCEPT !.memory.win = s.tab.number[f],
                    !.memory.other = IF o = NULL THEN s.tab.number[f] ELSE s.tab.number[o]]

\* Every region lets go of its window before the display is freed.
Detach(d) ==
  /\ d \in ToSet(displays) /\ disp[d].other \in Live \cup {NULL}
  /\ LET s == AutosaveLayout(Noted(State, d), d)
     IN Becomes([s EXCEPT !.memory.last = disp[d].layout, !.displays = Without(@, d),
                          !.disp[d] = Blank, !.fore = NULL])

Fresh(s, d) ==
  [s EXCEPT !.displays = <<d>> \o @, !.disp[d] = [Blank EXCEPT !.cvs = <<NULL>>, !.focus = 1]]

AttachLayout(s) == IF s.memory.attach = "last" THEN s.memory.last ELSE s.memory.attach

WithLayout(s, d) ==
  IF AttachLayout(s) = NULL THEN s
  ELSE LET l == LoadLayout(s, d, AttachLayout(s)) IN SetCanvasWindow(l, d, l.disp[d].focus, NULL)

NumberedWindow(t, n) == IF n < 0 THEN NULL ELSE GetWindowByNumber(t, n)

Recalled(s, d) ==
  [s EXCEPT !.fore = NumberedWindow(s.tab, s.memory.win),
            !.disp[d].other = IF s.memory.other < 0 THEN @ ELSE NumberedWindow(s.tab, s.memory.other)]

Entered(s, d, w) == Activate(IF w = NULL THEN s ELSE SetForeWindow([s EXCEPT !.fore = w], d, w), d)

\* The window of the last time, or one chosen by its number, or none (= and -).
FinishAttach(d) ==
  /\ d \notin ToSet(displays)
  /\ LET s == Recalled(WithLayout(Fresh(State, d), d), d)
     IN \/ Becomes(Entered(s, d, FindNiceWindow(s, d, s.fore)))
        \/ Becomes(Activate([s EXCEPT !.fore = NULL], d))
        \/ \E w \in Live : Becomes(Entered(s, d, w))

Init ==
  /\ tab = Nothing.tab /\ kind = Nothing.kind /\ group = Nothing.group /\ fore = NULL
  /\ lay = Nothing.lay /\ layouts = <<>> /\ memory = Nothing.memory /\ ghosts = {}
  /\ \E first \in {<<>>} \cup {<<d>> : d \in Display} :
        /\ displays = first
        /\ disp = [d \in Display |->
              IF d \in ToSet(first) THEN [Blank EXCEPT !.cvs = <<NULL>>, !.focus = 1] ELSE Blank]

Event ==
  \/ \E w \in Win : WindowDied(w) \/ RemakeWindow(w) \/ DestroyZombie(w)
  \/ \E d \in Display : Detach(d) \/ FinishAttach(d)

Next ==
  \/ Event
  \/ \E c \in Keys \cup Remote :
        ShowCommand(c[1], c[2]) \/ ListCommand(c[2]) \/ DoCommandLayout(c[1], c[2])
  \/ \E c \in Keys \cup Remote : c[1] # NULL /\ RegionCommand(c[1], c[2])

Spec == Init /\ [][Next]_vars

-----------------------------------------------------------------------------
(* Properties.                                                              *)

Screen == [cvs : Seq(Win \cup {NULL}), focus : 0..MaxRegions, fore : Win \cup {NULL},
           other : Win \cup {NULL}, layout : Layout \cup {NULL}]

\* Every variable keeps its type; a region is in focus on each attached display,
\* and in every layout, and on no other.
TypeOK ==
  /\ \A w \in Win : tab.number[w] \in Positions \cup {0}
  /\ kind \in [Win -> Kinds \cup {"free", "zombie"}]
  /\ disp \in [Display -> Screen] /\ displays \in Seq(Display)
  /\ \A d \in Display :
        IF d \in ToSet(displays) THEN disp[d].focus \in DOMAIN disp[d].cvs ELSE disp[d] = Blank
  /\ layouts \in Seq(Layout)
  /\ \A l \in Layout :
        IF l \in ToSet(layouts) THEN lay[l].focus \in DOMAIN lay[l].cvs ELSE lay[l] = NoLayout

\* The two ends and both directions of the list by number agree, its numbers
\* rise, and the list by use holds the same windows: KillWindow, SwapWindows,
\* SetCanvasWindow and MakeWindow each relink them by hand.
ListsAgree ==
  /\ Backwards(tab) = Reverse(ByNumber(tab))
  /\ \A i, j \in DOMAIN ByNumber(tab) :
        i < j => tab.number[ByNumber(tab)[i]] < tab.number[ByNumber(tab)[j]]
  /\ ToSet(ByNumber(tab)) = Live
  /\ ToSet(ByUse(tab)) = Live /\ Len(ByUse(tab)) = Cardinality(Live)

\* Nobody keeps a window that was freed: no region, group or layout does, and of
\* a display's two windows D_other does only if it was fore, the window of a
\* command of screen -X, when it was freed.
NoDangling ==
  /\ \A d \in Display :
        /\ ToSet(disp[d].cvs) \cup {disp[d].fore} \subseteq Live \cup {NULL}
        /\ disp[d].other \in Live \cup {NULL} \cup ghosts
  /\ \A w \in Live : group[w] # NULL => group[w] \in Live /\ kind[group[w]] = "group"
  /\ \A l \in Layout : ToSet(lay[l].cvs) \subseteq Live \cup {NULL}

\* The window that gets the keys, D_fore, is the one in the region in focus,
\* whatever commands, layouts, dying windows and other displays did.
ForeShown ==
  \A i \in DOMAIN displays :
     LET c == disp[displays[i]] IN c.fore = c.cvs[c.focus]

List == INSTANCE WindowList WITH
  num <- [w \in Live |-> tab.number[w]], used <- ByUse(tab), Users <- Cardinality(Display)

\* Whatever happens to displays, regions and layouts, the table is a table of
\* numbered windows with an order of use: each step makes, kills, uses or
\* renumbers windows, and moves no others.
Implements == List!ListSpec

=============================================================================
