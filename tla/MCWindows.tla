----------------------------- MODULE MCWindows -----------------------------
(* An instance of Windows in four scopes, since windows, displays and       *)
(* layouts are too many for one: the lists of three windows of every kind,  *)
(* commands by screen -X, two displays, and layouts.                        *)
EXTENDS Windows

CONSTANTS w1, w2, w3, d1, d2, l1

VARIABLE scope

\* Windows and displays are addresses: any will do.
Alike == Permutations({w1, w2, w3}) \cup Permutations({d1, d2})

Of(k) == Cardinality({w \in Win : kind[w] = k})
Plain == Of("group") + Of("zombie") = 0

\* Two windows with the numbers 0 and 1.
Few ==
  /\ Plain /\ Cardinality(Live) <= 2 /\ \A w \in Live : tab.number[w] < 2
  /\ fore \in {disp[d].fore : d \in ToSet(displays)} \cup {NULL}

OneRegion == Len(displays) <= 1 /\ memory.win = -1 /\ \A d \in Display : Len(disp[d].cvs) <= 1
NoLayouts == layouts = <<>> /\ memory.attach = "last"

Within ==
  CASE scope = "lists" -> OneRegion /\ NoLayouts /\ Of("group") + Of("zombie") <= 1
    [] scope = "remote" -> OneRegion /\ NoLayouts /\ Plain
    [] scope = "displays" -> /\ Few /\ NoLayouts
                             /\ Len(disp[d1].cvs) + Len(disp[d2].cvs) <= 3
                             /\ memory.win = memory.other
    [] scope = "layouts" -> /\ Few /\ Len(displays) <= 1 /\ memory.win = -1
                            /\ memory.attach # NULL
                            /\ memory.attach = l1 => memory.last = NULL /\ lay[l1].autosave

Contexts == IF scope = "remote" \/ displays = <<>> THEN Keys \cup Remote ELSE Keys

MCInit == Init /\ scope \in {"lists", "remote", "displays", "layouts"} /\ Within
MCNext ==
  /\ \/ Event
     \/ \E c \in Contexts : ShowCommand(c[1], c[2])
     \/ scope \in {"lists", "remote"} /\ \E c \in Contexts : ListCommand(c[2])
     \/ scope = "layouts" /\ \E c \in Contexts : DoCommandLayout(c[1], c[2])
     \/ scope \in {"displays", "layouts"} /\ \E c \in Keys : RegionCommand(c[1], c[2])
  /\ UNCHANGED scope /\ Within'
MCSpec == MCInit /\ [][MCNext]_<<vars, scope>>

=============================================================================
