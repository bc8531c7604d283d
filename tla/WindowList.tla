----------------------------- MODULE WindowList -----------------------------
(* What the lists of windows promise, without their pointers: every window  *)
(* has a number of its own and a place in the order of use.  Windows        *)
(* implements this with two linked lists (window.c, KillWindow and          *)
(* SetCanvasWindow).                                                        *)
EXTENDS Integers, FiniteSetsExt, SequencesExt

CONSTANTS
  Win,     \* windows
  Users    \* how many displays may have to show another window at once

VARIABLES
  num,   \* the number of every window there is
  used   \* the windows, the one used last first

lvars == <<num, used>>

ListInit == num = [w \in {} |-> 0] /\ used = <<>>

-----------------------------------------------------------------------------
(* What a step does, from a list l to a list m: records of num and used.    *)

\* The order of use has every window once.
Ranked(m) == IsInjective(m.used) /\ ToSet(m.used) = DOMAIN m.num

Ahead(seq, v, w) == \E i, j \in DOMAIN seq : i < j /\ seq[i] = v /\ seq[j] = w

\* The windows of P were used in between and are ahead of the others, whose
\* order stays.
Promoted(before, after, P) ==
  /\ P \subseteq ToSet(after)
  /\ \A w \in ToSet(after) \ P :
        /\ \A v \in P : Ahead(after, v, w)
        /\ \A v \in ToSet(after) \ P : Ahead(after, v, w) <=> Ahead(before, v, w)

SomePromoted(before, after, most) ==
  \E P \in SUBSET ToSet(after) : Cardinality(P) <= most /\ Promoted(before, after, P)

\* A key uses one window; a display that comes back its layout's and its own.
Use(l, m) == m.num = l.num /\ SomePromoted(l.used, m.used, 2)

Create(l, m, w) ==
  /\ w \notin DOMAIN l.num /\ DOMAIN m.num = DOMAIN l.num \cup {w}
  /\ \A v \in DOMAIN l.num : m.num[v] = l.num[v] /\ m.num[v] # m.num[w]
  /\ m.used = <<w>> \o l.used

Delete(l, m, w) ==
  /\ m.num = [v \in DOMAIN l.num \ {w} |-> l.num[v]]
  /\ SomePromoted(l.used, m.used, Users)

\* w gets another number, and the window that had it the one of w.
Exchange(l, m, w) ==
  LET n == m.num[w]
  IN /\ m.num = [v \in DOMAIN l.num |->
                   IF v = w THEN n ELSE IF l.num[v] = n THEN l.num[w] ELSE l.num[v]]
     /\ Promoted(l.used, m.used, {v \in DOMAIN l.num : v = w \/ l.num[v] = n})

\* The numbers are closed up.
Closed(l, m) ==
  /\ m.num = [w \in DOMAIN l.num |-> Cardinality({v \in DOMAIN l.num : l.num[v] < l.num[w]})]
  /\ m.used = l.used

\* The numbers are dealt out anew, and the windows used in any order.
Sorted(l, m) == {m.num[w] : w \in DOMAIN l.num} = {l.num[w] : w \in DOMAIN l.num}

Renumber(l, m) ==
  /\ DOMAIN m.num = DOMAIN l.num
  /\ Closed(l, m) \/ Sorted(l, m) \/ \E w \in DOMAIN l.num : Exchange(l, m, w)

-----------------------------------------------------------------------------

ListNext ==
  \E l \in {[num |-> num, used |-> used]}, m \in {[num |-> num', used |-> used']} :
     /\ Ranked(m)
     /\ \/ Use(l, m)
        \/ \E w \in Win : Create(l, m, w)
        \/ \E w \in DOMAIN l.num : Delete(l, m, w)
        \/ Renumber(l, m)

ListSpec == ListInit /\ [][ListNext]_lvars

=============================================================================
