----------------------------- MODULE MCWindowIO -----------------------------
(* Instances of WindowIO: windows that share displays, and a window whose  *)
(* output and input go through a pseudo window (exec ::: cmd).             *)
EXTENDS WindowIO

CONSTANTS d1, d2, w1, w2, p1

NoPseudos == {}
PlainFeeds == [r \in Windows |-> NONE]
PlainTypes == [w \in Windows |-> w]
NoHost == [p \in {} |-> w1]

PipedHost == [p \in Pseudos |-> w1]
PipedFeeds == [r \in Readers |-> CASE r = w1 -> p1 [] r = p1 -> w1 [] OTHER -> NONE]
PipedTypes == [w \in Windows |-> IF w = w1 THEN p1 ELSE w]

\* Every window on every display.
Shared == [w \in Windows |-> IF Cardinality(Displays) = 1 THEN <<d1>> ELSE <<d1, d2>>]

=============================================================================
