----------------------------- MODULE MCSession -----------------------------
(* The creator of the session and other users who come and go.  Every     *)
(* client but the creator starts alike, so they may be permuted.          *)
EXTENDS Session, TLC

CONSTANTS creator, u1, u2

Others == Permutations(Clients \ {Creator})
=============================================================================
