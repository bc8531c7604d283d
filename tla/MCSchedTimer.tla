---------------------------- MODULE MCSchedTimer ----------------------------
(* Two timers under a clock of a few bits. *)
EXTENDS SchedTimer

CONSTANTS statusev, idleev

MCRank == [e \in Timers |-> IF e = statusev THEN 1 ELSE 2]
=============================================================================
