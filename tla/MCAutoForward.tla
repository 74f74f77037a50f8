--------------------------- MODULE MCAutoForward ---------------------------
(* Instances of one forward rule on its own for TLC. *)
EXTENDS AutoForward

CONSTANTS n1, n2, r1, r2, p1, p2
=============================================================================
