--------------------------- MODULE MCControlPlane ---------------------------
(***************************************************************************)
(* Small instances of ControlPlane: the first device owns the one service. *)
(***************************************************************************)
EXTENDS ControlPlane, TLC

CONSTANTS d1, d2, s1, j1, j2, t1, t2

OwnerOfOne == s1 :> d1

SameTasksAndTokens == Permutations({t1, t2}) \union Permutations({j1, j2})
=============================================================================
