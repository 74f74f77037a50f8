--------------------------- MODULE MCDirectServe ---------------------------
(* Instances of DirectServe for TLC. *)
EXTENDS DirectServe

CONSTANTS v1, c1

\* All channels are opened under one rendezvous.
OfOne == [c \in Channels |-> v1]
=============================================================================
