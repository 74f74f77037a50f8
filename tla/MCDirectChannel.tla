--------------------------- MODULE MCDirectChannel ---------------------------
(***************************************************************************)
(* Small instances of DirectChannel for TLC.                               *)
(***************************************************************************)
EXTENDS DirectChannel, TLC

\* Chunks that the local stream of each end yields at most.
TwoOne == (Initiator :> 2) @@ (Responder :> 1)
OneWay3 == (Initiator :> 3) @@ (Responder :> 0)
==============================================================================
