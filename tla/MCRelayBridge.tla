---------------------------- MODULE MCRelayBridge ----------------------------
(* An instance of RelayBridge for TLC. *)
EXTENDS RelayBridge, TLC

CONSTANT c1

\* Chunks that the local stream of each agent yields at most.
OneWay == (Source :> 2) @@ (Target :> 0)
==============================================================================
