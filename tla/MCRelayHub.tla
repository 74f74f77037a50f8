------------------------------ MODULE MCRelayHub ------------------------------
(* An instance of RelayHub for TLC. *)
EXTENDS RelayHub

CONSTANTS a1, b1, b2, A, B

\* One connection of device A, the others of device B.
Owners == [k \in Connections |-> IF k = a1 THEN A ELSE B]

\* Device A runs a service; device B runs old clients, whose connections serve
\* incoming channels until they open one themselves.
MixedClients == [k \in Connections |-> IF k = a1 THEN "ExplicitYes" ELSE "LegacyUnknown"]
OpenBoth == [k \in Connections |-> IF k = a1 THEN {B} ELSE {A, B}]
=============================================================================
