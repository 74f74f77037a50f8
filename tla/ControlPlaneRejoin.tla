-------------------------- MODULE ControlPlaneRejoin --------------------------
(***************************************************************************)
(* ControlPlane with one more history variable: the devices that joined    *)
(* again although they were in the table, with a join token that is still  *)
(* good.                                                                   *)
(***************************************************************************)
EXTENDS MCControlPlane

VARIABLE rejoined    \* history

RejoinInit == Init /\ rejoined = {}

GoodToken == \E row \in joinTokens : Consumable(row, now)

RejoinNext ==
    \/ \E t \in Tasks, d \in Devices :
          Rejoin(t, d) /\ GoodToken /\ rejoined' = rejoined \cup {d}
    \/ Next /\ UNCHANGED rejoined

RejoinSpec == RejoinInit /\ [][RejoinNext]_<<vars, rejoined>>

\* A device from before deadlines existed keeps the old session logic until it
\* joins the network again, says README.md:102.  register_device looks at the
\* token of unknown devices only, so a device that joins again keeps that logic.
RejoinEndsLegacy ==
    \A row \in devices : row.device \in rejoined => row.deadline # NoDeadline
=============================================================================
