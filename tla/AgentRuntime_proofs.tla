------------------------ MODULE AgentRuntime_proofs ------------------------
(***************************************************************************)
(* Proofs about AutoForward and AgentRuntime, for any local connections,   *)
(* relays, paths and any width of the counter that the connections fit in. *)
(***************************************************************************)
EXTENDS AgentRuntime, FiniteSetTheorems, TLAPS

OnRelays(r) == {c \in Conns : conn[c].stage = "on_relay" /\ conn[c].via = r}

\* Between the two steps of an end the count may be anything, also wrapped around; when
\* no connection is between them it is at most the number of connections: starts may
\* have been forgotten, never ends.
TrackerInv ==
    /\ conn = [c \in Conns |-> conn[c]]
    /\ count \in [Relays -> 0..(Width - 1)]
    /\ \A r \in Relays :
          \/ \E c \in Conns : conn[c].via = r /\ conn[c].stage = "leaving"
          \/ count[r] <= Cardinality(OnRelays(r))

LEMMA OnRelaysFinite ==
    ASSUME NEW r
    PROVE  /\ IsFiniteSet(OnRelays(r)) /\ Cardinality(OnRelays(r)) \in Nat
           /\ Cardinality(OnRelays(r)) <= Cardinality(Conns)
           /\ Cardinality(Conns) \in Nat
<1>1. IsFiniteSet(Conns) /\ OnRelays(r) \subseteq Conns
  BY WidthAssumption DEF OnRelays
<1> QED
  BY <1>1, FS_Subset, FS_CardinalityType

\* A connection that changes while it is on no relay, and goes to none, does not count.
LEMMA Elsewhere ==
    ASSUME TrackerInv, UNCHANGED count, NEW c \in Conns, NEW next, NEW via, NEW backup,
           Becomes(c, next, via, backup),
           conn[c].stage \notin {"on_relay", "leaving"}, next \notin {"on_relay", "leaving"}
    PROVE  TrackerInv'
<1>1. /\ conn' = [d \in Conns |-> IF d = c THEN [stage |-> next, via |-> via, backup |-> backup]
                                 ELSE conn[d]]
  BY DEF Becomes, TrackerInv
<1>2. \A r \in Relays : OnRelays(r)' = OnRelays(r)
  BY <1>1 DEF OnRelays
<1>3. \A r \in Relays :
          (\E d \in Conns : conn[d].via = r /\ conn[d].stage = "leaving")
              => \E d \in Conns : conn'[d].via = r /\ conn'[d].stage = "leaving"
  BY <1>1
<1> QED
  BY <1>1, <1>2, <1>3 DEF TrackerInv

LEMMA CountedStep ==
    ASSUME TrackerInv, NEW c \in Conns, OnRelay(c) \/ LeaveRelay(c) \/ LeftRelay(c)
    PROVE  TrackerInv'
<1>0. PICK q : q = conn[c].via
  OBVIOUS
<1> DEFINE now == conn'[c]
<1>1. /\ conn' = [d \in Conns |-> IF d = c THEN now ELSE conn[d]]
      /\ now.via = q \/ now.stage = "over"
      /\ now.stage \in {"on_relay", "leaving", "over"}
      /\ now.stage # "over" => now.via = q
  BY <1>0 DEF OnRelay, LeaveRelay, LeftRelay, Becomes, Ends, TrackerInv
<1>2. count' \in [Relays -> 0..(Width - 1)]
  BY WidthAssumption DEF TrackerInv, OnRelay, LeaveRelay, LeftRelay, Increment, Decrement
<1>3. ASSUME NEW r \in Relays, r # q
      PROVE  /\ count'[r] = count[r] /\ OnRelays(r)' = OnRelays(r)
             /\ (\E d \in Conns : conn[d].via = r /\ conn[d].stage = "leaving")
                    => \E d \in Conns : conn'[d].via = r /\ conn'[d].stage = "leaving"
  <2>1. count'[r] = count[r]
    BY <1>0, <1>3 DEF TrackerInv, OnRelay, LeaveRelay, LeftRelay
  <2>2. OnRelays(r)' = OnRelays(r)
    BY <1>0, <1>1, <1>3 DEF OnRelays
  <2> QED
    BY <1>0, <1>1, <1>3, <2>1, <2>2
<1>4. ASSUME q \in Relays
      PROVE  \/ \E d \in Conns : conn'[d].via = q /\ conn'[d].stage = "leaving"
             \/ count'[q] <= Cardinality(OnRelays(q)')
  <2> DEFINE S == OnRelays(q)
             n == Cardinality(S)
  <2>0. /\ IsFiniteSet(S) /\ n \in Nat /\ n <= Cardinality(Conns) /\ Cardinality(Conns) \in Nat
        /\ count[q] \in 0..(Width - 1) /\ Width \in Nat /\ Width > Cardinality(Conns) + 1
    BY <1>4, OnRelaysFinite, WidthAssumption DEF TrackerInv
  <2>1. CASE OnRelay(c)
    <3>1. conn[c].stage = "to_relay" /\ now.stage = "on_relay" /\ now.via = q
      BY <1>0, <2>1 DEF OnRelay, Becomes, TrackerInv
    <3>2. S' = S \union {c} /\ c \notin S
      BY <1>0, <1>1, <3>1 DEF OnRelays
    <3>3. Cardinality(S') = n + 1
      BY <2>0, <3>2, FS_AddElement
    <3>4. count'[q] = Increment(count[q])
      BY <1>0, <1>4, <2>1 DEF OnRelay, TrackerInv
    <3>5. CASE \E d \in Conns : conn[d].via = q /\ conn[d].stage = "leaving"
      BY <1>0, <1>1, <3>1, <3>5
    <3>6. CASE count[q] <= n
      BY <2>0, <3>3, <3>4, <3>6 DEF Increment
    <3> QED
      BY <1>4, <3>5, <3>6 DEF TrackerInv
  <2>2. CASE LeaveRelay(c)
    <3>1. conn[c].stage = "on_relay" /\ count'[q] = Decrement(count[q])
      BY <1>0, <1>4, <2>2 DEF LeaveRelay, TrackerInv
    <3>2. CASE MaybeLast(count[q])
      <4>1. now.stage = "leaving" /\ now.via = q
        BY <1>0, <2>2, <3>2 DEF LeaveRelay, Becomes, TrackerInv
      <4> QED
        BY <1>1, <4>1
    <3>3. CASE ~MaybeLast(count[q])
      <4>1. now.stage = "over"
        BY <1>0, <2>2, <3>3 DEF LeaveRelay, Ends, Becomes, TrackerInv
      <4>2. S' = S \ {c} /\ c \in S
        BY <1>0, <1>1, <3>1, <4>1 DEF OnRelays
      <4>3. Cardinality(S') = n - 1
        BY <2>0, <4>2, FS_RemoveElement
      <4>4. CASE \E d \in Conns : conn[d].via = q /\ conn[d].stage = "leaving"
        BY <1>0, <1>1, <3>1, <4>4
      <4>5. CASE count[q] <= n
        BY <2>0, <3>1, <3>3, <4>3, <4>5 DEF MaybeLast, Decrement
      <4> QED
        BY <1>4, <4>4, <4>5 DEF TrackerInv
    <3> QED
      BY <3>2, <3>3
  <2>3. CASE LeftRelay(c)
    <3>1. conn[c].stage = "leaving" /\ now.stage = "over" /\ count'[q] = 0
      BY <1>0, <1>4, <2>3 DEF LeftRelay, Ends, Becomes, TrackerInv
    <3>2. S' = S
      BY <1>0, <1>1, <3>1 DEF OnRelays
    <3> QED
      BY <2>0, <3>1, <3>2
  <2> QED
    BY <2>1, <2>2, <2>3
<1>5. conn' = [d \in Conns |-> conn'[d]]
  BY <1>1
<1> QED
  BY <1>2, <1>3, <1>4, <1>5 DEF TrackerInv

LEMMA TrackerUnchanged == TrackerInv /\ UNCHANGED <<conn, count>> => TrackerInv'
  BY DEF TrackerInv, OnRelays

LEMMA TrackerStep == TrackerInv /\ RuleStep => TrackerInv'
<1> SUFFICES ASSUME TrackerInv, RuleStep PROVE TrackerInv'
  OBVIOUS
<1>1. CASE LoopStep
  BY <1>1, TrackerUnchanged
  DEF LoopStep, Bind, Resolve, DirectFirst, DirectFirstFails, ConnectRelay, ConnectRelayFails,
      RelayClosed, Prewarm, PrewarmFails, Prewarmed, Handoff, Watch, DirectClosed
<1>2. ASSUME NEW r \in Relays, DrainEnds(r) \/ RelayCloses(r) PROVE TrackerInv'
  BY <1>2, TrackerUnchanged DEF DrainEnds, RelayCloses
<1>3. ASSUME NEW p \in Paths, NEW how \in {"silent", "closed", "unheard"}, PathFails(p, how)
      PROVE  TrackerInv'
  BY <1>3, TrackerUnchanged DEF PathFails
<1>4. ASSUME NEW c \in Conns, ConnStep(c) PROVE TrackerInv'
  <2>1. CASE Accept(c)
    BY <2>1, Elsewhere DEF Accept, Ends
  <2>2. CASE OnRelay(c) \/ LeaveRelay(c) \/ LeftRelay(c)
    BY <2>2, CountedStep
  <2>3. CASE OnDirect(c) \/ LeaveDirect(c)
    BY <2>3, Elsewhere DEF OnDirect, LeaveDirect, Ends
  <2>4. CASE OpenFails(c)
    BY <2>4, Elsewhere DEF OpenFails
  <2>5. CASE FallBack(c)
    BY <2>5, Elsewhere DEF FallBack
  <2> QED
    BY <1>4, <2>1, <2>2, <2>3, <2>4, <2>5 DEF ConnStep
<1> QED
  BY <1>1, <1>2, <1>3, <1>4 DEF RuleStep

LEMMA TrackerStarts == \A s : Starts(s) => TrackerInv
<1> SUFFICES ASSUME NEW s, Starts(s) PROVE TrackerInv
  OBVIOUS
<1>1. \A r \in Relays : count[r] = 0 /\ Cardinality(OnRelays(r)) \in Nat
  BY OnRelaysFinite DEF Starts
<1>2. 0 \in 0..(Width - 1)
  BY WidthAssumption, FS_CardinalityType
<1> QED
  BY <1>1, <1>2 DEF Starts, TrackerInv

LEMMA TrackerInvQuiescent == TrackerInv => TrackerQuiescent
<1> SUFFICES ASSUME TrackerInv, NEW r \in Relays,
                    \A c \in Conns : conn[c].via = r => conn[c].stage \notin {"on_relay", "leaving"}
             PROVE  count[r] = 0
  BY DEF TrackerQuiescent
<1>1. OnRelays(r) = {}
  BY DEF OnRelays
<1>2. Cardinality(OnRelays(r)) = 0
  BY <1>1, FS_EmptySet
<1>3. count[r] <= 0 /\ count[r] \in 0..(Width - 1)
  BY <1>2 DEF TrackerInv
<1> QED
  BY <1>3

\* TrackerQuiescent for one rule by itself: however connections start, end and fall back,
\* the drain of a relay without connections is not held up by its counter.
THEOREM TrackersRest == Spec => []TrackerQuiescent
<1>1. Init => TrackerInv
  BY TrackerStarts DEF Init
<1>2. TrackerInv /\ [Next]_vars => TrackerInv'
  BY TrackerStep, TrackerUnchanged DEF Next, vars
<1> QED
  BY <1>1, <1>2, TrackerInvQuiescent, PTL DEF Spec

\* TrackerQuiescent in the runtime, where iterations end at any moment and leave the
\* handlers of the connections behind.
THEOREM TrackersRestAcrossRestarts == RuntimeSpec => []TrackerQuiescent
<1>1. RuntimeInit => TrackerInv
  BY TrackerStarts DEF RuntimeInit
<1>2. TrackerInv /\ [RuntimeNext]_allVars => TrackerInv'
  <2> SUFFICES ASSUME TrackerInv, [RuntimeNext]_allVars PROVE TrackerInv'
    OBVIOUS
  <2>1. UNCHANGED <<conn, count>> \/ RuleStep
    BY DEF RuntimeNext, Check, PrepareFails, Prepare, Restart, Stop, Wait, BindHub,
           RequestShutdown, SessionEnds, allVars, vars, restOfRule
  <2> QED
    BY <2>1, TrackerStep, TrackerUnchanged
<1> QED
  BY <1>1, <1>2, TrackerInvQuiescent, PTL DEF RuntimeSpec

\* A session under which an iteration has ended is not used again: until the next
\* registration the loop is on its way to one.
SessionInv ==
    /\ force \in BOOLEAN
    /\ session = "spent" => stage = "stopped" \/ (stage # "run" /\ force = TRUE)

\* FreshSession: no iteration runs with the session of an earlier one, however many
\* preparations failed in between.
THEOREM SessionsAreFresh == RuntimeSpec => []FreshSession
<1>1. RuntimeInit => SessionInv
  BY DEF RuntimeInit, SessionInv
<1>2. SessionInv /\ [RuntimeNext]_allVars => SessionInv'
  <2> SUFFICES ASSUME SessionInv, [RuntimeNext]_allVars PROVE SessionInv'
    OBVIOUS
  <2>1. CASE Check \/ Wait
    BY <2>1 DEF SessionInv, Check, Wait
  <2>2. CASE PrepareFails
    BY <2>2 DEF SessionInv, PrepareFails, Registered
  <2>3. CASE Prepare
    BY <2>3 DEF SessionInv, Prepare, Refreshes, Registered
  <2>4. CASE Restart \/ Stop
    BY <2>4 DEF SessionInv, Restart, Stop, Drain, ForceNext
  <2>5. CASE UNCHANGED <<stage, force, session>>
    BY <2>5 DEF SessionInv
  <2> QED
    BY <2>1, <2>2, <2>3, <2>4, <2>5
    DEF RuntimeNext, BindHub, RequestShutdown, SessionEnds, allVars, runtimeVars
<1>3. SessionInv => FreshSession
  BY DEF SessionInv, FreshSession
<1> QED
  BY <1>1, <1>2, <1>3, PTL DEF RuntimeSpec

----------------------------------------------------------------------------
(* Types, and what is published and offered *)

\* The parts of the invariant that do not speak of connections, and that do.
LoopInv ==
    /\ loop \in {"off", "bind", "failed", "aborted", "resolve", "direct", "connect",
                 "on_relay", "prewarm", "handoff", "watch", "on_direct"}
    /\ listening \in BOOLEAN /\ draining \in BOOLEAN
    /\ ready \in Paths \union {None}
    /\ ingress \in [kind : {"none", "relay", "direct"}, via : Relays \union Paths \union {None},
                    backup : Relays \union {None}]
    /\ relay \in [Relays -> {"unused", "up", "closed"}]
    /\ path \in [Paths -> {"unused", "up", "silent", "closed", "unheard"}]
    /\ slot \in [Relays -> {"none", "held", "released"}]
    /\ IngressFits
    /\ RelaysAreUsedOnce
    /\ \A r \in Relays : slot[r] # "none" =>
          relay[r] # "unused" /\ ~(ingress.kind = "relay" /\ ingress.via = r)
    /\ ingress.backup # None => slot[ingress.backup] # "none"

Handed == [stage : {"idle", "to_relay", "on_relay", "leaving", "to_direct", "on_direct",
                    "falling_back", "over", "dropped"},
           via : Relays \union Paths \union {None}, backup : Relays \union {None}]

ConnsInv ==
    /\ count \in [Relays -> 0..(Width - 1)]
    /\ conn \in [Conns -> Handed]
    /\ \A c \in Conns : HandedFits(c)
    /\ \A c \in Conns : conn[c].backup # None => slot[conn[c].backup] # "none"

LEMMA RuleInvParts == RuleInv <=> LoopInv /\ ConnsInv
  BY DEF RuleInv, TypeOK, HandedOffStaysOff, LoopInv, ConnsInv, Handed

LEMMA RuleInvPartsNext == RuleInv' <=> LoopInv' /\ ConnsInv'
  BY DEF RuleInv, TypeOK, HandedOffStaysOff, LoopInv, ConnsInv, Handed, HandedFits, IngressFits,
         RelaysAreUsedOnce

\* A relay that is offered stays offered, or was.
OffersStay == \A r \in Relays : slot[r] # "none" => slot'[r] # "none"

LEMMA LoopSteps ==
    ASSUME RuleInv, LoopStep
    PROVE  LoopInv' /\ OffersStay
<1> USE KindsAssumption DEF LoopInv, IngressFits, RelaysAreUsedOnce, OffersStay
<1>0. LoopInv
  BY RuleInvParts
<1>1. CASE Bind
  BY <1>0, <1>1 DEF Bind, paths
<1>2. CASE Resolve
  BY <1>0, <1>2 DEF Resolve, paths, NoIngress
<1>3. CASE DirectFirst
  BY <1>0, <1>3 DEF DirectFirst, Prepared, DirectIngress
<1>4. CASE DirectFirstFails \/ ConnectRelayFails \/ Prewarm \/ PrewarmFails \/ Watch
  BY <1>0, <1>4 DEF DirectFirstFails, ConnectRelayFails, Prewarm, PrewarmFails, Watch, paths
<1>5. CASE ConnectRelay
  BY <1>0, <1>5 DEF ConnectRelay, RelayIngress
<1>6. CASE RelayClosed \/ DirectClosed
  BY <1>0, <1>6 DEF RelayClosed, DirectClosed, NoIngress, paths
<1>7. CASE Prewarmed
  BY <1>0, <1>7 DEF Prewarmed, Prepared
<1>8. CASE Handoff
  BY <1>0, <1>8 DEF Handoff, DirectIngress, paths
<1> QED
  BY <1>1, <1>2, <1>3, <1>4, <1>5, <1>6, <1>7, <1>8 DEF LoopStep

LEMMA ConnsUntouched ==
    ASSUME RuleInv, OffersStay, UNCHANGED <<count, conn>>
    PROVE  ConnsInv'
  BY RuleInvParts, KindsAssumption DEF ConnsInv, Handed, HandedFits, OffersStay

\* A connection that goes from one stage to another.
LEMMA ConnMoves ==
    ASSUME RuleInv, UNCHANGED <<loopVars, listening, ingress, paths, slot>>,
           NEW c \in Conns, NEW next, NEW via, NEW backup,
           Becomes(c, next, via, backup),
           [stage |-> next, via |-> via, backup |-> backup] \in Handed,
           next \in {"to_relay", "on_relay", "leaving"} => via \in Relays,
           next \in {"to_direct", "on_direct"} => via \in Paths,
           next = "falling_back" => backup \in Relays,
           backup # None => slot[backup] # "none",
           count' \in [Relays -> 0..(Width - 1)]
    PROVE  RuleInv'
<1>1. LoopInv'
  BY RuleInvParts DEF LoopInv, IngressFits, RelaysAreUsedOnce, loopVars, paths
<1>2. conn' = [d \in Conns |-> IF d = c THEN [stage |-> next, via |-> via, backup |-> backup]
                               ELSE conn[d]]
  BY RuleInvParts DEF Becomes, ConnsInv
<1>3. conn' \in [Conns -> Handed]
  BY <1>2, RuleInvParts DEF ConnsInv
<1>4. \A d \in Conns : HandedFits(d)'
  BY <1>2, RuleInvParts DEF ConnsInv, HandedFits
<1>5. \A d \in Conns : conn'[d].backup # None => slot'[conn'[d].backup] # "none"
  BY <1>2, RuleInvParts DEF ConnsInv
<1> QED
  BY <1>1, <1>3, <1>4, <1>5, RuleInvPartsNext DEF ConnsInv

LEMMA ConnSteps ==
    ASSUME RuleInv, NEW c \in Conns, ConnStep(c)
    PROVE  RuleInv'
<1>1. /\ LoopInv /\ ConnsInv /\ HandedFits(c)
      /\ conn[c] \in Handed /\ count \in [Relays -> 0..(Width - 1)]
      /\ conn[c].backup # None => slot[conn[c].backup] # "none"
  BY RuleInvParts DEF ConnsInv
<1>2. Width \in Nat /\ Width > 1
  BY WidthAssumption, FS_CardinalityType
<1>3. \A n \in 0..(Width - 1) : Increment(n) \in 0..(Width - 1) /\ Decrement(n) \in 0..(Width - 1)
  BY <1>2 DEF Increment, Decrement
<1>4. [stage |-> "over", via |-> None, backup |-> None] \in Handed
  BY DEF Handed
<1>5. CASE Accept(c)
  <2>1. CASE ingress.kind = "none" /\ Ends(c)
    BY <1>1, <1>4, <1>5, <2>1, ConnMoves DEF Accept, Ends
  <2>2. CASE ingress.kind = "relay" /\ Becomes(c, "to_relay", ingress.via, None)
    <3>1. ingress.via \in Relays
      BY <1>1, <2>2 DEF LoopInv, IngressFits
    <3>2. [stage |-> "to_relay", via |-> ingress.via, backup |-> None] \in Handed
      BY <3>1 DEF Handed
    <3> QED
      BY <1>1, <1>5, <2>2, <3>1, <3>2, ConnMoves DEF Accept
  <2>3. CASE ingress.kind = "direct" /\ Becomes(c, "to_direct", ingress.via, ingress.backup)
    <3>1. /\ ingress.via \in Paths /\ ingress.backup \in Relays \union {None}
          /\ ingress.backup # None => slot[ingress.backup] # "none"
      BY <1>1, <2>3 DEF LoopInv, IngressFits
    <3>2. [stage |-> "to_direct", via |-> ingress.via, backup |-> ingress.backup] \in Handed
      BY <3>1 DEF Handed
    <3> QED
      BY <1>1, <1>5, <2>3, <3>1, <3>2, ConnMoves DEF Accept
  <2> QED
    BY <1>5, <2>1, <2>2, <2>3 DEF Accept
<1>6. CASE OnRelay(c) \/ LeaveRelay(c) \/ LeftRelay(c)
  <2>1. conn[c].via \in Relays
    BY <1>1, <1>6 DEF HandedFits, OnRelay, LeaveRelay, LeftRelay
  <2>2. \A s \in {"on_relay", "leaving"} :
           [stage |-> s, via |-> conn[c].via, backup |-> None] \in Handed
    BY <2>1 DEF Handed
  <2>3. count' \in [Relays -> 0..(Width - 1)]
    BY <1>1, <1>2, <1>3, <1>6, <2>1 DEF OnRelay, LeaveRelay, LeftRelay
  <2>4. \/ Becomes(c, "on_relay", conn[c].via, None) \/ Becomes(c, "leaving", conn[c].via, None)
        \/ Becomes(c, "over", None, None)
    BY <1>6 DEF OnRelay, LeaveRelay, LeftRelay, Ends
  <2>5. UNCHANGED <<loopVars, listening, ingress, paths, slot>>
    BY <1>6 DEF OnRelay, LeaveRelay, LeftRelay
  <2>6. CASE Becomes(c, "on_relay", conn[c].via, None)
    BY <2>1, <2>2, <2>3, <2>5, <2>6, ConnMoves
  <2>7. CASE Becomes(c, "leaving", conn[c].via, None)
    BY <2>1, <2>2, <2>3, <2>5, <2>7, ConnMoves
  <2>8. CASE Becomes(c, "over", None, None)
    BY <1>4, <2>3, <2>5, <2>8, ConnMoves
  <2> QED
    BY <2>4, <2>6, <2>7, <2>8
<1>7. CASE OnDirect(c)
  <2>1. conn[c].via \in Paths
    BY <1>1, <1>7 DEF HandedFits, OnDirect
  <2>2. [stage |-> "on_direct", via |-> conn[c].via, backup |-> None] \in Handed
    BY <2>1 DEF Handed
  <2> QED
    BY <1>1, <1>7, <2>1, <2>2, ConnMoves DEF OnDirect
<1>8. CASE LeaveDirect(c)
  BY <1>1, <1>4, <1>8, ConnMoves DEF LeaveDirect, Ends
<1>9. [stage |-> "dropped", via |-> None, backup |-> None] \in Handed
  BY DEF Handed
<1>10. CASE OpenFails(c)
  <2>1. UNCHANGED <<loopVars, listening, ingress, paths, slot, count>>
    BY <1>10 DEF OpenFails
  <2>2. CASE Drains(conn[c].backup) /\ Becomes(c, "falling_back", None, conn[c].backup)
    <3>1. conn[c].backup \in Relays
      BY <1>1, <2>2 DEF Drains, Handed
    <3>2. [stage |-> "falling_back", via |-> None, backup |-> conn[c].backup] \in Handed
      BY <3>1 DEF Handed
    <3> QED
      BY <1>1, <2>1, <2>2, <3>1, <3>2, ConnMoves
  <2>3. CASE Becomes(c, "dropped", None, None)
    BY <1>1, <1>9, <2>1, <2>3, ConnMoves
  <2> QED
    BY <1>10, <2>2, <2>3 DEF OpenFails
<1>11. CASE FallBack(c)
  <2>1. UNCHANGED <<loopVars, listening, ingress, paths, slot, count>>
    BY <1>11 DEF FallBack
  <2>2. CASE Becomes(c, "to_relay", conn[c].backup, None)
    <3>1. conn[c].backup \in Relays
      BY <1>1, <1>11 DEF FallBack, HandedFits
    <3>2. [stage |-> "to_relay", via |-> conn[c].backup, backup |-> None] \in Handed
      BY <3>1 DEF Handed
    <3> QED
      BY <1>1, <2>1, <2>2, <3>1, <3>2, ConnMoves
  <2>3. CASE Becomes(c, "dropped", None, None)
    BY <1>1, <1>9, <2>1, <2>3, ConnMoves
  <2> QED
    BY <1>11, <2>2, <2>3 DEF FallBack
<1> QED
  BY <1>5, <1>6, <1>7, <1>8, <1>10, <1>11 DEF ConnStep

LEMMA RuleInvStep == RuleInv /\ RuleStep => RuleInv'
<1> SUFFICES ASSUME RuleInv, RuleStep PROVE RuleInv'
  OBVIOUS
<1>0. LoopInv
  BY RuleInvParts
<1>1. ASSUME LoopInv', OffersStay, UNCHANGED <<count, conn>> PROVE RuleInv'
  BY <1>1, ConnsUntouched, RuleInvPartsNext
<1>2. CASE LoopStep
  <2>1. UNCHANGED <<count, conn>>
    BY <1>2
    DEF LoopStep, Bind, Resolve, DirectFirst, DirectFirstFails, ConnectRelay, ConnectRelayFails,
        RelayClosed, Prewarm, PrewarmFails, Prewarmed, Handoff, Watch, DirectClosed
  <2> QED
    BY <1>1, <1>2, <2>1, LoopSteps
<1>3. ASSUME NEW r \in Relays, DrainEnds(r) \/ RelayCloses(r) PROVE RuleInv'
  <2>1. LoopInv' /\ OffersStay /\ UNCHANGED <<count, conn>>
    BY <1>0, <1>3 DEF DrainEnds, RelayCloses, LoopInv, IngressFits, RelaysAreUsedOnce, OffersStay,
                      loopVars, paths
  <2> QED
    BY <1>1, <2>1
<1>4. ASSUME NEW c \in Conns, ConnStep(c) PROVE RuleInv'
  BY <1>4, ConnSteps
<1>5. ASSUME NEW p \in Paths, NEW how \in {"silent", "closed", "unheard"}, PathFails(p, how)
      PROVE  RuleInv'
  <2>1. LoopInv' /\ OffersStay /\ UNCHANGED <<count, conn>>
    BY <1>0, <1>5 DEF PathFails, LoopInv, IngressFits, RelaysAreUsedOnce, OffersStay, loopVars
  <2> QED
    BY <1>1, <2>1
<1> QED
  BY <1>2, <1>3, <1>4, <1>5 DEF RuleStep

LEMMA RuleInvStarts == \A s \in {"off", "bind"} : Starts(s) => RuleInv
<1> SUFFICES ASSUME NEW s \in {"off", "bind"}, Starts(s) PROVE RuleInv
  OBVIOUS
<1>1. 0 \in 0..(Width - 1)
  BY WidthAssumption, FS_CardinalityType
<1>2. LoopInv
  BY DEF Starts, LoopInv, IngressFits, RelaysAreUsedOnce, NoIngress
<1>3. ConnsInv
  BY <1>1 DEF Starts, ConnsInv, Handed, HandedFits, Idle
<1> QED
  BY <1>2, <1>3, RuleInvParts

\* The invariant of a rule by itself.
THEOREM RuleInvariant == Spec => []RuleInv
<1>1. Init => RuleInv
  BY RuleInvStarts DEF Init
<1>2. RuleInv /\ UNCHANGED vars => RuleInv'
  <2> SUFFICES ASSUME RuleInv, UNCHANGED vars PROVE RuleInv'
    OBVIOUS
  <2>1. LoopInv' /\ OffersStay /\ UNCHANGED <<count, conn>>
    BY RuleInvParts DEF vars, LoopInv, IngressFits, RelaysAreUsedOnce, OffersStay, loopVars, paths
  <2> QED
    BY <2>1, ConnsUntouched, RuleInvPartsNext
<1> QED
  BY <1>1, <1>2, RuleInvStep, PTL DEF Spec, Next

\* The invariant under the runtime, which ends iterations at any moment and starts others
\* on top of what the earlier ones have left behind.
THEOREM RuleInvariantAcrossRestarts == RuntimeSpec => []RuleInv
<1>1. RuntimeInit => RuleInv
  BY RuleInvStarts DEF RuntimeInit
<1>2. RuleInv /\ [RuntimeNext]_allVars => RuleInv'
  <2> SUFFICES ASSUME RuleInv, [RuntimeNext]_allVars PROVE RuleInv'
    OBVIOUS
  <2>0. LoopInv
    BY RuleInvParts
  <2>1. CASE RuleStep
    BY <2>1, RuleInvStep
  <2>2. CASE UNCHANGED vars \/ (UNCHANGED restOfRule /\ loop' \in {"bind", "failed", "aborted"})
    <3>1. LoopInv' /\ OffersStay /\ UNCHANGED <<count, conn>>
      BY <2>0, <2>2 DEF vars, restOfRule, LoopInv, IngressFits, RelaysAreUsedOnce, OffersStay,
                        loopVars, paths
    <3> QED
      BY <3>1, ConnsUntouched, RuleInvPartsNext
  <2>3. RuleStep \/ UNCHANGED vars \/ (UNCHANGED restOfRule /\ loop' \in {"bind", "failed", "aborted"})
    BY DEF RuntimeNext, Check, PrepareFails, Prepare, Spawned, Restart, Stop, Drain, Aborted, Wait,
           BindHub, RequestShutdown, SessionEnds, allVars
  <2> QED
    BY <2>1, <2>2, <2>3
<1> QED
  BY <1>1, <1>2, PTL DEF RuntimeSpec

\* HandedOffStaysOff: a relay that is offered as a fallback was handed off, and is never
\* the ingress of new connections again, whatever iterations come after it.
THEOREM FallbacksWereHandedOff == RuntimeSpec => []HandedOffStaysOff
<1>1. RuleInv => HandedOffStaysOff
  BY DEF RuleInv
<1> QED
  BY <1>1, RuleInvariantAcrossRestarts, PTL
=============================================================================
