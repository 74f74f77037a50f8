---------------------------- MODULE AutoForward ----------------------------
(***************************************************************************)
(* One automatic forward rule of the agent (minipunch-agent/src/lib.rs):   *)
(* the loop that selects a transport, the acceptor that hands local        *)
(* connections to the ingress the loop has published, the handlers of      *)
(* those connections, and the task that drains a relay after a handoff.    *)
(*                                                                         *)
(* A relay is the websocket that RelayBridge models, a path is a direct    *)
(* connection.  What happens on them is up to the environment.             *)
(***************************************************************************)
EXTENDS Naturals, FiniteSets

CONSTANTS
    Conns,    \* local connections
    Relays,   \* relay connections the loop may make: a bound
    Paths,    \* direct connections the loop may make: a bound
    None,     \* no relay or path
    Width     \* values of the counter of active connections, a usize

ASSUME WidthAssumption == IsFiniteSet(Conns) /\ Width \in Nat /\ Width > Cardinality(Conns) + 1
ASSUME KindsAssumption == Relays \cap Paths = {} /\ None \notin Relays \union Paths

VARIABLES
    loop,      \* stage of run_auto_forward_loop
    listening, \* an acceptor holds the local address
    ingress,   \* the watched value: what a new connection is handed to
    relay,     \* state of each relay connection
    path,      \* state of each direct connection
    ready,     \* the path that is prepared and not yet published
    draining,  \* whether the loop saw connections on the relay before the handoff
    slot,      \* the relay that each AutoRelayHandoffFallback still offers
    count,     \* active_connections of each relay's tracker
    conn       \* each local connection: its stage and what it was handed

loopVars == <<loop, ready, draining>>
paths == <<relay, path>>
vars == <<loopVars, listening, ingress, paths, slot, count, conn>>

NoIngress == [kind |-> "none", via |-> None, backup |-> None]
RelayIngress(r) == [kind |-> "relay", via |-> r, backup |-> None]
DirectIngress(p, b) == [kind |-> "direct", via |-> p, backup |-> b]

Idle == [stage |-> "idle", via |-> None, backup |-> None]

Starts(s) ==
    /\ loop = s /\ ready = None /\ draining = FALSE
    /\ listening = FALSE
    /\ ingress = NoIngress
    /\ relay = [r \in Relays |-> "unused"]
    /\ path = [p \in Paths |-> "unused"]
    /\ slot = [r \in Relays |-> "none"]
    /\ count = [r \in Relays |-> 0]
    /\ conn = [c \in Conns |-> Idle]

Init == Starts("bind")

(***************************************************************************)
(* The loop.                                                               *)
(***************************************************************************)
\* The address is taken as long as an acceptor lives, and it lives for good.
Bind ==
    /\ loop = "bind"
    /\ loop' = IF listening THEN "failed" ELSE "resolve"
    /\ listening' = TRUE
    /\ UNCHANGED <<ready, draining, ingress, paths, slot, count, conn>>

\* A service that cannot be resolved is asked for again: that changes nothing.
Resolve ==
    /\ loop = "resolve"
    /\ ingress' = NoIngress
    /\ loop' = "direct"
    /\ UNCHANGED <<ready, draining, listening, paths, slot, count, conn>>

\* prepare_auto_direct_forward: the rendezvous, the wait for it, the lookup of the
\* peer's key and the probe.  Any of them may fail.
Prepared(p) == path[p] = "unused" /\ path' = [path EXCEPT ![p] = "up"]

DirectFirst ==
    /\ loop = "direct"
    /\ \E p \in Paths : Prepared(p) /\ ingress' = DirectIngress(p, None)
    /\ loop' = "watch"
    /\ UNCHANGED <<ready, draining, listening, relay, slot, count, conn>>

DirectFirstFails ==
    /\ loop = "direct"
    /\ loop' = "connect"
    /\ UNCHANGED <<ready, draining, listening, ingress, paths, slot, count, conn>>

ConnectRelay ==
    /\ loop = "connect"
    /\ \E r \in Relays :
          /\ relay[r] = "unused"
          /\ relay' = [relay EXCEPT ![r] = "up"]
          /\ ingress' = RelayIngress(r)
    /\ loop' = "on_relay"
    /\ UNCHANGED <<ready, draining, listening, path, slot, count, conn>>

ConnectRelayFails ==
    /\ loop = "connect"
    /\ loop' = "resolve"
    /\ UNCHANGED <<ready, draining, listening, ingress, paths, slot, count, conn>>

RelayClosed_Unwatched == FALSE /\ UNCHANGED vars

\* RelayConnection::wait_closed begins to listen before it looks at the flag, so that
\* no close is missed.
RelayHeard(r) == relay[r] = "closed"

\* The wait for the close, while the timer of the next attempt runs.
RelayClosed ==
    /\ loop = "on_relay"
    /\ RelayHeard(ingress.via)
    /\ ingress' = NoIngress
    /\ loop' = "resolve"
    /\ UNCHANGED <<ready, draining, listening, paths, slot, count, conn>>

\* The timer of the next direct attempt.  It waits longer for a relay that has
\* just become idle, and not at all for one that is busy.
Prewarm ==
    /\ loop = "on_relay"
    /\ loop' = "prewarm"
    /\ UNCHANGED <<ready, draining, listening, ingress, paths, slot, count, conn>>

PrewarmFails ==
    /\ loop = "prewarm"
    /\ loop' = "on_relay"
    /\ UNCHANGED <<ready, draining, listening, ingress, paths, slot, count, conn>>

\* What drains is read here and decides at the handoff, a moment later.
Prewarmed ==
    /\ loop = "prewarm"
    /\ \E p \in Paths : Prepared(p) /\ ready' = p
    /\ draining' = (count[ingress.via] > 0)
    /\ loop' = "handoff"
    /\ UNCHANGED <<listening, ingress, relay, slot, count, conn>>

Handoff ==
    LET r == ingress.via IN
    /\ loop = "handoff"
    /\ ingress' = DirectIngress(ready, IF draining THEN r ELSE None)
    /\ slot' = IF draining THEN [slot EXCEPT ![r] = "held"] ELSE slot
    /\ ready' = None /\ draining' = FALSE
    /\ loop' = "watch"
    /\ UNCHANGED <<listening, paths, count, conn>>

\* wait_closed looks at the flag and then begins to wait to be told.
Watch ==
    /\ loop = "watch"
    /\ path[ingress.via] # "closed"
    /\ loop' = "on_direct"
    /\ UNCHANGED <<ready, draining, listening, ingress, paths, slot, count, conn>>

DirectClosed ==
    /\ loop \in {"watch", "on_direct"}
    /\ path[ingress.via] = "closed"
    /\ ingress' = NoIngress
    /\ loop' = "resolve"
    /\ UNCHANGED <<ready, draining, listening, paths, slot, count, conn>>

\* spawn_relay_drain_task, a task of its own.
DrainEnds(r) ==
    /\ slot[r] = "held"
    /\ count[r] = 0
    /\ slot' = [slot EXCEPT ![r] = "released"]
    /\ UNCHANGED <<loopVars, listening, ingress, paths, count, conn>>

(***************************************************************************)
(* The acceptor and the handlers.                                          *)
(***************************************************************************)
Becomes(c, stage, via, backup) ==
    conn' = [conn EXCEPT ![c] = [stage |-> stage, via |-> via, backup |-> backup]]
Ends(c) == Becomes(c, "over", None, None)

Accept(c) ==
    /\ listening
    /\ conn[c].stage = "idle"
    /\ \/ ingress.kind = "none" /\ Ends(c)
       \/ ingress.kind = "relay" /\ Becomes(c, "to_relay", ingress.via, None)
       \/ ingress.kind = "direct" /\ Becomes(c, "to_direct", ingress.via, ingress.backup)
    /\ UNCHANGED <<loopVars, listening, ingress, paths, slot, count>>

\* fetch_add and fetch_sub wrap around.
Increment(n) == IF n = Width - 1 THEN 0 ELSE n + 1
Decrement(n) == IF n = 0 THEN Width - 1 ELSE n - 1

\* handle_local_forward_connection starts with the guard that counts it ...
OnRelay(c) ==
    /\ conn[c].stage = "to_relay"
    /\ count' = [count EXCEPT ![conn[c].via] = Increment(@)]
    /\ Becomes(c, "on_relay", conn[c].via, None)
    /\ UNCHANGED <<loopVars, listening, ingress, paths, slot>>

\* ... whose end takes two steps when it may have been the last: previous <= 1.
MaybeLast_One(previous) == previous = 1
MaybeLast(previous) == previous <= 1

LeaveRelay(c) ==
    LET r == conn[c].via IN
    /\ conn[c].stage = "on_relay"
    /\ count' = [count EXCEPT ![r] = Decrement(@)]
    /\ IF MaybeLast(count[r]) THEN Becomes(c, "leaving", r, None) ELSE Ends(c)
    /\ UNCHANGED <<loopVars, listening, ingress, paths, slot>>

LeftRelay(c) ==
    /\ conn[c].stage = "leaving"
    /\ count' = [count EXCEPT ![conn[c].via] = 0]
    /\ Ends(c)
    /\ UNCHANGED <<loopVars, listening, ingress, paths, slot>>

\* prepare_local_direct_forward_connection: the channel opens only with a peer
\* that answers.
OnDirect(c) ==
    /\ conn[c].stage = "to_direct"
    /\ path[conn[c].via] = "up"
    /\ Becomes(c, "on_direct", conn[c].via, None)
    /\ UNCHANGED <<loopVars, listening, ingress, paths, slot, count>>

LeaveDirect(c) ==
    /\ conn[c].stage = "on_direct"
    /\ Ends(c)
    /\ UNCHANGED <<loopVars, listening, ingress, paths, slot, count>>

\* Without a relay that drains at this moment the connection is dropped.
Drains(b) == b # None /\ count[b] > 0

OpenFails(c) ==
    /\ conn[c].stage = "to_direct"
    /\ IF Drains(conn[c].backup)
       THEN Becomes(c, "falling_back", None, conn[c].backup)
       ELSE Becomes(c, "dropped", None, None)
    /\ UNCHANGED <<loopVars, listening, ingress, paths, slot, count>>

\* What an AutoRelayHandoffFallback still holds.
Offers(r) == slot[r] = "held"

\* The drain may have finished since.
FallBack(c) ==
    LET b == conn[c].backup IN
    /\ conn[c].stage = "falling_back"
    /\ IF Offers(b) THEN Becomes(c, "to_relay", b, None) ELSE Becomes(c, "dropped", None, None)
    /\ UNCHANGED <<loopVars, listening, ingress, paths, slot, count>>

(***************************************************************************)
(* The environment.                                                        *)
(***************************************************************************)
RelayCloses(r) ==
    /\ relay[r] = "up"
    /\ relay' = [relay EXCEPT ![r] = "closed"]
    /\ UNCHANGED <<loopVars, listening, ingress, path, slot, count, conn>>

\* A direct connection is closed by an error of its own socket only.  A peer that
\* goes away closes nothing, and a close that falls between the look at the flag and
\* the wait is unheard.
PathFails(p, how) ==
    /\ path[p] = "up" \/ (path[p] = "silent" /\ how # "silent")
    /\ how = "unheard" => loop = "watch" /\ ingress.via = p
    /\ path' = [path EXCEPT ![p] = how]
    /\ UNCHANGED <<loopVars, listening, ingress, relay, slot, count, conn>>

(***************************************************************************)
(* The rule as a whole.                                                    *)
(***************************************************************************)
LoopStep ==
    \/ Bind \/ Resolve \/ DirectFirst \/ DirectFirstFails
    \/ ConnectRelay \/ ConnectRelayFails \/ RelayClosed \/ Prewarm \/ PrewarmFails
    \/ Prewarmed \/ Handoff \/ Watch \/ DirectClosed

ConnStep(c) ==
    \/ Accept(c) \/ OnRelay(c) \/ LeaveRelay(c) \/ LeftRelay(c)
    \/ OnDirect(c) \/ LeaveDirect(c) \/ OpenFails(c) \/ FallBack(c)

RuleStep ==
    \/ LoopStep
    \/ \E r \in Relays : DrainEnds(r) \/ RelayCloses(r)
    \/ \E c \in Conns : ConnStep(c)
    \/ \E p \in Paths, how \in {"silent", "closed", "unheard"} : PathFails(p, how)

Next == RuleStep

Spec == Init /\ [][Next]_vars

\* The loop goes on.  Its requests to the server have no time limit: that they end,
\* well or not, is assumed.  A closed relay is seen in the end: each wait begins with a
\* look at the flag, when the timer has just been set.
LoopFairness == WF_vars(LoopStep) /\ SF_vars(RelayClosed) /\ WF_vars(DirectClosed)

\* A channel that does not open times out.
FairSpec == Spec /\ LoopFairness /\ \A c \in Conns : WF_vars(OpenFails(c) \/ OnDirect(c))

(***************************************************************************)
(* Properties.                                                             *)
(***************************************************************************)
TypeOK ==
    /\ loop \in {"off", "bind", "failed", "aborted", "resolve", "direct", "connect",
                 "on_relay", "prewarm", "handoff", "watch", "on_direct"}
    /\ listening \in BOOLEAN /\ draining \in BOOLEAN
    /\ ready \in Paths \union {None}
    /\ ingress \in [kind : {"none", "relay", "direct"}, via : Relays \union Paths \union {None},
                    backup : Relays \union {None}]
    /\ relay \in [Relays -> {"unused", "up", "closed"}]
    /\ path \in [Paths -> {"unused", "up", "silent", "closed", "unheard"}]
    /\ slot \in [Relays -> {"none", "held", "released"}]
    /\ count \in [Relays -> 0..(Width - 1)]
    /\ conn \in [Conns ->
          [stage : {"idle", "to_relay", "on_relay", "leaving", "to_direct", "on_direct",
                    "falling_back", "over", "dropped"},
           via : Relays \union Paths \union {None}, backup : Relays \union {None}]]

\* RelayForwarderTracker: however starts and ends of connections interleave, and
\* although the counter wraps below zero when an end overlooks a start, a relay
\* without connections has the count 0.  A drain waits for nothing else.
TrackerQuiescent ==
    \A r \in Relays :
        (\A c \in Conns : conn[c].via = r => conn[c].stage \notin {"on_relay", "leaving"})
            => count[r] = 0

\* A relay or a direct connection that is closed, and heard to be, does not stay the
\* ingress of a loop that works, even if it closes while another attempt is under way.
Works == loop \notin {"off", "bind", "failed", "aborted"}

ClosedIngressIsLeft ==
    /\ \A r \in Relays : Works /\ ingress.via = r /\ relay[r] = "closed" ~> ingress.via # r \/ ~Works
    /\ \A p \in Paths : Works /\ ingress.via = p /\ path[p] = "closed" ~> ingress.via # p \/ ~Works

\* README.md:146 and README.md:364: if the rendezvous, the probe or the direct
\* channel cannot be established, the forward falls back to the relay.  A peer that
\* went away closes no direct connection, so the loop waits on it for good, and
\* connections are dropped one after the other.
DirectFailureUsesRelay ==
    \A c \in Conns :
        conn[c].stage = "dropped"
            ~> \/ loop \in {"connect", "on_relay"}
               \/ ingress.kind = "direct" /\ path[ingress.via] = "up"

(***************************************************************************)
(* The invariant that the proofs rest on.                                  *)
(***************************************************************************)
\* Where the loop stands says what it has published.
IngressFits ==
    /\ loop \in {"on_relay", "prewarm", "handoff"} => ingress.kind = "relay"
    /\ loop \in {"watch", "on_direct"} => ingress.kind = "direct"
    /\ loop = "handoff" => ready \in Paths
    /\ ingress.kind = "relay" => ingress.via \in Relays
    /\ ingress.kind = "direct" => ingress.via \in Paths

\* What a connection was handed fits its stage.
HandedFits(c) ==
    /\ conn[c].stage \in {"to_relay", "on_relay", "leaving"} => conn[c].via \in Relays
    /\ conn[c].stage \in {"to_direct", "on_direct"} => conn[c].via \in Paths
    /\ conn[c].stage = "falling_back" => conn[c].backup \in Relays

\* What is offered as a fallback is a relay that the loop has handed off, and such a
\* relay is never published again: it gets no connection but those that fall back.
HandedOffStaysOff ==
    /\ \A r \in Relays : slot[r] # "none" =>
          relay[r] # "unused" /\ ~(ingress.kind = "relay" /\ ingress.via = r)
    /\ ingress.backup # None => slot[ingress.backup] # "none"
    /\ \A c \in Conns : conn[c].backup # None => slot[conn[c].backup] # "none"

RelaysAreUsedOnce ==
    \A r \in Relays : ingress.kind = "relay" /\ ingress.via = r => relay[r] # "unused"

RuleInv ==
    /\ TypeOK
    /\ IngressFits
    /\ \A c \in Conns : HandedFits(c)
    /\ HandedOffStaysOff
    /\ RelaysAreUsedOnce
=============================================================================
