---------------------------- MODULE DirectServe ----------------------------
(***************************************************************************)
(* Direct connections from the rendezvous to the channel: the source's     *)
(* attempt (prepare_auto_direct_forward, lib.rs), the target's supervisor  *)
(* and its session tasks (run_direct_service_supervisor, lib.rs), the UDP  *)
(* hub the sessions share, the probe, and the opening of channels          *)
(* (direct.rs).  A channel, once open, is what DirectChannel models.       *)
(*                                                                         *)
(* The network loses, repeats and reorders datagrams, within two bounds.   *)
(* Because it reorders, what waits inside an agent for one of its tasks is *)
(* a set as well.                                                          *)
(***************************************************************************)
EXTENDS Naturals, FiniteSets

CONSTANTS
    Rendezvous,  \* attempts of sources to reach this target's service
    Channels,    \* channels that sources open
    Of,          \* the rendezvous each channel is opened under
    MaxLost,     \* bound: datagrams that get lost
    MaxDoubled,  \* bound: datagrams that arrive twice
    None

ASSUME OfAssumption == Of \in [Channels -> Rendezvous]
ASSUME BoundsAssumption == MaxLost \in Nat /\ MaxDoubled \in Nat
ASSUME NoneAssumption == None \notin Rendezvous \union Channels \union Nat

VARIABLES
    rdv,      \* status of each rendezvous at the server
    source,   \* stage of the source's side of each rendezvous
    active,   \* active_sessions of the supervisor
    handled,  \* handled
    task,     \* stage of the session tasks of each rendezvous
    hub,      \* whether the hub's reader task runs
    route,    \* session_routes of the hub: the task whose queue they name
    inbox,    \* each task's session_rx
    kept,     \* each task's buffered_tunnel_packets
    opener,   \* stage of the source's side of each channel
    handler,  \* stage of the target's handlers of each channel
    croute,   \* channel_routes of the target's connection: the handler named
    net,      \* datagrams under way
    lost,     \* datagrams that got lost
    doubled   \* datagrams that were delivered and are still under way

serverVars == <<rdv>>
sourceVars == <<source, opener>>
supervisorVars == <<active, handled>>
hubVars == <<hub, route>>
queues == <<inbox, kept>>
handlerVars == <<handler, croute>>
netVars == <<net, lost, doubled>>
vars == <<serverVars, sourceVars, supervisorVars, task, hubVars, queues, handlerVars, netVars>>

\* A rendezvous has a second task, a channel a second handler, if it is started twice.
Slots == 1..2
Tasks == Rendezvous \X Slots
Handlers == Channels \X Slots

Probe(kind, r) == [kind |-> kind, r |-> r, c |-> None]
Tunnel(kind, c) == [kind |-> kind, r |-> Of[c], c |-> c]
Probes(kinds) == [kind : kinds, r : Rendezvous, c : {None}]
Tunnels(kinds) == {m \in [kind : kinds, r : Rendezvous, c : Channels] : m.r = Of[m.c]}
ToTarget == Probes({"source hello", "source ack"}) \union Tunnels({"open"})
ToSource == Probes({"target hello", "target ack"}) \union Tunnels({"accept", "reject", "close"})

Init ==
    /\ rdv = [r \in Rendezvous |-> "none"]
    /\ source = [r \in Rendezvous |-> "off"]
    /\ active = {} /\ handled = {}
    /\ task = [s \in Tasks |-> "none"]
    /\ hub = TRUE
    /\ route = [r \in Rendezvous |-> None]
    /\ inbox = [s \in Tasks |-> {}]
    /\ kept = [s \in Tasks |-> {}]
    /\ opener = [c \in Channels |-> "idle"]
    /\ handler = [h \in Handlers |-> "none"]
    /\ croute = [c \in Channels |-> None]
    /\ net = {} /\ lost = {} /\ doubled = {}

Send(m) == net' = net \union {m} /\ UNCHANGED <<lost, doubled>>

\* A datagram arrives; it may arrive once more.
Arrives(m) ==
    /\ m \in net
    /\ \/ net' = net \ {m} /\ UNCHANGED doubled
       \/ /\ m \notin doubled /\ Cardinality(doubled) < MaxDoubled
          /\ doubled' = doubled \union {m} /\ UNCHANGED net
    /\ UNCHANGED lost

Lose(m) ==
    /\ m \in net /\ Cardinality(lost) < MaxLost
    /\ net' = net \ {m} /\ lost' = lost \union {m}
    /\ UNCHANGED <<serverVars, sourceVars, supervisorVars, task, hubVars, queues, handlerVars, doubled>>

(***************************************************************************)
(* The rendezvous at the server.                                           *)
(***************************************************************************)
Expire(r) ==
    /\ rdv[r] \in {"waiting", "ready"}
    /\ rdv' = [rdv EXCEPT ![r] = "expired"]
    /\ UNCHANGED <<sourceVars, supervisorVars, task, hubVars, queues, handlerVars, netVars>>

(***************************************************************************)
(* The source: the attempt and the probe on a socket of its own.           *)
(***************************************************************************)
Start(r) ==
    /\ source[r] = "off"
    /\ source' = [source EXCEPT ![r] = "waiting"]
    /\ rdv' = [rdv EXCEPT ![r] = "waiting"]
    /\ UNCHANGED <<opener, supervisorVars, task, hubVars, queues, handlerVars, netVars>>

\* wait_for_ready_rendezvous_with_session asks again until the rendezvous is ready.
Ready(r) == rdv[r] = "ready"

SourceReady(r) ==
    /\ source[r] = "waiting" /\ Ready(r)
    /\ source' = [source EXCEPT ![r] = "probing"]
    /\ Send(Probe("source hello", r))
    /\ UNCHANGED <<serverVars, opener, supervisorVars, task, hubVars, queues, handlerVars>>

\* A timeout, an expired rendezvous, a failed request or an unusable socket.
SourceGivesUp(r) ==
    /\ source[r] \in {"waiting", "probing"}
    /\ source' = [source EXCEPT ![r] = "failed"]
    /\ UNCHANGED <<serverVars, opener, supervisorVars, task, hubVars, queues, handlerVars, netVars>>

SourceHello(r) ==
    /\ source[r] = "probing"
    /\ Send(Probe("source hello", r))
    /\ UNCHANGED <<serverVars, sourceVars, supervisorVars, task, hubVars, queues, handlerVars>>

\* The probe ends with the first hello, which is acknowledged once, or the first
\* acknowledgement.
SourceProbed(r) ==
    /\ source[r] = "probing"
    /\ source' = [source EXCEPT ![r] = "connected"]
    /\ \/ Arrives(Probe("target ack", r))
       \/ /\ Probe("target hello", r) \in net
          /\ net' = (net \ {Probe("target hello", r)}) \union {Probe("source ack", r)}
          /\ UNCHANGED <<lost, doubled>>
    /\ UNCHANGED <<serverVars, opener, supervisorVars, task, hubVars, queues, handlerVars>>

\* The connection's reader ends with an error of the socket and closes all channels.
SourceBreaks(r) ==
    /\ source[r] = "connected"
    /\ source' = [source EXCEPT ![r] = "closed"]
    /\ opener' = [c \in Channels |->
          IF Of[c] = r /\ opener[c] \in {"opening", "bridging"} THEN "over" ELSE opener[c]]
    /\ UNCHANGED <<serverVars, supervisorVars, task, hubVars, queues, handlerVars, netVars>>

(***************************************************************************)
(* The target: the supervisor of one published service.                    *)
(***************************************************************************)
Joined == {r \in Rendezvous : \E k \in Slots : task[<<r, k>>] = "over"}

Fresh_Handled(rs, busy, done) == rs \ done
Fresh(rs, busy, done) == rs \ (busy \union done)

\* What the server lists, by status; it leaves out what has expired before.
Pending(status) == {r \in Rendezvous : rdv[r] \in status}

\* The tasks that have ended are taken first; then the pending rendezvous are
\* fetched, and a task is started for each that is neither active nor handled.  One
\* that has expired while the server made its list is handled at once.
Poll ==
    LET busy == active \ Joined
        done == handled \union Joined
        listed(status) == Fresh(Pending(status), busy, done)
        fresh == listed({"waiting", "ready"})
        first(r) == IF task[<<r, 1>>] = "none" THEN 1 ELSE 2
    IN
    /\ active' = busy \union fresh
    /\ \E late \in SUBSET listed({"expired"}) : handled' = done \union late
    /\ task' = [s \in Tasks |->
          IF s[1] \in fresh /\ s[2] = first(s[1]) THEN "announcing"
          ELSE IF task[s] = "over" THEN "joined" ELSE task[s]]
    /\ UNCHANGED <<serverVars, sourceVars, hubVars, queues, handlerVars, netVars>>

PollFails ==
    /\ active' = active \ Joined
    /\ handled' = handled \union Joined
    /\ task' = [s \in Tasks |-> IF task[s] = "over" THEN "joined" ELSE task[s]]
    /\ UNCHANGED <<serverVars, sourceVars, hubVars, queues, handlerVars, netVars>>

(***************************************************************************)
(* A session task and its probe on the hub.                                *)
(***************************************************************************)
Announce(s) ==
    /\ task[s] = "announcing" /\ rdv[s[1]] # "expired"
    /\ rdv' = [rdv EXCEPT ![s[1]] = "ready"]
    /\ task' = [task EXCEPT ![s] = "waiting"]
    /\ UNCHANGED <<sourceVars, supervisorVars, hubVars, queues, handlerVars, netVars>>

\* register_session replaces a route before it finds that there was one.
TargetReady(s) ==
    /\ task[s] = "waiting" /\ Ready(s[1])
    /\ route' = [route EXCEPT ![s[1]] = s[2]]
    /\ IF route[s[1]] = None
       THEN task' = [task EXCEPT ![s] = "probing"] /\ Send(Probe("target hello", s[1]))
       ELSE task' = [task EXCEPT ![s] = "over"] /\ UNCHANGED netVars
    /\ UNCHANGED <<serverVars, sourceVars, supervisorVars, hub, queues, handlerVars>>

Unregister(r) == route' = [route EXCEPT ![r] = None]

\* A session that ends drops what it has not read.
TaskEnds(s) ==
    /\ task' = [task EXCEPT ![s] = "over"]
    /\ inbox' = [inbox EXCEPT ![s] = {}]
    /\ kept' = [kept EXCEPT ![s] = {}]

GivesUp_BeforeProbe == {"announcing", "waiting"}
GivesUp == {"announcing", "waiting", "probing"}

\* A timeout, an expired rendezvous or a failed request.
TargetGivesUp(s) ==
    /\ task[s] \in GivesUp
    /\ TaskEnds(s)
    /\ IF task[s] = "probing" THEN Unregister(s[1]) ELSE UNCHANGED route
    /\ UNCHANGED <<serverVars, sourceVars, supervisorVars, hub, handlerVars, netVars>>

TargetHello(s) ==
    /\ task[s] = "probing"
    /\ Send(Probe("target hello", s[1]))
    /\ UNCHANGED <<serverVars, sourceVars, supervisorVars, task, hubVars, queues, handlerVars>>

Live(s) == task[s] \in {"probing", "serving"}

\* The hub's reader.  A route whose task is gone is removed.
HubReceives(m) ==
    /\ hub /\ m \in ToTarget /\ Arrives(m)
    /\ LET s == <<m.r, route[m.r]>> IN
       IF route[m.r] = None THEN UNCHANGED <<route, inbox>>
       ELSE IF Live(s) THEN inbox' = [inbox EXCEPT ![s] = @ \union {m}] /\ UNCHANGED route
       ELSE Unregister(m.r) /\ UNCHANGED inbox
    /\ UNCHANGED <<serverVars, sourceVars, supervisorVars, task, hub, kept, handlerVars>>

HubFails ==
    /\ hub
    /\ hub' = FALSE
    /\ route' = [r \in Rendezvous |-> None]
    /\ UNCHANGED <<serverVars, sourceVars, supervisorVars, task, queues, handlerVars, netVars>>

Read(s, m) == m \in inbox[s] /\ inbox' = [inbox EXCEPT ![s] = @ \ {m}]

TargetProbed(s) ==
    /\ task[s] = "probing"
    /\ \/ Read(s, Probe("source ack", s[1])) /\ UNCHANGED netVars
       \/ Read(s, Probe("source hello", s[1])) /\ Send(Probe("target ack", s[1]))
    /\ task' = [task EXCEPT ![s] = "serving"]
    /\ UNCHANGED <<serverVars, sourceVars, supervisorVars, hubVars, kept, handlerVars>>

\* A source that has probed the path opens channels while this side still probes.
Kept_Dropped(m, s) == kept[s]
Kept(m, s) == kept[s] \union {m}

Keep(s, c) ==
    LET m == Tunnel("open", c) IN
    /\ task[s] = "probing"
    /\ Read(s, m)
    /\ kept' = [kept EXCEPT ![s] = Kept(m, s)]
    /\ UNCHANGED <<serverVars, sourceVars, supervisorVars, task, hubVars, handlerVars, netVars>>

\* A session without its route ends when it has read what it was sent.
SessionCut(s) ==
    /\ Live(s) /\ route[s[1]] # s[2]
    /\ inbox[s] = {} /\ (task[s] = "serving" => kept[s] = {})
    /\ TaskEnds(s)
    /\ Unregister(s[1])
    /\ croute' = [c \in Channels |-> IF Of[c] = s[1] THEN None ELSE croute[c]]
    /\ UNCHANGED <<serverVars, sourceVars, supervisorVars, hub, handler, netVars>>

\* Probes are ignored by now.
ServeProbe(s, kind) ==
    /\ task[s] = "serving"
    /\ Read(s, Probe(kind, s[1]))
    /\ UNCHANGED <<serverVars, sourceVars, supervisorVars, task, hubVars, kept, handlerVars, netVars>>

\* Each OpenChannel starts a handler.
ServeOpen(s, c) ==
    LET m == Tunnel("open", c) IN
    /\ task[s] = "serving"
    /\ m \in kept[s] \union inbox[s]
    /\ IF m \in kept[s]
       THEN kept' = [kept EXCEPT ![s] = @ \ {m}] /\ UNCHANGED inbox
       ELSE inbox' = [inbox EXCEPT ![s] = @ \ {m}] /\ UNCHANGED kept
    /\ handler' = [handler EXCEPT ![<<c, IF handler[<<c, 1>>] = "none" THEN 1 ELSE 2>>] = "starting"]
    /\ UNCHANGED <<serverVars, sourceVars, supervisorVars, task, hubVars, croute, netVars>>

(***************************************************************************)
(* The target's handlers of a channel.                                     *)
(***************************************************************************)
\* The route is there before the source can learn that the channel is open.
RegisterChannel_Later(h) ==
    /\ handler[h] = "starting"
    /\ handler' = [handler EXCEPT ![h] = "connecting"]
    /\ UNCHANGED <<serverVars, sourceVars, supervisorVars, task, hubVars, queues, croute, netVars>>
RegisterChannel(h) ==
    /\ handler[h] = "starting"
    /\ croute' = [croute EXCEPT ![h[1]] = h[2]]
    /\ handler' = [handler EXCEPT ![h] = "connecting"]
    /\ UNCHANGED <<serverVars, sourceVars, supervisorVars, task, hubVars, queues, netVars>>

\* unregister_channel knows the channel, not the handler.
HandlerOver(h) ==
    /\ handler' = [handler EXCEPT ![h] = "over"]
    /\ croute' = [croute EXCEPT ![h[1]] = None]

TargetRefuses(h) ==
    /\ handler[h] = "connecting"
    /\ HandlerOver(h)
    /\ Send(Tunnel("reject", h[1]))
    /\ UNCHANGED <<serverVars, sourceVars, supervisorVars, task, hubVars, queues>>

Accept(h) ==
    /\ handler[h] = "connecting"
    /\ handler' = [handler EXCEPT ![h] = "bridging"]
    /\ Send(Tunnel("accept", h[1]))
    /\ UNCHANGED <<serverVars, sourceVars, supervisorVars, task, hubVars, queues, croute>>

\* For a reason of its own, or because it has lost its route.  An error that leaves
\* the bridge from inside its loop leaves the route behind.
HandlerEnds(h) ==
    /\ handler[h] = "bridging"
    /\ \/ HandlerOver(h)
       \/ handler' = [handler EXCEPT ![h] = "over"] /\ UNCHANGED croute
    /\ Send(Tunnel("close", h[1])) \/ UNCHANGED netVars
    /\ UNCHANGED <<serverVars, sourceVars, supervisorVars, task, hubVars, queues>>

(***************************************************************************)
(* The source's side of a channel.                                         *)
(***************************************************************************)
Open(c) ==
    /\ source[Of[c]] = "connected" /\ opener[c] = "idle"
    /\ opener' = [opener EXCEPT ![c] = "opening"]
    /\ Send(Tunnel("open", c))
    /\ UNCHANGED <<serverVars, source, supervisorVars, task, hubVars, queues, handlerVars>>

OpenTimesOut(c) ==
    /\ opener[c] = "opening"
    /\ opener' = [opener EXCEPT ![c] = "over"]
    /\ UNCHANGED <<serverVars, source, supervisorVars, task, hubVars, queues, handlerVars, netVars>>

SourceEnds(c) ==
    /\ opener[c] = "bridging"
    /\ opener' = [opener EXCEPT ![c] = "over"]
    /\ UNCHANGED <<serverVars, source, supervisorVars, task, hubVars, queues, handlerVars, netVars>>

\* The connection's own socket: nothing but tunnel messages of the rendezvous.
SourceReceives(kind, c) == Arrives(Tunnel(kind, c))

\* What an answer makes of a channel: an open one overlooks a second acceptance, and
\* for one that is neither waiting nor open everything is dropped.
Outcome(now, kind) ==
    CASE now = "opening" /\ kind = "accept" -> "bridging"
      [] now \in {"opening", "bridging"} /\ kind # "accept" -> "over"
      [] OTHER -> now

Answer(c, kind) ==
    /\ SourceReceives(kind, c)
    /\ opener' = [opener EXCEPT ![c] = Outcome(@, kind)]
    /\ UNCHANGED <<serverVars, source, supervisorVars, task, hubVars, queues, handlerVars>>

(***************************************************************************)
(* The specification.                                                      *)
(***************************************************************************)
SessionStep(s) ==
    \/ Announce(s) \/ TargetReady(s) \/ TargetGivesUp(s) \/ TargetHello(s)
    \/ TargetProbed(s) \/ SessionCut(s)
    \/ \E c \in Channels : Keep(s, c) \/ ServeOpen(s, c)
    \/ \E kind \in {"source hello", "source ack"} : ServeProbe(s, kind)

Next ==
    \/ \E r \in Rendezvous :
          \/ Start(r) \/ Expire(r) \/ SourceReady(r) \/ SourceGivesUp(r)
          \/ SourceHello(r) \/ SourceProbed(r) \/ SourceBreaks(r)
    \/ Poll \/ PollFails
    \/ \E s \in Tasks : SessionStep(s)
    \/ \E m \in net : HubReceives(m) \/ Lose(m)
    \/ HubFails
    \/ \E h \in Handlers : RegisterChannel(h) \/ TargetRefuses(h) \/ Accept(h) \/ HandlerEnds(h)
    \/ \E c \in Channels :
          \/ Open(c) \/ OpenTimesOut(c) \/ SourceEnds(c)
          \/ \E kind \in {"accept", "reject", "close"} : Answer(c, kind)

\* Timers fire, tasks run, and the server is asked again and again.  The client sets
\* no time limit on a request: that each one ends, with an answer or an error, is
\* assumed here, and without it neither a poll nor a session task need go on.
Fairness ==
    /\ WF_vars(Poll)
    /\ \A s \in Tasks : WF_vars(TargetGivesUp(s)) /\ WF_vars(SessionCut(s))

Spec == Init /\ [][Next]_vars
FairSpec == Spec /\ Fairness

(***************************************************************************)
(* Properties.                                                             *)
(***************************************************************************)
TypeOK ==
    /\ rdv \in [Rendezvous -> {"none", "waiting", "ready", "expired"}]
    /\ source \in [Rendezvous -> {"off", "waiting", "probing", "connected", "failed", "closed"}]
    /\ active \subseteq Rendezvous /\ handled \subseteq Rendezvous
    /\ task \in [Tasks -> {"none", "announcing", "waiting", "probing", "serving", "over", "joined"}]
    /\ hub \in BOOLEAN
    /\ route \in [Rendezvous -> Slots \union {None}]
    /\ inbox \in [Tasks -> SUBSET ToTarget]
    /\ kept \in [Tasks -> SUBSET ToTarget]
    /\ opener \in [Channels -> {"idle", "opening", "bridging", "over"}]
    /\ handler \in [Handlers -> {"none", "starting", "connecting", "bridging", "over"}]
    /\ croute \in [Channels -> Slots \union {None}]
    /\ net \subseteq ToTarget \union ToSource
    /\ lost \subseteq ToTarget \union ToSource
    /\ doubled \subseteq ToTarget \union ToSource

\* While the hub runs, a session that probes or serves has its datagrams: however
\* the supervisor's polls fall between the ends of its tasks and the changes at the
\* server, no second session of the same rendezvous takes the route over.
SessionKeepsItsRoute == \A s \in Tasks : hub /\ Live(s) => route[s[1]] = s[2]

\* An OpenChannel that was not lost is not swallowed by the target, also when it
\* overtakes the end of the probe: the source waits for something under way.
Somewhere(c) ==
    \/ \E kind \in {"open", "accept", "reject", "close"} : Tunnel(kind, c) \in net
    \/ \E s \in Tasks : Tunnel("open", c) \in inbox[s] \union kept[s]
    \/ \E k \in Slots : handler[<<c, k>>] \in {"starting", "connecting"}

OpenNotSwallowed ==
    \A c \in Channels :
        /\ opener[c] = "opening"
        /\ hub /\ \E k \in Slots : Live(<<Of[c], k>>)
        /\ \A m \in lost : m.c # c
        => Somewhere(c)

\* When the source learns that a channel is open, and as long as it is, the target's
\* handler of it gets its datagrams, unless a repeated OpenChannel started another,
\* or one side has ended.
AcceptedIsRouted ==
    \A c \in Channels :
        /\ Tunnel("accept", c) \in net \/ opener[c] = "bridging"
        /\ Tunnel("open", c) \notin doubled
        /\ \E k \in Slots : Live(<<Of[c], k>>)
        => \E k \in Slots :
              \/ handler[<<c, k>>] = "bridging" /\ croute[c] = k
              \/ handler[<<c, k>>] = "over"

\* Whatever the source does or fails to do, and even when the hub has failed, a
\* rendezvous the supervisor has taken up ends in a session or is done with.
AttemptsSettle ==
    \A r \in Rendezvous :
        r \in active ~> r \in handled \/ \E k \in Slots : task[<<r, k>>] = "serving"
=============================================================================
