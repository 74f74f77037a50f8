----------------------------- MODULE RelayBridge -----------------------------
(***************************************************************************)
(* The agents' end of the relay (minipunch-agent/src/relay.rs): a relay    *)
(* connection with its writer, reader and keepalive tasks, and the TCP     *)
(* streams that are bridged over channels of it.  Source is the agent of   *)
(* the forwarder, Target the agent of the service; both may lose their     *)
(* websocket at any time.                                                  *)
(*                                                                         *)
(* Of the hub only what the agents see is kept here: it passes messages on *)
(* in order, and knows a channel from its opening to its end.  RelayHub    *)
(* models it in full.  A payload is the number of its chunk, which is also *)
(* the counter it was encrypted with.                                      *)
(***************************************************************************)
EXTENDS Naturals, SequencesExt

CONSTANTS
    Source, Target,  \* the two agents
    Channels,        \* channel ids
    MaxData,         \* bound: chunks that the local stream of each agent yields
    MaxBreaks        \* bound: websockets that are lost

ASSUME AgentsAssumption == Source # Target

ASSUME ChannelsAssumption == IsFiniteSet(Channels) /\ Channels # {}

Agents == {Source, Target}

ASSUME BoundsAssumption == MaxData \in [Agents -> Nat] /\ MaxBreaks \in Nat

Peer(a) == IF a = Source THEN Target ELSE Source

VARIABLES
    ws,        \* the websocket: up, broken without anyone being told, or gone
    closed,    \* the flag of the connection
    writer,    \* stage of the writer task
    reader,    \* stage of the reader task
    outbound,  \* the queue that the writer task sends from
    inbound,   \* envelopes on the way from the hub
    routes,    \* channel_routes: the channels whose handler gets envelopes
    inbox,     \* what was routed to each handler and not yet taken
    handler,   \* stage of the handler of each channel
    reads,     \* the reader half of each bridge
    writes,    \* the writer half of each bridge
    taken,     \* chunks read from the local stream
    written,   \* chunks written to the local stream
    hub,       \* what the hub knows of each channel
    known,     \* the agents the hub has a connection of
    breaks     \* websockets lost so far

socket == <<ws, known, breaks>>
tasks == <<closed, writer, reader>>
halves == <<reads, writes, taken, written>>
vars == <<socket, tasks, outbound, inbound, routes, inbox, handler, halves, hub>>

Kinds == {"Open", "Incoming", "Accepted", "Rejected", "Data",
          "Eof", "TimedOut", "Gone", "Ping"}
\* A ChannelClose is Eof, TimedOut or Gone, after the reason it gives.
Terminal == {"Rejected", "Eof", "TimedOut", "Gone"}
Envelope == [kind : Kinds, chan : Channels, n : Nat]

Message(k, c) == [kind |-> k, chan |-> c, n |-> 0]
Chunk(c, i) == [kind |-> "Data", chan |-> c, n |-> i]

Init ==
    /\ ws = [a \in Agents |-> "up"]
    /\ known = Agents
    /\ breaks = 0
    /\ closed = [a \in Agents |-> FALSE]
    /\ writer = [a \in Agents |-> "running"]
    /\ reader = [a \in Agents |-> "running"]
    /\ outbound = [a \in Agents |-> <<>>]
    /\ inbound = [a \in Agents |-> <<>>]
    /\ routes = [a \in Agents |-> {}]
    /\ inbox = [a \in Agents |-> [c \in Channels |-> <<>>]]
    /\ handler = [a \in Agents |-> [c \in Channels |-> "idle"]]
    /\ reads = [a \in Agents |-> [c \in Channels |-> "none"]]
    /\ writes = [a \in Agents |-> [c \in Channels |-> "none"]]
    /\ taken = [a \in Agents |-> [c \in Channels |-> 0]]
    /\ written = [a \in Agents |-> [c \in Channels |-> 0]]
    /\ hub = [c \in Channels |-> "none"]

(***************************************************************************)
(* Shared steps of the handlers.                                           *)
(***************************************************************************)
\* send fails once the writer task has dropped the receiving end of its queue.
MaySend(a) == writer[a] # "over"
Queued(a, m) == IF MaySend(a) THEN [outbound EXCEPT ![a] = Append(@, m)] ELSE outbound

Stage(a, c, s) == handler' = [handler EXCEPT ![a][c] = s]
\* The inbox is the handler's own: it goes with it.
Over(a, c) == Stage(a, c, "over") /\ inbox' = [inbox EXCEPT ![a][c] = <<>>]
Unregister(a, c) == routes' = [routes EXCEPT ![a] = @ \ {c}]
Register(a, c) == routes' = [routes EXCEPT ![a] = @ \union {c}]

(***************************************************************************)
(* The handler of a local connection at the source.                        *)
(***************************************************************************)
\* The loop of the forwarder accepts until it sees the connection closed; an
\* automatic forward may hand over a stream later still.
Accepts(c) == handler[Source][c] = "idle"

AcceptLocal(c) ==
    /\ Accepts(c)
    /\ Register(Source, c)
    /\ Stage(Source, c, "registered")
    /\ UNCHANGED <<socket, tasks, outbound, inbound, inbox, halves, hub>>

SendOpen(c) ==
    /\ handler[Source][c] = "registered"
    /\ outbound' = Queued(Source, Message("Open", c))
    /\ IF MaySend(Source)
       THEN Stage(Source, c, "opening") /\ UNCHANGED inbox
       ELSE Over(Source, c)
    /\ UNCHANGED <<socket, tasks, inbound, routes, halves, hub>>

StartBridge(a, c) ==
    /\ Stage(a, c, "bridge")
    /\ reads' = [reads EXCEPT ![a][c] = "run"]
    /\ writes' = [writes EXCEPT ![a][c] = "run"]
    /\ UNCHANGED <<taken, written>>

\* wait_for_channel_open: any other message of the channel is skipped.
Answered(c) ==
    LET m == Head(inbox[Source][c]) IN
    /\ handler[Source][c] = "opening"
    /\ inbox[Source][c] # <<>>
    /\ \/ /\ m.kind = "Accepted"
          /\ StartBridge(Source, c)
          /\ inbox' = [inbox EXCEPT ![Source][c] = Tail(@)]
          /\ UNCHANGED routes
       \/ /\ m.kind \in Terminal
          /\ Over(Source, c)
          /\ Unregister(Source, c)
          /\ UNCHANGED halves
    /\ UNCHANGED <<socket, tasks, outbound, inbound, hub>>

OpenTimesOut(c) ==
    /\ handler[Source][c] = "opening"
    /\ outbound' = Queued(Source, Message("TimedOut", c))
    /\ Unregister(Source, c)
    /\ Over(Source, c)
    /\ UNCHANGED <<socket, tasks, inbound, halves, hub>>

(***************************************************************************)
(* The handler of an incoming channel at the target.                       *)
(***************************************************************************)
\* The service loop starts a handler for every channel it is told of.
Offered(c) == handler[Target][c] = "queued"

\* A channel of a service that is not published here is refused at once.
RefuseIncoming(c) ==
    /\ Offered(c)
    /\ outbound' = Queued(Target, Message("Rejected", c))
    /\ Stage(Target, c, "over")
    /\ UNCHANGED <<socket, tasks, inbound, routes, inbox, halves, hub>>

TakeIncoming(c) ==
    /\ Offered(c)
    /\ Register(Target, c)
    /\ Stage(Target, c, "connecting")
    /\ UNCHANGED <<socket, tasks, outbound, inbound, inbox, halves, hub>>

\* When the answer cannot be sent the handler returns on the spot and leaves its
\* route behind.
ConnectFails(c) ==
    /\ handler[Target][c] = "connecting"
    /\ outbound' = Queued(Target, Message("Rejected", c))
    /\ IF MaySend(Target) THEN Unregister(Target, c) ELSE UNCHANGED routes
    /\ Over(Target, c)
    /\ UNCHANGED <<socket, tasks, inbound, halves, hub>>

Connected(c) ==
    /\ handler[Target][c] = "connecting"
    /\ outbound' = Queued(Target, Message("Accepted", c))
    /\ IF MaySend(Target)
       THEN StartBridge(Target, c) /\ UNCHANGED inbox
       ELSE Over(Target, c) /\ UNCHANGED halves
    /\ UNCHANGED <<socket, tasks, inbound, routes, hub>>

(***************************************************************************)
(* The two halves of a bridge.                                             *)
(***************************************************************************)
Reading(a, c) == handler[a][c] = "bridge" /\ reads[a][c] = "run"
Writing(a, c) == handler[a][c] = "bridge" /\ writes[a][c] = "run"
ReadEnds(a, c, how) == reads' = [reads EXCEPT ![a][c] = how]
WriteEnds(a, c, how) == writes' = [writes EXCEPT ![a][c] = how]

ReadChunk(a, c) ==
    /\ Reading(a, c)
    /\ taken[a][c] < MaxData[a]
    /\ taken' = [taken EXCEPT ![a][c] = @ + 1]
    /\ outbound' = Queued(a, Chunk(c, taken[a][c] + 1))
    /\ IF MaySend(a) THEN UNCHANGED reads ELSE ReadEnds(a, c, "failed")
    /\ UNCHANGED <<socket, tasks, inbound, routes, inbox, handler, writes, written, hub>>

ReadEof_Silent(a, c) ==
    /\ Reading(a, c)
    /\ ReadEnds(a, c, "eof")
    /\ UNCHANGED outbound
    /\ UNCHANGED <<socket, tasks, inbound, routes, inbox, handler, writes, taken, written, hub>>

ReadEof(a, c) ==
    /\ Reading(a, c)
    /\ outbound' = Queued(a, Message("Eof", c))
    /\ ReadEnds(a, c, "eof")
    /\ UNCHANGED <<socket, tasks, inbound, routes, inbox, handler, writes, taken, written, hub>>

\* A local error ends the half; nothing is sent to the peer.
ReadFails(a, c) ==
    /\ Reading(a, c)
    /\ ReadEnds(a, c, "failed")
    /\ UNCHANGED <<socket, tasks, outbound, inbound, routes, inbox, handler, writes, taken, written, hub>>

\* A chunk decrypts only in the order of encryption.
InOrder(a, c, m) == m.kind = "Data" /\ m.n = written[a][c] + 1

\* Even a chunk that decrypts may fail to be written.
Ending(a, c, m) ==
    CASE m.kind = "Eof" -> "eof"
      [] m.kind \in Terminal \ {"Eof"} -> "cut"
      [] OTHER -> IF InOrder(a, c, m) THEN "failed" ELSE "corrupt"

WriteNext(a, c) ==
    LET m == Head(inbox[a][c]) IN
    /\ Writing(a, c)
    /\ inbox[a][c] # <<>>
    /\ inbox' = [inbox EXCEPT ![a][c] = Tail(@)]
    /\ \/ /\ InOrder(a, c, m)
          /\ written' = [written EXCEPT ![a][c] = @ + 1]
          /\ UNCHANGED writes
       \/ /\ WriteEnds(a, c, Ending(a, c, m))
          /\ UNCHANGED written
    /\ UNCHANGED <<socket, tasks, outbound, inbound, routes, handler, reads, taken, hub>>

\* race_bridge_tasks: the half that ends first aborts the other one.
BridgeEnds(a, c) ==
    /\ handler[a][c] = "bridge"
    /\ reads[a][c] # "run" \/ writes[a][c] # "run"
    /\ Unregister(a, c)
    /\ Over(a, c)
    /\ UNCHANGED <<socket, tasks, outbound, inbound, halves, hub>>

(***************************************************************************)
(* The hub, as far as the agents see it.                                   *)
(***************************************************************************)
\* Nothing arrives over a websocket that is no longer up.
Post(a, ms) == [inbound EXCEPT ![a] = IF ws[a] = "up" THEN @ \o ms ELSE @]
HubSends(a, k, c) == inbound' = Post(a, <<Message(k, c)>>)
HubKeeps(c, s) == hub' = [hub EXCEPT ![c] = s]

HubForwards(a, m) ==
    LET c == m.chan IN
    CASE m.kind = "Open" /\ Target \in known ->
            HubKeeps(c, "offered") /\ HubSends(Target, "Incoming", c)
      [] m.kind = "Open" /\ Target \notin known ->
            UNCHANGED hub /\ HubSends(Source, "Rejected", c)
      [] m.kind = "Accepted" /\ hub[c] = "offered" ->
            HubKeeps(c, "accepted") /\ HubSends(Source, "Accepted", c)
      [] m.kind = "Rejected" /\ hub[c] \in {"offered", "accepted"} ->
            HubKeeps(c, "over") /\ HubSends(Source, "Rejected", c)
      [] m.kind = "Data" /\ hub[c] = "accepted" ->
            UNCHANGED hub /\ inbound' = Post(Peer(a), <<m>>)
      [] m.kind \in {"Eof", "TimedOut"} /\ hub[c] \in {"offered", "accepted"} ->
            HubKeeps(c, "over") /\ HubSends(Peer(a), m.kind, c)
      [] OTHER -> UNCHANGED <<hub, inbound>>

\* disconnect_device: the hub ends the channels of a lost connection.
Alive(c) == hub[c] \in {"offered", "accepted"}

HubDisconnects(a) ==
    /\ a \in known
    /\ ws[a] # "up"
    /\ known' = known \ {a}
    /\ \E order \in SetToSeqs({c \in Channels : Alive(c)}) :
          inbound' = Post(Peer(a), [i \in DOMAIN order |-> Message("Gone", order[i])])
    /\ hub' = [c \in Channels |-> IF Alive(c) THEN "over" ELSE hub[c]]
    /\ UNCHANGED <<ws, breaks, tasks, outbound, routes, inbox, handler, halves>>

\* A websocket is cut without anyone being told, or ended by the hub's side.
SocketFails(a, how) ==
    /\ ws[a] = "up"
    /\ breaks < MaxBreaks
    /\ breaks' = breaks + 1
    /\ ws' = [ws EXCEPT ![a] = how]
    /\ UNCHANGED <<known, tasks, outbound, inbound, routes, inbox, handler, halves, hub>>

(***************************************************************************)
(* The tasks of a connection.                                              *)
(***************************************************************************)
\* A task that leaves its loop marks the connection closed and ends every channel
\* that is registered at that moment.
Cleared(a) ==
    /\ routes' = [routes EXCEPT ![a] = {}]
    /\ inbox' = [inbox EXCEPT ![a] = [c \in Channels |->
                    IF c \in routes[a] /\ handler[a][c] # "over"
                    THEN Append(@[c], Message("Gone", c)) ELSE @[c]]]

\* When the second of the two tasks is over, the websocket is dropped.
Dropped(a, other) ==
    ws' = IF other = "over" /\ ws[a] # "gone" THEN [ws EXCEPT ![a] = "gone"] ELSE ws

WriterStops(a) ==
    /\ writer' = [writer EXCEPT ![a] = "cleared"]
    /\ closed' = [closed EXCEPT ![a] = TRUE]
    /\ Cleared(a)
    /\ UNCHANGED reader

\* The writer checks the flag after it has taken a frame, so that what it took is
\* lost when the connection was closed meanwhile.  On a broken websocket the
\* system may accept a frame that goes nowhere.
WriterSends(a) ==
    LET m == Head(outbound[a]) IN
    /\ writer[a] = "running"
    /\ outbound[a] # <<>>
    /\ outbound' = [outbound EXCEPT ![a] = Tail(@)]
    /\ \/ closed[a] /\ WriterStops(a) /\ UNCHANGED <<inbound, hub>>
       \/ ~closed[a] /\ ws[a] = "up" /\ HubForwards(a, m) /\ UNCHANGED <<tasks, routes, inbox>>
       \/ ~closed[a] /\ ws[a] = "broken" /\ UNCHANGED <<tasks, routes, inbox, inbound, hub>>
    /\ UNCHANGED <<socket, handler, halves>>

WriterFails(a) ==
    /\ writer[a] = "running"
    /\ outbound[a] # <<>>
    /\ ws[a] # "up"
    /\ outbound' = [outbound EXCEPT ![a] = Tail(@)]
    /\ WriterStops(a)
    /\ UNCHANGED <<socket, inbound, handler, halves, hub>>

WriterNotified(a) ==
    /\ writer[a] = "running"
    /\ closed[a]
    /\ WriterStops(a)
    /\ UNCHANGED <<socket, outbound, inbound, handler, halves, hub>>

\* Between its last look at the routes and its end the writer's queue still
\* takes messages.
WriterOver(a) ==
    /\ writer[a] = "cleared"
    /\ writer' = [writer EXCEPT ![a] = "over"]
    /\ outbound' = [outbound EXCEPT ![a] = <<>>]
    /\ Dropped(a, reader[a])
    /\ UNCHANGED <<known, breaks, closed, reader, inbound, routes, inbox, handler, halves, hub>>

\* The reader ends at the end of the websocket, at an error of a broken one, or
\* when the connection was closed.
ReaderEnds(a) ==
    /\ reader[a] = "running"
    /\ \/ closed[a]
       \/ ws[a] = "gone" /\ inbound[a] = <<>>
       \/ ws[a] = "broken"
    /\ reader' = [reader EXCEPT ![a] = "over"]
    /\ closed' = [closed EXCEPT ![a] = TRUE]
    /\ Cleared(a)
    /\ inbound' = [inbound EXCEPT ![a] = <<>>]
    /\ Dropped(a, writer[a])
    /\ UNCHANGED <<known, breaks, writer, outbound, handler, halves, hub>>

Deliver_Front(a, m) ==
    IF m.chan \in routes[a] /\ handler[a][m.chan] # "over"
    THEN [inbox EXCEPT ![a][m.chan] = IF m.kind \in Terminal THEN <<m>> \o @ ELSE Append(@, m)]
    ELSE inbox

\* A terminal message takes its route with it.
Deliver(a, m) ==
    IF m.chan \in routes[a] /\ handler[a][m.chan] # "over"
    THEN [inbox EXCEPT ![a][m.chan] = Append(@, m)]
    ELSE inbox

ReaderReceives(a) ==
    LET m == Head(inbound[a]) IN
    /\ reader[a] = "running"
    /\ ws[a] \in {"up", "gone"}
    /\ inbound[a] # <<>>
    /\ inbound' = [inbound EXCEPT ![a] = Tail(@)]
    /\ \/ /\ m.kind = "Incoming"
          /\ Stage(a, m.chan, "queued")
          /\ UNCHANGED <<routes, inbox>>
       \/ /\ m.kind # "Incoming"
          /\ inbox' = Deliver(a, m)
          /\ IF m.kind \in Terminal THEN Unregister(a, m.chan) ELSE UNCHANGED routes
          /\ UNCHANGED handler
    /\ UNCHANGED <<socket, tasks, outbound, halves, hub>>

\* A ping on a websocket that works changes nothing here, so that only the others
\* are modelled.
Ping == Message("Ping", CHOOSE c \in Channels : TRUE)

Keepalive_Never(a) == FALSE /\ UNCHANGED vars

Keepalive(a) ==
    /\ ~closed[a]
    /\ ws[a] # "up"
    /\ outbound[a] = <<>>
    /\ MaySend(a)
    /\ outbound' = [outbound EXCEPT ![a] = <<Ping>>]
    /\ UNCHANGED <<socket, tasks, inbound, routes, inbox, handler, halves, hub>>

(***************************************************************************)
(* The system.                                                             *)
(***************************************************************************)
SourceStep(c) == AcceptLocal(c) \/ SendOpen(c) \/ Answered(c) \/ OpenTimesOut(c)
TargetStep(c) == RefuseIncoming(c) \/ TakeIncoming(c) \/ ConnectFails(c) \/ Connected(c)
BridgeStep(a, c) ==
    \/ ReadChunk(a, c) \/ ReadEof(a, c) \/ ReadFails(a, c) \/ WriteNext(a, c) \/ BridgeEnds(a, c)
TaskStep(a) ==
    \/ WriterSends(a) \/ WriterFails(a) \/ WriterNotified(a) \/ WriterOver(a)
    \/ ReaderReceives(a) \/ ReaderEnds(a) \/ Keepalive(a)

Next ==
    \/ \E c \in Channels : SourceStep(c) \/ TargetStep(c)
    \/ \E a \in Agents, c \in Channels : BridgeStep(a, c)
    \/ \E a \in Agents : TaskStep(a) \/ HubDisconnects(a)
    \/ \E a \in Agents, how \in {"broken", "gone"} : SocketFails(a, how)

Spec == Init /\ [][Next]_vars

\* A chunk is the next thing for the writer half to write.  write_all waits for
\* the local stream as long as it takes, and what comes behind waits with it.
MustWrite(a, c) == Writing(a, c) /\ inbox[a][c] # <<>> /\ Head(inbox[a][c]).kind = "Data"

\* What a bridge does without its local stream: it takes an end and returns.
BridgeCloses(a, c) == (WriteNext(a, c) /\ ~MustWrite(a, c)) \/ BridgeEnds(a, c)

\* Every task that can step does.  What the local streams yield and when they take
\* what is written is up to them, and when the hub notices a lost websocket is up
\* to the hub: none of it is fair.  The network does not accept frames for ever on
\* a broken websocket.
FairSpec ==
    /\ Spec
    /\ \A c \in Channels :
          /\ WF_vars(SendOpen(c) \/ Answered(c) \/ OpenTimesOut(c) \/ BridgeCloses(Source, c))
          /\ WF_vars(TargetStep(c) \/ BridgeCloses(Target, c))
    /\ \A a \in Agents :
          /\ WF_vars(WriterSends(a) \/ WriterNotified(a) \/ WriterOver(a))
          /\ SF_vars(WriterFails(a))
          /\ WF_vars(Keepalive(a))
          /\ WF_vars(ReaderReceives(a) \/ (ReaderEnds(a) /\ (closed[a] \/ ws[a] = "gone")))

(***************************************************************************)
(* Properties.                                                             *)
(***************************************************************************)
TypeOK ==
    /\ ws \in [Agents -> {"up", "broken", "gone"}] /\ known \subseteq Agents
    /\ breaks \in 0..MaxBreaks
    /\ closed \in [Agents -> BOOLEAN]
    /\ writer \in [Agents -> {"running", "cleared", "over"}]
    /\ reader \in [Agents -> {"running", "over"}]
    /\ outbound \in [Agents -> Seq(Envelope)] /\ inbound \in [Agents -> Seq(Envelope)]
    /\ routes \in [Agents -> SUBSET Channels]
    /\ inbox \in [Agents -> [Channels -> Seq(Envelope)]]
    /\ handler \in [Agents -> [Channels ->
          {"idle", "registered", "opening", "queued", "connecting", "bridge", "over"}]]
    /\ reads \in [Agents -> [Channels -> {"none", "run", "eof", "failed"}]]
    /\ writes \in [Agents -> [Channels -> {"none", "run", "eof", "cut", "failed", "corrupt"}]]
    /\ taken \in [Agents -> [Channels -> Nat]]
    /\ written \in [Agents -> [Channels -> Nat]]
    /\ hub \in [Channels -> {"none", "offered", "accepted", "over"}]

\* Whoever is told that the peer's local stream ended has written all of it, and
\* nothing that is decrypted was lost, repeated or reordered on the way, whatever
\* websocket ends when.
StreamIntact ==
    \A a \in Agents, c \in Channels :
        /\ writes[a][c] # "corrupt"
        /\ writes[a][c] = "eof" =>
              reads[Peer(a)][c] = "eof" /\ written[a][c] = taken[Peer(a)][c]

\* The local stream has stopped for good to take what is written to it.
Stuck(a, c) == <>[]MustWrite(a, c)

\* The end of a local stream ends the bridges of both agents, unless a websocket
\* was lost.  The end comes behind the data, so a peer whose local stream never
\* takes that data does not come to it.
EofEndsBoth ==
    \A a \in Agents, c \in Channels :
        \/ reads[a][c] = "eof" ~> \/ handler[Peer(a)][c] = "over"
                                  \/ \E b \in Agents : ws[b] # "up"
        \/ Stuck(Peer(a), c)

\* Once an agent's websocket is lost, all handlers of the agent end before long,
\* those that wait for an answer or for data as well, and also when the loss shows
\* only by writing, while nobody has anything to send: the keepalive task writes.
\* The code leaves two exceptions: a handler of the target that registered its
\* channel after the last clear and still got its answer into the queue, and a
\* handler whose local stream never takes the data before the end that the clear
\* has queued.
LostSocketEndsHandlers ==
    \A a \in Agents, c \in Channels :
        \/ ws[a] # "up" /\ handler[a][c] # "idle"
              ~> \/ handler[a][c] = "over"
                 \/ a = Target /\ writer[a] = "over" /\ reader[a] = "over" /\ c \in routes[a]
        \/ Stuck(a, c)

\* Every channel is a reliable stream between two local streams: each step of the
\* agents, their tasks and the hub is a step of ReliableStream at one end of one
\* channel, or none.  Only a bridge that was told of the end of the peer's stream
\* promises anything: one whose own stream ended first returns Ok as well, while
\* what it read may still be on its way.
Outcome(a, c) ==
    IF handler[a][c] # "over" THEN "running"
    ELSE IF writes[a][c] = "eof" THEN "clean"
    ELSE "broken"

StreamEnds == Agents \X Channels
OtherEnd(e) == <<Peer(e[1]), e[2]>>

SentAt == [e \in StreamEnds |-> taken[e[1]][e[2]]]
EofAt == [e \in StreamEnds |-> reads[e[1]][e[2]] = "eof"]
ReceivedAt == [e \in StreamEnds |-> written[e[1]][e[2]]]
OutcomeAt == [e \in StreamEnds |-> Outcome(e[1], e[2])]

Stream == INSTANCE ReliableStream WITH
    Ends <- StreamEnds, Other <- OtherEnd,
    sent <- SentAt, eof <- EofAt, received <- ReceivedAt, outcome <- OutcomeAt

ImplementsStream == Stream!Spec

(***************************************************************************)
(* The invariant that the proofs rest on.                                  *)
(***************************************************************************)
Is(m, k, c) == m.kind = k /\ m.chan = c
Holds(q, k, c) == \E i \in DOMAIN q : Is(q[i], k, c)
AtMostOne(q, k, c) == \A i, j \in DOMAIN q : Is(q[i], k, c) /\ Is(q[j], k, c) => i = j

\* A queue holds the chunks of the channel after the first up to the last, in
\* order, and the end of the stream after all of them.
Carries(q, c, first, last) ==
    /\ first <= last
    /\ \A i \in DOMAIN q : Is(q[i], "Data", c) => q[i].n \in first + 1 .. last
    /\ \A n \in first + 1 .. last : \E i \in DOMAIN q : Is(q[i], "Data", c) /\ q[i].n = n
    /\ \A i, j \in DOMAIN q :
          /\ i < j /\ Is(q[i], "Data", c) /\ Is(q[j], "Data", c) => q[i].n < q[j].n
          /\ i < j /\ Is(q[i], "Eof", c) => ~Is(q[j], "Data", c)

\* From the writer half back to the peer's reader half: what is in the inbox
\* continues what was written, what is under way and will be heard continues the
\* inbox, and what is queued and will pass continues that up to what was taken.
Flow(box, way, queue, c, got, all, ended, hears, passes) ==
    \E x, y \in 0 .. all :
        /\ Carries(box, c, got, x)
        /\ Holds(box, "Eof", c) => ended /\ x = all
        /\ hears =>
              /\ Carries(way, c, x, y)
              /\ Holds(way, "Eof", c) => ended /\ y = all
              /\ passes =>
                    /\ Carries(queue, c, y, all)
                    /\ Holds(queue, "Eof", c) => ended

\* The handler may still take messages of the channel.
Takes(a, c) == handler[a][c] # "over" /\ writes[a][c] \in {"none", "run"}

\* What arrives for the channel is routed, now or once the handler registers.
Hears(a, c) == reader[a] = "running" /\ (c \in routes[a] \/ handler[a][c] \in {"idle", "queued"})

\* What the writer of an agent sends next reaches the hub, and a peer through it.
Sends(a) == writer[a] = "running" /\ ~closed[a] /\ ws[a] = "up"
Passes(a, c) == Sends(Peer(a)) /\ ws[a] = "up" /\ hub[c] # "over"

StreamFlows(a, c) ==
    Takes(a, c) =>
        Flow(inbox[a][c], inbound[a], outbound[Peer(a)], c, written[a][c],
             taken[Peer(a)][c], reads[Peer(a)][c] = "eof", Hears(a, c), Passes(a, c))

StreamsFlow == \A a \in Agents, c \in Channels : StreamFlows(a, c)

OnlyKinds(q, kinds) == \A i \in DOMAIN q : q[i].kind \in kinds
OnlyOf(q, c) == \A i \in DOMAIN q : q[i].chan = c

\* Who may send, and who may be told, what.
KindsFit ==
    /\ OnlyKinds(outbound[Source], Kinds \ {"Accepted"})
    /\ OnlyKinds(outbound[Target], Kinds \ {"Open"})
    /\ OnlyKinds(inbound[Source], {"Accepted", "Data"} \union Terminal)
    /\ OnlyKinds(inbound[Target], {"Incoming", "Data"} \union Terminal)
    /\ \A c \in Channels :
          /\ OnlyKinds(inbox[Source][c], {"Accepted", "Data"} \union Terminal)
          /\ OnlyKinds(inbox[Target][c], {"Data"} \union Terminal)
          /\ OnlyOf(inbox[Source][c], c) /\ OnlyOf(inbox[Target][c], c)
          /\ handler[Source][c] \in {"idle", "registered", "opening", "bridge", "over"}
          /\ handler[Target][c] \in {"idle", "queued", "connecting", "bridge", "over"}

\* A bridge starts with nothing read and nothing written.
BridgesStartFresh ==
    \A a \in Agents, c \in Channels : handler[a][c] \notin {"bridge", "over"} =>
        /\ reads[a][c] = "none" /\ writes[a][c] = "none"
        /\ taken[a][c] = 0 /\ written[a][c] = 0

\* A channel is opened once, and offered once.
Opens(c) ==
    /\ hub[c] # "none" => handler[Source][c] \notin {"idle", "registered"}
    /\ Holds(outbound[Source], "Open", c) =>
          hub[c] = "none" /\ handler[Source][c] \notin {"idle", "registered"}
    /\ AtMostOne(outbound[Source], "Open", c)
    /\ Holds(inbound[Target], "Incoming", c) =>
          hub[c] # "none" /\ handler[Target][c] = "idle"
    /\ AtMostOne(inbound[Target], "Incoming", c)
    /\ handler[Target][c] # "idle" => hub[c] # "none"

OpenedOnce == \A c \in Channels : Opens(c)

DataAfterAccepted(q, c) ==
    \A i \in DOMAIN q : Is(q[i], "Data", c) =>
        \E j \in DOMAIN q : j < i /\ Is(q[j], "Accepted", c)

\* A channel is accepted once, and data is sent only after that.
Accepting(c) ==
    /\ hub[c] = "accepted" \/ Holds(outbound[Target], "Accepted", c)
       \/ Holds(outbound[Target], "Data", c) \/ Holds(inbound[Target], "Data", c) =>
          handler[Target][c] \in {"bridge", "over"}
    /\ handler[Source][c] = "bridge" \/ Holds(outbound[Source], "Data", c)
       \/ Holds(inbound[Source], "Accepted", c) \/ Holds(inbox[Source][c], "Accepted", c)
       \/ Holds(inbound[Source], "Data", c) =>
          hub[c] \in {"accepted", "over"}
    /\ AtMostOne(inbound[Source], "Accepted", c)
    /\ AtMostOne(inbox[Source][c], "Accepted", c)
    /\ Holds(inbox[Source][c], "Accepted", c) \/ handler[Source][c] = "bridge" =>
          ~Holds(inbound[Source], "Accepted", c)
    /\ handler[Source][c] = "bridge" => ~Holds(inbox[Source][c], "Accepted", c)
    /\ Sends(Target) /\ hub[c] = "offered" =>
          /\ DataAfterAccepted(outbound[Target], c)
          /\ handler[Target][c] = "bridge" => Holds(outbound[Target], "Accepted", c)

AcceptedOnce == \A c \in Channels : Accepting(c)

\* Nothing is written that was not read, also after the half has ended.
WrittenWasRead ==
    \A a \in Agents, c \in Channels : written[a][c] <= taken[Peer(a)][c]

StreamInv ==
    /\ TypeOK
    /\ KindsFit
    /\ BridgesStartFresh
    /\ OpenedOnce
    /\ AcceptedOnce
    /\ StreamsFlow
    /\ StreamIntact
=============================================================================
