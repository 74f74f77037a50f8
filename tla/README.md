# minipunch: specifications, model checks and proofs

Minipunch connects a TCP client on one device with a TCP service on another
one behind a NAT. A small server registers devices and services, relays
channels over websockets and brokers UDP hole punching; an agent on every
device publishes services and forwards local ports. This directory holds TLA+
modules translated from the Rust sources, TLC configurations that check them on
small instances, and proofs that TLAPS checks for every instance.

Paths below are relative to the repository root `src/`; `direct.rs`, `relay.rs`
and `lib.rs` without a crate are those of `crates/minipunch-agent/src`.

## The system

| Component | State | Operations | Talks to |
|---|---|---|---|
| Control plane (`minipunch-server/src/db.rs`, `routes.rs`) | SQLite tables: config, join tokens, devices, sessions, services, ACLs, rendezvous attempts | bootstrap, create token, register, heartbeat, publish and delete services, snapshot, clear devices, start/poll/update rendezvous | HTTP handlers; the hub asks it to authorise channels |
| Relay hub (`minipunch-server/src/relay.rs`, `routes.rs`) | connections per device, channel table, preferred legacy connection per device | register, open, accept, reject, data, close, disconnect, reset | one task per websocket, one mpsc queue per connection |
| Relay connection and bridge (`relay.rs`) | routes per channel, closed flag and notification, three tasks | connect, register/unregister channel, send, close; bridge two tasks per channel | websocket, local TCP |
| Direct connection (`direct.rs`) | routes per channel, closed flag, reader and writer task; a hub that shares one UDP socket between sessions | probe, register session/channel, route, clear on loss | UDP, bridges |
| Direct channel bridge (`direct.rs:2028`) | windows, queues and counters of one reliable stream | read, ack, retransmit, reorder, keepalive, close | local TCP, its direct connection |
| Automatic forward (`lib.rs:1236-1535`, `2137-2602`) | current ingress (relay, direct or none), tracker of active relay connections | select, prewarm direct, hand off, drain, fall back | relay and direct connections, control plane |
| Direct service supervisor (`lib.rs:1618-2008`) | handled and active rendezvous, session tasks | poll, serve, reap | control plane, hub |
| Agent runtime (`lib.rs:778-1016`) | session, running tasks, backoff | prepare, run, heartbeat, drain, restart | everything on the agent |
| Runtime state and status (`runtime_state.rs`, `status.rs`) | observations per service and rule, counters, event list, file | notes by every task, persist, load, staleness | desktop application, CLI |
| Core library (`minipunch-core`) | AEAD counters | sign, verify, encrypt, decrypt | all |
| Desktop application, CLI, server binary (`apps/`) | user interface | start and stop the above | agent library |

What is hard in it:

* The direct channel is a transport protocol of its own: windows, selective
  acks, fast recovery, reordering, a close handshake with bounded retries, and
  encryption whose nonces are implicit counters. UDP loses, duplicates and
  reorders whatever it carries.
* A bridge can end in many ways, some of which tell the peer and some of which
  do not, and "the peer closed" is also what a bridge is told when its own
  connection is lost.
* The relay hub is a shared table behind a lock that handlers release before
  they send; websockets disconnect between any two steps, and an administrator
  may reset it at any time.
* The agent hands live traffic from relay to direct and back while old
  connections drain, and restarts all its tasks on any failure.
* The control plane checks sessions, permissions and expiry under one lock and
  acts under another.

What makes each component correct:

* direct channel: each direction delivers a prefix of the stream in order and
  once; a clean end means the stream that ended it was delivered; nothing that
  was acked is lost; each end ends after EOF, and in bounded time after its peer is gone;
* keepalives: an idle live channel stays up, a dead peer is noticed;
* relay hub: a channel joins two live connections and is forgotten with either
  one; envelopes travel only between its two ends and in order; incoming
  channels go to a connection that serves them;
* relay bridge: the same stream promises while the websocket lives, and an end
  that is told when it does not;
* control plane: no session outlives its deadline, a token is used as often as
  it allows, only the owner and the listed devices reach a service;
* automatic forward: at every moment the ingress in use is one that was alive
  when chosen, no relay connection is cut by a handoff, a drained relay is let go;
* runtime: at most one set of tasks serves, and a failed iteration is followed
  by another.

`PROJECT.json` lists the components with their status and the hazards with
their lines.

## Modules

| Module | Models |
|---|---|
| `LossRecovery` | congestion controller, ack tracker, scoreboard as a set, choice of the packet to resend, `handle_direct_channel_ack` (operators on values) |
| `DirectChannel` | the two bridges of an accepted channel over the UDP path |
| `ReliableStream` | what a channel promises to the two TCP streams (abstract) |
| `MCDirectChannel` | small instances of `DirectChannel` |
| `SackRanges` | the lists of ranges behind the sets of `LossRecovery` |
| `Keepalive` | the housekeeping tick of an idle channel, with a clock |
| `RelayHub` | the server's relay hub and the socket task of every websocket |
| `MCRelayHub` | small instances of `RelayHub` |
| `ControlPlane` | the server's tables and the requests that read and change them, with a clock |
| `MCControlPlane` | small instances of `ControlPlane` |
| `ControlPlaneRejoin` | `ControlPlane` with a history variable, for what the README says of old devices |
| `RelayBridge` | the agents' relay connections and the streams bridged over them, with the hub reduced to what they see |
| `MCRelayBridge` | a small instance of `RelayBridge` |
| `DirectServe` | a direct connection from the rendezvous to the open channel: attempt, supervisor, session tasks, UDP hub, probe, handshake |
| `MCDirectServe` | a small instance of `DirectServe` |
| `AutoForward` | one automatic forward rule: its loop, acceptor, handlers, tracker and drain task |
| `MCAutoForward` | a small instance of `AutoForward` on its own |
| `AgentRuntime` | the restart loop of the agent, composed with `AutoForward` and a direct responder |
| `MCAgentRuntime` | small instances of `AgentRuntime` |
| `DirectChannel_proofs`, `SackRanges_proofs`, `Keepalive_proofs`, `RelayBridge_proofs`, `RelayHub_proofs`, `ControlPlane_proofs`, `DirectServe_proofs`, `AgentRuntime_proofs` | the theorems |

How they fit together: `AgentRuntime` EXTENDS `AutoForward`, so the runtime aborts a
forward rule between any two of its steps. A relay of `AutoForward` is the connection
that `RelayBridge` models, and the hub of `RelayBridge` is `RelayHub` seen from outside;
a path of `AutoForward` is what `DirectServe` sets up, and a channel that `DirectServe`
opens is a `DirectChannel`. A channel over the relay and a direct one are interchangeable to
the two local streams: `RelayBridge` and `DirectChannel` both implement `ReliableStream`. The rendezvous of
`DirectServe` are the attempts of `ControlPlane`.

### LossRecovery and SackRanges

`LossRecovery` holds the sender's algorithms. `cwnd` and `ssthresh` are `f64` in
the code; they are counted here in half packets, in which every assignment but
the `1/cwnd` growth of congestion avoidance is exact, and that growth is a
parameter which the caller chooses freely. The scoreboard is the set of
sequence numbers its ranges cover. The code uses only `contains`,
`highest_sequence` and the growth of the covered count, and the run
`sack_ranges` checks that the real list, sorted, merged, trimmed and saturating
at the largest number, always stands for that set and that its count grows by
exactly the numbers that are new. The loops over lists are folds, one operator per turn
(`KeepValid`, `InsertSorted`, `MergeInto`, `TrimInto`, `ExtendRun`), and the sort is a sort by
insertion, whose result is that of any other. The run also checks that the receiver's
compression sends the lowest runs, whole, and that the timeout's preference for
holes never changes which packet it resends: `DirectChannel` may therefore leave
it out. The ranges offered there include empty, inverted, overlapping and
repeated ones, which an honest peer never sends.

### DirectChannel

The variables are the locals of `bridge_stream_with_direct_channel`, under their
names or close to them, one copy per end: `nextOut`, `pending`, `board`,
`tracker`, `cong`, `close`, `expected`, `reorder`, `readClosed`. `sealed` and
`opened` are the counters of `SecureSender` and `SecureReceiver`; `opened` is also
the number of chunks written to the local TCP stream, and `ready` holds the payloads that
`queue_inbound_direct_payload` has released and the bridge has still to write. `routed` says whether the
connection still has a route for the channel and `connected` whether its reader
task runs. `status` is `open` or the way the bridge returned.

| Action | Branch of the select loop |
|---|---|
| `ReadChunk`, `ReadEof` | local read, with the window guard and `maybe_start_pending_direct_close` |
| `RetransmitData`, `RetransmitClose` | retransmit tick |
| `ReceiveData` (`DropData`, `BufferData`, `ReleaseData`) | `ChannelData` and `queue_inbound_direct_payload` |
| `WriteReady` | the loop over what was released: decrypt, `write_all`, and the ack after the last one |
| `ReceiveAck` | `ChannelAck`, the fast retransmit and the close it may start |
| `ReceiveClose`, `ReceiveCloseAck` | close handshake |
| `ConnectionLost`, `CutOff` | `clear_all_direct_channels` and the close it makes up |
| `RouteGone` | `recv` gives `None` |
| `LocalFailure` | every `?` on the local stream or on a stopped writer task |
| `PeerIdleTimeout` | housekeeping tick |

The writes happen inside the arm of the select and `write_all` has no time limit, so while a
payload is `ready` the bridge polls nothing else: every other branch has `Selects` as its guard. A
local application that reads nothing more keeps the bridge there for good.

The path `net` is the set of all datagrams ever sent. A receive leaves its
datagram there and nothing forces a receive, which gives loss, duplication,
delay and reordering at once. A chunk is its number: what is abstracted from a
payload is the plaintext, and what is kept is the nonce under which it was
sealed, as decryption succeeds only in order.

Time is left out: any outstanding packet may time out at any tick and the idle
timeout may fire at any moment. Every behaviour of the clocked program is one of
the model, so the safety results carry over; `Keepalive` has the clock.

`ImplementsStream` maps the channel to `ReliableStream`: chunks sent are `sealed`,
chunks received `opened`, and the outcome is `clean` for the two Ok results that
promise anything. The third Ok result, `cut`, is what a bridge returns when its
own connection was lost (`direct.rs:2939` gives it a close with
`final_sequence` 0): it shuts the local stream down as after a complete transfer,
but nothing about completeness can be promised, so it maps to `broken`.

### Keepalive

An idle channel second by second: the housekeeping tick, keepalives and their
answers under way, losses, and the two timers. Ticks and arrivals come in any
order within a second. `PatienceAssumption` says what the periods and the path must
satisfy for a live peer never to be timed out: a round trip is shorter than the period of the
keepalives, and the timeout outlasts the last of them that may get through. Both ends are bridges
that wait in their select: one that is inside a write answers no keepalive, and its peer may
give it up.

### RelayHub

The hub's four tables keep their names: `connections` (the nested
`device_connections`, flattened, as a connection id is used once), `channels`,
`preferred` and `nextSequence`. `task` says where the task of each websocket
stands, `closed` whether its mpsc receiver was dropped, `opening` what a task
inside `handle_open_channel` holds in its locals, `unsent` the envelopes it has
looked up senders for and not sent yet, and `outbox` what was sent to a
connection. The outbox keeps the order per channel; nothing in the code
depends on the order between channels.

Every critical section of the mutex is one action, and every send is another,
because the code drops the lock first: the hub may change between the two. One
task works on one envelope at a time, so `Idle` guards the next one.

| Action | Code |
|---|---|
| `Register` | `register_device` |
| `WriterDies` | the writer task breaks its loop on a failed write and drops the receiver; the reader goes on |
| `Disconnect`, `SendOne`, `Leave` | the reader ends: `disconnect_device`, its sends, `writer.abort` |
| `Reset` | `reset`, called by `clear_devices` |
| `HandleOpen`, `Deny`, `Refuse`, `Choose`, `Offer`, `Withdraw` | `handle_open_channel`: note the open, ask the database, look for a target, insert, send, or take the target out and go round again |
| `HandleAccepted`, `HandleRejected`, `HandleData`, `HandleClose` | the handlers of the same name |

Clients may do anything but reuse a channel id, speak of channels they never
heard of, or accept an offer twice; their order of envelopes is free otherwise, and
what the hub ignores (data before the acceptance, say) is no step. `opener`, `finished` and
`reoffered` are history variables that only properties and the first of these
restrictions read. Whether the database allows an open is a free choice. The
check of the id (`channel already exists`) is kept although fresh ids never meet
it.

### ControlPlane

The variables are the tables of `db.rs`, each a set of rows: `joinTokens`, `devices`,
`sessions`, `services`, `acl` (pairs), `attempts` (rendezvous). `now` is the clock in
seconds. `task` says where each request or websocket stands between two locks of the
connection mutex, and `hub` which websockets the relay hub knows. `admissions` and `grants`
are history: which token let which device in, and whom an owner ever allowed.

What happens under one lock is one action. `upsert_service`, `delete_service` and
`clear_devices` are transactions. `register_device` is not, so `JoinBreaks` and
`RejoinBreaks` stop it after any of its statements. The handlers read the clock *before*
they wait for the lock, so a task may decide by any second since it last looked
(`Looks`). The server sets no pragma for foreign keys, but the SQLite that
`rusqlite` bundles is built to enforce them, so the insertions have them as guards.

| Action | Code |
|---|---|
| `CreateToken` | `create_join_token` |
| `Arrive`, `Abandon` | a request comes in; it is refused, fails, or its client hangs up and axum drops the handler at an await |
| `Join`, `Rejoin` (and `...Breaks`) | `register_device` for an unknown and for a known device |
| `CheckSession` | `session_device_id`, which every other request of a device begins with |
| `UpsertService`, `DeleteService` | the functions of the same name after that check |
| `Authorize`, `StartRendezvous` | the two locks of `start_direct_rendezvous` after the check |
| `Announce` | `update_direct_rendezvous_candidates` |
| `Connect`, `Disconnect` | `relay_ws` upgraded; `handle_relay_socket` registers and ends |
| `ClearDevices`, `ResetHub` | the two steps of the administrator's `clear_devices` |
| `Restart` | the process stops; only the tables survive |

A device stands for its key pair, so nobody else registers it, and a service id for its
owner and name (`Owner`). A candidate list is represented by the device that announced
it, and an empty one by `Nobody`. The server accepts empty lists (`db.rs:905`), and the command
line sends one when it is given no `--candidate`, so a rendezvous may be announced by both ends
and not be ready (`gathering_candidates`), or be ready and no longer so. A device may be both ends of a rendezvous;
then it counts as the source, and the rendezvous waits until it expires.
`Guests` bounds the devices that an owner may put on an ACL.

### RelayBridge

The two agents of one service, `Source` with the forwarder and `Target` with the service,
each with a relay connection: `writer` and `reader` are its tasks, `closed` its flag,
`outbound` the queue of the writer, `routes` the table `channel_routes`, `inbox` the
receivers of the handlers. `handler` is where the task of each channel stands, `reads` and
`writes` the two halves of its bridge. `hub` and `known` are what the server knows of each
channel and agent. `ws` is the websocket: up, `broken` without anyone being told, or `gone`.

| Action | Code in `relay.rs` and `lib.rs` |
|---|---|
| `AcceptLocal`, `SendOpen`, `Answered`, `OpenTimesOut` | `handle_local_forward_connection`, `wait_for_channel_open` |
| `RefuseIncoming`, `TakeIncoming`, `ConnectFails`, `Connected` | the service loop and `handle_incoming_channel` |
| `ReadChunk`, `ReadEof`, `ReadFails`, `WriteNext`, `BridgeEnds` | the two tasks of a bridge and `race_bridge_tasks` |
| `WriterSends`, `WriterFails`, `WriterNotified`, `WriterOver` | the writer task: it may lose a frame it has taken when the flag is set meanwhile, and its queue takes messages until the task is over |
| `ReaderReceives`, `ReaderEnds`, `Keepalive` | the reader and the keepalive task |
| `HubForwards`, `HubDisconnects`, `SocketFails` | external to the agents: the server, by `RelayHub`, and the network |

A local failure sends no close (`relay.rs:905`), the end of the local stream aborts the
writer half with what it still holds (`relay.rs:919`), and a close that arrives before
the target has registered its channel is lost (`relay.rs:674`): the model does all three.
Every channel registered when the connection ends is told so. One that is registered
after the last clear is not (`relay.rs:962`); at the source its next `send` fails, as
the queue is gone, but a handler of the target may have its answer queued before that and
then waits for data for good. `LostSocketEndsHandlers` excepts this case and, as said under Fairness below, a
handler stuck in a write.

`ImplementsStream` maps every channel of every agent to an end of `ReliableStream`: chunks sent
are `taken`, chunks received `written`, and an end is `clean` when its handler is over and its
writer half was told of the end of the peer's stream. A bridge whose own stream ended first
returns Ok as well, while what it read may still be on its way or in the dropped queue; as in
`DirectChannel`, nothing can be promised then, so it maps to `broken`.

Left out: encryption (a chunk is the number it was sealed with), opens with an invalid
signature (`relay.rs:648-659`), Ping/Pong content, batching of frames, and `close()`, which
nothing calls. Dropping a handle never closes the websocket (`relay.rs:137-145`), as
the tasks hold references, so a drop is no step.

### DirectServe

One direct attempt from both sides. `rdv` is the status of each rendezvous at the server;
`source` and `opener` are the source's side of rendezvous and channels; `active` and `handled`
are the supervisor's sets, `task` its session tasks. `hub` and `route` are the shared UDP hub
and its `session_routes`, `inbox` and `kept` a session's queue and its
`buffered_tunnel_packets`; `handler` and `croute` are the target's handlers and the
`channel_routes` of its connection. A route names the task, or handler, whose queue it is, so
that a second registration of the same id is visible.

| Action | Code |
|---|---|
| `Start`, `SourceReady`, `SourceGivesUp`, `SourceHello`, `SourceProbed`, `SourceBreaks` | `prepare_auto_direct_forward` and the source's probe and reader |
| `Poll`, `PollFails` | one round of `run_direct_service_supervisor`: reap first, then fetch and spawn |
| `Announce`, `TargetReady`, `TargetGivesUp`, `TargetHello`, `TargetProbed`, `Keep` | a session task: candidates, `register_session`, the probe on the hub, and packets that overtake its end |
| `HubReceives`, `HubFails` | the hub's reader task |
| `ServeProbe`, `ServeOpen`, `SessionCut` | the connection of a session that serves, and its end |
| `RegisterChannel`, `TargetRefuses`, `Accept`, `HandlerEnds` | `handle_direct_incoming_channel` |
| `Open`, `Answer`, `OpenTimesOut`, `SourceEnds` | the source's handler of a local connection |

A bridge that leaves its loop by an error inside it returns before `unregister_channel`
(`direct.rs:2371`), so `HandlerEnds` may leave the route behind.

`SourceBreaks` and `HubFails` stand for every error of a socket that ends its reader, such
as the ICMP errors that Windows reports on a UDP socket. A datagram is lost, delivered once
or twice, and overtakes others. Candidates, STUN and the choice of an address are left out, as
are invalid signatures, the refusals before a channel is registered
(`direct.rs:1863-1921`), the early return when the rejection of a channel cannot be
sent, and tasks that panic.

### AutoForward

`loop` is where `run_auto_forward_loop` stands, `ingress` the watched value that the
acceptor reads, `ready` and `draining` the locals between a prewarmed connection and its
publication. `relay` and `path` are the connections made so far, `count` is
`active_connections` of each relay's `RelayForwarderTracker`, a `usize` that wraps, and `slot`
what an `AutoRelayHandoffFallback` still offers. `conn` is where each local connection stands
and what the acceptor handed it.

| Action | Code in `lib.rs` |
|---|---|
| `Bind`, `Resolve`, `DirectFirst`, `DirectFirstFails`, `ConnectRelay`, `ConnectRelayFails` | a round of the loop |
| `RelayClosed`, `Prewarm`, `PrewarmFails`, `Prewarmed`, `Handoff` | on the relay: its close races the timer of the next direct attempt |
| `Watch`, `DirectClosed` | on the direct connection: the flag is read, then the wait begins |
| `DrainEnds` | `spawn_relay_drain_task`; its look at the count and the release are one step |
| `Accept` | the acceptor task |
| `OnRelay`, `LeaveRelay`, `LeftRelay` | the guard that counts a connection; its end is `fetch_sub`, then, for a last one, `store(0)` |
| `OnDirect`, `LeaveDirect`, `OpenFails`, `FallBack` | a connection handed to the direct path, which may fall back to a relay that drains |
| `RelayCloses`, `PathFails` | external: a close, a peer that falls silent, and a close between `Watch`'s look and its wait, which is never heard (`direct.rs:840`) |

Timers may fire at any time, so backoffs and idle grace have no length.

### AgentRuntime

`stage` is where `run_until_shutdown` stands, `force` is `force_session_refresh`, `session` says
whether the stored session is one under which an iteration has already ended, `valid` whether
it passes `has_valid_session`; `service` and `udp` are the direct responder and the hub
reader that holds its address.

| Action | Code in `lib.rs` |
|---|---|
| `Check`, `PrepareFails`, `Prepare` | the head of the loop and `prepare_runtime_iteration` |
| `Restart`, `Stop` | `run_runtime_iteration` returns; `drain_runtime_tasks` aborts the tasks of the iteration |
| `Wait` | `wait_for_restart_or_shutdown` |
| `BindHub` | the responder's hub binds its UDP address |
| `RequestShutdown`, `SessionEnds` | external: the user and the clock |

Aborting a task does not abort what it spawned: the acceptor, the handlers of local
connections, the drain task and the hub's reader go on in the next iteration, so `Drain`
touches `loop` and `service` alone.

## Runs

| Run | Distinct states | What it shows |
|---|---|---|
| `direct_close` | 169 360 | what each way of ending means; refinement of `ReliableStream`; a bridge ends after EOF unless it stays inside a write |
| `direct_loss` | 712 838 | the inductive invariant of the proofs, its parts on lost, reordered and repeated data, and fast recovery that always has something to resend |
| `sack_ranges` | 249 | the range lists stand for sets |
| `keepalive` | 529 981 | two lost datagrams do not end an idle channel; a dead peer is noticed |
| `relay_hub` | 470 982 | ends of sockets, broken writers, a reset and retried offers: nobody's end of a channel is forgotten, data stays inside its channel, the preference for incoming channels never goes stale, every OpenChannel is answered; the inductive invariant of the proofs |
| `control_plane` | 4 395 940 | who is in the network and until when is what a join token said, through expiry, broken registrations, restarts and a clear; nobody has a rendezvous its owner never allowed; the status of a rendezvous never turns back; the hub knows no websocket that is gone; the inductive invariant of the proofs |
| `control_rejoin` | stops at 4 steps | violated: see Findings |
| `relay_bridge` | 295 369 | refinement of `ReliableStream`; what reached the other end before its end is complete; the end of a stream ends both handlers; a lost websocket ends every handler of its agent, also a silent one, but not one stuck in a write |
| `direct_serve` | 655 004 | a session keeps its route whatever the polls do; an OpenChannel that arrives is answered although it may overtake the probe; an accepted channel is routed; what the supervisor takes up is done with |
| `agent` | 643 717 | the count of a relay is sound at rest; a restart registers anew; a closed ingress is left; a shutdown stops everything |
| `agent_restart` | stops at a lasso | violated: see Findings |
| `agent_fallback` | stops at a lasso | violated: see Findings |

Bounds, and why they are enough:

* `direct_close` has two chunks one way and one the other, so that closes cross
  each other and meet unacked data of either side; two attempts, so that attempt
  counts run out; window 2 of at most 3, so that the window closes and opens.
* `direct_loss` has three chunks one way and a reorder buffer of one: a packet is
  in turn, buffered, or beyond the reorder window; acks carry one range. Threshold 2 makes
  fast retransmit, recovery and its end happen.
* `sack_ranges` has sequence numbers 0..5, where 5 plays `u64::MAX`, all acks of up
  to two ranges, and at most two ranges sent: merging needs two, dropping runs needs
  three.
* `keepalive` uses the periods of the code (10 s, 10 s, 35 s). A keepalive may be
  sent at 10, 20 and 30 s of silence, so the third one still arrives in time; with
  three losses in a row the timeout would win. `PatienceAssumption` is sharp: with two losses
  in a row and one second each way TLC accepts a timeout of 33 s and refutes one of 32 s.
* `relay_hub` has a service's connection of one device and two old clients of another, all
  of which may open the one channel; one data envelope per end, one socket broken for
  writing only and one reset. That is enough for an offer that fails and is retried, for
  both ends to leave at once, for a connection that is its own peer, and for a preference
  that passes on. The channels of the hub do not touch each other, so one is enough.
* `control_plane` has two devices, one with the lifetime of old sessions, two tokens and two
  requests at a time, so that registrations race for a token and a device that was cleared
  comes back with the other. Two seconds are enough for a token in its last second and one
  that is over, and, with a rendezvous that lives for the second it was started in, for an
  announcement that looked at the clock before the end and writes after it. Two sessions let
  a device renew. Requests and tokens are interchangeable, so they are a symmetry set;
  `StatusMovesOn` is an action property, which symmetry does not harm. The owner's own name on its
  ACL changes nothing, so `Guests` is the other device.
* `relay_bridge` has two chunks one way, so that a chunk can be overtaken or missing in
  between, and one websocket that is lost, at either agent, silently or not.
* `direct_serve` has one rendezvous and one channel, one datagram lost and one doubled.
  `MaxLost` and `MaxDoubled` bound these; the proofs are for any numbers. Two rendezvous meet only
  in the hub's table, which has an entry for each.
* `agent` has two local connections, so that the end of one and the start of the other
  interleave in the two steps of the count; one relay and one path, so that a handoff with a
  drain happens and the old acceptor outlives a restart. The counter has four values, so it
  wraps at the bottom.
* `agent_restart` has no local connections, as they do not matter for addresses.
  `agent_fallback` has one connection, one relay and two paths: the relay is there to be used
  and a second direct connection could be made.

Fairness, and why the code justifies it:

* `direct_close`: the retransmit tick of a bridge that waits in its select, and the two events its
  own queue gives it: a timer and a queue of a task that tokio schedules. Nothing is assumed of the
  path, nor of the local streams: `WriteReady` is not fair, as nothing limits `write_all`
  (`direct.rs:2228`). So `EofLeadsToEnd` excepts a bridge that is inside a write for good
  (`Writing`). The idle timeout is not fair either, as no property here needs it; when a silent
  peer is noticed is the question of `keepalive`.
* `relay_hub`: a socket task that has an envelope to send or an open in hand goes on, since
  tokio runs it and the hub's mutex is fair; nothing is assumed of clients, which need not send,
  answer or leave.
* `relay_bridge`: a task that can take a step takes one, except for what waits for a local stream.
  When the local streams yield or end, when they take a chunk, and when the hub notices a lost
  websocket, is up to them. A writer half with a chunk in front of it (`MustWrite`) is inside
  `write_all` without a limit (`relay.rs:881`) and is not fair, so `EofEndsBoth` and
  `LostSocketEndsHandlers` except a half that stays there for good (`Stuck`), even if the close
  is next in its queue. `WriterFails` is strongly
  fair: a broken websocket does not accept frames for ever, as TCP gives up.
* In `direct_serve`, `agent` and the two runs after it, every HTTP request is assumed to end, with
  an answer or an error. The code does not see to it: the client sets no time limit
  (`client.rs:19`), and neither `prepare_runtime_iteration` (`lib.rs:800`) nor the heartbeat
  (`lib.rs:998`) watches for a shutdown while it waits for one. `AttemptsSettle`,
  `ClosedIngressIsLeft` and `ShutdownStops` hold under this assumption only.
* `direct_serve`: the supervisor polls again and again on its interval; every wait of a
  session task but those for a request has a time limit; a session without a route ends. Neither the source nor the
  path is assumed to do anything.
* `agent` and `agent_fallback`: the loop of the rule goes on, as its requests end, well
  or not. `RelayClosed` is strongly fair, because the wait for a close begins to listen before
  it looks at the flag and is entered again after every failed prewarm. In `agent_fallback` an
  attempt to open a channel ends, as it has a time limit.
* `agent` also has the stages of the runtime go on; a restart is only forced when something
  calls for one (`MustRestart`).
* `agent_restart` adds `HealthySpec`: from some moment on the server answers, sessions last, and
  nothing restarts the runtime without need. The run refutes recovery even then.

Deadlock is checked in the runs of the direct channel (when both bridges have returned
`DirectChannel` stutters by its action `Finished`), of the range lists and of the keepalive.
In the others it is not: when all connection ids, channels, seconds or session tokens are used
up, every stream is over or a shutdown is done, nothing is left to happen.

## Proofs

`DirectChannel_proofs` proves, for all `MaxChunks`, windows, thresholds, reorder
limits, ack sizes and attempt limits allowed by `WindowAssumption`,
`DupAckAssumption`, `EndpointAssumption` and `BoundAssumption`:

* `BridgeInvariant`: `Spec => []BridgeInv`;
* from it type correctness and the safety invariants of the runs: `TypeCorrect`,
  `NothingIsForgotten`, `ReorderStaysInWindow`, `CloseComesLast`, `CountersAgree`,
  `AckedCloseIsSound`, `PeerCloseIsSound`;
* `ChannelIsReliableStream`: `Spec => ImplementsStream`, the refinement;
* `RecoveryEnds`: `Spec => []RecoveryHasWork`, for fast recovery.

Lemmas on the algorithms of `LossRecovery` come first: every window stays in its range, the chosen
packet is one that is outstanding (`ChoiceIsOutstanding`), and the result of an ack is well typed
(`HandleAckType`).

What a bridge has released, `expected`, runs ahead of what it has written, `opened`, by the payloads
in `ready`; it answers nothing while there are any, so what it tells its peer is always written.

None of the safety invariants is inductive alone, because a datagram may arrive at
any later time. `BridgeInv` adds what a datagram under way says: a data packet
carries a chunk that was sent, under its own nonce; an ack never claims more than
its sender holds *by now*; a close carries the final number of a close in flight; a
close-ack says that its sender has written that many chunks and is over. All of
these only become truer as counters and ends grow (`TruthfulStable`), so a late
datagram is harmless, and that is the whole argument: an ack removes only what the
peer holds (`ReceiveAckStep`), so when nothing is outstanding the peer has received
all (`AllHeld`), so a close comes last, so its answer means delivery.

`RecoveryHasWork` needs more: nothing in the sender's own state rules out a recovery whose packets
were all acked selectively. `RecoveryInv` gives each sender a *front* `n`, the number of its lowest
outstanding packet, or of the next one when nothing is outstanding. Everything from `n` on is
outstanding or on the scoreboard, some ack under way or arrived says `n`, each entry of the
scoreboard came in an ack that said no more than `n`, and a recovery ends above `n`. Its other
half, `AcksAgree`, is about the receiver: no ack reports as received out of order what another ack
that asks for the same number or a later one asks for next. It holds because an ack speaks for the
state of its sender when it is sent (`CurrentAcks`), and a receiver's expected number is
never one it has buffered. The two together say that the front is not on the scoreboard, so
what a recovery waits for is still outstanding. The front moves only with an ack
(`AckMovesFront`); the other steps of the sender keep it (`SenderSteps`, `ReadKeepsFront`).

`SackRanges_proofs` proves, under `RangeAssumption` alone, all four properties of the run
`sack_ranges`: `ScoreboardIsSetAlways`, `EvidenceIsNewsAlways`, `AckRangesAreLowestRunsAlways` and
`TimeoutResendsOldestAlways`, for any largest sequence number, any scoreboard and any ranges in
an ack. The state has a short invariant, `SackInvariant` (the scoreboard is a list of ranges, and
`ScoreboardIsSet`); the work is in the loops.

* The library's induction takes an operator as a parameter, so it is done by hand: `LeastNatural`
  comes from the well-foundedness of the naturals, and `Upwards` from it says that a set of numbers
  with 0 and with every successor of a member has every number. The invariant of a loop is
  such a set.
* A fold is a recursive function that is *chosen*, so first it has to exist: `FoldExists` builds
  it, number by number, for any loop over a finite set of numbers. Then each loop has a lemma
  that gives its states turn by turn (`KeepTurns`, `SortTurns`, `MergeTurns`, `TrimTurns`, `CountTurns`,
  `RunTurns`).
* On these rest the invariants of the loops: the filter keeps what the ranges cover (`Kept`), the sort
  too (`SortedBy`), the merge makes it canonical (`MergedBy`, with `MergeKeeps` for one turn), the
  trimming keeps what is not acked (`Advanced`), the sum of the lengths is the size of the set
  (`Counted`), and as long as there is room the runs pushed and the current one are the
  keys seen so far (`RunInv`, from `LoopStarts` over `ExtendKeeps` and `SkipKeeps` to `LoopEnds`).

`Keepalive_proofs` proves, under `EndsAssumption`, `TimesAssumption` and `PatienceAssumption`,
`KeepaliveInvariant`: `Spec => []KeepaliveInv`, and from it the two properties of the run,
`LiveStaysUp` and `GoneIsNoticed`. The invariant accounts for the silence at an end
(`QuietAccounted`): since the last arrival either no keepalive was sent and so the silence is short;
or the last one, or its answer, is under way (`RoundTrip`) and all before it were lost; or all were
lost. A keepalive costs a period each, so the losses in a row bound the silence below the
timeout. For an end whose peer is gone, `HearsNothingNew` says that whatever is under way was sent
before the end, so it arrives within `MaxDelay` of it and the silence begins by then.

`RelayHub_proofs` proves, under `HubAssumption` alone, `HubInvariant`: `Spec => []HubInv`, and
from it `HubTypes`, `PreferenceIsSound`, `GoneHaveNoChannel`, `TargetsHearOfTheEnd`,
`SourcesHearOfTheEnd` and `DataStaysInside`. What the properties leave out, and the invariant adds, is the state of a
call in hand (`OfferStands`): between `Choose` and `Offer` the task holds the lock no longer and
the channel may end, but then its target has left the table, so an offer that still reaches
it reaches nobody who is registered, and the source has been told. `NothingFromNothing` says that
ids are fresh, `TableIsCurrent` that entries belong to running tasks. Steps that touch no call
in hand are reduced to four facts each (`Steady`, `NoOffer`, `AllEndProperly`, `CallsKept`), from
which `NobodyForgotten` concludes. That a newest connection exists is `GreatestNatural`, proved
from the well-foundedness of the naturals.
`DataInsideChannel` speaks of the order in an outbox and has an invariant of its own on top of
`HubInv`, one statement per channel (`DataInv`): while an open is in hand nothing of the channel
reaches anybody else (`CallIsQuiet`); while the channel is in the table its two ends have heard
its beginning and not its end (`ChannelIsOpen`); and a data envelope in a task's hands is for the
other end of its channel, which has not been told of an end (`DataIsTimely`). A step that
has nothing to do with a channel leaves all it speaks of alone (`Untouched`), so each action
is only looked at for the channel it is about.

`ControlPlane_proofs` proves, under `ControlAssumption` and `RoutesAssumption`, `ControlInvariant`:
`Spec => []ControlInv`, and from it `ControlTypes`, `ReferencesHold`, `TokensAdmitOne`,
`DeadlinesAreHonoured`, `ValidSessionsRenew`, `AttemptsAreGranted`, `DevicesAreAdmitted`,
`CandidatesAreGenuine`, `HubKnowsSockets` and the action property `StatusNeverTurnsBack`. Some conjuncts are there only for the induction. `KeysAreUnique` says that a token
and a device have one row each. `AdmittedBySpentToken` says that whoever was let in was let in by a
token that is marked as used: the mark is written before the device's row, so a second
registration finds it however the first one ended. `PermissionsWereGranted` extends the history of
permissions to requests between `Authorize` and `StartRendezvous`; since `grants` only grows, what
happens to the ACL in between does not matter. The foreign keys survive the gap for another
reason: `StartRendezvous` has them as guards, and every deletion takes the rows that refer to what
it deletes in the same transaction. `ValidSessionsRenew` follows from `References` and
`SessionsHonourDeadlines`. `StatusNeverTurnsBack` follows from what one announcement may do to a row
(`Announced`): it leaves the expiry and the list of the other end alone and never forgets that
the target was heard; ids are never used twice (`AttemptIdsAreFresh`), and a rendezvous with
candidates of the target has heard it (`CandidatesAreThePeers`).
`ResetsFollowClears` is what `HubMatchesSockets` needs between the two steps of a clear: a task
that is about to reset the hub has already emptied the table.

`RelayBridge_proofs` proves, for any two agents, finitely many channels and any bounds
(`AgentsAssumption`, `ChannelsAssumption`, `BoundsAssumption`), `StreamInvariant`:
`Spec => []StreamInv`, and from it `RelayTypes`, `StreamsAreIntact` and
`RelayIsReliableStream`: `Spec => ImplementsStream`.

* The heart of `StreamInv` is `Flow`. Between the writer half of an agent and the reader half of
  its peer lie three queues: the handler's inbox, what is on the way from the hub, and the
  queue of the peer's writer. As long as the half still takes messages, the inbox continues what
  was written; as long as what arrives is routed (`Hears`), what is on the way continues
  the inbox; and as long as what the peer sends passes (`Passes`), its queue continues that up to
  the last chunk that was read. The end of the stream comes after all of them. A lost
  websocket, a cleared route or a stopped task only takes the tail of this chain away, for
  good: none of these is ever undone, which is why a gap can never be followed by more data.
* The chain has to start empty. `BridgesStartFresh` says so of the counters; that no message of the
  channel is under way before takes the rest of the invariant: a channel is opened and offered
  once (`OpenedOnce`), it is accepted once and data is sent only after that (`AcceptedOnce`, with
  the order of the acceptance and the data in the target's queue), and who can be
  told what (`KindsFit`).
* The proof splits the steps into mild ones, which put nothing into a queue that
  opens, accepts or carries data of a channel (`MildStepKeeps` treats all of them at once), and the dozen that open,
  accept or move data, each with a lemma of its own.
* `RelayIsReliableStream` adds `WrittenWasRead`, which unlike `Flow` also speaks of halves that have
  ended. A step changes what `ReliableStream` sees at one end of one channel at most (`OneEndMoves`).

`DirectServe_proofs` proves, for any set of rendezvous and channels and any number of lost and
doubled datagrams (`OfAssumption`, `BoundsAssumption`, `NoneAssumption`):

* `SessionsKeepTheirRoutes`. `RouteInv` is the reason: a rendezvous that is neither active nor
  handled has no task, one that was ever taken up is one of the two for good, hence there is never a
  second task, and while the hub runs a route stands exactly while its task probes or serves. So
  the replacement in `register_session` (`direct.rs:426`), which would take the route from a
  session, never meets one.
* `OpensAreNotSwallowed` and `AcceptedAreRouted`. `PathInv` says that the source hears of the
  target, and opens channels, only after the target's task began to probe, so its route was
  there; `ChanInv` says of each channel that until a datagram of it is doubled its OpenChannel is in
  one place (under way, queued, kept, or in the hands of one handler), and that the handler's
  route was there before its acceptance was sent. A datagram that arrives moves it from
  one place to the next (`ChannelFrame` disposes of the steps that move none).
* `ServeTypes`, the type invariant.

`AgentRuntime_proofs` proves, under `WidthAssumption` and `KindsAssumption`:

* `TrackersRest` and `TrackersRestAcrossRestarts`: `TrackerQuiescent` for the rule alone and under
  the runtime. The counter wraps: an end whose `fetch_sub` met a count of 0 leaves the largest
  number behind, until its `store(0)`. `TrackerInv` therefore says nothing of the count while an end
  is between its two steps, and otherwise bounds it by the number of connections on the relay. That is
  enough: the bound is 0 when there are none.
* `SessionsAreFresh`: `SessionInv` says that a session under which an iteration has ended is only
  there while a refresh is forced, also after further failures to prepare.
* `RuleInvariant` and `RuleInvariantAcrossRestarts`: `RuleInv` for the rule alone and under the
  runtime. The types need the rest of it: where the loop stands says whether a relay or a
  direct connection is published (`IngressFits`), and where a connection stands says what it was
  handed (`HandedFits`). `FallbacksWereHandedOff` is the part about fallbacks: what a connection may fall
  back to is a relay that a loop has handed off, and no loop, of this iteration or a later one, publishes
  that relay again. It needs that a published relay is one that was connected
  (`RelaysAreUsedOnce`). An abort keeps all of this since it changes neither the published
  ingress nor a slot.

Some theorems are about properties that no run checks: `GoneHaveNoChannel`, `ReferencesHold` and
`ReorderStaysInWindow`, which the invariants of the runs imply, `FallbacksWereHandedOff` and
`ServeTypes`.

Only model-checked is liveness (`EofLeadsToEnd`, `OpenIsAnswered`, `EofEndsBoth`,
`LostSocketEndsHandlers`, `AttemptsSettle`, `ClosedIngressIsLeft`, `ShutdownStops`), which is out of
the prover's reach.

Every other property of a passing run is a theorem. `StreamInv`, `DataInv`, `RecoveryInv`,
`KeepaliveInv` and `RuleInv` hold on the instances of the runs too, where TLC looked for counterexamples
before they were proved; the runs do not repeat them.

## Findings

`control_rejoin`: README.md:102 says that devices from before session deadlines keep the old
24-hour session logic until they join the network again. `register_device` looks at a join token
only when the device is *not* in the table (`db.rs:250`); for a known device it updates the row
without `session_deadline_at` (`db.rs:236`) and leaves the token unused. So an old device that
joins again with a fresh token keeps renewing its sessions for 24 hours at a time for good. For the
same reason a device whose deadline has passed cannot join again with a fresh token: it is refused
at `db.rs:230` before the token is read, until an administrator clears all devices.

`agent_restart`: README.md:116 says that `run` reconnects after a lost relay and rebuilds its
background tasks when the session nears its end. A restart aborts the tasks of the iteration,
but not what they spawned. The acceptor of an automatic forward is spawned detached
(`lib.rs:2171`) and loops without an end (`lib.rs:1398`), and the reader of the direct hub owns its
UDP socket (`direct.rs:352`). The next iteration fails to bind the same local address, or the
same UDP address, its task ends, and the runtime restarts again: with every request answered and
a session that lasts it never runs whole. README.md:117 says that a bad rule does not bring `run`
down.

`agent_fallback`: README.md:146 and 364 say that when the rendezvous, the probe or the direct channel
fails the forward falls back to the relay. When direct came first, a peer that later goes away
without a word closes nothing on the source's socket. Every channel open times out and its local
connection ends with the error, while the loop waits for the direct connection to close
(`lib.rs:2288`, after a handoff `2578`), and the relay is not connected.

Not disagreements with a document, but to be known:

* `handle_open_channel` does not look whether its channel still exists before it retries. If
  the first target leaves after the insertion, its `disconnect_device` sends the source a close,
  and the source's open may go on with a second target. `DataInsideChannel` excepts the source
  of such a channel.
* When an old client's service connection breaks before it reconnects, `remove_connection_entry`
  promotes its idle forward socket, which keeps the preference when the service is back, until
  it opens a channel itself or leaves. The test
  `legacy_service_reconnect_supersedes_older_idle_forward_socket`
  (`crates/minipunch-server/src/relay.rs:1280`) covers the other order. `PreferredServes` excludes
  only sockets that are known to forward.
* A handler of the target that registers its relay channel after the connection's last clear, and
  still gets its answer into the queue, waits for good (`relay.rs:962`).
  `LostSocketEndsHandlers` excepts it.
* Nothing limits a write to a local stream. A direct bridge whose local application stops reading
  serves no ack and no timer from then on (`direct.rs:2228`), and the writer half of a relay bridge
  does not come to the close behind the data, also when its websocket is lost
  (`relay.rs:881`). The liveness properties of both except it.
* An end of a rendezvous may announce an empty list after a full one, which takes the status from
  `ready` back to `gathering_candidates`. `StatusMovesOn` excepts exactly this.
* A close of a direct connection between the look at its flag and the wait is never heard
  (`direct.rs:840`): `ClosedIngressIsLeft` speaks of closes that are heard.
* A repeated OpenChannel starts a second handler, whose registration takes the route of the
  first one (`direct.rs:823`). `AcceptedIsRouted` excepts channels with such a datagram.

## Not modelled

* `runtime_state.rs` and `status.rs`: observations of the other components for the user interface.
  No decision of the agent depends on them. Two things there a reader should know: the file
  is written after the lock is released, so a late writer may put an older snapshot in
  place; and `active_session_count` is not decremented when a restart aborts a session task.
* The desktop application, the command line and the server's start-up code: they call what
  is modelled and hold no shared state of their own beyond it.
* HTTP and file formats, configuration files, metrics and log texts: input and output
  without interleavings; every request may fail where a model makes one.
* Cryptography is taken as sound. The counters of its channels are modelled, its keys and
  signatures are not, and neither is what happens to a message with an invalid signature.
* The estimate of the round trip time and its backoff only choose when a tick resends; in
  `DirectChannel` any tick may resend.
* Forward rules with the transport mode `relay` and relay services: their supervisors retry
  inside themselves, so the runtime sees nothing of them. `RelayBridge` has their channels.
* Candidates, STUN and the choice of the address of a direct path: a model of the network in
  which some addresses work and others do not would say nothing of the code but that it
  tries them all.
* The wrap-around of 64-bit counters other than those of `SackRanges` and the tracker, which cannot
  be reached.

What would be worth adding: a composition of `RelayBridge` with `RelayHub` itself in place of what
the agents see of it; a proof that a timeout's preference for holes resends the oldest packet.
