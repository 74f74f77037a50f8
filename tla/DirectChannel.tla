---------------------------- MODULE DirectChannel ----------------------------
(***************************************************************************)
(* One accepted channel of a direct UDP connection: the two copies of      *)
(* bridge_stream_with_direct_channel (direct.rs), one per device, each     *)
(* between a local TCP stream and the shared UDP path.                     *)
(*                                                                         *)
(* The path may lose, duplicate, delay and reorder datagrams: `net` is the *)
(* set of datagrams ever sent, a receive leaves its datagram there, and    *)
(* nothing forces a receive.  The mpsc queue between the connection's      *)
(* reader task and a bridge is part of that path: a datagram that arrives  *)
(* when the route is gone is a lost one.                                   *)
(*                                                                         *)
(* Time is left out: a retransmission timeout may hit any outstanding      *)
(* packet and the peer idle timeout may fire at any moment, which is what  *)
(* a path that delays or loses everything can cause.  The keepalives that  *)
(* make the idle timeout rare are in Keepalive.tla.                        *)
(***************************************************************************)
EXTENDS LossRecovery

CONSTANTS
    Initiator, Responder,    \* the two ends of the channel
    MaxChunks,               \* bound: chunks each end's TCP stream yields
    ReorderLimit,            \* DIRECT_TUNNEL_MAX_INBOUND_REORDER_BUFFER
    MaxSelectiveAcks,        \* DIRECT_TUNNEL_MAX_SELECTIVE_ACKS
    MaxAttempts              \* DIRECT_TUNNEL_MAX_RETRANSMIT_ATTEMPTS

Endpoints == {Initiator, Responder}

ASSUME EndpointAssumption == Initiator # Responder

ASSUME BoundAssumption ==
    /\ MaxChunks \in [Endpoints -> Nat]
    /\ ReorderLimit \in Nat \ {0}
    /\ MaxSelectiveAcks \in Nat \ {0}
    /\ MaxAttempts \in Nat \ {0}

Peer(e) == IF e = Initiator THEN Responder ELSE Initiator

VARIABLES
    status,       \* how the bridge of an end stands, see Status
    routed,       \* the connection still has a route for the channel
    connected,    \* the connection's reader task still runs
    readClosed,   \* local_read_closed: the local TCP stream gave EOF
    nextOut,      \* next_outbound_sequence
    sealed,       \* SecureSender.counter
    pending,      \* pending_data: outstanding sequence -> nonce and attempts
    board,        \* selective_scoreboard
    tracker,      \* ack_tracker
    cong,         \* congestion
    close,        \* pending_close
    expected,     \* expected_inbound_sequence
    opened,       \* SecureReceiver.counter: chunks written to the local TCP
    reorder,      \* pending_inbound: sequence -> nonce of the payload
    ready,        \* ready_payloads not yet written: sequence -> nonce
    net           \* every datagram sent so far

senderVars == <<nextOut, sealed, pending, board, tracker, cong>>
receiverVars == <<expected, opened, reorder, ready>>
linkVars == <<status, routed, connected>>
vars == <<linkVars, readClosed, senderVars, close, receiverVars, net>>

\* "ackedClose", "peerClose" and "cut" are the three ways the code returns
\* Ok(()): on ChannelCloseAck, on the peer's ChannelClose, and on the
\* ChannelClose that clear_all_direct_channels makes up.  "corrupt" is a
\* decryption failure and "failed" every other Err.
Status == {"open", "ackedClose", "peerClose", "cut", "corrupt", "failed"}

NoClose == [final |-> NoSeq, attempts |-> 0]

Data(e, s, p) == [kind |-> "data", from |-> e, seq |-> s, nonce |-> p]
Ack(e, n, S) == [kind |-> "ack", from |-> e, next |-> n, sack |-> S]
Close(e, f) == [kind |-> "close", from |-> e, final |-> f]
CloseAck(e, f) == [kind |-> "closeAck", from |-> e, final |-> f]

Outstanding(e) == DOMAIN pending[e]
Buffered(e) == DOMAIN reorder[e]
Unwritten(e) == DOMAIN ready[e]
EmptyMap == [s \in {} |-> 0]
Put(f, k, v) == [s \in DOMAIN f \cup {k} |-> IF s = k THEN v ELSE f[s]]
Keep(f, S) == [s \in S |-> f[s]]
Resent(p) == [nonce |-> p.nonce, attempts |-> p.attempts + 1]

Init ==
    /\ status = [e \in Endpoints |-> "open"]
    /\ routed = [e \in Endpoints |-> TRUE]
    /\ connected = [e \in Endpoints |-> TRUE]
    /\ readClosed = [e \in Endpoints |-> FALSE]
    /\ nextOut = [e \in Endpoints |-> 0]
    /\ sealed = [e \in Endpoints |-> 0]
    /\ pending = [e \in Endpoints |-> EmptyMap]
    /\ board = [e \in Endpoints |-> {}]
    /\ tracker = [e \in Endpoints |-> InitTracker]
    /\ cong = [e \in Endpoints |-> InitCongestion]
    /\ close = [e \in Endpoints |-> NoClose]
    /\ expected = [e \in Endpoints |-> 0]
    /\ opened = [e \in Endpoints |-> 0]
    /\ reorder = [e \in Endpoints |-> EmptyMap]
    /\ ready = [e \in Endpoints |-> EmptyMap]
    /\ net = {}

-----------------------------------------------------------------------------

(* How a bridge ends *)

Open(e) == status[e] = "open"

\* The bridge waits in its select.  While it writes what it released to the
\* local stream, inside one of the arms, none of its other arms is polled:
\* it takes no envelope, and neither of its timers runs.
Selects(e) == Open(e) /\ Unwritten(e) = {}

\* A break out of the select loop: the channel is unregistered.
Leave(e, how) ==
    /\ status' = [status EXCEPT ![e] = how]
    /\ routed' = [routed EXCEPT ![e] = FALSE]
    /\ UNCHANGED connected

\* A `?` inside the loop returns at once: the route stays behind.
Abort(e, how) ==
    /\ status' = [status EXCEPT ![e] = how]
    /\ UNCHANGED <<routed, connected>>

-----------------------------------------------------------------------------
(* The local TCP stream and the retransmit tick *)

\* maybe_start_pending_direct_close
CloseDue(e, outstanding, eof) == close[e] = NoClose /\ outstanding = {} /\ eof

StartCloseIf(due, e, sends) ==
    /\ close' = [close EXCEPT ![e] =
                    IF due THEN [final |-> nextOut[e], attempts |-> 1] ELSE @]
    /\ net' = net \cup sends \cup (IF due THEN {Close(e, nextOut[e])} ELSE {})

MayRead(e) ==
    /\ Selects(e) /\ ~readClosed[e] /\ close[e] = NoClose
    /\ Cardinality(Outstanding(e)) < SendWindow(cong[e])

ReadChunk(e) ==
    /\ MayRead(e)
    /\ nextOut[e] < MaxChunks[e]
    /\ nextOut' = [nextOut EXCEPT ![e] = @ + 1]
    /\ sealed' = [sealed EXCEPT ![e] = @ + 1]
    /\ pending' = [pending EXCEPT ![e] =
                     Put(@, nextOut[e], [nonce |-> sealed[e], attempts |-> 1])]
    /\ net' = net \cup {Data(e, nextOut[e], sealed[e])}
    /\ UNCHANGED <<linkVars, readClosed, board, tracker, cong, close, receiverVars>>

ReadEof(e) ==
    /\ MayRead(e)
    /\ readClosed' = [readClosed EXCEPT ![e] = TRUE]
    /\ UNCHANGED <<linkVars, senderVars, receiverVars>>
    /\ StartCloseIf(CloseDue(e, Outstanding(e), TRUE), e, {})

\* The tick resends the oldest packet whose timeout has passed, a hole first.
\* Holes are a prefix of the queue, so that is the oldest one timed out, and
\* as every packet has its own last_sent_at it may be any one.
RetransmitData(e, s) ==
    /\ Selects(e) /\ s \in Outstanding(e)
    /\ \/ /\ pending[e][s].attempts < MaxAttempts
          /\ pending' = [pending EXCEPT ![e][s] = Resent(@)]
          /\ net' = net \cup {Data(e, s, pending[e][s].nonce)}
          /\ cong' = [cong EXCEPT ![e] = OnTimeout(Cardinality(Outstanding(e)))]
          /\ UNCHANGED linkVars
       \/ /\ pending[e][s].attempts >= MaxAttempts
          /\ Abort(e, "failed")
          /\ UNCHANGED <<pending, net, cong>>
    /\ UNCHANGED <<readClosed, nextOut, sealed, board, tracker, close, receiverVars>>

\* Mutant of RetransmitClose: the attempts of a close are not counted.
RetransmitClose_Uncounted(e) ==
    /\ Selects(e) /\ close[e] # NoClose
    /\ net' = net \cup {Close(e, close[e].final)}
    /\ UNCHANGED <<linkVars, readClosed, senderVars, close, receiverVars>>

\* The same tick resends a close in flight; CloseAfterData says that no data
\* is outstanding then, so one tick never does both.
RetransmitClose(e) ==
    /\ Selects(e) /\ close[e] # NoClose
    /\ \/ /\ close[e].attempts < MaxAttempts
          /\ close' = [close EXCEPT ![e] = [final |-> @.final, attempts |-> @.attempts + 1]]
          /\ net' = net \cup {Close(e, close[e].final)}
          /\ UNCHANGED linkVars
       \/ /\ close[e].attempts >= MaxAttempts
          /\ Abort(e, "failed")
          /\ UNCHANGED <<close, net>>
    /\ UNCHANGED <<readClosed, senderVars, receiverVars>>

RetransmitTick(e) == (\E s \in Outstanding(e) : RetransmitData(e, s)) \/ RetransmitClose(e)

-----------------------------------------------------------------------------
(* Datagrams from the peer *)

Receives(e, m, kind) ==
    /\ Selects(e) /\ routed[e]
    /\ m.kind = kind /\ m.from = Peer(e)

\* The lowest MaxSelectiveAcks runs of the reorder buffer.
SelectiveAck(S) ==
    {s \in S : Cardinality({r \in S : r <= s /\ r - 1 \notin S}) <= MaxSelectiveAcks}

\* queue_inbound_direct_payload drops what is old, too far ahead, or new
\* when the buffer is full.
Unwanted(e, s) ==
    \/ s < expected[e]
    \/ s > expected[e] + ReorderLimit
    \/ /\ s # expected[e] /\ s \notin Buffered(e)
       /\ Cardinality(Buffered(e)) >= ReorderLimit

SendAck(e) == net' = net \cup {Ack(e, expected'[e], SelectiveAck(DOMAIN reorder'[e]))}

DropData(e, m) ==
    /\ Unwanted(e, m.seq)
    /\ UNCHANGED <<linkVars, receiverVars>>
    /\ SendAck(e)

BufferData(e, m) ==
    /\ ~Unwanted(e, m.seq) /\ m.seq # expected[e]
    /\ reorder' = [reorder EXCEPT ![e] =
                     IF m.seq \in Buffered(e) THEN @ ELSE Put(@, m.seq, m.nonce)]
    /\ UNCHANGED <<linkVars, expected, opened, ready>>
    /\ SendAck(e)

\* Mutant of ReleaseData: the run behind the packet is counted, not written.
ReleaseData_FirstOnly(e, m, next) ==
    /\ m.seq = expected[e]
    /\ (m.seq + 1)..(next - 1) \subseteq Buffered(e)
    /\ next \notin Buffered(e)
    /\ expected' = [expected EXCEPT ![e] = next]
    /\ reorder' = [reorder EXCEPT ![e] = Keep(@, Buffered(e) \ (m.seq..(next - 1)))]
    /\ ready' = [ready EXCEPT ![e] = Put(EmptyMap, m.seq, m.nonce)]
    /\ UNCHANGED <<linkVars, opened, net>>

\* The packet in turn and the run behind it are taken out of the buffer, to
\* be decrypted and written to the local stream one by one.
ReleaseData(e, m, next) ==
    LET run == m.seq..(next - 1)
    IN  /\ m.seq = expected[e]
        /\ run \subseteq Buffered(e) \cup {m.seq}
        /\ next \notin Buffered(e)
        /\ expected' = [expected EXCEPT ![e] = next]
        /\ reorder' = [reorder EXCEPT ![e] = Keep(@, Buffered(e) \ run)]
        /\ ready' = [ready EXCEPT ![e] =
                       [s \in run |-> IF s = m.seq THEN m.nonce ELSE reorder[e][s]]]
        /\ UNCHANGED <<linkVars, opened, net>>

\* The next payload of the run.  write_all waits for the local stream as long
\* as it takes, so this step may be put off for ever; a write that fails is a
\* LocalFailure.  The ack goes out when the whole run is written.
WriteReady(e) ==
    \E s \in Unwritten(e) :
      /\ Open(e) /\ \A r \in Unwritten(e) : s <= r
      /\ UNCHANGED <<readClosed, senderVars, close, expected, reorder>>
      /\ \/ /\ ready[e][s] = opened[e]
            /\ opened' = [opened EXCEPT ![e] = @ + 1]
            /\ ready' = [ready EXCEPT ![e] = Keep(@, Unwritten(e) \ {s})]
            /\ IF Unwritten(e) = {s} THEN SendAck(e) ELSE UNCHANGED net
            /\ UNCHANGED linkVars
         \/ /\ ready[e][s] # opened[e]
            /\ Abort(e, "corrupt")
            /\ UNCHANGED <<opened, ready, net>>

ReceiveData(e, m) ==
    /\ Receives(e, m, "data")
    /\ \/ DropData(e, m)
       \/ BufferData(e, m)
       \/ \E next \in (m.seq + 1)..(m.seq + ReorderLimit + 1) : ReleaseData(e, m, next)
    /\ UNCHANGED <<readClosed, senderVars, close>>

ReceiveAck(e, m, growth) ==
    LET left == StillOutstanding(Outstanding(e), board[e], m.next, m.sack)
        result == HandleAck(Outstanding(e), board[e], tracker[e], cong[e],
                            m.next, m.sack, growth)
        again == left \cap {result.resend}
        spent == \E s \in again : pending[e][s].attempts >= MaxAttempts
        kept == [s \in left |-> IF s \in again THEN Resent(pending[e][s]) ELSE pending[e][s]]
    IN  /\ Receives(e, m, "ack")
        /\ board' = [board EXCEPT ![e] = Observe(@, m.next, m.sack)]
        /\ tracker' = [tracker EXCEPT ![e] = result.tracker]
        /\ cong' = [cong EXCEPT ![e] = result.cong]
        /\ UNCHANGED <<readClosed, nextOut, sealed, receiverVars>>
        /\ \/ /\ ~spent
              /\ pending' = [pending EXCEPT ![e] = kept]
              /\ StartCloseIf(CloseDue(e, left, readClosed[e]), e,
                              {Data(e, s, pending[e][s].nonce) : s \in again})
              /\ UNCHANGED linkVars
           \/ /\ spent
              /\ pending' = [pending EXCEPT ![e] = Keep(@, left)]
              /\ Abort(e, "failed")
              /\ UNCHANGED <<close, net>>

\* A close that overtakes its data is only acked with what is expected.  The
\* shutdown of the local stream may fail when the close-ack is out already.
ReceiveClose(e, m) ==
    /\ Receives(e, m, "close")
    /\ UNCHANGED <<readClosed, senderVars, close, receiverVars>>
    /\ IF m.final > expected[e]
       THEN UNCHANGED linkVars /\ SendAck(e)
       ELSE /\ Leave(e, "peerClose") \/ Abort(e, "failed")
            /\ net' = net \cup {CloseAck(e, m.final)}

\* Mutant of ReceiveCloseAck: any close-ack ends the bridge.
ReceiveCloseAck_Any(e, m) ==
    /\ Receives(e, m, "closeAck")
    /\ Leave(e, "ackedClose")
    /\ UNCHANGED <<readClosed, senderVars, close, receiverVars, net>>

\* ChannelCloseAck is terminal: the route goes when it arrives, whether or
\* not the bridge takes it for the answer to its own close.
ReceiveCloseAck(e, m) ==
    /\ Receives(e, m, "closeAck")
    /\ IF close[e] # NoClose /\ m.final >= close[e].final
       THEN Leave(e, "ackedClose")
       ELSE /\ routed' = [routed EXCEPT ![e] = FALSE]
            /\ UNCHANGED <<status, connected>>
    /\ UNCHANGED <<readClosed, senderVars, close, receiverVars, net>>

-----------------------------------------------------------------------------
(* The connection and the clock *)

bridgeVars == <<readClosed, senderVars, close, receiverVars>>

\* The reader task of the connection ends (the UDP socket or the hub session
\* is gone): clear_all_direct_channels takes the route and queues a
\* ChannelClose with final_sequence 0 for the bridge.
ConnectionLost(e) ==
    /\ Open(e) /\ routed[e] /\ connected[e]
    /\ connected' = [connected EXCEPT ![e] = FALSE]
    /\ routed' = [routed EXCEPT ![e] = FALSE]
    /\ UNCHANGED <<status, bridgeVars, net>>

\* The bridge takes that close like one of the peer's: 0 is never ahead of
\* what is expected.  The writer task may still send the ack.
CutOff(e) ==
    /\ Selects(e) /\ ~connected[e]
    /\ Leave(e, "cut")
    /\ net' = net \cup {CloseAck(e, 0)}
    /\ UNCHANGED bridgeVars

\* Without a route the queue is closed once it is empty: recv gives None.
RouteGone(e) ==
    /\ Selects(e) /\ ~routed[e] /\ connected[e]
    /\ Leave(e, "failed")
    /\ UNCHANGED <<bridgeVars, net>>

\* A read or write error of the local TCP stream, a shutdown error after a
\* close-ack or a made-up close, or a send after the writer task has stopped.
LocalFailure(e) ==
    /\ Open(e)
    /\ Abort(e, "failed")
    /\ UNCHANGED <<bridgeVars, net>>

\* The housekeeping tick finds that the peer was silent for too long.
PeerIdleTimeout(e) ==
    /\ Selects(e)
    /\ Leave(e, "failed")
    /\ UNCHANGED <<bridgeVars, net>>

Receive(e, m) ==
    \/ ReceiveData(e, m)
    \/ \E growth \in 0..Cardinality(Outstanding(e)) : ReceiveAck(e, m, growth)
    \/ ReceiveClose(e, m)
    \/ ReceiveCloseAck(e, m)

\* Both bridges have returned: nothing is left to happen.
Finished == (\A e \in Endpoints : ~Open(e)) /\ UNCHANGED vars

Next ==
    \/ \E e \in Endpoints :
         \/ ReadChunk(e) \/ ReadEof(e) \/ RetransmitTick(e)
         \/ \E m \in net : Receive(e, m)
         \/ WriteReady(e)
         \/ ConnectionLost(e) \/ CutOff(e) \/ RouteGone(e)
         \/ LocalFailure(e) \/ PeerIdleTimeout(e)
    \/ Finished

Spec == Init /\ [][Next]_vars

\* The tick is a timer of a running task and the two queue events are local,
\* so each happens if it stays possible, which it does not while the bridge
\* is inside a write.  Nothing is assumed of the path, no datagram need
\* arrive, nor of the local streams, which need not take what is written.
Fairness ==
    \A e \in Endpoints :
      /\ WF_vars(RetransmitTick(e))
      /\ WF_vars(CutOff(e))
      /\ WF_vars(RouteGone(e))

FairSpec == Spec /\ Fairness

-----------------------------------------------------------------------------
(* Properties *)

NoncesAndAttempts == [nonce : Nat, attempts : 1..MaxAttempts]

Datagram ==
    [kind : {"data"}, from : Endpoints, seq : Nat, nonce : Nat]
      \cup [kind : {"ack"}, from : Endpoints, next : Nat, sack : SUBSET Nat]
      \cup [kind : {"close", "closeAck"}, from : Endpoints, final : Nat]

\* A function of the ends, whatever it maps them to.
PerEnd(f) == f = [e \in Endpoints |-> f[e]]

\* The type of the bridge's locals and of what is on the path.
TypeOK ==
    /\ status \in [Endpoints -> Status]
    /\ routed \in [Endpoints -> BOOLEAN]
    /\ connected \in [Endpoints -> BOOLEAN]
    /\ readClosed \in [Endpoints -> BOOLEAN]
    /\ nextOut \in [Endpoints -> Nat]
    /\ sealed \in [Endpoints -> Nat]
    /\ PerEnd(pending) /\ PerEnd(reorder) /\ PerEnd(ready)
    /\ \A e \in Endpoints :
         /\ Outstanding(e) \subseteq Nat
         /\ pending[e] \in [Outstanding(e) -> NoncesAndAttempts]
         /\ Buffered(e) \subseteq Nat
         /\ reorder[e] \in [Buffered(e) -> Nat]
         /\ Unwritten(e) \subseteq Nat
         /\ ready[e] \in [Unwritten(e) -> Nat]
    /\ board \in [Endpoints -> SUBSET Nat]
    /\ tracker \in [Endpoints -> AckTracker]
    /\ cong \in [Endpoints -> Congestion]
    /\ close \in [Endpoints -> [final : SeqOption, attempts : 0..MaxAttempts]]
    /\ expected \in [Endpoints -> Nat]
    /\ opened \in [Endpoints -> Nat]
    /\ \A m \in net : m \in Datagram

\* The bridge of e has taken chunk s over from its peer.
Holds(e, s) == s < expected[e] \/ s \in Buffered(e)

\* A chunk the sender has dropped from pending_data, cumulatively or
\* selectively acked, is one the receiver still holds: whatever was acked
\* out of order is never reneged on, so nothing is lost for good.
NothingForgotten ==
    \A e \in Endpoints : \A s \in 0..(nextOut[e] - 1) :
      s \in Outstanding(e) \/ Holds(Peer(e), s)

\* A close in flight says that everything read from the local stream has
\* been released in turn by the peer's bridge: the final_sequence > expected branch of the
\* peer is never needed, even when every outstanding chunk was acked
\* selectively and out of order.
CloseAfterData ==
    \A e \in Endpoints : close[e] # NoClose =>
      /\ Outstanding(e) = {} /\ readClosed[e]
      /\ close[e].final = nextOut[e]
      /\ expected[Peer(e)] = nextOut[e]

\* Chunks are decrypted in exactly the order they were sealed: loss,
\* duplication and reordering never make the AEAD counters part.
NeverCorrupt == \A e \in Endpoints : status[e] # "corrupt"

\* A bridge that returns Ok on the peer's ack knows that its whole stream
\* was written to the peer's local TCP and that the peer's bridge is over.
AckedCloseMeansDelivered ==
    \A e \in Endpoints : status[e] = "ackedClose" =>
      opened[Peer(e)] = sealed[e] /\ ~Open(Peer(e))

\* A bridge that returns Ok on the peer's close has written the peer's whole
\* stream to its local TCP.
PeerCloseMeansReceived ==
    \A e \in Endpoints : status[e] = "peerClose" =>
      readClosed[Peer(e)] /\ opened[e] = sealed[Peer(e)]

\* Fast recovery ends by itself: while it lasts a packet below its end is
\* still outstanding, so an ack that ends it is still to come.  Otherwise
\* every further duplicate ack would inflate the window for nothing.
RecoveryHasWork ==
    \A e \in Endpoints : Open(e) /\ cong[e].recoverUntil # NoSeq =>
      \E s \in Outstanding(e) : s < cong[e].recoverUntil

\* The reorder buffer holds only the ReorderLimit sequence numbers after the
\* expected one, so the check that it is full never drops a wanted packet.
ReorderWindow ==
    \A e \in Endpoints : Buffered(e) \subseteq (expected[e] + 1)..(expected[e] + ReorderLimit)

\* The sender's counters agree, and its scoreboard lists only what the peer
\* holds.
SenderInv(e) ==
    /\ sealed[e] = nextOut[e]
    /\ \A s \in Outstanding(e) : s < nextOut[e] /\ pending[e][s].nonce = s
    /\ \A s \in board[e] : Holds(Peer(e), s)

\* The receiver's counters differ by what it is still to write, and all it
\* holds was sent.
ReceiverInv(e) ==
    /\ opened[e] <= expected[e]
    /\ Open(e) => Unwritten(e) = opened[e]..(expected[e] - 1)
    /\ \A s \in Unwritten(e) : ready[e][s] = s
    /\ expected[e] <= nextOut[Peer(e)]
    /\ \A s \in Buffered(e) : s < nextOut[Peer(e)] /\ reorder[e][s] = s

\* What a datagram says stays true however late it arrives.
Truthful(m) ==
    /\ m.kind = "data" => m.seq < nextOut[m.from] /\ m.nonce = m.seq
    /\ m.kind = "ack" =>
         m.next <= expected[m.from] /\ \A s \in m.sack : Holds(m.from, s)
    /\ m.kind = "close" => close[m.from] # NoClose /\ m.final = close[m.from].final
    /\ m.kind = "closeAck" => m.final <= opened[m.from] /\ ~Open(m.from)

\* The inductive invariant behind the safety properties: an ack, a close or
\* a close-ack that is still under way never claims more than its sender
\* holds by now, so acting on it late, twice or out of order is harmless.
BridgeInv ==
    /\ TypeOK
    /\ \A e \in Endpoints : SenderInv(e) /\ ReceiverInv(e)
    /\ \A m \in net : Truthful(m)
    /\ NothingForgotten
    /\ CloseAfterData
    /\ ReorderWindow
    /\ NeverCorrupt
    /\ AckedCloseMeansDelivered
    /\ PeerCloseMeansReceived

\* What RecoveryHasWork rests on.  What an end acks as received is never the
\* sequence number that it expects in a later ack, or in one that says as much.
AcksFrom(e) == {m \in net : m.kind = "ack" /\ m.from = e}

AcksAgree(e) ==
    \A m \in AcksFrom(e) : \A later \in AcksFrom(e) :
      m.next <= later.next => later.next \notin m.sack

\* n is the highest sequence number the peer was heard to expect.  It has not
\* been acked in any way, all before it is settled, and all after it is either
\* outstanding or on the scoreboard; a recovery ends beyond it.
Front(e, n) ==
    /\ n \in Outstanding(e) \cup {nextOut[e]}
    /\ \A s \in Outstanding(e) : n <= s
    /\ \A s \in n..(nextOut[e] - 1) : s \in Outstanding(e) \cup board[e]
    /\ n = 0 \/ \E m \in AcksFrom(Peer(e)) : m.next = n
    /\ \A s \in board[e] : \E m \in AcksFrom(Peer(e)) : m.next <= n /\ s \in m.sack
    /\ cong[e].recoverUntil # NoSeq => cong[e].recoverUntil \in (n + 1)..nextOut[e]

RecoveryInv ==
    \A e \in Endpoints : AcksAgree(e) /\ \E n \in 0..nextOut[e] : Front(e, n)

\* The channel is a reliable stream: every step of the two bridges is a step
\* of ReliableStream or none.  A bridge cut off by its own connection returns
\* Ok like a clean one, but only the other two Ok results promise anything.
Outcome(how) ==
    IF how = "open" THEN "running"
    ELSE IF how \in {"ackedClose", "peerClose"} THEN "clean"
    ELSE "broken"

Stream == INSTANCE ReliableStream WITH
    Ends <- Endpoints, Other <- Peer,
    sent <- sealed, eof <- readClosed, received <- opened,
    outcome <- [e \in Endpoints |-> Outcome(status[e])]

ImplementsStream == Stream!Spec

\* The bridge is inside a write to its local stream.
Writing(e) == Open(e) /\ Unwritten(e) # {}

\* After the end of the local stream the bridge returns, whatever the path
\* does: either all is acked, or an attempt count runs out.  The one exception
\* is a bridge that stays inside a write for good, as its local application
\* has stopped reading: no timer of the bridge ends that.
EofLeadsToEnd == \A e \in Endpoints : (readClosed[e] ~> ~Open(e)) \/ <>[]Writing(e)
=============================================================================
