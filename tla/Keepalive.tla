------------------------------ MODULE Keepalive ------------------------------
(***************************************************************************)
(* The housekeeping tick of bridge_stream_with_direct_channel on a channel *)
(* that carries no data: keepalives, their answers and the peer idle       *)
(* timeout (direct.rs).  DirectChannel lets that timeout fire at any time; *)
(* this module has a clock and says when it does.                          *)
(*                                                                         *)
(* Time runs in seconds, the period of the tick.  Within a second the      *)
(* ticks of the two ends and the arrivals come in any order, so two ticks  *)
(* of an end may be almost two seconds apart.                              *)
(***************************************************************************)
EXTENDS Integers, FiniteSets

CONSTANTS
    Ends,            \* the two ends of the channel
    IdleAfter,       \* DIRECT_TUNNEL_KEEPALIVE_IDLE_AFTER
    SendInterval,    \* DIRECT_TUNNEL_KEEPALIVE_SEND_INTERVAL
    PeerTimeout,     \* DIRECT_TUNNEL_PEER_IDLE_TIMEOUT
    MaxDelay,        \* bound: seconds a datagram that arrives is under way
    MaxLost          \* bound: datagrams lost between two arrivals at an end

ASSUME EndsAssumption == \E a, b \in Ends : a # b /\ Ends = {a, b}

ASSUME TimesAssumption ==
    /\ IdleAfter \in Nat /\ SendInterval \in Nat /\ PeerTimeout \in Nat \ {0}
    /\ MaxDelay \in Nat /\ MaxLost \in Nat

\* The first keepalive of a quiet spell is out after that many seconds of it.
FirstSend == IF IdleAfter > SendInterval THEN IdleAfter ELSE SendInterval

\* A keepalive is answered before the next one is due, and the timeout leaves
\* room for the one that follows MaxLost losses and for its answer.
ASSUME PatienceAssumption ==
    /\ 2 * MaxDelay < SendInterval
    /\ FirstSend + MaxLost * SendInterval + 2 * MaxDelay < PeerTimeout

Peer(e) == CHOOSE p \in Ends : p # e

VARIABLES
    bridge,       \* "up", "timedOut", or "gone" for any other end of it
    quiet,        \* seconds since last_peer_activity_at, up to PeerTimeout
    sinceSent,    \* seconds since last_keepalive_sent_at, up to SendInterval,
                  \* which also stands for None: in both cases one may be sent
    ticked,       \* the housekeeping tick of this second has run
    flight,       \* datagrams under way, with their age in seconds
    lost,         \* datagrams lost, either way, since the last arrival at an end
    goneFor       \* seconds since the bridge of an end returned

vars == <<bridge, quiet, sinceSent, ticked, flight, lost, goneFor>>

\* A second after the last one at which an end may still not have noticed
\* that its peer is gone: what was under way arrives, the timeout passes,
\* and the tick that sees it runs.
NoticeLimit == MaxDelay + PeerTimeout

Capped(n, limit) == IF n > limit THEN limit ELSE n

Init ==
    /\ bridge = [e \in Ends |-> "up"]
    /\ quiet = [e \in Ends |-> 0]
    /\ sinceSent = [e \in Ends |-> SendInterval]
    /\ ticked = [e \in Ends |-> TRUE]
    /\ flight = {}
    /\ lost = [e \in Ends |-> 0]
    /\ goneFor = [e \in Ends |-> 0]

Datagram(kind, to) == [kind |-> kind, to |-> to, age |-> 0]

TimedOut(e) == quiet[e] >= PeerTimeout

\* Mutant of MaySendKeepalive: a keepalive is sent once, not repeated.
MaySendKeepalive_Once(e) == quiet[e] = IdleAfter /\ sinceSent[e] >= SendInterval

\* direct_channel_should_send_keepalive, with nothing outstanding
MaySendKeepalive(e) == quiet[e] >= IdleAfter /\ sinceSent[e] >= SendInterval

\* Mutant of Housekeeping: a keepalive just sent counts as activity.
Housekeeping_SendIsActivity(e) ==
    /\ bridge[e] = "up" /\ ~ticked[e]
    /\ ticked' = [ticked EXCEPT ![e] = TRUE]
    /\ \/ /\ TimedOut(e)
          /\ bridge' = [bridge EXCEPT ![e] = "timedOut"]
          /\ UNCHANGED <<quiet, sinceSent, flight>>
       \/ /\ ~TimedOut(e) /\ MaySendKeepalive(e)
          /\ flight' = flight \cup {Datagram("keepalive", Peer(e))}
          /\ sinceSent' = [sinceSent EXCEPT ![e] = 0]
          /\ quiet' = [quiet EXCEPT ![e] = 0]
          /\ UNCHANGED bridge
       \/ /\ ~TimedOut(e) /\ ~MaySendKeepalive(e)
          /\ UNCHANGED <<bridge, quiet, sinceSent, flight>>
    /\ UNCHANGED <<lost, goneFor>>

Housekeeping(e) ==
    /\ bridge[e] = "up" /\ ~ticked[e]
    /\ ticked' = [ticked EXCEPT ![e] = TRUE]
    /\ \/ /\ TimedOut(e)
          /\ bridge' = [bridge EXCEPT ![e] = "timedOut"]
          /\ UNCHANGED <<sinceSent, flight>>
       \/ /\ ~TimedOut(e) /\ MaySendKeepalive(e)
          /\ flight' = flight \cup {Datagram("keepalive", Peer(e))}
          /\ sinceSent' = [sinceSent EXCEPT ![e] = 0]
          /\ UNCHANGED bridge
       \/ /\ ~TimedOut(e) /\ ~MaySendKeepalive(e)
          /\ UNCHANGED <<bridge, sinceSent, flight>>
    /\ UNCHANGED <<quiet, lost, goneFor>>

\* A datagram for a bridge that has returned has no route.
Arrive(m) ==
    /\ lost' = [lost EXCEPT ![m.to] = 0]
    /\ IF bridge[m.to] = "up"
       THEN /\ quiet' = [quiet EXCEPT ![m.to] = 0]
            /\ flight' = (flight \ {m}) \cup
                 (IF m.kind = "keepalive" THEN {Datagram("keepaliveAck", Peer(m.to))} ELSE {})
       ELSE quiet' = quiet /\ flight' = flight \ {m}
    /\ UNCHANGED <<bridge, sinceSent, ticked, goneFor>>

Lose(m) ==
    /\ \A e \in Ends : lost[e] < MaxLost
    /\ lost' = [e \in Ends |-> lost[e] + 1]
    /\ flight' = flight \ {m}
    /\ UNCHANGED <<bridge, quiet, sinceSent, ticked, goneFor>>

\* The bridge of an end returns for a reason of its own, or its process dies.
Return(e) ==
    /\ bridge[e] = "up"
    /\ bridge' = [bridge EXCEPT ![e] = "gone"]
    /\ UNCHANGED <<quiet, sinceSent, ticked, flight, lost, goneFor>>

Second ==
    /\ \A e \in Ends : bridge[e] = "up" => ticked[e]
    /\ \A m \in flight : m.age < MaxDelay
    /\ quiet' = [e \in Ends |-> Capped(quiet[e] + 1, PeerTimeout)]
    /\ sinceSent' = [e \in Ends |-> Capped(sinceSent[e] + 1, SendInterval)]
    /\ ticked' = [e \in Ends |-> bridge[e] # "up"]
    /\ flight' = {[m EXCEPT !.age = @ + 1] : m \in flight}
    /\ goneFor' = [e \in Ends |->
                     IF bridge[e] = "up" THEN 0 ELSE Capped(goneFor[e] + 1, NoticeLimit + 1)]
    /\ UNCHANGED <<bridge, lost>>

Next ==
    \/ \E e \in Ends : Housekeeping(e) \/ Return(e)
    \/ \E m \in flight : Arrive(m) \/ Lose(m)
    \/ Second

Spec == Init /\ [][Next]_vars

-----------------------------------------------------------------------------
(* Properties *)

\* A channel without traffic stays up: as long as at most MaxLost datagrams
\* are lost between two arrivals at an end, no end declares a live peer idle.
LivePeerNotTimedOut ==
    [][\A e \in Ends : bridge[e] = "up" /\ bridge'[e] = "timedOut" => bridge[Peer(e)] # "up"]_vars

\* An end notices in bounded time that its peer is gone, whatever keepalives
\* it sends meanwhile.
GonePeerNoticed ==
    \A e \in Ends : bridge[e] = "up" => goneFor[Peer(e)] <= NoticeLimit

\* The type of the clocks and of what is under way.
TypeOK ==
    /\ bridge \in [Ends -> {"up", "timedOut", "gone"}]
    /\ quiet \in [Ends -> 0..PeerTimeout]
    /\ sinceSent \in [Ends -> 0..SendInterval]
    /\ ticked \in [Ends -> BOOLEAN]
    /\ flight \in SUBSET [kind : {"keepalive", "keepaliveAck"}, to : Ends, age : 0..MaxDelay]
    /\ lost \in [Ends -> 0..MaxLost]
    /\ goneFor \in [Ends -> 0..(NoticeLimit + 1)]

\* Why a gone peer is noticed: what is still under way to an end was sent before
\* its peer went, so the end has been quiet since then but for MaxDelay, and the
\* tick of the second in which that reaches the timeout ends its bridge.
HearsNothingNew(e) ==
    bridge[e] = "up" =>
      /\ goneFor[e] = 0
      /\ \A m \in flight : m.to = e => m.age >= goneFor[Peer(e)]
      /\ goneFor[Peer(e)] <= quiet[e] + MaxDelay
      /\ ticked[e] => goneFor[Peer(e)] < NoticeLimit

\* The last keepalive of e, or the answer to it, is under way.
RoundTrip(e) ==
    \E m \in flight :
      \/ m.kind = "keepalive" /\ m.to = Peer(e) /\ m.age = sinceSent[e]
      \/ m.kind = "keepaliveAck" /\ m.to = e /\ sinceSent[e] \in m.age..(m.age + MaxDelay)

\* How quiet it can be at an end of a live channel: it has not sent a keepalive
\* since the last arrival, or all it sent but the last one were lost, or all.
NoneSent(e) ==
    /\ quiet[e] <= FirstSend
    /\ sinceSent[e] < SendInterval => quiet[e] <= sinceSent[e]
    /\ ticked[e] => quiet[e] < FirstSend

LastUnderWay(e) ==
    /\ RoundTrip(e)
    /\ quiet[e] >= IdleAfter
    /\ quiet[e] <= sinceSent[e] + FirstSend + lost[e] * SendInterval

AllLost(e) ==
    /\ quiet[e] >= IdleAfter
    /\ quiet[e] + SendInterval <= sinceSent[e] + FirstSend + lost[e] * SendInterval
    /\ ticked[e] => sinceSent[e] < SendInterval

QuietAccounted(e) ==
    bridge[e] = "up" /\ bridge[Peer(e)] = "up" =>
      NoneSent(e) \/ LastUnderWay(e) \/ AllLost(e)

\* The inductive invariant behind both properties.
KeepaliveInv ==
    /\ TypeOK
    /\ \A e \in Ends : HearsNothingNew(e) /\ QuietAccounted(e)
=============================================================================
