------------------------------ MODULE RelayHub ------------------------------
(***************************************************************************)
(* The relay hub of the server (relay.rs) and the socket task of every     *)
(* websocket connection to it (handle_relay_socket in routes.rs).          *)
(*                                                                         *)
(* All state of the hub is behind one mutex.  A socket task handles one    *)
(* envelope after the other; it takes the mutex for a moment, looks up the *)
(* mpsc senders of the connections it has to tell, releases the mutex and  *)
(* only then sends.  Every critical section is one action, and every send  *)
(* that follows it is another, so that other tasks run in between.         *)
(*                                                                         *)
(* The clients are any clients that pick a fresh id for every channel they *)
(* open and speak only of channels they opened or were offered.  Their     *)
(* websockets may break at any moment, for reading and for writing         *)
(* separately.  The database answers as it likes: its checks are           *)
(* ControlPlane's matter.  Keepalives and envelopes the hub ignores change *)
(* nothing and are left out.                                               *)
(***************************************************************************)
EXTENDS Integers, FiniteSets, Sequences

CONSTANTS
    Connections,   \* connection ids, each used for one websocket
    Devices,
    DeviceOf,      \* the device whose session a connection presents
    SupportOf,     \* what its websocket URL says of incoming channels
    Wants,         \* the devices a connection's client opens channels to
    ChannelIds,
    NoConnection,  \* None of Option<connection id>
    MaxData,       \* bound: data envelopes per end and channel
    MaxBroken,     \* bound: sockets broken for writing but not for reading
    MaxResets      \* bound: administrative resets

\* IncomingChannelSupport::from_query: service, forwarder, or an old client.
Support == {"ExplicitYes", "ExplicitNo", "LegacyUnknown"}

ASSUME HubAssumption ==
    /\ DeviceOf \in [Connections -> Devices]
    /\ SupportOf \in [Connections -> Support]
    /\ NoConnection \notin Connections
    /\ Wants \in [Connections -> SUBSET Devices]
    /\ MaxData \in Nat /\ MaxBroken \in Nat /\ MaxResets \in Nat

Kinds == {"incoming", "accepted", "rejected", "data", "close"}
Terminal == {"rejected", "close"}

VARIABLES
    connections,   \* device_connections: registered connection -> entry
    nextSequence,  \* next_connection_sequence
    preferred,     \* preferred_legacy_incoming_by_device
    channels,      \* channels: open channel id -> its two connections
    closed,        \* connections whose mpsc receiver was dropped
    task,          \* where each connection's socket task stands
    opening,       \* socket tasks inside handle_open_channel -> their call
    unsent,        \* envelopes a socket task has still to send
    outbox,        \* what was sent to a connection, per channel
    opener,        \* history: the connection that opened a channel
    finished,      \* history: channels a connection has ended itself
    reoffered,     \* history: channels withdrawn from a connection that died
    resets         \* history: resets so far

hubVars == <<connections, nextSequence, preferred, channels>>
history == <<opener, finished, reoffered, resets>>
vars == <<hubVars, closed, task, opening, unsent, outbox, history>>

----------------------------------------------------------------------------
(* The tables of the hub. *)

Entry == [support : Support, sequence : Nat, originated : BOOLEAN]
Channel == [source : Connections, target : Connections, accepted : BOOLEAN]
Envelope == [to : Connections, channel : ChannelIds, kind : Kinds \ {"incoming"}]
Call == [channel : ChannelIds, owner : Devices, checked : BOOLEAN,
         target : Connections \union {NoConnection}]
Phase == {"absent", "serving", "leaving", "gone"}

Without(f, x) == [y \in DOMAIN f \ {x} |-> f[y]]

Of(table, d) == {k \in DOMAIN table : DeviceOf[k] = d}

Newest(table, S) == CHOOSE k \in S : \A j \in S : table[j].sequence =< table[k].sequence

\* is_eligible_legacy_incoming_connection
Eligible(table, k) ==
    /\ table[k].support = "LegacyUnknown"
    /\ ~table[k].originated
    /\ k \notin closed

\* maybe_promote_newer_legacy_connection, for a preference just withdrawn.
Successor(table, d, sequence) ==
    LET newer == {k \in Of(table, d) : Eligible(table, k) /\ table[k].sequence > sequence}
    IN  IF newer = {} THEN NoConnection ELSE Newest(table, newer)

\* refresh_preferred_legacy_connection
Refreshed(table, d) ==
    LET p == preferred[d]
    IN  IF p = NoConnection \/ p \notin Of(table, d) THEN NoConnection
        ELSE IF Eligible(table, p) THEN p
        ELSE Successor(table, d, table[p].sequence)

\* The preference for a device after remove_connection_entry.
PreferredWithout(k) ==
    LET d == DeviceOf[k]
        rest == Without(connections, k)
    IN  IF Of(rest, d) = {} THEN NoConnection
        ELSE IF preferred[d] # k THEN preferred[d]
        ELSE IF k \in DOMAIN connections THEN Successor(rest, d, connections[k].sequence)
        ELSE NoConnection

RemoveEntry(k) ==
    /\ connections' = Without(connections, k)
    /\ preferred' = [preferred EXCEPT ![DeviceOf[k]] = PreferredWithout(k)]

----------------------------------------------------------------------------
(* Socket tasks. *)

\* Between two envelopes.
Idle(k) == task[k] = "serving" /\ k \notin DOMAIN opening /\ unsent[k] = {}

To(k, c, kind) == [to |-> k, channel |-> c, kind |-> kind]

\* What task k sends after unlocking: only registered connections are found.
Posts(k, S) == unsent' = [unsent EXCEPT ![k] = {m \in S : m.to \in DOMAIN connections}]

Arrives(m) ==
    outbox' = IF m.to \in closed THEN outbox
              ELSE [outbox EXCEPT ![m.to][m.channel] = Append(@, m.kind)]

Told(k, c, kind) == \E i \in DOMAIN outbox[k][c] : outbox[k][c][i] = kind
Knows(k, c) == opener[c] = k \/ Told(k, c, "incoming")

Ends(c) == {channels[c].source, channels[c].target}
Lost_AsSource(k) == {c \in DOMAIN channels : channels[c].source = k}
\* The channels that end with a connection.
Lost(k) == {c \in DOMAIN channels : k \in Ends(c)}

PeerOf_Itself(c, k) == IF channels[c].target = k THEN channels[c].target ELSE channels[c].source
\* The code tests the source first, so a connection may be its own peer.
PeerOf(c, k) == IF channels[c].source = k THEN channels[c].target ELSE channels[c].source

Init ==
    /\ connections = [k \in {} |-> {}]
    /\ nextSequence = 0
    /\ preferred = [d \in Devices |-> NoConnection]
    /\ channels = [c \in {} |-> {}]
    /\ closed = {}
    /\ task = [k \in Connections |-> "absent"]
    /\ opening = [k \in {} |-> {}]
    /\ unsent = [k \in Connections |-> {}]
    /\ outbox = [k \in Connections |-> [c \in ChannelIds |-> <<>>]]
    /\ opener = [c \in ChannelIds |-> NoConnection]
    /\ finished = [k \in Connections |-> {}]
    /\ reoffered = {}
    /\ resets = 0

\* register_device, with maybe_assign_preferred_legacy_connection.
PreferredAfterRegister(table, k) ==
    LET kept == Refreshed(table, DeviceOf[k]) IN
    IF kept = NoConnection /\ SupportOf[k] = "LegacyUnknown" THEN k ELSE kept

Register(k) ==
    LET entry == [support |-> SupportOf[k], sequence |-> nextSequence, originated |-> FALSE]
        table == [j \in DOMAIN connections \union {k} |->
                    IF j = k THEN entry ELSE connections[j]]
    IN  /\ task[k] = "absent"
        /\ task' = [task EXCEPT ![k] = "serving"]
        /\ connections' = table
        /\ nextSequence' = nextSequence + 1
        /\ preferred' = [preferred EXCEPT ![DeviceOf[k]] = PreferredAfterRegister(table, k)]
        /\ UNCHANGED <<channels, closed, opening, unsent, outbox, history>>

\* The writer task of a socket ends on a write error and drops the receiver.
WriterDies(k) ==
    /\ task[k] \in {"serving", "leaving"} /\ k \notin closed
    /\ Cardinality({j \in closed : task[j] = "serving"}) < MaxBroken
    /\ closed' = closed \union {k}
    /\ UNCHANGED <<hubVars, task, opening, unsent, outbox, history>>

\* The reader of a socket ends: disconnect_device up to its sends.
Disconnect(k) ==
    /\ Idle(k)
    /\ task' = [task EXCEPT ![k] = "leaving"]
    /\ RemoveEntry(k)
    /\ channels' = [c \in DOMAIN channels \ Lost(k) |-> channels[c]]
    /\ unsent' = [unsent EXCEPT ![k] =
           {To(PeerOf(c, k), c, "close") :
               c \in {x \in Lost(k) : PeerOf(x, k) \in DOMAIN connections \ {k}}}]
    /\ UNCHANGED <<nextSequence, closed, opening, outbox, history>>

\* writer.abort after disconnect_device.
Leave(k) ==
    /\ task[k] = "leaving" /\ unsent[k] = {}
    /\ task' = [task EXCEPT ![k] = "gone"]
    /\ closed' = closed \union {k}
    /\ UNCHANGED <<hubVars, opening, unsent, outbox, history>>

\* A task sends one of the envelopes it prepared under the lock.
SendOne(k) ==
    \E m \in unsent[k] :
        /\ unsent' = [unsent EXCEPT ![k] = @ \ {m}]
        /\ Arrives(m)
        /\ UNCHANGED <<hubVars, closed, task, opening, history>>

\* RelayHub::reset, by the administrator's clear_devices.
Reset ==
    /\ resets < MaxResets
    /\ resets' = resets + 1
    /\ connections' = [k \in {} |-> {}]
    /\ channels' = [c \in {} |-> {}]
    /\ preferred' = [d \in Devices |-> NoConnection]
    /\ UNCHANGED <<nextSequence, closed, task, opening, unsent, outbox, opener, finished,
                   reoffered>>

----------------------------------------------------------------------------
(* OpenChannel. *)

PreferredAfterOpen_Kept(table, k) == preferred[DeviceOf[k]]
\* The preference after note_connection_opened_channel.
PreferredAfterOpen(table, k) ==
    IF k \in DOMAIN connections /\ preferred[DeviceOf[k]] = k
    THEN Successor(table, DeviceOf[k], connections[k].sequence)
    ELSE preferred[DeviceOf[k]]

\* note_connection_opened_channel, then handle_open_channel up to the database.
HandleOpen(k, c, d) ==
    LET table == [j \in DOMAIN connections |->
                    IF j # k THEN connections[j]
                    ELSE [connections[k] EXCEPT
                            !.originated = TRUE,
                            !.support = IF @ = "LegacyUnknown" THEN "ExplicitNo" ELSE @]]
    IN  /\ Idle(k)
        /\ d \in Wants[k] /\ opener[c] = NoConnection
        /\ opener' = [opener EXCEPT ![c] = k]
        /\ connections' = table
        /\ preferred' = [preferred EXCEPT ![DeviceOf[k]] = PreferredAfterOpen(table, k)]
        /\ opening' = [j \in DOMAIN opening \union {k} |->
               IF j = k THEN [channel |-> c, owner |-> d, checked |-> FALSE,
                              target |-> NoConnection]
               ELSE opening[j]]
        /\ UNCHANGED <<nextSequence, channels, closed, task, unsent, outbox,
                       finished, reoffered, resets>>

Rejects_Silently(k) ==
    /\ opening' = Without(opening, k)
    /\ UNCHANGED <<connections, nextSequence, channels, closed, task, unsent, outbox, history>>

\* The handler answers with ChannelRejected and returns.
Rejects(k) ==
    /\ opening' = Without(opening, k)
    /\ Posts(k, {To(k, opening[k].channel, "rejected")})
    /\ UNCHANGED <<connections, nextSequence, channels, closed, task, outbox, history>>

\* The database refuses: no such service, not allowed, or device cleared.
Deny(k) ==
    /\ k \in DOMAIN opening /\ ~opening[k].checked
    /\ Rejects(k)
    /\ UNCHANGED preferred

\* pick_incoming_connection
Services(d) == {k \in Of(connections, d) :
                  connections[k].support = "ExplicitYes" /\ k \notin closed}
Picked(d) == IF Services(d) # {} THEN Newest(connections, Services(d))
             ELSE Refreshed(connections, d)
PreferredAfterPick(d) ==
    IF Services(d) # {} \/ Of(connections, d) = {} THEN preferred
    ELSE [preferred EXCEPT ![d] = Refreshed(connections, d)]

\* At the top of the loop: between two calls, and after Withdraw.
Choosing(k) == k \in DOMAIN opening /\ opening[k].target = NoConnection

Refuse(k) ==
    /\ Choosing(k)
    /\ \/ opening[k].channel \in DOMAIN channels /\ UNCHANGED preferred
       \/ /\ opening[k].channel \notin DOMAIN channels
          /\ Picked(opening[k].owner) = NoConnection
          /\ preferred' = PreferredAfterPick(opening[k].owner)
    /\ Rejects(k)

Inserted(k, t) == [source |-> k, target |-> t, accepted |-> FALSE]

Choose(k) ==
    LET c == opening[k].channel
        t == Picked(opening[k].owner)
    IN  /\ Choosing(k)
        /\ c \notin DOMAIN channels /\ t # NoConnection
        /\ preferred' = PreferredAfterPick(opening[k].owner)
        /\ channels' = [x \in DOMAIN channels \union {c} |->
               IF x = c THEN Inserted(k, t) ELSE channels[x]]
        /\ opening' = [opening EXCEPT ![k].checked = TRUE, ![k].target = t]
        /\ UNCHANGED <<connections, nextSequence, closed, task, unsent, outbox, history>>

Offering(k) == k \in DOMAIN opening /\ opening[k].target # NoConnection

\* target_tx.send succeeds: the handler is done.
Offer(k) ==
    /\ Offering(k) /\ opening[k].target \notin closed
    /\ Arrives(To(opening[k].target, opening[k].channel, "incoming"))
    /\ opening' = Without(opening, k)
    /\ UNCHANGED <<hubVars, closed, task, unsent, history>>

Withdraw_GivesUp(k) ==
    /\ Offering(k) /\ opening[k].target \in closed
    /\ RemoveEntry(opening[k].target)
    /\ channels' = Without(channels, opening[k].channel)
    /\ opening' = Without(opening, k)
    /\ reoffered' = reoffered \union {opening[k].channel}
    /\ UNCHANGED <<nextSequence, closed, task, unsent, outbox, opener, finished, resets>>

\* It fails: the target's entry and the channel go, and the loop goes on.
Withdraw(k) ==
    /\ Offering(k) /\ opening[k].target \in closed
    /\ RemoveEntry(opening[k].target)
    /\ channels' = Without(channels, opening[k].channel)
    /\ opening' = [opening EXCEPT ![k].target = NoConnection]
    /\ reoffered' = reoffered \union {opening[k].channel}
    /\ UNCHANGED <<nextSequence, closed, task, unsent, outbox, opener, finished,
                   resets>>

----------------------------------------------------------------------------
(* The envelopes of an open channel; the hub ignores every other case. *)

HandleAccepted(k, c) ==
    /\ Idle(k) /\ Knows(k, c)
    /\ c \in DOMAIN channels /\ channels[c].target = k
    /\ ~channels[c].accepted   \* a client accepts an offer once
    /\ channels' = [channels EXCEPT ![c].accepted = TRUE]
    /\ Posts(k, {To(channels[c].source, c, "accepted")})
    /\ UNCHANGED <<connections, nextSequence, preferred, closed, task, opening,
                   outbox, history>>

HandleRejected(k, c) ==
    /\ Idle(k) /\ Knows(k, c)
    /\ c \in DOMAIN channels /\ channels[c].target = k
    /\ channels' = Without(channels, c)
    /\ Posts(k, {To(channels[c].source, c, "rejected")})
    /\ finished' = [finished EXCEPT ![k] = @ \union {c}]
    /\ UNCHANGED <<connections, nextSequence, preferred, closed, task, opening,
                   outbox, opener, reoffered, resets>>

HandleClose(k, c) ==
    /\ Idle(k) /\ Knows(k, c)
    /\ c \in DOMAIN channels /\ k \in Ends(c)
    /\ channels' = Without(channels, c)
    /\ Posts(k, {To(PeerOf(c, k), c, "close")})
    /\ finished' = [finished EXCEPT ![k] = @ \union {c}]
    /\ UNCHANGED <<connections, nextSequence, preferred, closed, task, opening,
                   outbox, opener, reoffered, resets>>

DataTold(k, c) == Cardinality({i \in DOMAIN outbox[k][c] : outbox[k][c][i] = "data"})

MayCarry_AnyTime(c) == TRUE
MayCarry(c) == channels[c].accepted

HandleData(k, c) ==
    /\ Idle(k) /\ Knows(k, c)
    /\ c \in DOMAIN channels /\ MayCarry(c) /\ k \in Ends(c)
    /\ DataTold(PeerOf(c, k), c) < MaxData
    /\ Posts(k, {To(PeerOf(c, k), c, "data")})
    /\ UNCHANGED <<hubVars, closed, task, opening, outbox, history>>

Next ==
    \/ Reset
    \/ \E k \in Connections :
          \/ Register(k) \/ WriterDies(k) \/ Disconnect(k) \/ Leave(k) \/ SendOne(k)
          \/ \E c \in ChannelIds, d \in Devices : HandleOpen(k, c, d)
          \/ Deny(k) \/ Refuse(k) \/ Choose(k) \/ Offer(k) \/ Withdraw(k)
          \/ \E c \in ChannelIds :
                \/ HandleAccepted(k, c) \/ HandleRejected(k, c)
                \/ HandleClose(k, c) \/ HandleData(k, c)

\* The runtime runs every task that can run; envelopes and ends of sockets are
\* up to the clients.
Works(k) == SendOne(k) \/ Leave(k) \/ Refuse(k) \/ Choose(k) \/ Offer(k) \/ Withdraw(k)

Spec == Init /\ [][Next]_vars
LiveSpec == Spec /\ \A k \in Connections : WF_vars(Works(k))

----------------------------------------------------------------------------
(* Properties. *)

TypeOK ==
    /\ DOMAIN connections \subseteq Connections
    /\ connections \in [DOMAIN connections -> Entry]
    /\ nextSequence \in Nat
    /\ preferred \in [Devices -> Connections \union {NoConnection}]
    /\ DOMAIN channels \subseteq ChannelIds
    /\ channels \in [DOMAIN channels -> Channel]
    /\ closed \subseteq Connections
    /\ task \in [Connections -> Phase]
    /\ DOMAIN opening \subseteq Connections
    /\ opening \in [DOMAIN opening -> Call]
    /\ unsent \in [Connections -> SUBSET Envelope]
    /\ outbox \in [Connections -> [ChannelIds -> Seq(Kinds)]]
    /\ opener \in [ChannelIds -> Connections \union {NoConnection}]
    /\ finished \in [Connections -> SUBSET ChannelIds]
    /\ reoffered \subseteq ChannelIds
    /\ resets \in Nat

\* The connection that is to take a device's incoming channels is one of its
\* registered legacy connections and has not opened a channel itself: neither
\* an end of a socket, a withdrawn offer, a reset nor an open of its own leaves
\* a stale preference behind.
PreferredServes ==
    \A d \in Devices : preferred[d] # NoConnection =>
        /\ preferred[d] \in Of(connections, d)
        /\ connections[preferred[d]].support = "LegacyUnknown"
        /\ ~connections[preferred[d]].originated

\* No channel is left in the table for a connection whose disconnect_device has
\* run: nobody would ever remove it or tell its other end.
NoChannelOfTheGone ==
    \A c \in DOMAIN channels : \A k \in Ends(c) : task[k] = "serving"

Reachable(k) == k \in DOMAIN connections /\ k \notin closed

\* A connection was told that a channel is over, will be, or ended it itself.
Over(k, c) ==
    \/ c \in finished[k]
    \/ \E kind \in Terminal : Told(k, c, kind) \/ \E j \in Connections : To(k, c, kind) \in unsent[j]

\* A connection that was offered a channel either has it in the table or learns
\* of its end, whatever the source, its socket or the administrator does.
TargetNotForgotten ==
    \A k \in Connections, c \in ChannelIds :
        Reachable(k) /\ Told(k, c, "incoming") /\ ~Over(k, c) =>
            c \in DOMAIN channels /\ channels[c].target = k

Asking(k, c) == k \in DOMAIN opening /\ opening[k].channel = c

\* The same for the connection that opened it, once its OpenChannel is handled.
SourceNotForgotten ==
    \A k \in Connections, c \in ChannelIds :
        Reachable(k) /\ opener[c] = k /\ ~Asking(k, c) /\ ~Over(k, c) =>
            c \in DOMAIN channels /\ channels[c].source = k

\* Somewhere in the first n words the channel was offered or accepted, and it was
\* not said to be over after that.
Within(words, n) ==
    \E j \in 1..n : /\ words[j] \in {"incoming", "accepted"}
                    /\ \A h \in j..n : words[h] \notin Terminal

\* The source of a channel that was offered to a second connection.
Reoffered(k, c) == opener[c] = k /\ c \in reoffered

DataInside(k, c) ==
    \A i \in DOMAIN outbox[k][c] :
        outbox[k][c][i] = "data" /\ ~Reoffered(k, c) => Within(outbox[k][c], i - 1)

\* Every data envelope reaches a connection after the offer or the acceptance
\* of its channel and before any word of the channel's end.  The source of a
\* channel that was offered twice is left out: the late close of the first
\* target can reach it while the second one serves it.
DataInsideChannel == \A k \in Connections, c \in ChannelIds : DataInside(k, c)

\* Every OpenChannel is answered in the end: it is offered to a connection, or
\* its source hears of its end or can no longer be reached.
OpenIsAnswered ==
    \A c \in ChannelIds : opener[c] # NoConnection ~>
        \/ \E t \in Connections : Told(t, c, "incoming")
        \/ \E k \in Connections : opener[c] = k /\ (Over(k, c) \/ ~Reachable(k))

----------------------------------------------------------------------------
(* The inductive invariant of RelayHub_proofs. *)

\* Nobody speaks to or for a connection before it is registered, nor of a
\* channel before it is opened.
NothingFromNothing ==
    /\ \A k \in Connections : task[k] = "absent" =>
           /\ \A c \in ChannelIds : outbox[k][c] = <<>> /\ opener[c] # k
           /\ \A j \in Connections : \A m \in unsent[j] : m.to # k
           /\ \A j \in DOMAIN opening : opening[j].target # k
    /\ \A c \in ChannelIds : opener[c] = NoConnection =>
           \A k \in Connections : ~Told(k, c, "incoming")

TableIsCurrent ==
    /\ \A k \in DOMAIN connections :
           task[k] = "serving" /\ connections[k].sequence < nextSequence
    /\ \A c \in DOMAIN channels : opener[c] = channels[c].source

\* While a task works on an OpenChannel nobody has been offered the channel, and
\* if it was ended meanwhile, the chosen connection has left and the source has
\* been told or cannot be.
CallStands(k) ==
    LET c == opening[k].channel
        t == opening[k].target
    IN  /\ task[k] = "serving" /\ unsent[k] = {}
        /\ opener[c] = k
        /\ \A j \in Connections : ~Told(j, c, "incoming")
        /\ t # NoConnection =>
              \/ c \in DOMAIN channels /\ channels[c].source = k /\ channels[c].target = t
              \/ t \notin DOMAIN connections /\ (Over(k, c) \/ ~Reachable(k))

OfferStands == \A k \in DOMAIN opening : CallStands(k)

HubInv ==
    /\ TypeOK
    /\ NothingFromNothing
    /\ TableIsCurrent
    /\ PreferredServes
    /\ NoChannelOfTheGone
    /\ OfferStands
    /\ TargetNotForgotten
    /\ SourceNotForgotten

----------------------------------------------------------------------------
(* What DataInsideChannel rests on besides, channel by channel. *)

Coming(k, c, kind) == \E j \in Connections : To(k, c, kind) \in unsent[j]
Spoken(k, c, kind) == Told(k, c, kind) \/ Coming(k, c, kind)
Ended(k, c) == \E kind \in Terminal : Spoken(k, c, kind)

\* A connection was told of a channel, and not of its end since.
Inside(k, c) == Within(outbox[k][c], Len(outbox[k][c]))

\* Nobody speaks of a channel that was never opened.
UnopenedIsUnspoken(c) ==
    opener[c] = NoConnection => \A k \in Connections, kind \in Kinds : ~Spoken(k, c, kind)

\* While a task works on an OpenChannel no data of the channel is under way, and
\* only its source may have been told of an end: that of a target it lost.
CallIsQuiet(k, c) ==
    /\ \A x \in Connections : ~Coming(x, c, "data") /\ (x # k => ~Ended(x, c))
    /\ c \in DOMAIN channels => channels[c].target = opening[k].target
    /\ IF opening[k].target = NoConnection
       THEN c \in reoffered \/ ~Ended(k, c)
       ELSE opening[k].checked

\* The ends of a channel in the table have not been told of its end, the target
\* was offered it, and the source of one that is accepted hears so first.
ChannelIsOpen(c) ==
    LET s == channels[c].source
        t == channels[c].target
    IN  /\ \A k \in Ends(c) : Reoffered(k, c) \/ ~Ended(k, c)
        /\ Asking(s, c) \/ Reoffered(t, c) \/ Inside(t, c)
        /\ channels[c].accepted /\ Reachable(s) /\ ~Reoffered(s, c) =>
              Inside(s, c) \/ To(s, c, "accepted") \in unsent[t]

\* Data under way comes from the other end of the channel, to a connection that
\* was told of the channel and will not be told of its end before.
DataIsTimely(p, k, c) ==
    /\ c \in DOMAIN channels => p \in Ends(c) /\ k = PeerOf(c, p)
    /\ Reoffered(k, c) \/
          /\ \A kind \in Terminal : ~Coming(k, c, kind)
          /\ k \notin closed => Inside(k, c)

ChannelInv(c) ==
    /\ UnopenedIsUnspoken(c)
    /\ \A k \in Connections : Asking(k, c) => CallIsQuiet(k, c)
    /\ c \in DOMAIN channels => ChannelIsOpen(c)
    /\ \A p \in Connections, k \in Connections :
          To(k, c, "data") \in unsent[p] => DataIsTimely(p, k, c)
    /\ \A k \in Connections : DataInside(k, c)

DataInv == \A c \in ChannelIds : ChannelInv(c)
=============================================================================
