---------------------------- MODULE LossRecovery ----------------------------
(***************************************************************************)
(* The sender half of one direct UDP channel: the selective-ack            *)
(* scoreboard, the duplicate-ack tracker, the congestion controller and    *)
(* the choice of the packet to retransmit (direct.rs, the types            *)
(* DirectAckTracker, DirectSelectiveAckScoreboard and                      *)
(* DirectCongestionController, and handle_direct_channel_ack).             *)
(*                                                                         *)
(* Everything here is an operator on values.  A list of ranges             *)
(* [start_sequence, end_sequence] is modelled by the set of the sequence   *)
(* numbers it covers: the scoreboard keeps its ranges sorted and merged,   *)
(* and the code asks of it only what it covers, how much, and its highest  *)
(* element.  SackRanges.tla checks that abstraction of the range lists.    *)
(*                                                                         *)
(* The congestion window is an f64 in the code.  Here it is counted in     *)
(* half packets, which is exact for every assignment but 1/cwnd growth;    *)
(* that growth is the parameter `growth`.  Time is left out: no operator   *)
(* reads a clock, and the caller chooses which packet has timed out.       *)
(***************************************************************************)
EXTENDS Integers, FiniteSets

Ext == INSTANCE FiniteSetsExt

CONSTANTS
    InitialWindow,      \* DIRECT_TUNNEL_INITIAL_WINDOW_SIZE
    MinWindow,          \* DIRECT_TUNNEL_MIN_WINDOW_SIZE
    MaxWindow,          \* DIRECT_TUNNEL_MAX_WINDOW_SIZE
    DupAckThreshold,    \* DIRECT_TUNNEL_DUP_ACK_THRESHOLD
    MaxDupCount         \* where the count of duplicate acks saturates

ASSUME WindowAssumption ==
    /\ MinWindow \in Nat \ {0}
    /\ InitialWindow \in Nat
    /\ MaxWindow \in Nat
    /\ MinWindow <= InitialWindow
    /\ InitialWindow <= MaxWindow

ASSUME DupAckAssumption ==
    /\ DupAckThreshold \in Nat \ {0}
    /\ MaxDupCount \in Nat
    /\ DupAckThreshold <= MaxDupCount

\* The absent case of an Option<u64> that holds a sequence number.
NoSeq == -1
SeqOption == Nat \cup {NoSeq}

-----------------------------------------------------------------------------
(* Congestion control *)

Clamp(halves) ==
    IF halves < 2 * MinWindow THEN 2 * MinWindow
    ELSE IF halves > 2 * MaxWindow THEN 2 * MaxWindow
    ELSE halves

Congestion ==
    [cwnd : (2 * MinWindow)..(2 * MaxWindow),
     ssthresh : (2 * MinWindow)..(2 * MaxWindow),
     recoverUntil : SeqOption]

InitCongestion ==
    [cwnd |-> 2 * InitialWindow, ssthresh |-> 2 * MaxWindow, recoverUntil |-> NoSeq]

SendWindow(cong) == cong.cwnd \div 2

\* max(inflight, MIN) / 2 packets, that is max(inflight, MIN) halves.
Ssthresh(inflight) == Clamp(IF inflight < MinWindow THEN MinWindow ELSE inflight)

OnFastRetransmit(inflight, recoverUntil) ==
    [cwnd |-> Clamp(Ssthresh(inflight) + 2 * DupAckThreshold),
     ssthresh |-> Ssthresh(inflight),
     recoverUntil |-> recoverUntil]

OnTimeout(inflight) ==
    [cwnd |-> 2 * MinWindow, ssthresh |-> Ssthresh(inflight), recoverUntil |-> NoSeq]

OnDuplicateAck(cong) ==
    IF cong.recoverUntil = NoSeq THEN cong
    ELSE [cong EXCEPT !.cwnd = Clamp(@ + 2)]

\* In congestion avoidance each acked packet adds 1/cwnd, at most half a
\* packet: `growth` says how many half packets are completed by that.
GrowWindow(cong, acked, growth) ==
    [cong EXCEPT !.cwnd = Clamp(@ + IF @ < cong.ssthresh THEN 2 * acked ELSE growth)]

\* Mutant of OnAckProgress: recovery ends only after its last packet.
OnAckProgress_LateExit(cong, acked, next, growth) ==
    IF acked = 0 THEN cong
    ELSE IF cong.recoverUntil = NoSeq THEN GrowWindow(cong, acked, growth)
    ELSE IF next > cong.recoverUntil
    THEN [cong EXCEPT !.cwnd = Clamp(cong.ssthresh), !.recoverUntil = NoSeq]
    ELSE [cong EXCEPT !.cwnd = Clamp(cong.ssthresh + 2)]

OnAckProgress(cong, acked, next, growth) ==
    IF acked = 0 THEN cong
    ELSE IF cong.recoverUntil = NoSeq THEN GrowWindow(cong, acked, growth)
    ELSE IF next >= cong.recoverUntil
    THEN [cong EXCEPT !.cwnd = Clamp(cong.ssthresh), !.recoverUntil = NoSeq]
    ELSE [cong EXCEPT !.cwnd = Clamp(cong.ssthresh + 2)]

-----------------------------------------------------------------------------
(* Scoreboard and choice of the packet to retransmit *)

\* advance_cumulative_ack, then observe_ranges.
Trim(board, next) == {s \in board : s >= next}
Observe(board, next, sack) == Trim(board, next) \cup sack

\* Outstanding packets at or below the highest selectively acked one.
Holes(outstanding, board) == {s \in outstanding : \E t \in board : s <= t}

\* The n-th smallest element of S.
Nth(S, n) == Ext!Min({s \in S : Cardinality({t \in S : t <= s}) >= n})

\* RecoveryProgress: the first hole, or else the front of the queue.
ProgressChoice(holes, front) == IF holes = {} THEN front ELSE Ext!Min(holes)

\* DuplicateAckBudget: one more hole for every threshold of duplicates.
BudgetChoice(holes, slots, front) ==
    IF holes = {} THEN front
    ELSE IF slots <= Cardinality(holes) THEN Nth(holes, slots)
    ELSE Ext!Max(holes)

-----------------------------------------------------------------------------
(* handle_direct_channel_ack *)

AckTracker ==
    [lastAck : SeqOption, dupCount : 0..MaxDupCount, lastFast : SeqOption]

InitTracker == [lastAck |-> NoSeq, dupCount |-> 0, lastFast |-> NoSeq]

\* One more ack of the same front: the evidence is the number of sequence
\* numbers it newly reports, and at least one.
CountDuplicate(tracker, next, evidence) ==
    LET more == IF evidence = 0 THEN 1 ELSE evidence
        total == IF tracker.lastAck = next THEN tracker.dupCount + more ELSE more
    IN  [lastAck |-> next,
         dupCount |-> IF total > MaxDupCount THEN MaxDupCount ELSE total,
         lastFast |-> IF tracker.lastAck = next THEN tracker.lastFast ELSE NoSeq]

\* Mutant of StillOutstanding: next_sequence itself taken for acked.
StillOutstanding_DropsNext(outstanding, board, next, sack) ==
    {s \in outstanding : s > next /\ s \notin Observe(board, next, sack)}

\* What an ack leaves outstanding.
StillOutstanding(outstanding, board, next, sack) ==
    {s \in outstanding : s >= next /\ s \notin Observe(board, next, sack)}

\* The packet partial progress retransmits: only inside fast recovery.
ProgressRetransmit(cong, outstanding, left, board, next) ==
    IF /\ left # outstanding /\ left # {}
       /\ cong.recoverUntil # NoSeq /\ next < cong.recoverUntil
    THEN ProgressChoice(Holes(left, board), Ext!Min(left))
    ELSE NoSeq

\* The result of one ack: the tracker and the congestion state after it and
\* the sequence number to send again, or NoSeq.
HandleAck(outstanding, board, tracker, cong, next, sack, growth) ==
    LET newBoard == Observe(board, next, sack)
        left == StillOutstanding(outstanding, board, next, sack)
        evidence == Cardinality(newBoard) - Cardinality(Trim(board, next))
        progressed == OnAckProgress(cong, Cardinality(outstanding \ left), next, growth)
        resend == ProgressRetransmit(cong, outstanding, left, newBoard, next)
        duplicate == next \in left /\ \A s \in outstanding : s >= next
        counted == CountDuplicate(tracker, next, evidence)
        inflated == OnDuplicateAck(progressed)
        candidate == BudgetChoice(Holes(left, newBoard),
                                  counted.dupCount \div DupAckThreshold, next)
    IN  IF ~duplicate
        THEN [tracker |-> [lastAck |-> next, dupCount |-> 0, lastFast |-> resend],
              cong |-> progressed, resend |-> resend]
        ELSE IF resend # NoSeq
        THEN [tracker |-> [counted EXCEPT !.lastFast = resend],
              cong |-> inflated, resend |-> resend]
        ELSE IF counted.dupCount >= DupAckThreshold /\ counted.lastFast # candidate
        THEN [tracker |-> [counted EXCEPT !.lastFast = candidate],
              cong |-> OnFastRetransmit(Cardinality(left), Ext!Max(left) + 1),
              resend |-> candidate]
        ELSE [tracker |-> counted, cong |-> inflated, resend |-> NoSeq]
=============================================================================
