------------------------- MODULE DirectChannel_proofs -------------------------
(***************************************************************************)
(* BridgeInv is an inductive invariant of DirectChannel, for every number  *)
(* of chunks, window, reorder buffer, ack size and attempt limit, and with *)
(* it RecoveryInv.  They rest on what the operators of LossRecovery return *)
(* for every window, threshold and queue.                                  *)
(***************************************************************************)
EXTENDS DirectChannel, FiniteSetTheorems, WellFoundedInduction, TLAPS

-----------------------------------------------------------------------------
(* Least and greatest elements *)

\* A nonempty set of naturals has a least element.
LEMMA LeastNatural ==
  ASSUME NEW S \in SUBSET Nat, S # {}
  PROVE  \E x \in S : \A y \in S : x <= y
<1> DEFINE less == {ss \in Nat \X Nat : ss[1] < ss[2]}
<1>1. IsWellFoundedOn(less, Nat)
  BY NatLessThanWellFounded, Zenon DEF OpToRel
<1>2. \A y, x \in Nat : y < x => <<y, x>> \in less
  OBVIOUS
<1> HIDE DEF less
<1>3. PICK x \in S : \A y \in S : ~(<<y, x>> \in less)
  BY <1>1, WFMin, Zenon
<1>4. \A y \in S : ~(y < x)
  <2> SUFFICES ASSUME NEW y \in S PROVE ~(y < x)
    OBVIOUS
  <2>1. y \in Nat /\ x \in Nat
    OBVIOUS
  <2> QED  BY <1>2, <1>3, <2>1, Zenon
<1>5. \A y \in S : x <= y
  BY <1>4
<1> QED  BY <1>5

\* A nonempty set of naturals below a bound has a greatest element.
LEMMA GreatestNatural ==
  ASSUME NEW S \in SUBSET Nat, S # {}, NEW n \in Nat, \A s \in S : s <= n
  PROVE  \E x \in S : \A y \in S : y <= x
<1> DEFINE T == {m \in 0..n : n - m \in S}
<1>1. \A s \in S : n - s \in T
  OBVIOUS
<1>2. T \in SUBSET Nat /\ T # {}
  <2>1. PICK s \in S : TRUE
    OBVIOUS
  <2>2. n - s \in T
    BY <1>1, <2>1
  <2> QED  BY <2>2
<1>3. PICK m \in T : \A t \in T : m <= t
  <2> HIDE DEF T
  <2> QED  BY <1>2, LeastNatural
<1>4. n - m \in S /\ m \in Nat
  BY <1>3
<1>5. \A s \in S : s <= n - m
  BY <1>1, <1>3, <1>4
<1> QED  BY <1>4, <1>5

\* Min is the least element.
LEMMA MinOfNaturals ==
  ASSUME NEW S \in SUBSET Nat, S # {}
  PROVE  Ext!Min(S) \in S /\ \A s \in S : Ext!Min(S) <= s
<1>1. \E x \in S : \A y \in S : x <= y
  BY LeastNatural
<1> QED  BY <1>1 DEF Ext!Min

\* Max is the greatest element.
LEMMA MaxOfNaturals ==
  ASSUME NEW S \in SUBSET Nat, S # {}, NEW n \in Nat, \A s \in S : s <= n
  PROVE  Ext!Max(S) \in S /\ \A s \in S : s <= Ext!Max(S)
<1>1. \E x \in S : \A y \in S : y <= x
  BY GreatestNatural
<1> QED  BY <1>1 DEF Ext!Max

-----------------------------------------------------------------------------
(* Congestion control *)

\* Every assignment to the window is clamped into [MIN, MAX].
LEMMA ClampRange ==
  ASSUME NEW h \in Int
  PROVE  Clamp(h) \in (2 * MinWindow)..(2 * MaxWindow)
BY WindowAssumption DEF Clamp

\* The slow start threshold is in the range of the window.
LEMMA SsthreshRange ==
  ASSUME NEW inflight \in Nat
  PROVE  Ssthresh(inflight) \in (2 * MinWindow)..(2 * MaxWindow)
<1>1. (IF inflight < MinWindow THEN MinWindow ELSE inflight) \in Int
  BY WindowAssumption
<1> QED  BY <1>1, ClampRange DEF Ssthresh

\* The controller starts well typed (Default of DirectCongestionController).
LEMMA InitCongestionType == InitCongestion \in Congestion
BY WindowAssumption DEF InitCongestion, Congestion, SeqOption, NoSeq

\* A timeout leaves the controller well typed (on_timeout).
LEMMA OnTimeoutType ==
  ASSUME NEW inflight \in Nat
  PROVE  OnTimeout(inflight) \in Congestion
<1>1. 2 * MinWindow \in (2 * MinWindow)..(2 * MaxWindow)
  BY WindowAssumption
<1> QED  BY <1>1, SsthreshRange DEF OnTimeout, Congestion, SeqOption

\* So does a fast retransmit (on_fast_retransmit).
LEMMA OnFastRetransmitType ==
  ASSUME NEW inflight \in Nat, NEW until \in Nat
  PROVE  OnFastRetransmit(inflight, until) \in Congestion
<1>1. Ssthresh(inflight) \in (2 * MinWindow)..(2 * MaxWindow)
  BY SsthreshRange
<1>2. Ssthresh(inflight) + 2 * DupAckThreshold \in Int
  BY <1>1, WindowAssumption, DupAckAssumption
<1>3. Clamp(Ssthresh(inflight) + 2 * DupAckThreshold) \in (2 * MinWindow)..(2 * MaxWindow)
  BY <1>2, ClampRange
<1> QED  BY <1>1, <1>3 DEF OnFastRetransmit, Congestion, SeqOption

\* So does a duplicate ack (on_duplicate_ack).
LEMMA OnDuplicateAckType ==
  ASSUME NEW flow \in Congestion
  PROVE  OnDuplicateAck(flow) \in Congestion
<1>1. Clamp(flow.cwnd + 2) \in (2 * MinWindow)..(2 * MaxWindow)
  BY WindowAssumption, ClampRange DEF Congestion
<1> QED  BY <1>1 DEF OnDuplicateAck, Congestion

\* So does an ack that makes progress, however much the window grows.
LEMMA OnAckProgressType ==
  ASSUME NEW flow \in Congestion, NEW acked \in Nat, NEW next \in Nat, NEW growth \in Nat
  PROVE  OnAckProgress(flow, acked, next, growth) \in Congestion
<1> DEFINE W == (2 * MinWindow)..(2 * MaxWindow)
<1>1. flow.cwnd \in Int /\ flow.ssthresh \in Int
  BY WindowAssumption DEF Congestion
<1>2. /\ Clamp(flow.ssthresh) \in W
      /\ Clamp(flow.ssthresh + 2) \in W
      /\ Clamp(flow.cwnd + 2 * acked) \in W
      /\ Clamp(flow.cwnd + growth) \in W
  BY <1>1, ClampRange
<1> HIDE DEF W
<1>3. Clamp(flow.cwnd + IF flow.cwnd < flow.ssthresh THEN 2 * acked ELSE growth) \in W
  BY <1>2
<1>4. GrowWindow(flow, acked, growth) \in Congestion
  BY <1>3 DEF GrowWindow, Congestion, W
<1> QED  BY <1>2, <1>4 DEF OnAckProgress, Congestion, SeqOption, W

-----------------------------------------------------------------------------
(* One ack *)

\* The tracker stays in its type whatever the ack reports.
LEMMA CountDuplicateType ==
  ASSUME NEW acks \in AckTracker, NEW next \in Nat, NEW evidence \in Nat
  PROVE  CountDuplicate(acks, next, evidence) \in AckTracker
BY DupAckAssumption DEF CountDuplicate, AckTracker, SeqOption

\* Whatever the trigger, the packet chosen for retransmission is outstanding:
\* the first hole, the hole the duplicate budget reaches, or the front.
LEMMA ChoiceIsOutstanding ==
  ASSUME NEW bound \in Nat, NEW left \in SUBSET (0..bound), NEW known,
         NEW front \in left, NEW slots \in Nat
  PROVE  /\ ProgressChoice(Holes(left, known), front) \in left
         /\ BudgetChoice(Holes(left, known), slots, front) \in left
<1> DEFINE H == Holes(left, known)
<1>0. H \subseteq left
  BY DEF Holes
<1> HIDE DEF H
<1>1. H \subseteq left /\ H \in SUBSET (0..bound) /\ H \in SUBSET Nat
  <2>1. \A s \in 0..bound : s \in Nat
    OBVIOUS
  <2> QED  BY <1>0, <2>1
<1>2. ASSUME H # {}  PROVE Ext!Min(H) \in left
  BY <1>1, <1>2, MinOfNaturals
<1>3. ASSUME H # {}  PROVE Ext!Max(H) \in H /\ \A s \in H : s <= Ext!Max(H)
  <2>1. \A s \in H : s <= bound
    BY <1>1
  <2> QED  BY <1>1, <1>3, <2>1, MaxOfNaturals
<1>4. ASSUME H # {}, slots <= Cardinality(H)  PROVE Nth(H, slots) \in left
  <2> DEFINE reach == {s \in H : Cardinality({t \in H : t <= s}) >= slots}
  <2>1. {t \in H : t <= Ext!Max(H)} = H
    BY <1>3, <1>4
  <2>2. IsFiniteSet(H)
    <3>1. IsFiniteSet(0..bound)
      BY FS_Interval
    <3> QED  BY <1>1, <3>1, FS_Subset
  <2>3. Ext!Max(H) \in reach
    BY <1>3, <1>4, <2>1, <2>2, FS_CardinalityType
  <2>4. reach \in SUBSET Nat /\ reach # {}
    BY <1>1, <2>3
  <2>5. Ext!Min(reach) \in reach
    BY <2>4, MinOfNaturals
  <2> QED  BY <1>1, <2>5 DEF Nth
<1> QED  BY <1>1, <1>2, <1>3, <1>4 DEF ProgressChoice, BudgetChoice, H

\* The state of the sender after an ack is well typed, and the packet it is
\* told to send again is one it still has.
LEMMA HandleAckType ==
  ASSUME NEW bound \in Nat,
         NEW outstanding \in SUBSET (0..bound),
         NEW known \in SUBSET (0..bound), NEW sack \in SUBSET (0..bound),
         NEW acks \in AckTracker, NEW flow \in Congestion,
         NEW next \in Nat, NEW growth \in Nat
  PROVE  LET result == HandleAck(outstanding, known, acks, flow, next, sack, growth)
         IN  /\ result.tracker \in AckTracker
             /\ result.cong \in Congestion
             /\ result.resend \in
                  StillOutstanding(outstanding, known, next, sack) \cup {NoSeq}
<1> DEFINE newBoard == Observe(known, next, sack)
           trimmed == Trim(known, next)
           left == StillOutstanding(outstanding, known, next, sack)
           evidence == Cardinality(newBoard) - Cardinality(trimmed)
           progressed == OnAckProgress(flow, Cardinality(outstanding \ left), next, growth)
           resend == ProgressRetransmit(flow, outstanding, left, newBoard, next)
           counted == CountDuplicate(acks, next, evidence)
           slots == counted.dupCount \div DupAckThreshold
           candidate == BudgetChoice(Holes(left, newBoard), slots, next)
<1>1. /\ left \in SUBSET outstanding
      /\ outstanding \ left \in SUBSET outstanding
      /\ trimmed \in SUBSET newBoard
  BY DEF StillOutstanding, Observe, Trim
<1>2. newBoard \in SUBSET (0..bound)
  BY DEF Observe, Trim
<1>3. /\ IsFiniteSet(left) /\ IsFiniteSet(outstanding \ left)
      /\ IsFiniteSet(newBoard) /\ IsFiniteSet(trimmed)
  <2>1. IsFiniteSet(0..bound)
    BY FS_Interval
  <2>2. IsFiniteSet(outstanding) /\ IsFiniteSet(newBoard)
    BY <1>2, <2>1, FS_Subset
  <2> QED  BY <1>1, <2>2, FS_Subset
<1>4. /\ Cardinality(left) \in Nat /\ Cardinality(outstanding \ left) \in Nat
      /\ evidence \in Nat
  <2>1. /\ Cardinality(newBoard) \in Nat /\ Cardinality(trimmed) \in Nat
        /\ Cardinality(left) \in Nat /\ Cardinality(outstanding \ left) \in Nat
    BY <1>3, FS_CardinalityType
  <2>2. Cardinality(trimmed) <= Cardinality(newBoard)
    BY <1>1, <1>3, FS_Subset
  <2> QED  BY <2>1, <2>2
<1> HIDE DEF left, newBoard, trimmed, evidence
<1>5. progressed \in Congestion
  BY <1>4, OnAckProgressType
<1>6. counted \in AckTracker
  BY <1>4, CountDuplicateType
<1>7. left \in SUBSET (0..bound)
  BY <1>1
<1>8. resend \in left \cup {NoSeq}
  <2>1. CASE left = {}
    BY <2>1 DEF ProgressRetransmit
  <2>2. CASE left # {}
    <3>1. left \in SUBSET Nat
      <4>1. \A s \in 0..bound : s \in Nat
        OBVIOUS
      <4> QED  BY <1>7, <4>1
    <3>2. Ext!Min(left) \in left
      BY <2>2, <3>1, MinOfNaturals
    <3>3. ProgressChoice(Holes(left, newBoard), Ext!Min(left)) \in left
      BY <1>7, <3>2, ChoiceIsOutstanding
    <3> QED  BY <3>3 DEF ProgressRetransmit
  <2> QED  BY <2>1, <2>2
<1>9. slots \in Nat
  BY <1>6, DupAckAssumption DEF AckTracker
<1> HIDE DEF progressed, counted, resend, slots
<1>10. ASSUME next \in left
       PROVE  candidate \in left /\ Ext!Max(left) \in Nat
  <2>1. candidate \in left
    BY <1>7, <1>9, <1>10, ChoiceIsOutstanding
  <2>2. left \in SUBSET Nat /\ \A s \in left : s <= bound
    <3>1. \A s \in 0..bound : s \in Nat /\ s <= bound
      OBVIOUS
    <3> QED  BY <1>7, <3>1
  <2>3. Ext!Max(left) \in left
    BY <1>10, <2>2, MaxOfNaturals
  <2> QED  BY <2>1, <2>2, <2>3
<1> HIDE DEF candidate
<1>11. left \cup {NoSeq} \subseteq SeqOption
  <2>1. \A s \in 0..bound : s \in Nat
    OBVIOUS
  <2> QED  BY <1>7, <2>1 DEF SeqOption
<1>12. [lastAck |-> next, dupCount |-> 0, lastFast |-> resend] \in AckTracker
  BY <1>8, <1>11, DupAckAssumption DEF AckTracker, SeqOption
<1>13. /\ [counted EXCEPT !.lastFast = resend] \in AckTracker
       /\ next \in left => [counted EXCEPT !.lastFast = candidate] \in AckTracker
  BY <1>6, <1>8, <1>10, <1>11 DEF AckTracker
<1>14. OnDuplicateAck(progressed) \in Congestion
  BY <1>5, OnDuplicateAckType
<1>15. next \in left =>
         OnFastRetransmit(Cardinality(left), Ext!Max(left) + 1) \in Congestion
  BY <1>4, <1>10, OnFastRetransmitType
<1> DEFINE result == HandleAck(outstanding, known, acks, flow, next, sack, growth)
<1>16. \/ result = [tracker |-> [lastAck |-> next, dupCount |-> 0, lastFast |-> resend],
                    cong |-> progressed, resend |-> resend]
       \/ result = [tracker |-> [counted EXCEPT !.lastFast = resend],
                    cong |-> OnDuplicateAck(progressed), resend |-> resend]
       \/ /\ next \in left
          /\ result = [tracker |-> [counted EXCEPT !.lastFast = candidate],
                       cong |-> OnFastRetransmit(Cardinality(left), Ext!Max(left) + 1),
                       resend |-> candidate]
       \/ result = [tracker |-> counted, cong |-> OnDuplicateAck(progressed),
                    resend |-> NoSeq]
  BY Zenon DEF HandleAck, newBoard, trimmed, left, evidence, progressed, resend,
               counted, slots, candidate
<1> HIDE DEF result
<1>17. /\ result.tracker \in AckTracker
       /\ result.cong \in Congestion
       /\ result.resend \in left \cup {NoSeq}
  BY <1>5, <1>6, <1>8, <1>10, <1>12, <1>13, <1>14, <1>15, <1>16
<1> QED  BY <1>17 DEF result, left

\* An ack leaves the end of a recovery where it was, unless the recovery ends; it
\* only starts one, up to behind the last outstanding packet, when it repeats that
\* the front of the queue is missing.
LEMMA RecoveryAfterAck ==
  ASSUME NEW outstanding, \E bound \in Nat : outstanding \in SUBSET (0..bound),
         NEW known, NEW sack,
         NEW acks, NEW flow \in Congestion,
         NEW next \in Nat, NEW growth
  PROVE  LET left == StillOutstanding(outstanding, known, next, sack)
             until == HandleAck(outstanding, known, acks, flow, next, sack, growth)
                        .cong.recoverUntil
         IN  \/ until = NoSeq
             \/ until = flow.recoverUntil /\ (left # outstanding => next < until)
             \/ /\ next \in left /\ \A s \in outstanding : next <= s
                /\ \E s \in left : until = s + 1
<1> DEFINE newBoard == Observe(known, next, sack)
           left == StillOutstanding(outstanding, known, next, sack)
           evidence == Cardinality(newBoard) - Cardinality(Trim(known, next))
           progressed == OnAckProgress(flow, Cardinality(outstanding \ left), next, growth)
           resend == ProgressRetransmit(flow, outstanding, left, newBoard, next)
           counted == CountDuplicate(acks, next, evidence)
           candidate == BudgetChoice(Holes(left, newBoard),
                                     counted.dupCount \div DupAckThreshold, next)
           result == HandleAck(outstanding, known, acks, flow, next, sack, growth)
           duplicate == next \in left /\ \A s \in outstanding : s >= next
           KeptOrEnded(c) == \/ c.recoverUntil = NoSeq
                             \/ /\ c.recoverUntil = flow.recoverUntil
                                /\ left # outstanding => next < c.recoverUntil
           Starts(c) == \E s \in left : c.recoverUntil = s + 1
<1>0. PICK bound \in Nat : outstanding \in SUBSET (0..bound)
  OBVIOUS
<1>1. left \subseteq outstanding /\ left \in SUBSET Nat /\ \A s \in left : s <= bound
  <2>1. \A s \in 0..bound : s \in Nat /\ s <= bound
    OBVIOUS
  <2> QED  BY <1>0, <2>1 DEF StillOutstanding
<1>2. flow.recoverUntil \in SeqOption
  BY DEF Congestion
<1> HIDE DEF left, newBoard, evidence, counted, candidate
<1>3. KeptOrEnded(progressed)
  <2>1. CASE Cardinality(outstanding \ left) = 0
    <3>1. IsFiniteSet(outstanding \ left)
      <4>1. IsFiniteSet(0..bound)
        BY FS_Interval
      <4>2. outstanding \ left \subseteq 0..bound
        BY <1>0
      <4> QED  BY <4>1, <4>2, FS_Subset
    <3>2. outstanding \ left = {}
      BY <2>1, <3>1, FS_EmptySet
    <3>3. left = outstanding
      BY <1>1, <3>2
    <3> QED  BY <2>1, <3>3 DEF OnAckProgress
  <2>2. CASE Cardinality(outstanding \ left) # 0
    <3>1. CASE flow.recoverUntil = NoSeq
      BY <2>2, <3>1 DEF OnAckProgress, GrowWindow, Congestion
    <3>2. CASE flow.recoverUntil # NoSeq
      BY <1>2, <2>2, <3>2 DEF OnAckProgress, Congestion, SeqOption
    <3> QED  BY <3>1, <3>2
  <2> QED  BY <2>1, <2>2
<1>4. KeptOrEnded(OnDuplicateAck(progressed))
  <2>1. OnDuplicateAck(progressed).recoverUntil = progressed.recoverUntil
    BY DEF OnDuplicateAck, OnAckProgress, GrowWindow, Congestion
  <2> HIDE DEF progressed
  <2> QED  BY <1>3, <2>1
<1>5. duplicate => Starts(OnFastRetransmit(Cardinality(left), Ext!Max(left) + 1))
  <2> SUFFICES ASSUME next \in left
               PROVE  Starts(OnFastRetransmit(Cardinality(left), Ext!Max(left) + 1))
    OBVIOUS
  <2> DEFINE top == Ext!Max(left)
  <2>1. top \in left
    BY <1>1, MaxOfNaturals
  <2> HIDE DEF top
  <2>2. OnFastRetransmit(Cardinality(left), top + 1).recoverUntil = top + 1
    BY DEF OnFastRetransmit
  <2>3. Starts(OnFastRetransmit(Cardinality(left), top + 1))
    BY <2>1, <2>2
  <2> QED  BY <2>3 DEF top
<1> HIDE DEF progressed, resend
<1>6. \/ result.cong = progressed
      \/ result.cong = OnDuplicateAck(progressed)
      \/ /\ duplicate
         /\ result.cong = OnFastRetransmit(Cardinality(left), Ext!Max(left) + 1)
  <2>1. \/ result = [tracker |-> [lastAck |-> next, dupCount |-> 0, lastFast |-> resend],
                     cong |-> progressed, resend |-> resend]
        \/ result = [tracker |-> [counted EXCEPT !.lastFast = resend],
                     cong |-> OnDuplicateAck(progressed), resend |-> resend]
        \/ /\ duplicate
           /\ result = [tracker |-> [counted EXCEPT !.lastFast = candidate],
                        cong |-> OnFastRetransmit(Cardinality(left), Ext!Max(left) + 1),
                        resend |-> candidate]
        \/ result = [tracker |-> counted, cong |-> OnDuplicateAck(progressed),
                     resend |-> NoSeq]
    BY Zenon DEF HandleAck, newBoard, left, evidence, progressed, resend, counted, candidate
  <2> HIDE DEF result, duplicate
  <2> QED  BY <2>1
<1> HIDE DEF result
<1>7. \/ KeptOrEnded(result.cong)
      \/ duplicate /\ Starts(result.cong)
  <2> HIDE DEF duplicate, KeptOrEnded, Starts
  <2> QED  BY <1>3, <1>4, <1>5, <1>6
<1>8. duplicate => next \in left /\ \A s \in outstanding : next <= s
  <2>1. \A s \in outstanding : s \in Nat
    BY <1>0
  <2> QED  BY <2>1
<1> HIDE DEF duplicate
<1> QED  BY <1>7, <1>8 DEF result, left
-----------------------------------------------------------------------------
(* The invariant of the bridges *)

USE EndpointAssumption

\* Each end has one peer, and that one's peer is the end itself.
LEMMA PeerFacts ==
  ASSUME NEW e \in Endpoints
  PROVE  /\ Peer(e) \in Endpoints /\ Peer(e) # e /\ Peer(Peer(e)) = e
         /\ \A f \in Endpoints : f = e \/ f = Peer(e)
BY DEF Endpoints, Peer

\* A channel just opened satisfies the invariant: nothing was sent yet.
LEMMA InitEstablishes == Init => BridgeInv
<1> SUFFICES ASSUME Init  PROVE BridgeInv
  OBVIOUS
<1> USE DEF Init
<1>1. TypeOK
  BY InitCongestionType, DupAckAssumption, BoundAssumption
     DEF TypeOK, PerEnd, Status, Outstanding, Buffered, Unwritten, EmptyMap, AckTracker, InitTracker,
         SeqOption, NoClose
<1>2. \A e \in Endpoints : SenderInv(e) /\ ReceiverInv(e)
  BY PeerFacts DEF SenderInv, ReceiverInv, Outstanding, Buffered, Unwritten, EmptyMap
<1>3. NothingForgotten /\ CloseAfterData /\ ReorderWindow
  BY PeerFacts DEF NothingForgotten, CloseAfterData, ReorderWindow, Buffered, EmptyMap,
                   NoClose
<1>4. NeverCorrupt /\ AckedCloseMeansDelivered /\ PeerCloseMeansReceived
  BY DEF NeverCorrupt, AckedCloseMeansDelivered, PeerCloseMeansReceived
<1> QED  BY <1>1, <1>2, <1>3, <1>4 DEF BridgeInv

-----------------------------------------------------------------------------
(* Why a datagram stays true: what it speaks of only ever grows. *)

Grows ==
    \A f \in Endpoints :
      /\ nextOut[f] <= nextOut'[f]
      /\ expected[f] <= expected'[f] /\ opened[f] <= opened'[f]
      /\ \A s \in Nat : Holds(f, s) => Holds(f, s)'
      /\ close[f] # NoClose => close'[f] # NoClose /\ close'[f].final = close[f].final
      /\ Open(f)' => Open(f)

\* A datagram already sent stays truthful when counters and ends only grow.
LEMMA TruthfulStable ==
  ASSUME TypeOK, TypeOK', Grows, NEW m \in Datagram, Truthful(m)
  PROVE  Truthful(m)'
<1>1. m.from \in Endpoints
  BY DEF Datagram
<1>2. CASE m.kind = "data"
  BY <1>1, <1>2 DEF Truthful, Grows, Datagram, TypeOK
<1>3. CASE m.kind = "ack"
  <2>1. m.next \in Nat /\ m.sack \in SUBSET Nat
    BY <1>3 DEF Datagram
  <2> QED  BY <1>1, <1>3, <2>1 DEF Truthful, Grows, TypeOK
<1>4. CASE m.kind = "close"
  BY <1>1, <1>4 DEF Truthful, Grows, Datagram, TypeOK
<1>5. CASE m.kind = "closeAck"
  BY <1>1, <1>5 DEF Truthful, Grows, Datagram, TypeOK
<1> QED  BY <1>2, <1>3, <1>4, <1>5 DEF Datagram

\* What was under way before a step is as true after it.
LEMMA PathStaysTruthful ==
  ASSUME TypeOK, TypeOK', Grows, \A m \in net : Truthful(m)
  PROVE  \A m \in net : Truthful(m)'
<1> SUFFICES ASSUME NEW m \in net  PROVE Truthful(m)'
  OBVIOUS
<1>1. m \in Datagram
  BY DEF TypeOK
<1> QED  BY <1>1, TruthfulStable

-----------------------------------------------------------------------------
(* Steps that change no counter, queue or buffer *)

\* A bridge may lose its route, or end in any way that claims nothing.
LEMMA QuietStep ==
  ASSUME BridgeInv, NEW e \in Endpoints, Open(e),
         NEW how \in {"open", "cut", "failed"},
         status' = [status EXCEPT ![e] = how],
         routed' \in [Endpoints -> BOOLEAN], connected' \in [Endpoints -> BOOLEAN],
         UNCHANGED <<readClosed, senderVars, close, receiverVars>>,
         \/ net' = net
         \/ how = "cut" /\ net' = net \cup {CloseAck(e, 0)}
  PROVE  BridgeInv'
<1> USE DEF BridgeInv, senderVars, receiverVars
<1>0. status \in [Endpoints -> Status] /\ status' \in [Endpoints -> Status]
  BY DEF TypeOK, Status
<1>1. \A f \in Endpoints : Open(f)' => Open(f)
  BY <1>0 DEF Open
<1>2. CloseAck(e, 0) \in Datagram
  BY DEF CloseAck, Datagram
<1>3. TypeOK'
  BY <1>0, <1>2 DEF TypeOK, Outstanding, Buffered, Unwritten
<1>4. \A f \in Endpoints : (SenderInv(f) /\ ReceiverInv(f))'
  BY <1>1 DEF SenderInv, ReceiverInv, Outstanding, Buffered, Unwritten, Holds
<1>5. how = "cut" => Truthful(CloseAck(e, 0))'
  BY <1>0 DEF Truthful, CloseAck, Open, TypeOK
<1>6. Grows
  BY <1>1 DEF Grows, Holds, Buffered, TypeOK
<1>7. \A m \in net' : Truthful(m)'
  <2>1. \A m \in net : Truthful(m)'
    BY <1>3, <1>6, PathStaysTruthful
  <2> QED  BY <1>5, <2>1
<1>8. (NothingForgotten /\ CloseAfterData /\ ReorderWindow)'
  BY DEF NothingForgotten, CloseAfterData, ReorderWindow, Outstanding, Buffered, Unwritten, Holds
<1>9. (NeverCorrupt /\ AckedCloseMeansDelivered /\ PeerCloseMeansReceived)'
  BY <1>0, <1>1, PeerFacts
     DEF NeverCorrupt, AckedCloseMeansDelivered, PeerCloseMeansReceived, Open
<1> QED  BY <1>3, <1>4, <1>7, <1>8, <1>9

\* The ends of a bridge that send nothing: idle timeout, lost route, local
\* failure, and the loss of the connection under it.
LEMMA EndingSteps ==
  ASSUME BridgeInv, NEW e \in Endpoints,
         \/ ConnectionLost(e) \/ CutOff(e) \/ RouteGone(e)
         \/ LocalFailure(e) \/ PeerIdleTimeout(e)
  PROVE  BridgeInv'
<1> USE DEF bridgeVars
<1>0. /\ status \in [Endpoints -> Status]
      /\ routed \in [Endpoints -> BOOLEAN] /\ connected \in [Endpoints -> BOOLEAN]
  BY DEF BridgeInv, TypeOK
<1>1. CASE ConnectionLost(e)
  <2>1. status' = [status EXCEPT ![e] = "open"]
    BY <1>0, <1>1 DEF ConnectionLost, Open
  <2> QED  BY <1>0, <1>1, <2>1, QuietStep DEF ConnectionLost
<1>2. CASE CutOff(e)
  BY <1>0, <1>2, QuietStep DEF CutOff, Selects, Leave
<1>3. CASE RouteGone(e)
  BY <1>0, <1>3, QuietStep DEF RouteGone, Selects, Leave
<1>4. CASE LocalFailure(e)
  BY <1>0, <1>4, QuietStep DEF LocalFailure, Abort
<1>5. CASE PeerIdleTimeout(e)
  BY <1>0, <1>5, QuietStep DEF PeerIdleTimeout, Selects, Leave
<1> QED  BY <1>1, <1>2, <1>3, <1>4, <1>5

-----------------------------------------------------------------------------
(* The answers to a close *)

\* The peer's close is in turn, for the close invariant says so.
LEMMA ReceiveCloseStep ==
  ASSUME BridgeInv, NEW e \in Endpoints, NEW m \in net, ReceiveClose(e, m)
  PROVE  BridgeInv'
<1> USE DEF BridgeInv, senderVars, receiverVars
<1>1. m \in Datagram /\ m.kind = "close" /\ m.from = Peer(e) /\ Open(e)
  BY DEF ReceiveClose, Receives, Selects, TypeOK
<1>2. /\ close[Peer(e)] # NoClose /\ m.final = nextOut[Peer(e)]
      /\ expected[e] = nextOut[Peer(e)] /\ readClosed[Peer(e)] /\ m.final \in Nat
      /\ opened[e] = expected[e]
  <2>1. /\ opened[e] \in Nat /\ expected[e] \in Nat /\ opened[e] <= expected[e]
        /\ opened[e]..(expected[e] - 1) = {}
    BY <1>1 DEF ReceiveClose, Receives, Selects, TypeOK, ReceiverInv
  <2>2. opened[e] = expected[e]
    BY <2>1
  <2> QED  BY <1>1, <2>2, PeerFacts DEF Truthful, CloseAfterData, TypeOK
<1>3. /\ Leave(e, "peerClose") \/ Abort(e, "failed")
      /\ net' = net \cup {CloseAck(e, m.final)}
      /\ UNCHANGED <<readClosed, senderVars, close, receiverVars>>
  BY <1>2 DEF ReceiveClose, TypeOK
<1>4. /\ status \in [Endpoints -> Status] /\ status' \in [Endpoints -> Status]
      /\ status'[e] \in {"peerClose", "failed"}
      /\ \A f \in Endpoints \ {e} : status'[f] = status[f]
      /\ routed' \in [Endpoints -> BOOLEAN] /\ connected' \in [Endpoints -> BOOLEAN]
  BY <1>3 DEF TypeOK, Status, Leave, Abort
<1>5. \A f \in Endpoints : Open(f)' => Open(f)
  BY <1>4 DEF Open
<1>6. CloseAck(e, m.final) \in Datagram
  BY <1>2 DEF CloseAck, Datagram
<1>7. TypeOK'
  BY <1>3, <1>4, <1>6 DEF TypeOK, Outstanding, Buffered, Unwritten
<1>8. \A f \in Endpoints : (SenderInv(f) /\ ReceiverInv(f))'
  BY <1>3, <1>5 DEF SenderInv, ReceiverInv, Outstanding, Buffered, Unwritten, Holds
<1>9. Truthful(CloseAck(e, m.final))'
  BY <1>2, <1>3, <1>4 DEF Truthful, CloseAck, Open, TypeOK
<1>10. Grows
  BY <1>3, <1>5 DEF Grows, Holds, Buffered, TypeOK
<1>11. \A d \in net' : Truthful(d)'
  <2>1. \A d \in net : Truthful(d)'
    BY <1>7, <1>10, PathStaysTruthful
  <2> QED  BY <1>3, <1>9, <2>1
<1>12. (NothingForgotten /\ CloseAfterData /\ ReorderWindow)'
  BY <1>3 DEF NothingForgotten, CloseAfterData, ReorderWindow, Outstanding, Buffered, Unwritten, Holds
<1>13. (NeverCorrupt /\ AckedCloseMeansDelivered)'
  BY <1>3, <1>4, <1>5, PeerFacts
     DEF NeverCorrupt, AckedCloseMeansDelivered, Open
<1>14. PeerCloseMeansReceived'
  BY <1>2, <1>3, <1>4, PeerFacts
     DEF PeerCloseMeansReceived, SenderInv
<1> QED  BY <1>7, <1>8, <1>11, <1>12, <1>13, <1>14

\* An accepted close-ack finds everything delivered and the peer's bridge over.
LEMMA ReceiveCloseAckStep ==
  ASSUME BridgeInv, NEW e \in Endpoints, NEW m \in net, ReceiveCloseAck(e, m)
  PROVE  BridgeInv'
<1> USE DEF BridgeInv, senderVars, receiverVars
<1>1. m \in Datagram /\ m.kind = "closeAck" /\ m.from = Peer(e) /\ Open(e)
  BY DEF ReceiveCloseAck, Receives, Selects, TypeOK
<1>2. UNCHANGED <<readClosed, senderVars, close, receiverVars, net>>
  BY DEF ReceiveCloseAck
<1>3. status \in [Endpoints -> Status] /\ routed' \in [Endpoints -> BOOLEAN]
      /\ connected' \in [Endpoints -> BOOLEAN]
  BY DEF TypeOK, ReceiveCloseAck, Leave
<1>4. CASE close[e] # NoClose /\ m.final >= close[e].final
  <2>1. ~Open(Peer(e)) /\ opened[Peer(e)] = sealed[e]
    <3>1. /\ m.final <= opened[Peer(e)] /\ ~Open(Peer(e)) /\ m.final >= nextOut[e]
          /\ opened[Peer(e)] <= expected[Peer(e)] /\ expected[Peer(e)] = nextOut[e]
          /\ sealed[e] = nextOut[e]
      BY <1>1, <1>4, PeerFacts DEF Truthful, CloseAfterData, SenderInv, ReceiverInv
    <3>2. m.final \in Nat /\ opened[Peer(e)] \in Nat /\ nextOut[e] \in Nat
      BY <1>1, PeerFacts DEF TypeOK, Datagram
    <3> QED  BY <3>1, <3>2
  <2>2. status' = [status EXCEPT ![e] = "ackedClose"]
    BY <1>4 DEF ReceiveCloseAck, Leave
  <2>3. \A f \in Endpoints : Open(f)' => Open(f)
    BY <1>3, <2>2 DEF Open
  <2>4. TypeOK'
    BY <1>2, <1>3, <2>2 DEF TypeOK, Outstanding, Buffered, Unwritten, Status
  <2>5. \A f \in Endpoints : (SenderInv(f) /\ ReceiverInv(f))'
    BY <1>2, <2>3 DEF SenderInv, ReceiverInv, Outstanding, Buffered, Unwritten, Holds
  <2>6. Grows
    BY <1>2, <2>3 DEF Grows, Holds, Buffered, TypeOK
  <2>7. \A d \in net' : Truthful(d)'
    BY <1>2, <2>4, <2>6, PathStaysTruthful
  <2>8. (NothingForgotten /\ CloseAfterData /\ ReorderWindow)'
    BY <1>2 DEF NothingForgotten, CloseAfterData, ReorderWindow, Outstanding, Buffered, Unwritten, Holds
  <2>9. (NeverCorrupt /\ PeerCloseMeansReceived)'
    BY <1>2, <1>3, <2>2 DEF NeverCorrupt, PeerCloseMeansReceived
  <2>10. AckedCloseMeansDelivered'
    BY <1>1, <1>2, <1>3, <2>1, <2>2, <2>3, PeerFacts DEF AckedCloseMeansDelivered
  <2> QED  BY <2>4, <2>5, <2>7, <2>8, <2>9, <2>10
<1>5. CASE ~(close[e] # NoClose /\ m.final >= close[e].final)
  <2>1. status' = [status EXCEPT ![e] = "open"]
    BY <1>1, <1>3, <1>5 DEF ReceiveCloseAck, Open
  <2> QED  BY <1>1, <1>2, <1>3, <2>1, QuietStep
<1> QED  BY <1>4, <1>5
-----------------------------------------------------------------------------
(* Steps of the local stream and of the tick *)

\* A chunk is read only while the stream is open, so no close of this end and
\* no clean result of the other one speaks of it.
LEMMA ReadChunkStep ==
  ASSUME BridgeInv, NEW e \in Endpoints, ReadChunk(e)
  PROVE  BridgeInv'
<1> USE DEF BridgeInv, senderVars, receiverVars, linkVars
<1>0. PICK s \in Nat : s = nextOut[e]
  BY DEF TypeOK
<1>1. /\ Open(e) /\ ~readClosed[e] /\ close[e] = NoClose /\ nextOut[e] = s /\ sealed[e] = s
  BY <1>0 DEF ReadChunk, MayRead, Selects, TypeOK, SenderInv
<1>2. /\ nextOut' = [nextOut EXCEPT ![e] = s + 1]
      /\ sealed' = [sealed EXCEPT ![e] = s + 1]
      /\ pending' = [pending EXCEPT ![e] = Put(@, s, [nonce |-> s, attempts |-> 1])]
      /\ net' = net \cup {Data(e, s, s)}
      /\ UNCHANGED <<linkVars, readClosed, board, tracker, cong, close, receiverVars>>
  BY <1>1 DEF ReadChunk
<1>3. /\ Outstanding(e)' = Outstanding(e) \cup {s}
      /\ pending'[e] = [t \in Outstanding(e) \cup {s} |->
                          IF t = s THEN [nonce |-> s, attempts |-> 1] ELSE pending[e][t]]
      /\ \A f \in Endpoints : f # e => pending'[f] = pending[f]
  <2>1. pending' = [pending EXCEPT ![e] = Put(pending[e], s, [nonce |-> s, attempts |-> 1])]
    BY <1>2
  <2>2. pending'[e] = Put(pending[e], s, [nonce |-> s, attempts |-> 1])
    BY <2>1 DEF TypeOK, PerEnd
  <2> QED  BY <2>1, <2>2 DEF Put, Outstanding
<1>4. Data(e, s, s) \in Datagram
  BY <1>1 DEF Data, Datagram
<1>5. TypeOK'
  <2>1. PerEnd(pending)'
    BY <1>2 DEF TypeOK, PerEnd
  <2>2. Outstanding(e)' \subseteq Nat /\ pending'[e] \in [Outstanding(e)' -> NoncesAndAttempts]
    <3>1. [nonce |-> s, attempts |-> 1] \in NoncesAndAttempts
      BY BoundAssumption DEF NoncesAndAttempts
    <3>2. Outstanding(e) \subseteq Nat /\ pending[e] \in [Outstanding(e) -> NoncesAndAttempts]
      BY DEF TypeOK
    <3> QED  BY <1>3, <3>1, <3>2
  <2>3. \A f \in Endpoints : /\ Outstanding(f)' \subseteq Nat
                            /\ pending'[f] \in [Outstanding(f)' -> NoncesAndAttempts]
    BY <1>3, <2>2 DEF TypeOK, Outstanding
  <2>4. \A m \in net' : m \in Datagram
    BY <1>2, <1>4 DEF TypeOK
  <2> QED  BY <1>2, <2>1, <2>3, <2>4 DEF TypeOK, Buffered, Unwritten
<1>6. \A f \in Endpoints : (SenderInv(f) /\ ReceiverInv(f))'
  <2>1. SenderInv(e)'
    <3>1. sealed'[e] = s + 1 /\ nextOut'[e] = s + 1
      BY <1>2 DEF TypeOK
    <3>2. \A t \in Outstanding(e) : t \in Nat /\ t < s /\ pending[e][t].nonce = t
      BY <1>1 DEF TypeOK, SenderInv
    <3>3. \A t \in Outstanding(e)' : t < s + 1 /\ pending'[e][t].nonce = t
      BY <1>3, <3>2
    <3>4. \A t \in board'[e] : Holds(Peer(e), t)'
      BY <1>2 DEF SenderInv, Holds, Buffered
    <3> QED  BY <3>1, <3>3, <3>4 DEF SenderInv
  <2>2. \A f \in Endpoints : f # e => SenderInv(f)'
    BY <1>2, <1>3, PeerFacts DEF SenderInv, Outstanding, Buffered, Unwritten, Holds, TypeOK
  <2>3. \A f \in Endpoints : ReceiverInv(f)'
    <3>1. /\ UNCHANGED <<status, expected, opened, reorder, ready>>
          /\ \A f \in Endpoints : nextOut[f] <= nextOut'[f]
      BY <1>1, <1>2 DEF TypeOK
    <3>2. ASSUME NEW f \in Endpoints  PROVE ReceiverInv(f)'
      <4>1. /\ nextOut[Peer(f)] \in Nat /\ nextOut'[Peer(f)] \in Nat
            /\ nextOut[Peer(f)] <= nextOut'[Peer(f)]
            /\ expected[f] \in Nat /\ Buffered(f) \subseteq Nat
        BY <1>5, <3>1, PeerFacts DEF TypeOK
      <4>2. ReceiverInv(f)
        OBVIOUS
      <4>3. /\ expected[f] <= nextOut'[Peer(f)]
            /\ \A t \in Buffered(f) : t < nextOut'[Peer(f)] /\ reorder[f][t] = t
        BY <4>1, <4>2 DEF ReceiverInv
      <4> QED  BY <3>1, <4>2, <4>3 DEF ReceiverInv, Buffered, Unwritten, Open
    <3> QED  BY <3>2
  <2> QED  BY <2>1, <2>2, <2>3
<1>7. Grows
  BY <1>1, <1>2 DEF Grows, Holds, Buffered, Open, TypeOK
<1>8. \A m \in net' : Truthful(m)'
  <2>1. \A m \in net : Truthful(m)'
    BY <1>5, <1>7, PathStaysTruthful
  <2>2. Truthful(Data(e, s, s))'
    BY <1>1, <1>2 DEF Truthful, Data, TypeOK
  <2> QED  BY <1>2, <2>1, <2>2
<1>9. NothingForgotten'
  <2> SUFFICES ASSUME NEW f \in Endpoints, NEW t \in 0..(nextOut'[f] - 1)
               PROVE  t \in Outstanding(f)' \/ Holds(Peer(f), t)'
    BY DEF NothingForgotten
  <2>1. Holds(Peer(f), t) => Holds(Peer(f), t)'
    BY <1>2 DEF Holds, Buffered
  <2>2. CASE f = e /\ t = s
    BY <1>3, <2>2
  <2>3. CASE ~(f = e /\ t = s)
    <3>1. t \in 0..(nextOut[f] - 1)
      <4>1. CASE f = e
        <5>1. nextOut'[e] = s + 1 /\ nextOut[e] = s /\ t # s
          BY <1>1, <1>2, <2>3, <4>1 DEF TypeOK
        <5> QED  BY <4>1, <5>1
      <4>2. CASE f # e
        BY <1>2, <4>2 DEF TypeOK
      <4> QED  BY <4>1, <4>2
    <3>2. t \in Outstanding(f) => t \in Outstanding(f)'
      BY <1>3 DEF Outstanding
    <3> QED  BY <2>1, <3>1, <3>2 DEF NothingForgotten
  <2> QED  BY <2>2, <2>3
<1>10. (CloseAfterData /\ ReorderWindow)'
  BY <1>1, <1>2, <1>3, PeerFacts DEF CloseAfterData, ReorderWindow, Outstanding, Buffered, Unwritten, TypeOK
<1>11. (NeverCorrupt /\ AckedCloseMeansDelivered /\ PeerCloseMeansReceived)'
  BY <1>1, <1>2, PeerFacts
     DEF NeverCorrupt, AckedCloseMeansDelivered, PeerCloseMeansReceived, Open, TypeOK
<1> QED  BY <1>5, <1>6, <1>8, <1>9, <1>10, <1>11

\* When the peer holds all that is outstanding, it has received everything:
\* the lowest missing sequence number would be in its reorder buffer.
LEMMA AllHeld ==
  ASSUME BridgeInv, NEW e \in Endpoints, \A s \in Outstanding(e) : Holds(Peer(e), s)
  PROVE  expected[Peer(e)] = nextOut[e]
<1> DEFINE p == Peer(e)
<1>1. /\ expected[p] \in Nat /\ nextOut[e] \in Nat /\ expected[p] <= nextOut[e]
      /\ Buffered(p) \subseteq (expected[p] + 1)..(expected[p] + ReorderLimit)
  BY PeerFacts DEF BridgeInv, TypeOK, ReceiverInv, ReorderWindow
<1>2. ASSUME expected[p] < nextOut[e]  PROVE FALSE
  <2>1. expected[p] \in 0..(nextOut[e] - 1)
    BY <1>1, <1>2
  <2>2. Holds(p, expected[p])
    BY <2>1 DEF BridgeInv, NothingForgotten
  <2>3. expected[p] \in (expected[p] + 1)..(expected[p] + ReorderLimit)
    BY <1>1, <2>2 DEF Holds
  <2> QED  BY <1>1, <2>3
<1> QED  BY <1>1, <1>2

\* The end of the local stream: a close goes out at once only if all that was
\* read is acked, and then the peer has it.
LEMMA ReadEofStep ==
  ASSUME BridgeInv, NEW e \in Endpoints, ReadEof(e)
  PROVE  BridgeInv'
<1> USE DEF BridgeInv, senderVars, receiverVars, linkVars
<1>0. PICK n \in Nat : n = nextOut[e]
  BY DEF TypeOK
<1>1. /\ Open(e) /\ ~readClosed[e] /\ close[e] = NoClose
      /\ readClosed' = [readClosed EXCEPT ![e] = TRUE]
      /\ UNCHANGED <<linkVars, senderVars, receiverVars>>
  BY DEF ReadEof, MayRead, Selects
<1>2. \/ close' = close /\ net' = net
      \/ /\ Outstanding(e) = {}
         /\ close' = [close EXCEPT ![e] = [final |-> n, attempts |-> 1]]
         /\ net' = net \cup {Close(e, n)}
  <2>1. StartCloseIf(Outstanding(e) = {}, e, {})
    BY <1>1 DEF ReadEof, CloseDue
  <2>2. close \in [Endpoints -> [final : SeqOption, attempts : 0..MaxAttempts]]
    BY DEF TypeOK
  <2> QED  BY <1>0, <2>1, <2>2 DEF StartCloseIf
<1>3. Close(e, n) \in Datagram
  BY DEF Close, Datagram
<1>4. TypeOK'
  <2>1. close' \in [Endpoints -> [final : SeqOption, attempts : 0..MaxAttempts]]
    <3>1. [final |-> n, attempts |-> 1] \in [final : SeqOption, attempts : 0..MaxAttempts]
      BY <1>3, BoundAssumption DEF SeqOption
    <3> QED  BY <1>2, <3>1 DEF TypeOK
  <2>2. \A m \in net' : m \in Datagram
    BY <1>2, <1>3 DEF TypeOK
  <2> QED  BY <1>1, <2>1, <2>2 DEF TypeOK, Outstanding, Buffered, Unwritten
<1>5. \A f \in Endpoints : (SenderInv(f) /\ ReceiverInv(f))'
  BY <1>1 DEF SenderInv, ReceiverInv, Outstanding, Buffered, Unwritten, Holds, Open
<1>6. Grows
  <2>1. \A f \in Endpoints : close[f] # NoClose => close'[f] = close[f]
    BY <1>1, <1>2 DEF TypeOK
  <2> QED  BY <1>1, <2>1 DEF Grows, Holds, Buffered, Open, TypeOK
<1>7. \A m \in net' : Truthful(m)'
  <2>1. \A m \in net : Truthful(m)'
    BY <1>4, <1>6, PathStaysTruthful
  <2>2. CASE close' = close /\ net' = net
    BY <2>1, <2>2
  <2>3. CASE /\ close' = [close EXCEPT ![e] = [final |-> n, attempts |-> 1]]
             /\ net' = net \cup {Close(e, n)}
    <3>1. Truthful(Close(e, n))'
      BY <1>1, <1>3, <2>3 DEF Truthful, Close, NoClose, NoSeq, TypeOK
    <3> QED  BY <2>1, <2>3, <3>1
  <2> QED  BY <1>2, <2>2, <2>3
<1>8. (NothingForgotten /\ ReorderWindow)'
  BY <1>1 DEF NothingForgotten, ReorderWindow, Outstanding, Buffered, Unwritten, Holds
<1>9. CloseAfterData'
  <2>1. Outstanding(e) = {} => expected[Peer(e)] = nextOut[e]
    BY AllHeld
  <2> QED  BY <1>0, <1>1, <1>2, <2>1, PeerFacts DEF CloseAfterData, Outstanding, TypeOK
<1>10. (NeverCorrupt /\ AckedCloseMeansDelivered /\ PeerCloseMeansReceived)'
  BY <1>1, PeerFacts
     DEF NeverCorrupt, AckedCloseMeansDelivered, PeerCloseMeansReceived, Open, TypeOK
<1> QED  BY <1>4, <1>5, <1>7, <1>8, <1>9, <1>10
-----------------------------------------------------------------------------
(* Steps of the sender half *)

\* What RetransmitData, RetransmitClose and ReceiveAck have in common: packets
\* leave the queue only when the peer holds them, those that stay keep their
\* nonce, a close appears only with an empty queue after the end of the local
\* stream, and only queued packets and the close are sent.
SenderMoves(e) ==
    /\ \/ UNCHANGED status
       \/ Open(e) /\ status' = [status EXCEPT ![e] = "failed"]
    /\ UNCHANGED <<routed, connected, readClosed, nextOut, sealed, receiverVars>>
    /\ PerEnd(pending)'
    /\ board' \in [Endpoints -> SUBSET Nat]
    /\ tracker' \in [Endpoints -> AckTracker] /\ cong' \in [Endpoints -> Congestion]
    /\ close' \in [Endpoints -> [final : SeqOption, attempts : 0..MaxAttempts]]
    /\ \A f \in Endpoints \ {e} :
         pending'[f] = pending[f] /\ board'[f] = board[f] /\ close'[f] = close[f]
    /\ Outstanding(e)' \subseteq Outstanding(e)
    /\ pending'[e] \in [Outstanding(e)' -> NoncesAndAttempts]
    /\ \A t \in Outstanding(e)' : pending'[e][t].nonce = t
    /\ \A t \in Outstanding(e) \ Outstanding(e)' : Holds(Peer(e), t)
    /\ \A t \in board'[e] : Holds(Peer(e), t)
    /\ \/ close'[e] = close[e]
       \/ close[e] # NoClose /\ close'[e] # NoClose /\ close'[e].final = close[e].final
       \/ /\ close[e] = NoClose /\ close'[e] # NoClose /\ close'[e].final = nextOut[e]
          /\ Outstanding(e)' = {} /\ readClosed[e]
    /\ net \subseteq net'
    /\ \A d \in net' \ net :
         \/ \E t \in Outstanding(e) : d = Data(e, t, t)
         \/ close'[e] # NoClose /\ d = Close(e, close'[e].final)

\* Such a step preserves the invariant.
LEMMA SenderStep ==
  ASSUME BridgeInv, NEW e \in Endpoints, SenderMoves(e)
  PROVE  BridgeInv'
<1> USE DEF SenderMoves, receiverVars
<1>0. /\ status' \in [Endpoints -> Status]
      /\ \A f \in Endpoints :
           \/ status'[f] = status[f]
           \/ f = e /\ Open(e) /\ status'[f] = "failed"
  BY DEF BridgeInv, TypeOK, Status
<1>1. \A f \in Endpoints : close[f] # NoClose => close'[f] # NoClose /\ close'[f].final = close[f].final
  OBVIOUS
<1>2. \A d \in net' \ net : d \in Datagram
  <2> SUFFICES ASSUME NEW d \in net' \ net  PROVE d \in Datagram
    OBVIOUS
  <2>1. CASE \E t \in Outstanding(e) : d = Data(e, t, t)
    BY <2>1 DEF Data, Datagram, BridgeInv, TypeOK
  <2>2. CASE close'[e] # NoClose /\ d = Close(e, close'[e].final)
    <3>1. close'[e].final \in Nat
      BY <2>2 DEF BridgeInv, TypeOK, CloseAfterData
    <3> QED  BY <2>2, <3>1 DEF Close, Datagram
  <2> QED  BY <2>1, <2>2
<1>3. TypeOK'
  <2>1. \A f \in Endpoints : /\ Outstanding(f)' \subseteq Nat
                            /\ pending'[f] \in [Outstanding(f)' -> NoncesAndAttempts]
    BY DEF BridgeInv, TypeOK, Outstanding
  <2>2. \A m \in net' : m \in Datagram
    BY <1>2 DEF BridgeInv, TypeOK
  <2> QED  BY <1>0, <2>1, <2>2 DEF BridgeInv, TypeOK, Buffered, Unwritten
<1>4. \A f \in Endpoints : \A t \in Nat : Holds(f, t)' <=> Holds(f, t)
  BY DEF Holds, Buffered
<1>5. \A f \in Endpoints : SenderInv(f)'
  <2>1. SenderInv(e)'
    <3>1. \A t \in Outstanding(e)' : t < nextOut'[e] /\ pending'[e][t].nonce = t
      BY DEF BridgeInv, SenderInv
    <3>2. \A t \in board'[e] : Holds(Peer(e), t)'
      BY <1>4, PeerFacts
    <3>3. sealed'[e] = nextOut'[e]
      BY DEF BridgeInv, SenderInv
    <3> QED  BY <3>1, <3>2, <3>3 DEF SenderInv
  <2>2. ASSUME NEW f \in Endpoints, f # e  PROVE SenderInv(f)'
    BY <2>2 DEF BridgeInv, SenderInv, Outstanding, Holds, Buffered
  <2> QED  BY <2>1, <2>2
<1>6. \A f \in Endpoints : ReceiverInv(f)'
  BY <1>0 DEF BridgeInv, ReceiverInv, Buffered, Unwritten, Open
<1>7. Grows
  BY <1>0, <1>1 DEF Grows, Holds, Buffered, Open, BridgeInv, TypeOK
<1>8. \A m \in net' : Truthful(m)'
  <2>1. \A m \in net : Truthful(m)'
    BY <1>3, <1>7, PathStaysTruthful DEF BridgeInv
  <2> SUFFICES ASSUME NEW d \in net' \ net  PROVE Truthful(d)'
    BY <2>1
  <2>2. CASE \E t \in Outstanding(e) : d = Data(e, t, t)
    BY <2>2 DEF Data, Truthful, BridgeInv, SenderInv
  <2>3. CASE close'[e] # NoClose /\ d = Close(e, close'[e].final)
    BY <2>3 DEF Close, Truthful
  <2> QED  BY <2>2, <2>3
<1>9. NothingForgotten'
  <2> SUFFICES ASSUME NEW f \in Endpoints, NEW t \in 0..(nextOut[f] - 1)
               PROVE  t \in Outstanding(f)' \/ Holds(Peer(f), t)'
    BY DEF NothingForgotten
  <2>1. t \in Outstanding(f) \/ Holds(Peer(f), t)
    BY DEF BridgeInv, NothingForgotten
  <2>2. Holds(Peer(f), t) => Holds(Peer(f), t)'
    BY <1>4, PeerFacts
  <2>3. CASE f = e
    BY <2>1, <2>2, <2>3
  <2>4. CASE f # e
    BY <2>1, <2>2, <2>4 DEF Outstanding
  <2> QED  BY <2>3, <2>4
<1>10. CloseAfterData'
  <2> SUFFICES ASSUME NEW f \in Endpoints, close'[f] # NoClose
               PROVE  /\ Outstanding(f)' = {} /\ readClosed[f]
                      /\ close'[f].final = nextOut[f] /\ expected[Peer(f)] = nextOut[f]
    BY DEF CloseAfterData
  <2>1. CASE f # e
    BY <2>1 DEF BridgeInv, CloseAfterData, Outstanding
  <2>2. CASE f = e /\ close[e] # NoClose
    BY <2>2 DEF BridgeInv, CloseAfterData
  <2>3. CASE f = e /\ close[e] = NoClose
    <3>1. Outstanding(e)' = {} /\ readClosed[e] /\ close'[e].final = nextOut[e]
      BY <2>3
    <3>2. expected[Peer(e)] = nextOut[e]
      BY <3>1, AllHeld
    <3> QED  BY <2>3, <3>1, <3>2
  <2> QED  BY <2>1, <2>2, <2>3
<1>11. (ReorderWindow /\ NeverCorrupt /\ AckedCloseMeansDelivered /\ PeerCloseMeansReceived)'
  BY <1>0, PeerFacts DEF BridgeInv, ReorderWindow, NeverCorrupt, AckedCloseMeansDelivered,
         PeerCloseMeansReceived, Open, Buffered
<1> QED  BY <1>3, <1>5, <1>6, <1>8, <1>9, <1>10, <1>11 DEF BridgeInv

\* The queue is finite: it holds sequence numbers given out already.
LEMMA OutstandingFinite ==
  ASSUME BridgeInv, NEW e \in Endpoints
  PROVE  /\ nextOut[e] \in Nat /\ Outstanding(e) \in SUBSET (0..nextOut[e])
         /\ IsFiniteSet(Outstanding(e)) /\ Cardinality(Outstanding(e)) \in Nat
<1>1. nextOut[e] \in Nat /\ Outstanding(e) \in SUBSET (0..nextOut[e])
  BY DEF BridgeInv, TypeOK, SenderInv
<1>2. IsFiniteSet(0..nextOut[e])
  BY <1>1, FS_Interval
<1>3. IsFiniteSet(Outstanding(e))
  BY <1>1, <1>2, FS_Subset
<1> QED  BY <1>1, <1>3, FS_CardinalityType

\* A timed out packet is sent again as it was sealed the first time.
LEMMA RetransmitDataStep ==
  ASSUME BridgeInv, NEW e \in Endpoints, NEW s \in Outstanding(e), RetransmitData(e, s)
  PROVE  BridgeInv'
<1>1. /\ Open(e)
      /\ UNCHANGED <<readClosed, nextOut, sealed, board, tracker, close, receiverVars>>
  BY DEF RetransmitData, Selects
<1>2. CASE /\ pending[e][s].attempts < MaxAttempts /\ UNCHANGED linkVars
           /\ pending' = [pending EXCEPT ![e][s] = Resent(@)]
           /\ net' = net \cup {Data(e, s, pending[e][s].nonce)}
           /\ cong' = [cong EXCEPT ![e] = OnTimeout(Cardinality(Outstanding(e)))]
  <2>1. /\ pending[e] \in [Outstanding(e) -> NoncesAndAttempts]
        /\ PerEnd(pending)
        /\ \A t \in Outstanding(e) : pending[e][t].nonce = t
        /\ \A t \in board[e] : Holds(Peer(e), t)
    BY DEF BridgeInv, TypeOK, SenderInv
  <2>2. /\ PerEnd(pending)'
        /\ \A f \in Endpoints : f # e => pending'[f] = pending[f]
        /\ pending'[e] = [pending[e] EXCEPT ![s] = Resent(pending[e][s])]
    BY <1>2, <2>1 DEF PerEnd
  <2>3. /\ Outstanding(e)' = Outstanding(e)
        /\ pending'[e] \in [Outstanding(e)' -> NoncesAndAttempts]
        /\ \A t \in Outstanding(e)' : pending'[e][t].nonce = t
    <3>1. Resent(pending[e][s]) \in NoncesAndAttempts /\ Resent(pending[e][s]).nonce = s
      BY <1>2, <2>1, BoundAssumption DEF Resent, NoncesAndAttempts
    <3> QED  BY <2>1, <2>2, <3>1 DEF Outstanding
  <2>4. cong' \in [Endpoints -> Congestion]
    <3>1. OnTimeout(Cardinality(Outstanding(e))) \in Congestion
      BY OutstandingFinite, OnTimeoutType
    <3> QED  BY <1>2, <3>1 DEF BridgeInv, TypeOK
  <2>5. /\ board' \in [Endpoints -> SUBSET Nat] /\ tracker' \in [Endpoints -> AckTracker]
        /\ close' \in [Endpoints -> [final : SeqOption, attempts : 0..MaxAttempts]]
    BY <1>1 DEF BridgeInv, TypeOK
  <2>6. net \subseteq net' /\ \A d \in net' \ net : \E t \in Outstanding(e) : d = Data(e, t, t)
    BY <1>2, <2>1
  <2>7. /\ UNCHANGED <<linkVars, readClosed, nextOut, sealed, receiverVars>>
        /\ close'[e] = close[e] /\ board'[e] = board[e]
        /\ \A f \in Endpoints : f # e => /\ pending'[f] = pending[f]
                                        /\ board'[f] = board[f] /\ close'[f] = close[f]
    BY <1>1, <1>2, <2>2
  <2>8. /\ Outstanding(e)' \subseteq Outstanding(e)
        /\ \A t \in Outstanding(e) \ Outstanding(e)' : Holds(Peer(e), t)
        /\ \A t \in board'[e] : Holds(Peer(e), t)
    BY <2>1, <2>3, <2>7
  <2>9. SenderMoves(e)
    BY <2>2, <2>3, <2>4, <2>5, <2>6, <2>7, <2>8 DEF SenderMoves, linkVars
  <2> QED  BY <2>9, SenderStep
<1>3. CASE Abort(e, "failed") /\ UNCHANGED <<pending, net, cong>>
  <2>1. UNCHANGED <<readClosed, senderVars, close, receiverVars>> /\ net' = net
    BY <1>1, <1>3 DEF senderVars
  <2> QED  BY <1>1, <1>3, <2>1, QuietStep DEF Abort, BridgeInv, TypeOK
<1> QED  BY <1>2, <1>3 DEF RetransmitData

\* A close sent again says what the first one said.
LEMMA RetransmitCloseStep ==
  ASSUME BridgeInv, NEW e \in Endpoints, RetransmitClose(e)
  PROVE  BridgeInv'
<1> DEFINE closing == [final |-> close[e].final, attempts |-> close[e].attempts + 1]
<1>1. /\ Open(e) /\ close[e] # NoClose
      /\ UNCHANGED <<readClosed, senderVars, receiverVars>>
  BY DEF RetransmitClose, Selects
<1>2. CASE /\ close[e].attempts < MaxAttempts /\ UNCHANGED linkVars
           /\ close' = [close EXCEPT ![e] = closing]
           /\ net' = net \cup {Close(e, close[e].final)}
  <2>1. /\ pending[e] \in [Outstanding(e) -> NoncesAndAttempts]
        /\ PerEnd(pending)
        /\ \A t \in Outstanding(e) : pending[e][t].nonce = t
        /\ \A t \in board[e] : Holds(Peer(e), t)
        /\ tracker \in [Endpoints -> AckTracker] /\ cong \in [Endpoints -> Congestion]
        /\ board \in [Endpoints -> SUBSET Nat]
    BY DEF BridgeInv, TypeOK, SenderInv
  <2>2. /\ close \in [Endpoints -> [final : SeqOption, attempts : 0..MaxAttempts]]
        /\ close[e].final = nextOut[e] /\ nextOut[e] \in Nat
    BY <1>1 DEF BridgeInv, TypeOK, CloseAfterData
  <2>3. /\ closing \in [final : SeqOption, attempts : 0..MaxAttempts]
        /\ closing.final = close[e].final /\ closing # NoClose
    BY <1>2, <2>2, BoundAssumption DEF NoClose, NoSeq
  <2> HIDE DEF closing
  <2>4. /\ close' \in [Endpoints -> [final : SeqOption, attempts : 0..MaxAttempts]]
        /\ close'[e] = closing /\ \A f \in Endpoints : f # e => close'[f] = close[f]
    BY <1>2, <2>2, <2>3
  <2>5. Outstanding(e)' = Outstanding(e)
    BY <1>1 DEF Outstanding, senderVars
  <2>6. SenderMoves(e)
    BY <1>1, <1>2, <2>1, <2>3, <2>4, <2>5 DEF SenderMoves, senderVars, linkVars
  <2> QED  BY <2>6, SenderStep
<1>3. CASE Abort(e, "failed") /\ UNCHANGED <<close, net>>
  BY <1>1, <1>3, QuietStep DEF Abort, BridgeInv, TypeOK
<1> QED  BY <1>2, <1>3 DEF RetransmitClose

\* What an ack removes from the queue its sender holds, so a late, duplicate
\* or reordered ack does no harm.
LEMMA ReceiveAckStep ==
  ASSUME BridgeInv, NEW e \in Endpoints, NEW m \in net,
         NEW growth \in 0..Cardinality(Outstanding(e)), ReceiveAck(e, m, growth)
  PROVE  BridgeInv'
<1> DEFINE left == StillOutstanding(Outstanding(e), board[e], m.next, m.sack)
           result == HandleAck(Outstanding(e), board[e], tracker[e], cong[e],
                               m.next, m.sack, growth)
           again == left \cap {result.resend}
           spent == \E s \in again : pending[e][s].attempts >= MaxAttempts
           kept == [s \in left |-> IF s \in again THEN Resent(pending[e][s]) ELSE pending[e][s]]
           resends == {Data(e, s, pending[e][s].nonce) : s \in again}
<1>1. /\ Open(e) /\ m.from = Peer(e) /\ m.kind = "ack"
      /\ board' = [board EXCEPT ![e] = Observe(@, m.next, m.sack)]
      /\ tracker' = [tracker EXCEPT ![e] = result.tracker]
      /\ cong' = [cong EXCEPT ![e] = result.cong]
      /\ UNCHANGED <<readClosed, nextOut, sealed, receiverVars>>
      /\ \/ /\ ~spent
            /\ pending' = [pending EXCEPT ![e] = kept]
            /\ StartCloseIf(CloseDue(e, left, readClosed[e]), e, resends)
            /\ UNCHANGED linkVars
         \/ /\ spent
            /\ pending' = [pending EXCEPT ![e] = Keep(@, left)]
            /\ Abort(e, "failed")
            /\ UNCHANGED <<close, net>>
  BY DEF ReceiveAck, Receives, Selects
<1>2. /\ m.next \in Nat /\ m.sack \in SUBSET Nat
      /\ m.next <= expected[Peer(e)] /\ \A s \in m.sack : Holds(Peer(e), s)
  <2>1. m \in Datagram
    BY DEF BridgeInv, TypeOK
  <2>2. Truthful(m)
    BY DEF BridgeInv
  <2>3. m.next \in Nat /\ m.sack \in SUBSET Nat
    BY <1>1, <2>1 DEF Datagram
  <2> QED  BY <1>1, <2>2, <2>3 DEF Truthful
<1>3. /\ board \in [Endpoints -> SUBSET Nat] /\ \A s \in board[e] : Holds(Peer(e), s)
      /\ tracker \in [Endpoints -> AckTracker] /\ cong \in [Endpoints -> Congestion]
      /\ close \in [Endpoints -> [final : SeqOption, attempts : 0..MaxAttempts]]
      /\ PerEnd(pending) /\ pending[e] \in [Outstanding(e) -> NoncesAndAttempts]
      /\ \A s \in Outstanding(e) : pending[e][s].nonce = s
      /\ nextOut[e] \in Nat
  BY DEF BridgeInv, TypeOK, SenderInv
<1>4. /\ board[e] \in SUBSET (0..nextOut[e]) /\ m.sack \in SUBSET (0..nextOut[e])
      /\ Outstanding(e) \in SUBSET (0..nextOut[e])
  <2>1. \A s \in Nat : Holds(Peer(e), s) => s <= nextOut[e]
    BY PeerFacts DEF BridgeInv, TypeOK, ReceiverInv, Holds
  <2> QED  BY <1>2, <1>3, <2>1, OutstandingFinite
<1>5. /\ left \subseteq Outstanding(e)
      /\ \A s \in Outstanding(e) \ left : Holds(Peer(e), s)
      /\ Observe(board[e], m.next, m.sack) \subseteq Nat
      /\ \A s \in Observe(board[e], m.next, m.sack) : Holds(Peer(e), s)
  <2>1. expected[Peer(e)] \in Nat /\ Outstanding(e) \subseteq Nat
    BY PeerFacts DEF BridgeInv, TypeOK
  <2> QED  BY <1>2, <1>3, <2>1 DEF StillOutstanding, Observe, Trim, Holds
<1>6. result.tracker \in AckTracker /\ result.cong \in Congestion
  <2>1. growth \in Nat
    BY OutstandingFinite
  <2>2. tracker[e] \in AckTracker /\ cong[e] \in Congestion
    BY <1>3
  <2> QED  BY <1>2, <1>3, <1>4, <2>1, <2>2, HandleAckType
<1> HIDE DEF left, result
<1>7. /\ board' \in [Endpoints -> SUBSET Nat] /\ \A s \in board'[e] : Holds(Peer(e), s)
      /\ \A f \in Endpoints \ {e} : board'[f] = board[f]
      /\ tracker' \in [Endpoints -> AckTracker] /\ cong' \in [Endpoints -> Congestion]
  BY <1>1, <1>3, <1>5, <1>6
<1>8. CASE /\ ~spent /\ pending' = [pending EXCEPT ![e] = kept] /\ UNCHANGED linkVars
           /\ StartCloseIf(CloseDue(e, left, readClosed[e]), e, resends)
  <2>1. kept \in [left -> NoncesAndAttempts] /\ \A s \in left : kept[s].nonce = s
    <3>1. \A s \in left : pending[e][s] \in NoncesAndAttempts /\ pending[e][s].nonce = s
      BY <1>3, <1>5
    <3>2. \A s \in again : pending[e][s].attempts < MaxAttempts
      BY <1>8, <3>1, BoundAssumption DEF NoncesAndAttempts
    <3>3. \A s \in again : Resent(pending[e][s]) \in NoncesAndAttempts
      BY <3>1, <3>2, BoundAssumption DEF Resent, NoncesAndAttempts
    <3> QED  BY <3>1, <3>3 DEF Resent
  <2>2. \A d \in resends : \E s \in Outstanding(e) : d = Data(e, s, s)
    BY <1>3, <1>5
  <2> HIDE DEF kept, again, resends
  <2>3. /\ PerEnd(pending)' /\ pending'[e] = kept
        /\ \A f \in Endpoints \ {e} : pending'[f] = pending[f]
    BY <1>3, <1>8 DEF PerEnd
  <2>4. Outstanding(e)' = left
    BY <2>1, <2>3 DEF Outstanding
  <2>5. \/ close' = close /\ net' = net \cup resends
        \/ /\ close[e] = NoClose /\ left = {} /\ readClosed[e]
           /\ close' = [close EXCEPT ![e] = [final |-> nextOut[e], attempts |-> 1]]
           /\ net' = net \cup resends \cup {Close(e, nextOut[e])}
    BY <1>3, <1>8 DEF StartCloseIf, CloseDue
  <2>6. SenderMoves(e)
    <3>1. /\ Outstanding(e)' \subseteq Outstanding(e)
          /\ pending'[e] \in [Outstanding(e)' -> NoncesAndAttempts]
          /\ \A t \in Outstanding(e)' : pending'[e][t].nonce = t
          /\ \A t \in Outstanding(e) \ Outstanding(e)' : Holds(Peer(e), t)
      BY <1>5, <2>1, <2>3, <2>4
    <3>2. CASE close' = close /\ net' = net \cup resends
      BY <1>1, <1>3, <1>7, <1>8, <2>2, <2>3, <3>1, <3>2 DEF SenderMoves, linkVars
    <3>3. CASE /\ close[e] = NoClose /\ left = {} /\ readClosed[e]
               /\ close' = [close EXCEPT ![e] = [final |-> nextOut[e], attempts |-> 1]]
               /\ net' = net \cup resends \cup {Close(e, nextOut[e])}
      <4>1. [final |-> nextOut[e], attempts |-> 1]
              \in [final : SeqOption, attempts : 0..MaxAttempts]
        BY <1>3, BoundAssumption DEF SeqOption
      <4>2. /\ close' \in [Endpoints -> [final : SeqOption, attempts : 0..MaxAttempts]]
            /\ \A f \in Endpoints \ {e} : close'[f] = close[f]
            /\ close'[e] = [final |-> nextOut[e], attempts |-> 1]
        BY <1>3, <3>3, <4>1
      <4>3. close'[e] # NoClose /\ close'[e].final = nextOut[e]
        BY <4>2 DEF NoClose
      <4>4. net \subseteq net' /\ \A d \in net' \ net : \/ d \in resends
                                                      \/ d = Close(e, close'[e].final)
        BY <3>3, <4>3
      <4> QED  BY <1>1, <1>7, <1>8, <2>2, <2>3, <2>4, <3>1, <3>3, <4>2, <4>3, <4>4
                  DEF SenderMoves, linkVars
    <3> QED  BY <2>5, <3>2, <3>3
  <2> QED  BY <2>6, SenderStep
<1>9. CASE /\ spent /\ pending' = [pending EXCEPT ![e] = Keep(@, left)]
           /\ Abort(e, "failed") /\ UNCHANGED <<close, net>>
  <2>1. /\ PerEnd(pending)' /\ pending'[e] = Keep(pending[e], left)
        /\ \A f \in Endpoints \ {e} : pending'[f] = pending[f]
    BY <1>3, <1>9 DEF PerEnd
  <2>2. /\ Outstanding(e)' = left /\ pending'[e] \in [left -> NoncesAndAttempts]
        /\ \A s \in left : pending'[e][s].nonce = s
    BY <1>3, <1>5, <2>1 DEF Keep, Outstanding
  <2>3. /\ Outstanding(e)' \subseteq Outstanding(e)
        /\ pending'[e] \in [Outstanding(e)' -> NoncesAndAttempts]
        /\ \A t \in Outstanding(e)' : pending'[e][t].nonce = t
        /\ \A t \in Outstanding(e) \ Outstanding(e)' : Holds(Peer(e), t)
    BY <1>5, <2>2
  <2>4. SenderMoves(e)
    BY <1>1, <1>3, <1>7, <1>9, <2>1, <2>3 DEF SenderMoves, Abort
  <2> QED  BY <2>4, SenderStep
<1> QED  BY <1>1, <1>8, <1>9
-----------------------------------------------------------------------------
(* Steps of the receiver half *)

\* What the three ways to take a data packet and the write of a payload have
\* in common: the bridge keeps all it held, takes only what was sent, has still
\* to write what it released and has not written, and acks what it holds after
\* the step or nothing.
ReceiverMoves(e) ==
    /\ Open(e)
    /\ UNCHANGED <<linkVars, readClosed, senderVars, close>>
    /\ PerEnd(reorder)' /\ PerEnd(ready)'
    /\ expected' \in [Endpoints -> Nat] /\ opened' \in [Endpoints -> Nat]
    /\ \A f \in Endpoints \ {e} :
         /\ reorder'[f] = reorder[f] /\ ready'[f] = ready[f]
         /\ expected'[f] = expected[f] /\ opened'[f] = opened[f]
    /\ expected[e] <= expected'[e] /\ expected'[e] <= nextOut[Peer(e)]
    /\ opened[e] <= opened'[e] /\ opened'[e] <= expected'[e]
    /\ Buffered(e)' \subseteq (expected'[e] + 1)..(expected'[e] + ReorderLimit)
    /\ reorder'[e] \in [Buffered(e)' -> Nat]
    /\ \A s \in Buffered(e)' : s < nextOut[Peer(e)] /\ reorder'[e][s] = s
    /\ Unwritten(e)' = opened'[e]..(expected'[e] - 1)
    /\ ready'[e] \in [Unwritten(e)' -> Nat]
    /\ \A s \in Unwritten(e)' : ready'[e][s] = s
    /\ \A s \in Nat : Holds(e, s) => Holds(e, s)'
    /\ SendAck(e) \/ UNCHANGED net

\* Such a step preserves the invariant.
LEMMA ReceiverStep ==
  ASSUME BridgeInv, NEW e \in Endpoints, ReceiverMoves(e)
  PROVE  BridgeInv'
<1>1. /\ UNCHANGED <<status, routed, connected, readClosed, close>>
      /\ UNCHANGED <<nextOut, sealed, pending, board, tracker, cong>>
      /\ PerEnd(reorder)' /\ PerEnd(ready)'
      /\ expected' \in [Endpoints -> Nat] /\ opened' \in [Endpoints -> Nat]
  BY DEF ReceiverMoves, linkVars, senderVars
<1>2. /\ \A f \in Endpoints : Open(f)' <=> Open(f)
      /\ \A f \in Endpoints : Outstanding(f)' = Outstanding(f)
  BY <1>1 DEF Open, Outstanding
<1>3. /\ expected \in [Endpoints -> Nat] /\ opened \in [Endpoints -> Nat]
      /\ nextOut \in [Endpoints -> Nat]
      /\ \A f \in Endpoints : ReceiverInv(f) /\ Peer(f) \in Endpoints
  BY PeerFacts DEF BridgeInv, TypeOK
<1>4. /\ \A f \in Endpoints : expected[f] <= expected'[f] /\ opened[f] <= opened'[f]
      /\ \A f \in Endpoints : opened'[f] <= expected'[f] /\ expected'[f] <= nextOut[Peer(f)]
  <2>1. ASSUME NEW f \in Endpoints, f # e
        PROVE  /\ expected[f] = expected'[f] /\ opened[f] = opened'[f]
               /\ opened[f] <= expected[f] /\ expected[f] <= nextOut[Peer(f)]
    BY <1>3, <2>1 DEF ReceiverMoves, ReceiverInv
  <2>2. /\ expected[e] <= expected'[e] /\ opened[e] <= opened'[e]
        /\ opened'[e] <= expected'[e] /\ expected'[e] <= nextOut[Peer(e)]
    BY DEF ReceiverMoves
  <2> QED  BY <1>3, <2>1, <2>2
<1>5. \A f \in Endpoints :
        /\ Buffered(f)' \subseteq (expected'[f] + 1)..(expected'[f] + ReorderLimit)
        /\ Buffered(f)' \subseteq Nat
        /\ reorder'[f] \in [Buffered(f)' -> Nat]
        /\ \A s \in Buffered(f)' : s < nextOut[Peer(f)] /\ reorder'[f][s] = s
  <2>1. ASSUME NEW f \in Endpoints, f # e
        PROVE  /\ Buffered(f)' \subseteq (expected'[f] + 1)..(expected'[f] + ReorderLimit)
               /\ Buffered(f)' \subseteq Nat
               /\ reorder'[f] \in [Buffered(f)' -> Nat]
               /\ \A s \in Buffered(f)' : s < nextOut[Peer(f)] /\ reorder'[f][s] = s
    <3>1. reorder'[f] = reorder[f] /\ expected'[f] = expected[f] /\ Buffered(f)' = Buffered(f)
      BY <2>1 DEF ReceiverMoves, Buffered
    <3>2. Buffered(f) \subseteq Nat /\ reorder[f] \in [Buffered(f) -> Nat]
      BY DEF BridgeInv, TypeOK
    <3>3. Buffered(f) \subseteq (expected[f] + 1)..(expected[f] + ReorderLimit)
      BY DEF BridgeInv, ReorderWindow
    <3>4. \A s \in Buffered(f) : s < nextOut[Peer(f)] /\ reorder[f][s] = s
      BY <1>3 DEF ReceiverInv
    <3> QED  BY <3>1, <3>2, <3>3, <3>4
  <2>2. /\ Buffered(e)' \subseteq (expected'[e] + 1)..(expected'[e] + ReorderLimit)
        /\ reorder'[e] \in [Buffered(e)' -> Nat]
        /\ \A s \in Buffered(e)' : s < nextOut[Peer(e)] /\ reorder'[e][s] = s
    BY DEF ReceiverMoves
  <2>3. Buffered(e)' \subseteq Nat
    BY <1>1, <2>2, BoundAssumption
  <2> QED  BY <2>1, <2>2, <2>3
<1>6. \A f \in Endpoints :
        /\ Unwritten(f)' \subseteq Nat /\ ready'[f] \in [Unwritten(f)' -> Nat]
        /\ Open(f) => Unwritten(f)' = opened'[f]..(expected'[f] - 1)
        /\ \A s \in Unwritten(f)' : ready'[f][s] = s
  <2>1. ASSUME NEW f \in Endpoints, f # e
        PROVE  /\ Unwritten(f)' \subseteq Nat /\ ready'[f] \in [Unwritten(f)' -> Nat]
               /\ Open(f) => Unwritten(f)' = opened'[f]..(expected'[f] - 1)
               /\ \A s \in Unwritten(f)' : ready'[f][s] = s
    <3>1. /\ ready'[f] = ready[f] /\ expected'[f] = expected[f] /\ opened'[f] = opened[f]
          /\ Unwritten(f)' = Unwritten(f)
      BY <2>1 DEF ReceiverMoves, Unwritten
    <3>2. Unwritten(f) \subseteq Nat /\ ready[f] \in [Unwritten(f) -> Nat]
      BY DEF BridgeInv, TypeOK
    <3>3. /\ Open(f) => Unwritten(f) = opened[f]..(expected[f] - 1)
          /\ \A s \in Unwritten(f) : ready[f][s] = s
      BY <1>3 DEF ReceiverInv
    <3> QED  BY <3>1, <3>2, <3>3
  <2>2. /\ Unwritten(e)' = opened'[e]..(expected'[e] - 1)
        /\ ready'[e] \in [Unwritten(e)' -> Nat]
        /\ \A s \in Unwritten(e)' : ready'[e][s] = s
    BY DEF ReceiverMoves
  <2>3. Unwritten(e)' \subseteq Nat
    BY <1>1, <2>2
  <2> QED  BY <2>1, <2>2, <2>3
<1>7. \A f \in Endpoints : \A s \in Nat : Holds(f, s) => Holds(f, s)'
  <2>1. \A f \in Endpoints : f # e => reorder'[f] = reorder[f] /\ expected'[f] = expected[f]
    BY DEF ReceiverMoves
  <2>2. \A s \in Nat : Holds(e, s) => Holds(e, s)'
    BY DEF ReceiverMoves
  <2> QED  BY <2>1, <2>2 DEF Holds, Buffered
<1>8. PICK a : a = Ack(e, expected'[e], SelectiveAck(DOMAIN reorder'[e]))
  OBVIOUS
<1>9. /\ a.kind = "ack" /\ a.from = e /\ a.next = expected'[e]
      /\ a.sack \subseteq Buffered(e)' /\ a \in Datagram
  <2>1. expected'[e] \in Nat /\ Buffered(e)' \subseteq Nat
    BY <1>1, <1>5
  <2>2. SelectiveAck(DOMAIN reorder'[e]) \subseteq Buffered(e)'
    BY DEF SelectiveAck, Buffered
  <2> QED  BY <1>8, <2>1, <2>2 DEF Ack, Datagram
<1>10. net' = net \/ net' = net \cup {a}
  BY <1>8 DEF ReceiverMoves, SendAck
<1>11. TypeOK'
  <2>1. \A m \in net' : m \in Datagram
    BY <1>9, <1>10 DEF BridgeInv, TypeOK
  <2>2. TypeOK
    BY DEF BridgeInv
  <2> QED  BY <1>1, <1>2, <1>5, <1>6, <2>1, <2>2 DEF TypeOK
<1>12. \A f \in Endpoints : SenderInv(f)'
  <2>1. \A f \in Endpoints : \A s \in board[f] : Holds(Peer(f), s)'
    BY <1>3, <1>7 DEF BridgeInv, TypeOK, SenderInv
  <2>2. \A f \in Endpoints : SenderInv(f)
    BY DEF BridgeInv
  <2> QED  BY <1>1, <1>2, <2>1, <2>2 DEF SenderInv
<1>13. \A f \in Endpoints : ReceiverInv(f)'
  BY <1>1, <1>2, <1>4, <1>5, <1>6 DEF ReceiverInv
<1>14. Grows
  BY <1>1, <1>2, <1>3, <1>4, <1>7 DEF Grows
<1>15. \A m \in net' : Truthful(m)'
  <2>1. \A m \in net : Truthful(m)'
    BY <1>11, <1>14, PathStaysTruthful DEF BridgeInv
  <2>2. Truthful(a)'
    <3>1. expected'[e] \in Nat
      BY <1>1
    <3> QED  BY <1>9, <3>1 DEF Truthful, Holds
  <2> QED  BY <1>10, <2>1, <2>2
<1>16. NothingForgotten'
  <2> SUFFICES ASSUME NEW f \in Endpoints, NEW t \in 0..(nextOut[f] - 1)
               PROVE  t \in Outstanding(f)' \/ Holds(Peer(f), t)'
    BY <1>1 DEF NothingForgotten
  <2>1. t \in Outstanding(f) \/ Holds(Peer(f), t)
    BY DEF BridgeInv, NothingForgotten
  <2> QED  BY <1>2, <1>3, <1>7, <2>1
<1>17. CloseAfterData'
  <2> SUFFICES ASSUME NEW f \in Endpoints, close[f] # NoClose
               PROVE  /\ Outstanding(f)' = {} /\ readClosed[f]
                      /\ close[f].final = nextOut[f] /\ expected'[Peer(f)] = nextOut[f]
    BY <1>1 DEF CloseAfterData
  <2>1. /\ Outstanding(f) = {} /\ readClosed[f]
        /\ close[f].final = nextOut[f] /\ expected[Peer(f)] = nextOut[f]
    BY DEF BridgeInv, CloseAfterData
  <2>2. Peer(f) \in Endpoints /\ Peer(Peer(f)) = f
    BY PeerFacts
  <2>3. expected[Peer(f)] <= expected'[Peer(f)] /\ expected'[Peer(f)] <= nextOut[f]
    BY <1>4, <2>2
  <2>4. expected[Peer(f)] \in Nat /\ expected'[Peer(f)] \in Nat
    BY <1>1, <1>3, <2>2
  <2> QED  BY <1>2, <2>1, <2>3, <2>4
<1>18. ReorderWindow'
  BY <1>5 DEF ReorderWindow
<1>19. (NeverCorrupt /\ AckedCloseMeansDelivered /\ PeerCloseMeansReceived)'
  <2>1. NeverCorrupt /\ AckedCloseMeansDelivered /\ PeerCloseMeansReceived /\ Open(e)
    BY DEF BridgeInv, ReceiverMoves
  <2>2. \A f \in Endpoints : f # e => opened'[f] = opened[f]
    BY DEF ReceiverMoves
  <2>3. \A f \in Endpoints : status[f] = "ackedClose" => Peer(f) # e /\ Peer(f) \in Endpoints
    BY <2>1, PeerFacts DEF AckedCloseMeansDelivered
  <2>4. \A f \in Endpoints : status[f] = "peerClose" => f # e
    BY <2>1 DEF Open
  <2>5. AckedCloseMeansDelivered'
    BY <1>1, <1>2, <2>1, <2>2, <2>3 DEF AckedCloseMeansDelivered
  <2>6. PeerCloseMeansReceived'
    BY <1>1, <2>1, <2>2, <2>4 DEF PeerCloseMeansReceived
  <2> QED  BY <1>1, <2>1, <2>5, <2>6 DEF NeverCorrupt
<1> QED  BY <1>11, <1>12, <1>13, <1>15, <1>16, <1>17, <1>18, <1>19 DEF BridgeInv

\* A packet that was sent decrypts: its nonce is its place in the stream.
LEMMA ReceiveDataStep ==
  ASSUME BridgeInv, NEW e \in Endpoints, NEW m \in net, ReceiveData(e, m)
  PROVE  BridgeInv'
<1>1. /\ Open(e) /\ UNCHANGED <<readClosed, senderVars, close>>
      /\ m.seq \in Nat /\ m.nonce = m.seq /\ m.seq < nextOut[Peer(e)]
  <2>1. m \in Datagram /\ Truthful(m) /\ m.kind = "data" /\ m.from = Peer(e)
    BY DEF ReceiveData, Receives, Selects, BridgeInv, TypeOK
  <2> QED  BY <2>1 DEF ReceiveData, Receives, Selects, Truthful, Datagram
<1>2. /\ expected \in [Endpoints -> Nat] /\ opened \in [Endpoints -> Nat]
      /\ PerEnd(reorder) /\ reorder[e] \in [Buffered(e) -> Nat] /\ Buffered(e) \subseteq Nat
      /\ opened[e] = expected[e] /\ expected[e] <= nextOut[Peer(e)]
      /\ PerEnd(ready) /\ Unwritten(e) = {} /\ Unwritten(e) = opened[e]..(expected[e] - 1)
      /\ ready[e] \in [Unwritten(e) -> Nat]
      /\ \A s \in Buffered(e) : s < nextOut[Peer(e)] /\ reorder[e][s] = s
      /\ Buffered(e) \subseteq (expected[e] + 1)..(expected[e] + ReorderLimit)
      /\ nextOut[Peer(e)] \in Nat /\ ReorderLimit \in Nat
  <2>1. /\ Unwritten(e) = {} /\ Unwritten(e) = opened[e]..(expected[e] - 1)
        /\ opened[e] \in Nat /\ expected[e] \in Nat /\ opened[e] <= expected[e]
    BY <1>1 DEF ReceiveData, Receives, Selects, BridgeInv, TypeOK, ReceiverInv
  <2>2. opened[e] = expected[e]
    BY <2>1
  <2> QED  BY <1>1, <2>1, <2>2, PeerFacts, BoundAssumption
           DEF BridgeInv, TypeOK, ReceiverInv, ReorderWindow
<1>3. CASE DropData(e, m)
  <2>1. ReceiverMoves(e)
    BY <1>1, <1>2, <1>3 DEF ReceiverMoves, DropData, receiverVars, linkVars, Buffered, Unwritten, Holds
  <2> QED  BY <2>1, ReceiverStep
<1>4. CASE BufferData(e, m)
  <2>1. /\ reorder' = [reorder EXCEPT ![e] = IF m.seq \in Buffered(e) THEN @
                                            ELSE Put(@, m.seq, m.nonce)]
        /\ UNCHANGED <<linkVars, expected, opened, ready>> /\ SendAck(e)
        /\ m.seq > expected[e] /\ m.seq <= expected[e] + ReorderLimit
    BY <1>1, <1>2, <1>4 DEF BufferData, Unwanted
  <2>2. /\ PerEnd(reorder)' /\ \A f \in Endpoints \ {e} : reorder'[f] = reorder[f]
        /\ Buffered(e)' = Buffered(e) \cup {m.seq}
        /\ reorder'[e] \in [Buffered(e)' -> Nat]
        /\ \A s \in Buffered(e)' : reorder'[e][s] = s
    BY <1>1, <1>2, <2>1 DEF PerEnd, Put, Buffered
  <2>3. ReceiverMoves(e)
    BY <1>1, <1>2, <2>1, <2>2 DEF ReceiverMoves, linkVars, Unwritten, Holds
  <2> QED  BY <2>3, ReceiverStep
<1>5. ASSUME NEW next \in (m.seq + 1)..(m.seq + ReorderLimit + 1), ReleaseData(e, m, next)
      PROVE  BridgeInv'
  <2> DEFINE run == m.seq..(next - 1)
             payloads == [s \in run |-> IF s = m.seq THEN m.nonce ELSE reorder[e][s]]
  <2>1. /\ next \in Nat /\ m.seq < next /\ m.seq = expected[e]
        /\ run \subseteq Buffered(e) \cup {m.seq} /\ next \notin Buffered(e)
        /\ expected' = [expected EXCEPT ![e] = next]
        /\ reorder' = [reorder EXCEPT ![e] = Keep(@, Buffered(e) \ run)]
        /\ ready' = [ready EXCEPT ![e] = payloads]
        /\ UNCHANGED <<linkVars, opened, net>>
    <3>1. next \in Nat /\ m.seq < next
      BY <1>1, <1>2
    <3> QED  BY <1>5, <3>1 DEF ReleaseData
  <2>2. payloads \in [run -> Nat] /\ \A s \in run : payloads[s] = s
    <3>1. \A s \in run : s # m.seq => s \in Nat /\ reorder[e][s] = s
      BY <1>2, <2>1
    <3> QED  BY <1>1, <3>1
  <2> HIDE DEF payloads
  <2>3. /\ PerEnd(ready)' /\ \A f \in Endpoints \ {e} : ready'[f] = ready[f]
        /\ Unwritten(e)' = run /\ ready'[e] \in [Unwritten(e)' -> Nat]
        /\ \A s \in Unwritten(e)' : ready'[e][s] = s
    BY <1>2, <2>1, <2>2 DEF PerEnd, Unwritten
  <2>4. next <= nextOut[Peer(e)]
    <3>1. next - 1 \in run
      BY <1>1, <2>1
    <3>2. next - 1 < nextOut[Peer(e)]
      BY <1>1, <1>2, <2>1, <3>1
    <3> QED  BY <1>2, <2>1, <3>2
  <2>5. /\ PerEnd(reorder)' /\ \A f \in Endpoints \ {e} : reorder'[f] = reorder[f]
        /\ Buffered(e)' = Buffered(e) \ run
        /\ reorder'[e] \in [Buffered(e)' -> Nat]
        /\ \A s \in Buffered(e)' : reorder'[e][s] = s
    BY <1>2, <2>1 DEF PerEnd, Keep, Buffered
  <2>6. /\ Buffered(e) \ run \subseteq (next + 1)..(next + ReorderLimit)
        /\ \A s \in Nat : Holds(e, s) => s < next \/ s \in Buffered(e) \ run
    BY <1>1, <1>2, <2>1 DEF Holds
  <2>7. /\ expected' \in [Endpoints -> Nat] /\ expected'[e] = next
        /\ opened' \in [Endpoints -> Nat] /\ opened'[e] = m.seq
        /\ \A f \in Endpoints \ {e} : expected'[f] = expected[f] /\ opened'[f] = opened[f]
    BY <1>1, <1>2, <2>1
  <2>8. \A s \in Nat : Holds(e, s) => Holds(e, s)'
    BY <2>5, <2>6, <2>7 DEF Holds
  <2>9. /\ expected[e] <= expected'[e] /\ expected'[e] <= nextOut[Peer(e)]
        /\ opened[e] <= opened'[e] /\ opened'[e] <= expected'[e]
        /\ Unwritten(e)' = opened'[e]..(expected'[e] - 1)
        /\ Buffered(e)' \subseteq (expected'[e] + 1)..(expected'[e] + ReorderLimit)
        /\ \A s \in Buffered(e)' : s < nextOut[Peer(e)]
    BY <1>1, <1>2, <2>1, <2>3, <2>4, <2>5, <2>6, <2>7
  <2> HIDE DEF run
  <2>10. ReceiverMoves(e)
    BY <1>1, <2>1, <2>3, <2>5, <2>7, <2>8, <2>9 DEF ReceiverMoves
  <2> QED  BY <2>10, ReceiverStep
<1> QED  BY <1>3, <1>4, <1>5 DEF ReceiveData

\* The payload to write next is the one the receiver's counter is at.
LEMMA WriteReadyStep ==
  ASSUME BridgeInv, NEW e \in Endpoints, WriteReady(e)
  PROVE  ReceiverMoves(e) /\ BridgeInv'
<1>1. PICK s \in Unwritten(e) :
        /\ Open(e) /\ \A r \in Unwritten(e) : s <= r
        /\ UNCHANGED <<readClosed, senderVars, close, expected, reorder>>
        /\ \/ /\ ready[e][s] = opened[e]
              /\ opened' = [opened EXCEPT ![e] = @ + 1]
              /\ ready' = [ready EXCEPT ![e] = Keep(@, Unwritten(e) \ {s})]
              /\ SendAck(e) \/ UNCHANGED net
              /\ UNCHANGED linkVars
           \/ ready[e][s] # opened[e]
  BY DEF WriteReady
<1>2. /\ expected \in [Endpoints -> Nat] /\ opened \in [Endpoints -> Nat]
      /\ PerEnd(reorder) /\ reorder[e] \in [Buffered(e) -> Nat]
      /\ PerEnd(ready) /\ ready[e] \in [Unwritten(e) -> Nat]
      /\ Unwritten(e) = opened[e]..(expected[e] - 1)
      /\ \A r \in Unwritten(e) : ready[e][r] = r
      /\ expected[e] <= nextOut[Peer(e)] /\ nextOut[Peer(e)] \in Nat
      /\ \A r \in Buffered(e) : r < nextOut[Peer(e)] /\ reorder[e][r] = r
      /\ Buffered(e) \subseteq (expected[e] + 1)..(expected[e] + ReorderLimit)
  BY <1>1, PeerFacts DEF BridgeInv, TypeOK, ReceiverInv, ReorderWindow
<1>3. s = opened[e] /\ s \in Nat /\ s < expected[e] /\ ready[e][s] = s
  <2>1. opened[e] \in Nat /\ expected[e] \in Nat
    BY <1>2
  <2> QED  BY <1>1, <1>2, <2>1
<1>4. /\ opened' = [opened EXCEPT ![e] = @ + 1]
      /\ ready' = [ready EXCEPT ![e] = Keep(@, Unwritten(e) \ {s})]
      /\ SendAck(e) \/ UNCHANGED net
      /\ UNCHANGED linkVars
  BY <1>1, <1>3
<1>5. /\ opened' \in [Endpoints -> Nat] /\ opened'[e] = s + 1
      /\ \A f \in Endpoints \ {e} : opened'[f] = opened[f]
  BY <1>2, <1>3, <1>4
<1>6. /\ PerEnd(ready)' /\ \A f \in Endpoints \ {e} : ready'[f] = ready[f]
      /\ Unwritten(e)' = Unwritten(e) \ {s}
      /\ ready'[e] \in [Unwritten(e)' -> Nat]
      /\ \A r \in Unwritten(e)' : ready'[e][r] = r
  BY <1>2, <1>4 DEF PerEnd, Keep, Unwritten
<1>7. Unwritten(e) \ {s} = (s + 1)..(expected[e] - 1)
  <2>1. expected[e] \in Nat /\ Unwritten(e) = s..(expected[e] - 1)
    BY <1>2, <1>3
  <2> QED  BY <1>3, <2>1
<1>8. /\ UNCHANGED <<expected, reorder, readClosed, senderVars, close>>
      /\ Buffered(e)' = Buffered(e) /\ \A r \in Nat : Holds(e, r) => Holds(e, r)'
      /\ opened[e] <= opened'[e] /\ opened'[e] <= expected[e] /\ expected[e] <= expected[e]
  BY <1>1, <1>2, <1>3, <1>5 DEF Holds, Buffered
<1>9. Open(e) /\ PerEnd(reorder)'
  BY <1>1, <1>2, <1>8
<1>10. Unwritten(e)' = opened'[e]..(expected'[e] - 1)
  BY <1>5, <1>6, <1>7, <1>8
<1>11. /\ Buffered(e)' \subseteq (expected'[e] + 1)..(expected'[e] + ReorderLimit)
       /\ reorder'[e] \in [Buffered(e)' -> Nat]
       /\ \A r \in Buffered(e)' : r < nextOut[Peer(e)] /\ reorder'[e][r] = r
       /\ expected' \in [Endpoints -> Nat] /\ expected'[e] <= nextOut[Peer(e)]
       /\ opened'[e] <= expected'[e] /\ expected[e] <= expected'[e]
       /\ \A f \in Endpoints \ {e} : reorder'[f] = reorder[f] /\ expected'[f] = expected[f]
  <2>1. expected[e] \in Nat
    BY <1>2
  <2> QED  BY <1>2, <1>8, <2>1
<1>12. ReceiverMoves(e)
  BY <1>4, <1>5, <1>6, <1>8, <1>9, <1>10, <1>11 DEF ReceiverMoves
<1> QED  BY <1>12, ReceiverStep
-----------------------------------------------------------------------------
(* The theorems *)

\* Every step of the two bridges preserves the invariant.
LEMMA NextPreserves == BridgeInv /\ [Next]_vars => BridgeInv'
<1> SUFFICES ASSUME BridgeInv, [Next]_vars  PROVE BridgeInv'
  OBVIOUS
<1>1. CASE UNCHANGED vars
  <2> USE <1>1 DEF BridgeInv, vars, linkVars, senderVars, receiverVars
  <2>1. TypeOK'
    BY DEF TypeOK, Outstanding, Buffered, Unwritten, PerEnd
  <2>2. (\A e \in Endpoints : SenderInv(e) /\ ReceiverInv(e))'
    BY DEF SenderInv, ReceiverInv, Outstanding, Buffered, Unwritten, Holds, Open
  <2>3. \A m \in net' : Truthful(m)'
    <3>1. Grows
      BY DEF Grows, Holds, Buffered, Open, TypeOK
    <3>2. \A m \in net : Truthful(m)'
      BY <2>1, <3>1, PathStaysTruthful
    <3> QED  BY <3>2
  <2>4. (NothingForgotten /\ CloseAfterData /\ ReorderWindow)'
    BY DEF NothingForgotten, CloseAfterData, ReorderWindow, Holds, Outstanding, Buffered, Unwritten
  <2>5. (NeverCorrupt /\ AckedCloseMeansDelivered /\ PeerCloseMeansReceived)'
    BY DEF NeverCorrupt, AckedCloseMeansDelivered, PeerCloseMeansReceived, Open
  <2> QED  BY <2>1, <2>2, <2>3, <2>4, <2>5
<1>2. ASSUME NEW e \in Endpoints, ReadChunk(e)  PROVE BridgeInv'
  BY <1>2, ReadChunkStep
<1>3. ASSUME NEW e \in Endpoints, ReadEof(e)  PROVE BridgeInv'
  BY <1>3, ReadEofStep
<1>4. ASSUME NEW e \in Endpoints, RetransmitTick(e)  PROVE BridgeInv'
  BY <1>4, RetransmitDataStep, RetransmitCloseStep DEF RetransmitTick
<1>5. ASSUME NEW e \in Endpoints, NEW m \in net, Receive(e, m)  PROVE BridgeInv'
  BY <1>5, ReceiveDataStep, ReceiveAckStep, ReceiveCloseStep, ReceiveCloseAckStep DEF Receive
<1>6. ASSUME NEW e \in Endpoints,
             \/ ConnectionLost(e) \/ CutOff(e) \/ RouteGone(e)
             \/ LocalFailure(e) \/ PeerIdleTimeout(e)
      PROVE  BridgeInv'
  BY <1>6, EndingSteps
<1>7. ASSUME NEW e \in Endpoints, WriteReady(e)  PROVE BridgeInv'
  BY <1>7, WriteReadyStep
<1>8. CASE Finished
  BY <1>1, <1>8 DEF Finished
<1> QED  BY <1>1, <1>2, <1>3, <1>4, <1>5, <1>6, <1>7, <1>8 DEF Next

\* BridgeInv holds in every reachable state, for every instance: acting on a
\* late, duplicate or reordered datagram never breaks what the ends promise.
THEOREM BridgeInvariant == Spec => []BridgeInv
<1>1. Init => BridgeInv
  BY InitEstablishes
<1>2. BridgeInv /\ [Next]_vars => BridgeInv'
  BY NextPreserves
<1> QED  BY <1>1, <1>2, PTL DEF Spec

\* The state and every datagram stay well typed.
THEOREM TypeCorrect == Spec => []TypeOK
<1>1. BridgeInv => TypeOK
  BY DEF BridgeInv
<1> QED  BY <1>1, BridgeInvariant, PTL

\* What a sender has dropped from its queue its peer holds for good.
THEOREM NothingIsForgotten == Spec => []NothingForgotten
<1>1. BridgeInv => NothingForgotten
  BY DEF BridgeInv
<1> QED  BY <1>1, BridgeInvariant, PTL

\* The reorder buffer never holds more than the numbers in its window.
THEOREM ReorderStaysInWindow == Spec => []ReorderWindow
<1>1. BridgeInv => ReorderWindow
  BY DEF BridgeInv
<1> QED  BY <1>1, BridgeInvariant, PTL

\* A close is sent only when the peer has released the whole stream in turn.
THEOREM CloseComesLast == Spec => []CloseAfterData
<1>1. BridgeInv => CloseAfterData
  BY DEF BridgeInv
<1> QED  BY <1>1, BridgeInvariant, PTL

\* No decryption ever fails: the counters of the two ends agree.
THEOREM CountersAgree == Spec => []NeverCorrupt
<1>1. BridgeInv => NeverCorrupt
  BY DEF BridgeInv
<1> QED  BY <1>1, BridgeInvariant, PTL

\* A bridge that ends on an acked close has delivered everything.
THEOREM AckedCloseIsSound == Spec => []AckedCloseMeansDelivered
<1>1. BridgeInv => AckedCloseMeansDelivered
  BY DEF BridgeInv
<1> QED  BY <1>1, BridgeInvariant, PTL

\* A bridge that ends on its peer's close has received everything.
THEOREM PeerCloseIsSound == Spec => []PeerCloseMeansReceived
<1>1. BridgeInv => PeerCloseMeansReceived
  BY DEF BridgeInv
<1> QED  BY <1>1, BridgeInvariant, PTL
-----------------------------------------------------------------------------
(* The channel implements ReliableStream *)

\* The abstract outcome follows the status of the one bridge that moves.
LEMMA OutcomeMoves ==
  ASSUME TypeOK, NEW e \in Endpoints, NEW how \in Status, Open(e),
         status' = [status EXCEPT ![e] = how]
  PROVE  LET outcome == [f \in Endpoints |-> Outcome(status[f])]
         IN  outcome' = [outcome EXCEPT ![e] = Outcome(how)] /\ outcome[e] = "running"
<1>1. \A f \in Endpoints : status'[f] = IF f = e THEN how ELSE status[f]
  BY DEF TypeOK
<1> QED  BY <1>1, ZenonT(60) DEF Outcome, Open

\* A step that ends a bridge, whatever it had still to write.
LEMMA BreaksStream ==
  ASSUME BridgeInv, NEW e \in Endpoints, Open(e),
         NEW how \in {"cut", "failed"}, status' = [status EXCEPT ![e] = how],
         UNCHANGED <<sealed, readClosed, opened>>
  PROVE  Stream!Break(e)
<1>1. how \in Status /\ Outcome(how) = "broken"
  BY DEF Status, Outcome
<1>2. opened \in [Endpoints -> Nat] /\ sealed[Peer(e)] \in Nat
  BY PeerFacts DEF BridgeInv, TypeOK
<1>3. opened[e] <= sealed[Peer(e)]
  <2>1. opened[e] <= expected[e] /\ expected[e] <= nextOut[Peer(e)]
    BY DEF BridgeInv, ReceiverInv
  <2>2. nextOut[Peer(e)] = sealed[Peer(e)] /\ expected[e] \in Nat
    BY PeerFacts DEF BridgeInv, TypeOK, SenderInv
  <2> QED  BY <1>2, <2>1, <2>2
<1>4. opened[e] \in opened[e]..sealed[Peer(e)] /\ opened' = [opened EXCEPT ![e] = opened[e]]
  BY <1>2, <1>3
<1>6. /\ [f \in Endpoints |-> Outcome(status'[f])]
           = [[f \in Endpoints |-> Outcome(status[f])] EXCEPT ![e] = "broken"]
      /\ [f \in Endpoints |-> Outcome(status[f])][e] = "running"
  BY <1>1, OutcomeMoves, ZenonT(60) DEF BridgeInv
<1> QED  BY <1>4, <1>6 DEF Stream!Break, Stream!Running, Stream!Advance

\* A step that ends a bridge cleanly finds one of the two streams complete.
LEMMA FinishesStream ==
  ASSUME BridgeInv, NEW e \in Endpoints, Open(e),
         NEW how \in {"ackedClose", "peerClose"}, status' = [status EXCEPT ![e] = how],
         UNCHANGED <<sealed, readClosed, opened>>,
         \/ readClosed[e] /\ opened[Peer(e)] = sealed[e]
         \/ readClosed[Peer(e)] /\ opened[e] = sealed[Peer(e)]
  PROVE  Stream!Finish(e)
<1>1. how \in Status /\ Outcome(how) = "clean"
  BY DEF Status, Outcome
<1>2. /\ [f \in Endpoints |-> Outcome(status'[f])]
           = [[f \in Endpoints |-> Outcome(status[f])] EXCEPT ![e] = "clean"]
      /\ [f \in Endpoints |-> Outcome(status[f])][e] = "running"
  BY <1>1, OutcomeMoves DEF BridgeInv
<1> QED  BY <1>2, PeerFacts DEF Stream!Finish, Stream!Running, Stream!Complete
\* What the abstract specification sees of a step that it does not see.
Unseen == UNCHANGED <<status, sealed, readClosed, opened>>

\* The receiver's steps finish, break or change nothing seen.
LEMMA ReceiveRefines ==
  ASSUME BridgeInv, BridgeInv', NEW e \in Endpoints, NEW m \in net, Receive(e, m)
  PROVE  Stream!Next \/ Unseen
<1> USE DEF linkVars, senderVars, receiverVars
<1>0. Open(e)
  BY DEF Receive, ReceiveData, ReceiveAck, ReceiveClose, ReceiveCloseAck, Receives, Selects
<1>1. CASE ReceiveData(e, m)
  BY <1>1 DEF ReceiveData, DropData, BufferData, ReleaseData, Unseen
<1>2. ASSUME NEW growth \in 0..Cardinality(Outstanding(e)), ReceiveAck(e, m, growth)
      PROVE  Stream!Next \/ Unseen
  <2>1. /\ UNCHANGED <<readClosed, sealed, opened>>
        /\ UNCHANGED status \/ status' = [status EXCEPT ![e] = "failed"]
    BY <1>2 DEF ReceiveAck, Abort
  <2>2. CASE status' = [status EXCEPT ![e] = "failed"]
    BY <1>0, <2>1, <2>2, BreaksStream DEF Stream!Next
  <2> QED  BY <2>1, <2>2 DEF Unseen
<1>3. CASE ReceiveClose(e, m)
  <2>1. UNCHANGED <<readClosed, sealed, opened>>
    BY <1>3 DEF ReceiveClose
  <2>2. CASE UNCHANGED linkVars
    BY <2>1, <2>2 DEF Unseen
  <2>3. CASE Leave(e, "peerClose")
    <3>1. status' = [status EXCEPT ![e] = "peerClose"] /\ status'[e] = "peerClose"
      BY <2>3 DEF Leave, BridgeInv, TypeOK
    <3>2. readClosed[Peer(e)] /\ opened[e] = sealed[Peer(e)]
      BY <2>1, <3>1, PeerFacts DEF BridgeInv, PeerCloseMeansReceived
    <3>3. Stream!Finish(e)
      BY <1>0, <2>1, <3>1, <3>2, FinishesStream
    <3> QED  BY <3>3 DEF Stream!Next
  <2>4. CASE Abort(e, "failed")
    <3>1. Stream!Break(e)
      BY <1>0, <2>1, <2>4, BreaksStream DEF Abort
    <3> QED  BY <3>1 DEF Stream!Next
  <2> QED  BY <1>3, <2>2, <2>3, <2>4 DEF ReceiveClose
<1>4. CASE ReceiveCloseAck(e, m)
  <2>1. UNCHANGED <<readClosed, sealed, opened, close>>
    BY <1>4 DEF ReceiveCloseAck
  <2>2. CASE close[e] # NoClose /\ Leave(e, "ackedClose")
    <3>1. status' = [status EXCEPT ![e] = "ackedClose"] /\ status'[e] = "ackedClose"
      BY <2>2 DEF Leave, BridgeInv, TypeOK
    <3>2. opened[Peer(e)] = sealed[e]
      BY <2>1, <3>1, PeerFacts DEF BridgeInv, AckedCloseMeansDelivered
    <3>3. readClosed[e]
      BY <2>2 DEF BridgeInv, CloseAfterData
    <3>4. Stream!Finish(e)
      BY <1>0, <2>1, <3>1, <3>2, <3>3, FinishesStream
    <3> QED  BY <3>4 DEF Stream!Next
  <2>3. CASE UNCHANGED status
    BY <2>1, <2>3 DEF Unseen
  <2> QED  BY <1>4, <2>2, <2>3 DEF ReceiveCloseAck
<1> QED  BY <1>1, <1>2, <1>3, <1>4 DEF Receive

\* A payload that is written is delivered.
LEMMA WriteDelivers ==
  ASSUME BridgeInv, BridgeInv', NEW e \in Endpoints, WriteReady(e)
  PROVE  Stream!Deliver(e)
<1>1. ReceiverMoves(e)
  BY WriteReadyStep
<1>2. /\ Open(e) /\ UNCHANGED <<status, readClosed, sealed, nextOut>>
      /\ opened' \in [Endpoints -> Nat] /\ opened[e] <= opened'[e]
      /\ \A f \in Endpoints \ {e} : opened'[f] = opened[f]
  BY <1>1 DEF ReceiverMoves, linkVars, senderVars
<1>3. /\ opened \in [Endpoints -> Nat] /\ nextOut[Peer(e)] = sealed[Peer(e)]
      /\ sealed[Peer(e)] \in Nat /\ expected'[e] \in Nat
      /\ opened'[e] <= expected'[e] /\ expected'[e] <= nextOut[Peer(e)]
  BY <1>2, PeerFacts DEF BridgeInv, TypeOK, SenderInv, ReceiverInv
<1>4. opened'[e] \in opened[e]..sealed[Peer(e)] /\ opened' = [opened EXCEPT ![e] = opened'[e]]
  BY <1>2, <1>3
<1>5. Stream!Advance(e)
  BY <1>4 DEF Stream!Advance
<1> QED  BY <1>2, <1>5 DEF Stream!Deliver, Stream!Running, Outcome, Open

\* Every step of the bridges is a step of the stream or none.
LEMMA NextRefines ==
  ASSUME BridgeInv, BridgeInv', [Next]_vars
  PROVE  [Stream!Next]_(Stream!streamVars)
<1> USE DEF linkVars, senderVars, receiverVars, bridgeVars
<1>1. Unseen => UNCHANGED Stream!streamVars
  BY DEF Unseen, Stream!streamVars
<1>2. CASE UNCHANGED vars \/ Finished
  BY <1>1, <1>2 DEF Unseen, Finished, vars
<1>3. ASSUME NEW e \in Endpoints, ReadChunk(e)  PROVE Stream!Next
  <2>1. Stream!Read(e)
    BY <1>3 DEF ReadChunk, MayRead, Selects, Open, Outcome, Stream!Read, Stream!Running
  <2> QED  BY <2>1 DEF Stream!Next
<1>4. ASSUME NEW e \in Endpoints, ReadEof(e)  PROVE Stream!Next
  <2>1. Stream!ReadEnd(e)
    BY <1>4 DEF ReadEof, MayRead, Selects, Open, Outcome, Stream!ReadEnd, Stream!Running
  <2> QED  BY <2>1 DEF Stream!Next
<1>5. ASSUME NEW e \in Endpoints, RetransmitTick(e)  PROVE Stream!Next \/ Unseen
  <2>1. /\ Open(e) /\ UNCHANGED <<sealed, readClosed, opened>>
        /\ UNCHANGED status \/ status' = [status EXCEPT ![e] = "failed"]
    BY <1>5 DEF RetransmitTick, RetransmitData, RetransmitClose, Selects, Abort
  <2>2. CASE status' = [status EXCEPT ![e] = "failed"]
    BY <2>1, <2>2, BreaksStream DEF Stream!Next
  <2> QED  BY <2>1, <2>2 DEF Unseen
<1>6. ASSUME NEW e \in Endpoints, NEW m \in net, Receive(e, m)  PROVE Stream!Next \/ Unseen
  BY <1>6, ReceiveRefines
<1>7. ASSUME NEW e \in Endpoints, ConnectionLost(e)  PROVE Unseen
  BY <1>7 DEF ConnectionLost, Unseen
<1>8. ASSUME NEW e \in Endpoints,
             \/ CutOff(e) \/ RouteGone(e) \/ LocalFailure(e) \/ PeerIdleTimeout(e)
      PROVE  Stream!Next
  <2>1. /\ Open(e) /\ UNCHANGED <<sealed, readClosed, opened>>
        /\ \E how \in {"cut", "failed"} : status' = [status EXCEPT ![e] = how]
    BY <1>8 DEF CutOff, RouteGone, LocalFailure, PeerIdleTimeout, Selects, Leave, Abort
  <2> QED  BY <2>1, BreaksStream DEF Stream!Next
<1>9. ASSUME NEW e \in Endpoints, WriteReady(e)  PROVE Stream!Next
  BY <1>9, WriteDelivers DEF Stream!Next
<1> QED  BY <1>1, <1>2, <1>3, <1>4, <1>5, <1>6, <1>7, <1>8, <1>9 DEF Next

\* The channel implements the reliable stream, for every instance.
THEOREM ChannelIsReliableStream == Spec => ImplementsStream
<1>1. Init => Stream!Init
  BY DEF Init, Outcome, Stream!Init
<1>2. BridgeInv /\ BridgeInv' /\ [Next]_vars => [Stream!Next]_(Stream!streamVars)
  BY NextRefines
<1> QED  BY <1>1, <1>2, BridgeInvariant, PTL DEF Spec, ImplementsStream, Stream!Spec

-----------------------------------------------------------------------------
(* Fast recovery *)

\* Every ack an end sends says what it expects at that time.
CurrentAcks ==
    /\ net \subseteq net'
    /\ \A m \in net' \ net : m.kind = "ack" => m.next = expected'[m.from]

LEMMA AcksAreCurrent == [Next]_vars => CurrentAcks
<1> SUFFICES ASSUME [Next]_vars  PROVE CurrentAcks
  OBVIOUS
<1>1. ASSUME UNCHANGED net  PROVE CurrentAcks
  BY <1>1 DEF CurrentAcks
<1>2. /\ \A e, s, p : Data(e, s, p).kind # "ack"
      /\ \A e, f : Close(e, f).kind # "ack" /\ CloseAck(e, f).kind # "ack"
  BY DEF Data, Close, CloseAck
<1>3. ASSUME NEW e \in Endpoints, SendAck(e)  PROVE CurrentAcks
  BY <1>3 DEF SendAck, Ack, CurrentAcks
<1>4. ASSUME NEW e \in Endpoints, ReadChunk(e)  PROVE CurrentAcks
  BY <1>2, <1>4 DEF ReadChunk, CurrentAcks
<1>5. ASSUME NEW e \in Endpoints, ReadEof(e)  PROVE CurrentAcks
  BY <1>2, <1>5 DEF ReadEof, StartCloseIf, CurrentAcks
<1>6. ASSUME NEW e \in Endpoints, RetransmitTick(e)  PROVE CurrentAcks
  <2>1. ASSUME NEW s \in Outstanding(e), RetransmitData(e, s)  PROVE CurrentAcks
    BY <1>2, <2>1 DEF RetransmitData, CurrentAcks
  <2>2. CASE RetransmitClose(e)
    BY <1>2, <2>2 DEF RetransmitClose, CurrentAcks
  <2> QED  BY <1>6, <2>1, <2>2 DEF RetransmitTick
<1>7. ASSUME NEW e \in Endpoints, NEW m \in net, Receive(e, m)  PROVE CurrentAcks
  <2>1. CASE ReceiveData(e, m)
    <3>1. SendAck(e) \/ UNCHANGED net
      BY <2>1 DEF ReceiveData, DropData, BufferData, ReleaseData
    <3> QED  BY <1>1, <1>3, <3>1
  <2>2. ASSUME NEW growth, ReceiveAck(e, m, growth)  PROVE CurrentAcks
    <3>1. \/ UNCHANGED net
          \/ \E S : /\ \A d \in S : d.kind # "ack"
                   /\ \A d : d \in net' <=> d \in net \cup S
      <4> DEFINE left == StillOutstanding(Outstanding(e), board[e], m.next, m.sack)
                 result == HandleAck(Outstanding(e), board[e], tracker[e], cong[e],
                                     m.next, m.sack, growth)
                 due == CloseDue(e, left, readClosed[e])
                 sends == {Data(e, s, pending[e][s].nonce) : s \in left \cap {result.resend}}
                 closes == IF due THEN {Close(e, nextOut[e])} ELSE {}
      <4>1. UNCHANGED net \/ StartCloseIf(due, e, sends)
        BY <2>2 DEF ReceiveAck
      <4>2. /\ \A d \in sends : d.kind # "ack"
            /\ \A d \in closes : d.kind # "ack"
        BY <1>2
      <4>3. CASE StartCloseIf(due, e, sends)
        <5> HIDE DEF due, sends
        <5>1. net' = net \cup sends \cup closes
          BY <4>3 DEF StartCloseIf
        <5> HIDE DEF closes
        <5>2. \A d : d \in net' <=> d \in net \cup (sends \cup closes)
          BY <5>1
        <5>3. \A d \in sends \cup closes : d.kind # "ack"
          BY <4>2
        <5> QED  BY <5>2, <5>3
      <4> QED  BY <4>1, <4>3
    <3>2. ASSUME NEW S, \A d \in S : d.kind # "ack",
                 \A d : d \in net' <=> d \in net \cup S
          PROVE  CurrentAcks
      BY <3>2 DEF CurrentAcks
    <3> QED  BY <1>1, <3>1, <3>2
  <2>3. CASE ReceiveClose(e, m)
    <3>1. SendAck(e) \/ net' = net \cup {CloseAck(e, m.final)}
      BY <2>3 DEF ReceiveClose
    <3>2. ASSUME net' = net \cup {CloseAck(e, m.final)}  PROVE CurrentAcks
      BY <1>2, <3>2 DEF CurrentAcks
    <3> QED  BY <1>3, <3>1, <3>2
  <2>4. CASE ReceiveCloseAck(e, m)
    BY <1>1, <2>4 DEF ReceiveCloseAck
  <2> QED  BY <1>7, <2>1, <2>2, <2>3, <2>4 DEF Receive
<1>8. ASSUME NEW e \in Endpoints, CutOff(e)  PROVE CurrentAcks
  BY <1>2, <1>8 DEF CutOff, CurrentAcks
<1>9. ASSUME NEW e \in Endpoints,
             ConnectionLost(e) \/ RouteGone(e) \/ LocalFailure(e) \/ PeerIdleTimeout(e)
      PROVE  UNCHANGED net
  BY <1>9 DEF ConnectionLost, RouteGone, LocalFailure, PeerIdleTimeout
<1>10. ASSUME Finished \/ UNCHANGED vars  PROVE UNCHANGED net
  BY <1>10 DEF Finished, vars
<1>11. ASSUME NEW e \in Endpoints, WriteReady(e)  PROVE SendAck(e) \/ UNCHANGED net
  BY <1>11 DEF WriteReady
<1> QED  BY <1>1, <1>3, <1>4, <1>5, <1>6, <1>7, <1>8, <1>9, <1>10, <1>11 DEF Next

\* What was acked before is held, and what is expected now is not.
LEMMA AcksStayAgreed ==
  ASSUME BridgeInv', NEW e \in Endpoints, AcksAgree(e),
         \A m \in AcksFrom(e)' : m \in AcksFrom(e) \/ m.next = expected'[e]
  PROVE  AcksAgree(e)'
<1> SUFFICES ASSUME NEW m \in AcksFrom(e)', NEW later \in AcksFrom(e)', m.next <= later.next
             PROVE  later.next \notin m.sack
  BY DEF AcksAgree
<1>1. ASSUME NEW a \in AcksFrom(e)'
      PROVE  /\ a.next \in Nat /\ a.next <= expected'[e]
             /\ \A s \in a.sack : s \in Nat /\ Holds(e, s)'
  <2>1. a \in Datagram /\ Truthful(a)' /\ a.kind = "ack" /\ a.from = e
    BY DEF AcksFrom, BridgeInv, TypeOK
  <2> QED  BY <2>1 DEF Truthful, Datagram
<1>2. PICK x \in Nat : x = expected'[e] /\ ~Holds(e, x)'
  <2>1. PICK x \in Nat : x = expected'[e]
    BY DEF BridgeInv, TypeOK
  <2>2. x \notin Buffered(e)'
    BY <2>1, BoundAssumption DEF BridgeInv, ReorderWindow
  <2> QED  BY <2>1, <2>2 DEF Holds
<1>3. CASE m.next = expected'[e] \/ later.next = expected'[e]
  <2>1. later.next = expected'[e]
    BY <1>1, <1>2, <1>3
  <2> QED  BY <1>1, <1>2, <2>1
<1>4. CASE m \in AcksFrom(e) /\ later \in AcksFrom(e)
  BY <1>4 DEF AcksAgree
<1> QED  BY <1>3, <1>4

\* Steps that leave the queue, the scoreboard and the recovery alone.
LEMMA FrontStays ==
  ASSUME NEW e \in Endpoints, NEW n, Front(e, n), net \subseteq net',
         nextOut'[e] = nextOut[e], board'[e] = board[e], Outstanding(e)' = Outstanding(e),
         cong'[e].recoverUntil \in {cong[e].recoverUntil, NoSeq}
  PROVE  Front(e, n)'
BY DEF Front, AcksFrom

\* An ack moves the front to what it says the peer expects, if that is further on,
\* and ends a recovery that it has passed.
LEMMA AckMovesFront ==
  ASSUME BridgeInv, NEW e \in Endpoints, NEW m \in net,
         NEW growth \in 0..Cardinality(Outstanding(e)), ReceiveAck(e, m, growth),
         AcksAgree(Peer(e)), NEW n \in 0..nextOut[e], Front(e, n)
  PROVE  \E k \in 0..nextOut[e] : Front(e, k)'
<1> DEFINE left == StillOutstanding(Outstanding(e), board[e], m.next, m.sack)
           result == HandleAck(Outstanding(e), board[e], tracker[e], cong[e],
                               m.next, m.sack, growth)
           until == result.cong.recoverUntil
           seen == Observe(board[e], m.next, m.sack)
<1>1. /\ m.from = Peer(e) /\ m.kind = "ack"
      /\ board' = [board EXCEPT ![e] = seen]
      /\ cong' = [cong EXCEPT ![e] = result.cong]
      /\ nextOut' = nextOut /\ net \subseteq net'
      /\ \E resent : pending' = [pending EXCEPT ![e] = [s \in left |-> resent[s]]]
  <2>1. \E resent : pending' = [pending EXCEPT ![e] = [s \in left |-> resent[s]]]
    <3> DEFINE again == left \cap {result.resend}
               kept == [s \in left |-> IF s \in again THEN Resent(pending[e][s])
                                                      ELSE pending[e][s]]
    <3>1. \/ pending' = [pending EXCEPT ![e] = kept]
          \/ pending' = [pending EXCEPT ![e] = Keep(pending[e], left)]
      BY DEF ReceiveAck
    <3>2. kept = [s \in left |-> kept[s]]
      OBVIOUS
    <3>3. Keep(pending[e], left) = [s \in left |-> pending[e][s]]
      BY DEF Keep
    <3> QED  BY <3>1, <3>2, <3>3
  <2> QED  BY <2>1 DEF ReceiveAck, Receives, StartCloseIf
<1>2. /\ nextOut[e] \in Nat /\ Outstanding(e) \in SUBSET (0..nextOut[e])
      /\ \A s \in Outstanding(e) : s < nextOut[e]
      /\ board[e] \in SUBSET Nat /\ board \in [Endpoints -> SUBSET Nat]
      /\ cong \in [Endpoints -> Congestion]
  BY OutstandingFinite DEF BridgeInv, TypeOK, SenderInv
<1>3. m \in AcksFrom(Peer(e)) /\ m.next \in 0..nextOut[e] /\ m.sack \in SUBSET Nat
  <2>1. m \in Datagram /\ Truthful(m)
    BY DEF BridgeInv, TypeOK
  <2>2. expected[Peer(e)] \in Nat /\ expected[Peer(e)] <= nextOut[e]
    BY PeerFacts DEF BridgeInv, TypeOK, ReceiverInv
  <2> QED  BY <1>1, <1>2, <2>1, <2>2 DEF AcksFrom, Datagram, Truthful
<1>4. Outstanding(e)' = left
  <2>1. PICK resent : pending' = [pending EXCEPT ![e] = [s \in left |-> resent[s]]]
    BY <1>1
  <2> HIDE DEF left
  <2>2. pending'[e] = [s \in left |-> resent[s]]
    BY <2>1 DEF BridgeInv, TypeOK, PerEnd
  <2> QED  BY <2>2 DEF Outstanding
<1>5. board'[e] = seen /\ cong'[e].recoverUntil = until
  BY <1>1, <1>2
<1>6. /\ n \in Outstanding(e) \cup {nextOut[e]}
      /\ \A s \in Outstanding(e) : n <= s
      /\ \A s \in n..(nextOut[e] - 1) : s \in Outstanding(e) \cup board[e]
      /\ n = 0 \/ \E a \in AcksFrom(Peer(e)) : a.next = n
      /\ \A s \in board[e] : \E a \in AcksFrom(Peer(e)) : a.next <= n /\ s \in a.sack
      /\ cong[e].recoverUntil # NoSeq => cong[e].recoverUntil \in (n + 1)..nextOut[e]
  BY DEF Front
<1>7. /\ left = {s \in Outstanding(e) : s >= m.next /\ s \notin seen}
      /\ seen = {s \in board[e] : s >= m.next} \cup m.sack
  BY DEF StillOutstanding, Observe, Trim
<1>8. \/ until = NoSeq
      \/ until = cong[e].recoverUntil /\ (left # Outstanding(e) => m.next < until)
      \/ /\ m.next \in left /\ \A s \in Outstanding(e) : m.next <= s
         /\ \E s \in left : until = s + 1
  <2>1. cong[e] \in Congestion /\ m.next \in Nat
    BY <1>2, <1>3
  <2>2. \E bound \in Nat : Outstanding(e) \in SUBSET (0..bound)
    BY <1>2
  <2> QED  BY <2>1, <2>2, RecoveryAfterAck
<1> HIDE DEF left, seen, until, result
<1>9. PICK k \in 0..nextOut[e] : n <= k /\ m.next <= k /\ k \in {n, m.next}
  BY <1>2, <1>3
<1>10. ASSUME NEW a \in AcksFrom(Peer(e)), a.next <= k  PROVE k \notin a.sack
  <2>1. a.next \in Nat
    BY DEF AcksFrom, BridgeInv, TypeOK, Datagram
  <2>2. CASE k = 0
    BY <1>10, <2>1, <2>2 DEF AcksAgree
  <2>3. ASSUME NEW later \in AcksFrom(Peer(e)), later.next = k  PROVE k \notin a.sack
    BY <1>10, <2>3 DEF AcksAgree
  <2> QED  BY <1>3, <1>6, <1>9, <2>2, <2>3
<1>11. k \notin board[e] /\ k \notin m.sack
  <2>1. \A a \in AcksFrom(Peer(e)) : a.next \in Nat
    BY DEF AcksFrom, BridgeInv, TypeOK, Datagram
  <2>2. \A a \in AcksFrom(Peer(e)) : a.next <= n => a.next <= k
    BY <1>9, <2>1
  <2> QED  BY <1>3, <1>6, <1>9, <1>10, <2>2
<1>12. k \in left \cup {nextOut[e]}
  <2>1. k # nextOut[e] => k \in n..(nextOut[e] - 1)
    BY <1>2, <1>9
  <2> QED  BY <1>6, <1>7, <1>9, <1>11, <2>1
<1>13. \A s \in left : k <= s
  BY <1>2, <1>6, <1>7, <1>9
<1>14. \A s \in k..(nextOut[e] - 1) : s \in left \cup seen
  <2> TAKE s \in k..(nextOut[e] - 1)
  <2>1. s \in n..(nextOut[e] - 1) /\ s >= m.next
    BY <1>2, <1>3, <1>9
  <2> QED  BY <1>6, <1>7, <2>1
<1>15. AcksFrom(Peer(e)) \subseteq AcksFrom(Peer(e))'
  BY <1>1 DEF AcksFrom
<1>16. k = 0 \/ \E a \in AcksFrom(Peer(e))' : a.next = k
  BY <1>3, <1>6, <1>9, <1>15
<1>17. \A s \in seen : \E a \in AcksFrom(Peer(e))' : a.next <= k /\ s \in a.sack
  <2>1. \A a \in AcksFrom(Peer(e)) : a.next \in Nat
    BY DEF AcksFrom, BridgeInv, TypeOK, Datagram
  <2>2. \A a \in AcksFrom(Peer(e)) : a.next <= n => a.next <= k
    BY <1>9, <2>1
  <2> QED  BY <1>3, <1>6, <1>7, <1>9, <1>15, <2>2
<1>18. n < m.next => n \in Outstanding(e) \ left
  BY <1>2, <1>3, <1>6, <1>7
<1>19. until # NoSeq => until \in (k + 1)..nextOut[e]
  <2>1. CASE until = cong[e].recoverUntil /\ (left # Outstanding(e) => m.next < until)
    <3>1. until # NoSeq => until \in (n + 1)..nextOut[e]
      BY <1>6, <2>1
    <3>2. n < m.next => m.next < until
      BY <1>18, <2>1
    <3> QED  BY <1>2, <1>3, <1>9, <3>1, <3>2
  <2>2. ASSUME m.next \in left, \A s \in Outstanding(e) : m.next <= s,
               NEW s \in left, until = s + 1
        PROVE  until \in (k + 1)..nextOut[e]
    <3>1. s \in Outstanding(e) /\ s \in Nat /\ s < nextOut[e] /\ k <= s
      BY <1>2, <1>7, <1>13
    <3> QED  BY <1>2, <1>9, <2>2, <3>1
  <2> QED  BY <1>8, <2>1, <2>2
<1> QED  BY <1>1, <1>4, <1>5, <1>12, <1>13, <1>14, <1>16, <1>17, <1>19 DEF Front

\* What a step leaves of the sending half of an end, unless the end takes a
\* chunk over from its local stream or hears an ack.
SenderKept(e) ==
    /\ nextOut'[e] = nextOut[e] /\ board'[e] = board[e]
    /\ Outstanding(e)' = Outstanding(e)
    /\ cong'[e].recoverUntil \in {cong[e].recoverUntil, NoSeq}

LEMMA SenderSteps ==
  ASSUME BridgeInv, [Next]_vars, NEW e \in Endpoints
  PROVE  \/ SenderKept(e)
         \/ ReadChunk(e)
         \/ \E m \in net, growth \in 0..Cardinality(Outstanding(e)) : ReceiveAck(e, m, growth)
<1>1. ASSUME UNCHANGED senderVars  PROVE SenderKept(e)
  BY <1>1 DEF senderVars, SenderKept, Outstanding
<1>2. PerEnd(pending) /\ \A f \in Endpoints : cong[f] \in Congestion
  BY DEF BridgeInv, TypeOK
<1>3. /\ nextOut \in [Endpoints -> Nat] /\ board \in [Endpoints -> SUBSET Nat]
      /\ cong \in [Endpoints -> Congestion]
  BY DEF BridgeInv, TypeOK
<1>4. ASSUME NEW f \in Endpoints, f # e,
             /\ nextOut' = [nextOut EXCEPT ![f] = nextOut'[f]]
             /\ pending' = [pending EXCEPT ![f] = pending'[f]]
             /\ board' = [board EXCEPT ![f] = board'[f]]
             /\ cong' = [cong EXCEPT ![f] = cong'[f]]
      PROVE  SenderKept(e)
  BY <1>2, <1>3, <1>4 DEF SenderKept, Outstanding, PerEnd
<1>5. ASSUME NEW f \in Endpoints, ReadChunk(f)  PROVE ReadChunk(e) \/ SenderKept(e)
  <2>1. CASE f # e
    BY <1>2, <1>3, <1>5, <2>1 DEF ReadChunk, SenderKept, Outstanding, PerEnd
  <2> QED  BY <1>5, <2>1
<1>6. ASSUME NEW f \in Endpoints, NEW s \in Outstanding(f), RetransmitData(f, s)
      PROVE  SenderKept(e)
  <2>1. nextOut' = nextOut /\ board' = board
    BY <1>6 DEF RetransmitData
  <2>2. \/ pending' = [pending EXCEPT ![f][s] = Resent(@)]
        \/ pending' = pending
    BY <1>6 DEF RetransmitData
  <2>3. Outstanding(e)' = Outstanding(e)
    BY <1>2, <2>2 DEF Outstanding, PerEnd
  <2>4. \/ cong' = [cong EXCEPT ![f] = OnTimeout(Cardinality(Outstanding(f)))]
        \/ cong' = cong
    BY <1>6 DEF RetransmitData
  <2>5. cong'[e].recoverUntil \in {cong[e].recoverUntil, NoSeq}
    BY <1>3, <2>4 DEF OnTimeout
  <2> QED  BY <2>1, <2>3, <2>5 DEF SenderKept
<1>7. ASSUME NEW f \in Endpoints, NEW m \in net,
             NEW growth \in 0..Cardinality(Outstanding(f)), ReceiveAck(f, m, growth)
      PROVE  \/ SenderKept(e)
             \/ \E d \in net, g \in 0..Cardinality(Outstanding(e)) : ReceiveAck(e, d, g)
  <2>1. CASE f # e
    <3>1. /\ nextOut' = nextOut
          /\ \E b : board' = [board EXCEPT ![f] = b]
          /\ \E c : cong' = [cong EXCEPT ![f] = c]
      BY <1>7 DEF ReceiveAck
    <3>2. \E p : pending' = [pending EXCEPT ![f] = p]
      BY <1>7 DEF ReceiveAck
    <3>3. /\ nextOut'[e] = nextOut[e] /\ board'[e] = board[e] /\ cong'[e] = cong[e]
          /\ pending'[e] = pending[e]
      BY <1>2, <1>3, <2>1, <3>1, <3>2 DEF PerEnd
    <3> QED  BY <3>3 DEF SenderKept, Outstanding
  <2> QED  BY <1>7, <2>1
<1>8. ASSUME NEW f \in Endpoints, NEW m \in net,
             ReceiveData(f, m) \/ ReceiveClose(f, m) \/ ReceiveCloseAck(f, m)
      PROVE  SenderKept(e)
  BY <1>1, <1>8 DEF ReceiveData, ReceiveClose, ReceiveCloseAck
<1>9. ASSUME NEW f \in Endpoints,
             \/ ReadEof(f) \/ RetransmitClose(f) \/ ConnectionLost(f) \/ CutOff(f)
             \/ RouteGone(f) \/ LocalFailure(f) \/ PeerIdleTimeout(f) \/ WriteReady(f)
      PROVE  SenderKept(e)
  BY <1>1, <1>9 DEF ReadEof, RetransmitClose, ConnectionLost, CutOff, RouteGone,
     LocalFailure, PeerIdleTimeout, WriteReady, bridgeVars
<1>10. ASSUME Finished \/ UNCHANGED vars  PROVE SenderKept(e)
  BY <1>1, <1>10 DEF Finished, vars
<1>11. ASSUME NEW f \in Endpoints, NEW m \in net, Receive(f, m)
       PROVE  \/ SenderKept(e)
              \/ \E d \in net, g \in 0..Cardinality(Outstanding(e)) : ReceiveAck(e, d, g)
  BY <1>7, <1>8, <1>11 DEF Receive
<1> QED  BY <1>5, <1>6, <1>9, <1>10, <1>11 DEF Next, RetransmitTick

\* A chunk taken over goes to the end of the queue.
LEMMA ReadKeepsFront ==
  ASSUME BridgeInv, NEW e \in Endpoints, ReadChunk(e), NEW n \in 0..nextOut[e], Front(e, n)
  PROVE  n \in 0..nextOut'[e] /\ Front(e, n)'
<1>1. /\ nextOut[e] \in Nat /\ nextOut'[e] = nextOut[e] + 1
      /\ board' = board /\ cong' = cong /\ net \subseteq net'
      /\ cong[e].recoverUntil \in SeqOption
  BY DEF ReadChunk, BridgeInv, TypeOK, Congestion
<1>2. Outstanding(e)' = Outstanding(e) \cup {nextOut[e]}
  BY DEF ReadChunk, Outstanding, Put, BridgeInv, TypeOK, PerEnd
<1>3. AcksFrom(Peer(e)) \subseteq AcksFrom(Peer(e))'
  BY <1>1 DEF AcksFrom
<1>4. \A s \in n..(nextOut'[e] - 1) : s \in n..(nextOut[e] - 1) \/ s = nextOut[e]
  BY <1>1
<1>5. /\ n \in Outstanding(e)'
      /\ \A s \in Outstanding(e)' : n <= s
  <2>1. n \in Outstanding(e) \cup {nextOut[e]} /\ \A s \in Outstanding(e) : n <= s
    BY DEF Front
  <2>2. n <= nextOut[e]
    BY <1>1
  <2> QED  BY <1>2, <2>1, <2>2
<1>6. \A s \in n..(nextOut'[e] - 1) : s \in Outstanding(e)' \cup board'[e]
  BY <1>1, <1>2, <1>4 DEF Front
<1>7. /\ n = 0 \/ \E m \in AcksFrom(Peer(e))' : m.next = n
      /\ \A s \in board'[e] : \E m \in AcksFrom(Peer(e))' : m.next <= n /\ s \in m.sack
  BY <1>1, <1>3 DEF Front
<1>8. cong'[e].recoverUntil # NoSeq => cong'[e].recoverUntil \in (n + 1)..nextOut'[e]
  BY <1>1 DEF Front
<1> QED  BY <1>1, <1>5, <1>6, <1>7, <1>8 DEF Front

LEMMA RecoveryPreserved ==
  BridgeInv /\ BridgeInv' /\ RecoveryInv /\ [Next]_vars => RecoveryInv'
<1> SUFFICES ASSUME BridgeInv, BridgeInv', RecoveryInv, [Next]_vars,
                    NEW e \in Endpoints
             PROVE  AcksAgree(e)' /\ (\E k \in 0..nextOut[e] : Front(e, k))'
  BY DEF RecoveryInv
<1>1. CurrentAcks
  BY AcksAreCurrent
<1>2. AcksAgree(e)'
  <2>1. \A m \in AcksFrom(e)' : m \in AcksFrom(e) \/ m.next = expected'[e]
    BY <1>1 DEF CurrentAcks, AcksFrom
  <2> QED  BY <2>1, AcksStayAgreed DEF RecoveryInv
<1>3. PICK n \in 0..nextOut[e] : Front(e, n)
  BY DEF RecoveryInv
<1>4. CASE SenderKept(e)
  <2>1. n \in 0..nextOut'[e] /\ net \subseteq net'
    BY <1>1, <1>4 DEF SenderKept, CurrentAcks
  <2>2. Front(e, n)'
    BY <1>3, <1>4, <2>1, FrontStays DEF SenderKept
  <2> QED  BY <1>2, <2>1, <2>2
<1>5. CASE ReadChunk(e)
  BY <1>2, <1>3, <1>5, ReadKeepsFront
<1>6. ASSUME NEW m \in net, NEW growth \in 0..Cardinality(Outstanding(e)),
             ReceiveAck(e, m, growth)
      PROVE  (\E k \in 0..nextOut[e] : Front(e, k))'
  <2>1. nextOut' = nextOut
    BY <1>6 DEF ReceiveAck
  <2>2. AcksAgree(Peer(e))
    BY PeerFacts DEF RecoveryInv
  <2>3. \E k \in 0..nextOut[e] : Front(e, k)'
    BY <1>3, <1>6, <2>2, AckMovesFront
  <2> QED  BY <2>1, <2>3
<1> QED  BY <1>2, <1>4, <1>5, <1>6, SenderSteps

\* Fast recovery ends by itself: while it lasts, a packet below its end is
\* still outstanding, so the ack that ends it can come (RecoveryHasWork).
THEOREM RecoveryEnds == Spec => []RecoveryHasWork
<1>1. Init => RecoveryInv
  BY PeerFacts DEF Init, RecoveryInv, AcksAgree, AcksFrom, Front, Outstanding, EmptyMap,
     InitCongestion
<1>2. BridgeInv /\ BridgeInv' /\ RecoveryInv /\ [Next]_vars => RecoveryInv'
  BY RecoveryPreserved
<1>3. BridgeInv /\ RecoveryInv => RecoveryHasWork
  <2> SUFFICES ASSUME BridgeInv, RecoveryInv, NEW e \in Endpoints,
                      cong[e].recoverUntil # NoSeq
               PROVE  \E s \in Outstanding(e) : s < cong[e].recoverUntil
    BY DEF RecoveryHasWork
  <2>1. PICK n \in 0..nextOut[e] : Front(e, n)
    BY DEF RecoveryInv
  <2>2. nextOut[e] \in Nat
    BY DEF BridgeInv, TypeOK
  <2> QED  BY <2>1, <2>2 DEF Front
<1> QED  BY <1>1, <1>2, <1>3, BridgeInvariant, PTL DEF Spec
=============================================================================
