--------------------------- MODULE Keepalive_proofs ---------------------------
(***************************************************************************)
(* KeepaliveInv is an inductive invariant of Keepalive, for all periods,   *)
(* delays and numbers of losses that its assumptions allow: a live peer is *)
(* never declared idle, and a gone one always is, in bounded time.         *)
(***************************************************************************)
EXTENDS Keepalive, TLAPS

USE EndsAssumption, TimesAssumption

\* Each end has one peer, and that one's peer is the end itself.
LEMMA PeerFacts ==
  ASSUME NEW e \in Ends
  PROVE  /\ Peer(e) \in Ends /\ Peer(e) # e /\ Peer(Peer(e)) = e
         /\ \A f \in Ends : f = e \/ f = Peer(e)
<1>1. PICK a, b \in Ends : a # b /\ Ends = {a, b}
  OBVIOUS
<1>2. \A f \in Ends : Peer(f) \in Ends /\ Peer(f) # f
  BY <1>1 DEF Peer
<1> QED  BY <1>1, <1>2

\* What one more loss may add to the quiet at an end.
LEMMA OneMoreLost ==
  ASSUME NEW n \in Nat
  PROVE  /\ n * SendInterval \in Nat
         /\ (n + 1) * SendInterval = n * SendInterval + SendInterval
OBVIOUS

\* At most MaxLost losses use up at most so much of the timeout.
LEMMA LossesBounded ==
  ASSUME NEW n \in 0..MaxLost
  PROVE  n * SendInterval <= MaxLost * SendInterval
OBVIOUS

LEMMA FirstSendFacts ==
  /\ FirstSend \in Nat /\ IdleAfter <= FirstSend /\ SendInterval <= FirstSend
  /\ FirstSend \in {IdleAfter, SendInterval} /\ 0 < SendInterval
BY PatienceAssumption DEF FirstSend

\* A channel just accepted satisfies the invariant.
LEMMA InitEstablishes == Init => KeepaliveInv
<1> SUFFICES ASSUME Init  PROVE KeepaliveInv
  OBVIOUS
<1>1. TypeOK
  BY DEF Init, TypeOK, NoticeLimit
<1>2. ASSUME NEW e \in Ends  PROVE HearsNothingNew(e) /\ NoneSent(e)
  BY <1>2, PeerFacts, FirstSendFacts DEF Init, HearsNothingNew, NoneSent, NoticeLimit
<1> QED  BY <1>1, <1>2 DEF KeepaliveInv, QuietAccounted

-----------------------------------------------------------------------------
(* Types *)

Flying == [kind : {"keepalive", "keepaliveAck"}, to : Ends, age : 0..MaxDelay]

LEMMA TypesKept == TypeOK /\ [Next]_vars => TypeOK'
<1> SUFFICES ASSUME TypeOK, [Next]_vars  PROVE TypeOK'
  OBVIOUS
<1>1. /\ NoticeLimit \in Nat
      /\ \A k \in {"keepalive", "keepaliveAck"}, e \in Ends : Datagram(k, Peer(e)) \in Flying
  BY PeerFacts DEF NoticeLimit, Datagram, Flying
<1>2. ASSUME NEW e \in Ends, Housekeeping(e)  PROVE TypeOK'
  BY <1>1, <1>2 DEF Housekeeping, TypeOK, Flying
<1>3. ASSUME NEW e \in Ends, Return(e)  PROVE TypeOK'
  BY <1>3 DEF Return, TypeOK
<1>4. ASSUME NEW m \in flight, Arrive(m)  PROVE TypeOK'
  <2>1. m.to \in Ends
    BY DEF TypeOK
  <2>2. flight' \in SUBSET Flying
    BY <1>1, <1>4, <2>1 DEF Arrive, TypeOK, Flying
  <2> QED  BY <1>4, <2>1, <2>2 DEF Arrive, TypeOK, Flying
<1>5. ASSUME NEW m \in flight, Lose(m)  PROVE TypeOK'
  BY <1>5 DEF Lose, TypeOK
<1>6. CASE Second
  <2>1. flight' \in SUBSET Flying
    BY <1>6 DEF Second, TypeOK, Flying
  <2>2. /\ quiet' \in [Ends -> 0..PeerTimeout] /\ sinceSent' \in [Ends -> 0..SendInterval]
        /\ ticked' \in [Ends -> BOOLEAN]
    BY <1>6 DEF Second, TypeOK, Capped
  <2>3. goneFor' \in [Ends -> 0..(NoticeLimit + 1)]
    BY <1>1, <1>6 DEF Second, TypeOK, Capped
  <2> QED  BY <1>6, <2>1, <2>2, <2>3 DEF Second, TypeOK, Flying
<1>7. CASE UNCHANGED vars
  BY <1>7 DEF vars, TypeOK
<1> QED  BY <1>2, <1>3, <1>4, <1>5, <1>6, <1>7 DEF Next

-----------------------------------------------------------------------------
(* A gone peer *)

LEMMA HearingKept ==
  ASSUME TypeOK, \A e \in Ends : HearsNothingNew(e), [Next]_vars, NEW e \in Ends
  PROVE  HearsNothingNew(e)'
<1> DEFINE p == Peer(e)
<1>1. p \in Ends /\ p # e /\ Peer(p) = e /\ \A f \in Ends : f = e \/ f = p
  BY PeerFacts
<1> SUFFICES ASSUME bridge'[e] = "up"
             PROVE  /\ goneFor'[e] = 0
                    /\ \A m \in flight' : m.to = e => m.age >= goneFor'[p]
                    /\ goneFor'[p] <= quiet'[e] + MaxDelay
                    /\ ticked'[e] => goneFor'[p] < NoticeLimit
  BY DEF HearsNothingNew
<1> HIDE DEF p
<1>2. /\ NoticeLimit = MaxDelay + PeerTimeout /\ NoticeLimit \in Nat
      /\ bridge[p] = "up" => goneFor[p] = 0
      /\ bridge[e] = "up" =>
           /\ goneFor[e] = 0
           /\ \A m \in flight : m.to = e => m.age >= goneFor[p]
           /\ goneFor[p] <= quiet[e] + MaxDelay
           /\ ticked[e] => goneFor[p] < NoticeLimit
  BY <1>1 DEF HearsNothingNew, NoticeLimit, p
<1>3. /\ goneFor[p] \in Nat /\ quiet[e] \in 0..PeerTimeout
      /\ \A m \in flight : m.age \in 0..MaxDelay /\ m.to \in Ends
  BY <1>1, <1>2 DEF TypeOK
<1>4. ASSUME NEW f \in Ends, Housekeeping(f)
      PROVE  /\ \A m \in flight' : m.to = e => m.age >= goneFor'[p]
             /\ ticked'[e] => goneFor'[p] < NoticeLimit
             /\ bridge[e] = "up" /\ goneFor' = goneFor /\ quiet' = quiet
  <2>1. bridge[e] = "up" /\ goneFor' = goneFor /\ quiet' = quiet /\ bridge[f] = "up"
    BY <1>4 DEF Housekeeping, TypeOK
  <2>2. \A m \in flight' : m \in flight \/ m = Datagram("keepalive", Peer(f))
    BY <1>4 DEF Housekeeping
  <2>3. Peer(f) = e => goneFor[p] = 0
    BY <1>1, <1>2, <2>1, PeerFacts
  <2>4. f = e => ~TimedOut(e)
    BY <1>4 DEF Housekeeping, TypeOK
  <2>5. f # e /\ ticked'[e] => ticked[e]
    BY <1>4 DEF Housekeeping, TypeOK
  <2>6. \A m \in flight' : m.to = e => m.age >= goneFor'[p]
    BY <1>2, <2>1, <2>2, <2>3 DEF Datagram
  <2>7. ticked'[e] => goneFor'[p] < NoticeLimit
    <3>1. ~TimedOut(e) => goneFor[p] < NoticeLimit
      BY <1>2, <1>3, <2>1 DEF TimedOut
    <3> QED  BY <1>2, <2>1, <2>4, <2>5, <3>1
  <2> QED  BY <2>1, <2>6, <2>7
<1>5. ASSUME NEW f \in Ends, Return(f)
      PROVE  bridge[e] = "up" /\ UNCHANGED <<quiet, ticked, flight, goneFor>>
  BY <1>5 DEF Return, TypeOK
<1>6. ASSUME NEW d \in flight, Arrive(d)
      PROVE  /\ \A m \in flight' : m.to = e => m.age >= goneFor'[p]
             /\ goneFor'[p] <= quiet'[e] + MaxDelay
             /\ bridge[e] = "up" /\ UNCHANGED <<ticked, goneFor>>
  <2>1. bridge[e] = "up" /\ UNCHANGED <<ticked, goneFor>>
    BY <1>6 DEF Arrive
  <2>2. \A m \in flight' : \/ m \in flight
                           \/ bridge[d.to] = "up" /\ m = Datagram("keepaliveAck", Peer(d.to))
    BY <1>6 DEF Arrive
  <2>3. bridge[d.to] = "up" /\ Peer(d.to) = e => goneFor[p] = 0
    BY <1>1, <1>2, <1>3, PeerFacts
  <2>4. \A m \in flight' : m.to = e => m.age >= goneFor'[p]
    BY <1>2, <2>1, <2>2, <2>3 DEF Datagram
  <2>5. \/ quiet'[e] = quiet[e]
        \/ quiet'[e] = 0 /\ d.to = e
    BY <1>1, <1>3, <1>6 DEF Arrive, TypeOK
  <2>6. d.to = e => goneFor[p] <= MaxDelay
    BY <1>2, <1>3, <2>1
  <2> QED  BY <1>2, <2>1, <2>4, <2>5, <2>6
<1>7. ASSUME NEW d \in flight, Lose(d)
      PROVE  flight' \subseteq flight /\ UNCHANGED <<bridge, quiet, ticked, goneFor>>
  BY <1>7 DEF Lose
<1>8. CASE Second
  <2>1. /\ bridge' = bridge /\ ticked[e] /\ ~ticked'[e]
        /\ quiet'[e] = Capped(quiet[e] + 1, PeerTimeout)
        /\ goneFor'[e] = 0
        /\ goneFor'[p] = IF bridge[p] = "up" THEN 0 ELSE Capped(goneFor[p] + 1, NoticeLimit + 1)
        /\ \A m \in flight' : \E d \in flight : m = [d EXCEPT !.age = @ + 1]
    BY <1>1, <1>8 DEF Second
  <2>2. goneFor[p] < NoticeLimit /\ goneFor[e] = 0
    BY <1>2, <2>1
  <2>3. goneFor'[p] \in {0, goneFor[p] + 1}
    BY <1>2, <1>3, <2>1, <2>2 DEF Capped
  <2>4. goneFor'[p] <= quiet'[e] + MaxDelay
    BY <1>2, <1>3, <2>1, <2>2, <2>3 DEF Capped
  <2>5. ASSUME NEW m \in flight', m.to = e  PROVE m.age >= goneFor'[p]
    <3>1. PICK d \in flight : m = [d EXCEPT !.age = @ + 1]
      BY <2>1
    <3>2. d \in Flying
      BY DEF TypeOK, Flying
    <3>3. m.to = d.to /\ m.age = d.age + 1
      BY <3>1, <3>2 DEF Flying
    <3> QED  BY <1>2, <1>3, <2>1, <2>3, <2>5, <3>3
  <2> QED  BY <2>1, <2>4, <2>5
<1>9. CASE UNCHANGED vars
  BY <1>2, <1>9 DEF vars
<1> QED  BY <1>2, <1>4, <1>5, <1>6, <1>7, <1>8, <1>9 DEF Next

-----------------------------------------------------------------------------
(* A live peer *)

\* A round trip is over before the next keepalive is due.
LEMMA RoundTripIsShort ==
  ASSUME TypeOK, NEW e \in Ends, RoundTrip(e)
  PROVE  sinceSent[e] <= 2 * MaxDelay /\ sinceSent[e] < SendInterval
<1>1. PICK m \in flight :
        \/ m.kind = "keepalive" /\ m.to = Peer(e) /\ m.age = sinceSent[e]
        \/ m.kind = "keepaliveAck" /\ m.to = e /\ sinceSent[e] \in m.age..(m.age + MaxDelay)
  BY DEF RoundTrip
<1>2. m.age \in 0..MaxDelay
  BY DEF TypeOK
<1> QED  BY <1>1, <1>2, PatienceAssumption

LEMMA HousekeepingKeepsQuiet ==
  ASSUME TypeOK, NEW e \in Ends, NEW f \in Ends, Housekeeping(f), QuietAccounted(e)
  PROVE  QuietAccounted(e)'
<1> SUFFICES ASSUME bridge'[e] = "up", bridge'[Peer(e)] = "up"
             PROVE  (NoneSent(e) \/ LastUnderWay(e) \/ AllLost(e))'
  BY DEF QuietAccounted
<1>1. /\ bridge[f] = "up" /\ lost' = lost /\ quiet' = quiet /\ flight \subseteq flight'
      /\ bridge' = bridge
  <2>1. f = e \/ f = Peer(e)
    BY PeerFacts
  <2>2. bridge'[f] = "up"
    BY <2>1
  <2> QED  BY <2>2 DEF Housekeeping, TypeOK
<1>2. NoneSent(e) \/ LastUnderWay(e) \/ AllLost(e)
  BY <1>1 DEF QuietAccounted
<1>3. CASE f # e
  <2>1. sinceSent'[e] = sinceSent[e] /\ (ticked'[e] => ticked[e])
    BY <1>3 DEF Housekeeping, TypeOK
  <2>2. RoundTrip(e) => RoundTrip(e)'
    BY <1>1, <2>1 DEF RoundTrip
  <2> QED  BY <1>1, <1>2, <2>1, <2>2 DEF NoneSent, LastUnderWay, AllLost
<1>4. CASE f = e
  <2>1. PICK a \in Nat : a = lost[e] * SendInterval
    BY OneMoreLost DEF TypeOK
  <2>2. quiet[e] \in 0..PeerTimeout /\ sinceSent[e] \in 0..SendInterval
    BY DEF TypeOK
  <2>3. CASE MaySendKeepalive(e)
    <3>1. sinceSent'[e] = 0 /\ Datagram("keepalive", Peer(e)) \in flight'
      BY <1>1, <1>4, <2>3, PeerFacts DEF Housekeeping, TypeOK
    <3>2. RoundTrip(e)'
      BY <3>1 DEF RoundTrip, Datagram
    <3>3. quiet[e] >= IdleAfter /\ sinceSent[e] >= SendInterval
      BY <2>3 DEF MaySendKeepalive
    <3>4. quiet[e] <= FirstSend + a
      <4>1. ~LastUnderWay(e)
        BY <2>2, <3>3, RoundTripIsShort DEF LastUnderWay
      <4> QED  BY <1>2, <2>1, <2>2, <3>3, <4>1, FirstSendFacts DEF NoneSent, AllLost
    <3> QED  BY <1>1, <2>1, <2>2, <3>1, <3>2, <3>3, <3>4, FirstSendFacts DEF LastUnderWay
  <2>4. CASE ~MaySendKeepalive(e)
    <3>1. sinceSent'[e] = sinceSent[e]
      BY <1>1, <1>4, <2>4 DEF Housekeeping
    <3>2. ~(quiet[e] >= IdleAfter /\ sinceSent[e] >= SendInterval)
      BY <2>4 DEF MaySendKeepalive
    <3>3. NoneSent(e) => NoneSent(e)'
      BY <1>1, <2>2, <3>1, <3>2, FirstSendFacts DEF NoneSent
    <3>4. LastUnderWay(e) => LastUnderWay(e)'
      BY <1>1, <3>1 DEF LastUnderWay, RoundTrip
    <3>5. AllLost(e) => AllLost(e)'
      BY <1>1, <2>2, <3>1, <3>2 DEF AllLost
    <3> QED  BY <1>2, <3>3, <3>4, <3>5
  <2> QED  BY <2>3, <2>4
<1> QED  BY <1>3, <1>4

LEMMA ArriveKeepsQuiet ==
  ASSUME TypeOK, NEW e \in Ends, NEW d \in flight, Arrive(d), QuietAccounted(e)
  PROVE  QuietAccounted(e)'
<1> SUFFICES ASSUME bridge'[e] = "up", bridge'[Peer(e)] = "up"
             PROVE  (NoneSent(e) \/ LastUnderWay(e) \/ AllLost(e))'
  BY DEF QuietAccounted
<1>1. UNCHANGED <<bridge, sinceSent, ticked>> /\ d.to \in Ends
  BY DEF Arrive, TypeOK
<1>2. NoneSent(e) \/ LastUnderWay(e) \/ AllLost(e)
  BY <1>1 DEF QuietAccounted
<1>3. CASE d.to = e
  <2>1. quiet'[e] = 0
    BY <1>1, <1>3 DEF Arrive, TypeOK
  <2> QED  BY <1>1, <2>1, FirstSendFacts DEF NoneSent, TypeOK
<1>4. CASE d.to = Peer(e)
  <2>1. /\ quiet'[e] = quiet[e] /\ lost'[e] = lost[e]
        /\ flight' = (flight \ {d}) \cup
             (IF d.kind = "keepalive" THEN {Datagram("keepaliveAck", e)} ELSE {})
    BY <1>1, <1>4, PeerFacts DEF Arrive, TypeOK
  <2>2. ASSUME RoundTrip(e)  PROVE RoundTrip(e)'
    <3>1. PICK m \in flight :
            \/ m.kind = "keepalive" /\ m.to = Peer(e) /\ m.age = sinceSent[e]
            \/ m.kind = "keepaliveAck" /\ m.to = e /\ sinceSent[e] \in m.age..(m.age + MaxDelay)
      BY <2>2 DEF RoundTrip
    <3>2. CASE m # d
      BY <1>1, <2>1, <3>1, <3>2 DEF RoundTrip
    <3>3. CASE m = d
      <4>1. d.kind = "keepalive" /\ d.age = sinceSent[e] /\ d.age \in 0..MaxDelay
        BY <1>4, <3>1, <3>3, PeerFacts DEF TypeOK
      <4>2. Datagram("keepaliveAck", e) \in flight'
        BY <2>1, <4>1
      <4> QED  BY <1>1, <4>1, <4>2 DEF RoundTrip, Datagram
    <3> QED  BY <3>2, <3>3
  <2> QED  BY <1>1, <1>2, <2>1, <2>2 DEF NoneSent, LastUnderWay, AllLost
<1> QED  BY <1>1, <1>3, <1>4, PeerFacts

LEMMA LoseKeepsQuiet ==
  ASSUME TypeOK, NEW e \in Ends, NEW d \in flight, Lose(d), QuietAccounted(e)
  PROVE  QuietAccounted(e)'
<1> SUFFICES ASSUME bridge'[e] = "up", bridge'[Peer(e)] = "up"
             PROVE  (NoneSent(e) \/ LastUnderWay(e) \/ AllLost(e))'
  BY DEF QuietAccounted
<1>1. /\ UNCHANGED <<bridge, quiet, sinceSent, ticked>>
      /\ lost'[e] = lost[e] + 1 /\ flight' = flight \ {d}
  BY DEF Lose
<1>2. NoneSent(e) \/ LastUnderWay(e) \/ AllLost(e)
  BY <1>1 DEF QuietAccounted
<1>3. PICK a \in Nat : a = lost[e] * SendInterval
  BY OneMoreLost DEF TypeOK
<1>4. lost'[e] * SendInterval = a + SendInterval
  BY <1>1, <1>3, OneMoreLost DEF TypeOK
<1>5. quiet[e] \in Nat /\ sinceSent[e] \in Nat
  BY DEF TypeOK
<1>6. NoneSent(e) => NoneSent(e)'
  BY <1>1 DEF NoneSent
<1>7. LastUnderWay(e) => LastUnderWay(e)' \/ AllLost(e)'
  <2>1. ASSUME LastUnderWay(e)  PROVE AllLost(e)'
    BY <1>1, <1>3, <1>4, <1>5, <2>1, FirstSendFacts, RoundTripIsShort
       DEF LastUnderWay, AllLost
  <2> QED  BY <2>1
<1>8. AllLost(e) => AllLost(e)'
  BY <1>1, <1>3, <1>4, <1>5, FirstSendFacts DEF AllLost
<1> QED  BY <1>2, <1>6, <1>7, <1>8

LEMMA SecondKeepsQuiet ==
  ASSUME TypeOK, NEW e \in Ends, Second, QuietAccounted(e)
  PROVE  QuietAccounted(e)'
<1> SUFFICES ASSUME bridge'[e] = "up", bridge'[Peer(e)] = "up"
             PROVE  (NoneSent(e) \/ LastUnderWay(e) \/ AllLost(e))'
  BY DEF QuietAccounted
<1>1. /\ UNCHANGED <<bridge, lost>> /\ ticked[e] /\ ~ticked'[e]
      /\ quiet'[e] = Capped(quiet[e] + 1, PeerTimeout)
      /\ sinceSent'[e] = Capped(sinceSent[e] + 1, SendInterval)
      /\ flight' = {[m EXCEPT !.age = @ + 1] : m \in flight}
  BY DEF Second
<1>2. NoneSent(e) \/ LastUnderWay(e) \/ AllLost(e)
  BY <1>1 DEF QuietAccounted
<1>3. quiet[e] \in 0..PeerTimeout /\ sinceSent[e] \in 0..SendInterval
  BY DEF TypeOK
<1>4. PICK a \in Nat : a = lost[e] * SendInterval
  BY OneMoreLost DEF TypeOK
<1>5. /\ quiet'[e] \in Nat /\ quiet'[e] <= quiet[e] + 1
      /\ quiet'[e] >= quiet[e]
      /\ sinceSent[e] < SendInterval => sinceSent'[e] = sinceSent[e] + 1
      /\ ~(sinceSent[e] < SendInterval) => sinceSent'[e] = SendInterval
  BY <1>1, <1>3 DEF Capped
<1>6. NoneSent(e) => NoneSent(e)'
  BY <1>1, <1>3, <1>5, FirstSendFacts DEF NoneSent
<1>7. ASSUME LastUnderWay(e)  PROVE LastUnderWay(e)'
  <2>1. PICK m \in flight :
          \/ m.kind = "keepalive" /\ m.to = Peer(e) /\ m.age = sinceSent[e]
          \/ m.kind = "keepaliveAck" /\ m.to = e /\ sinceSent[e] \in m.age..(m.age + MaxDelay)
    BY <1>7 DEF LastUnderWay, RoundTrip
  <2>2. sinceSent'[e] = sinceSent[e] + 1
    BY <1>5, <1>7, RoundTripIsShort DEF LastUnderWay
  <2> DEFINE later == [m EXCEPT !.age = @ + 1]
  <2>3. m \in Flying
    BY DEF TypeOK, Flying
  <2>4. later \in flight' /\ later.kind = m.kind /\ later.to = m.to /\ later.age = m.age + 1
    BY <1>1, <2>3 DEF Flying
  <2> HIDE DEF later
  <2>5. m.age \in Nat
    BY <2>3 DEF Flying
  <2>6. RoundTrip(e)'
    BY <1>3, <2>1, <2>2, <2>4, <2>5 DEF RoundTrip
  <2> QED  BY <1>1, <1>3, <1>4, <1>5, <1>7, <2>2, <2>6, FirstSendFacts DEF LastUnderWay
<1>8. AllLost(e) => AllLost(e)'
  BY <1>1, <1>3, <1>4, <1>5, FirstSendFacts DEF AllLost
<1> QED  BY <1>2, <1>6, <1>7, <1>8

LEMMA QuietKept ==
  ASSUME TypeOK, [Next]_vars, NEW e \in Ends, QuietAccounted(e)
  PROVE  QuietAccounted(e)'
<1>1. ASSUME NEW f \in Ends, Return(f)  PROVE QuietAccounted(e)'
  <2>1. f = e \/ f = Peer(e)
    BY PeerFacts
  <2>2. bridge'[f] = "gone"
    BY <1>1 DEF Return, TypeOK
  <2> QED  BY <2>1, <2>2 DEF QuietAccounted
<1>2. CASE UNCHANGED vars
  BY <1>2 DEF vars, QuietAccounted, NoneSent, LastUnderWay, AllLost, RoundTrip
<1> QED  BY <1>1, <1>2, HousekeepingKeepsQuiet, ArriveKeepsQuiet, LoseKeepsQuiet,
            SecondKeepsQuiet DEF Next

-----------------------------------------------------------------------------
(* The theorems *)

LEMMA NextPreserves == KeepaliveInv /\ [Next]_vars => KeepaliveInv'
BY TypesKept, HearingKept, QuietKept DEF KeepaliveInv

\* The invariant holds for all periods that its assumptions allow.
THEOREM KeepaliveInvariant == Spec => []KeepaliveInv
<1>1. Init => KeepaliveInv
  BY InitEstablishes
<1>2. KeepaliveInv /\ [Next]_vars => KeepaliveInv'
  BY NextPreserves
<1> QED  BY <1>1, <1>2, PTL DEF Spec

\* An end notices within MaxDelay and the timeout that its peer is gone.
THEOREM GoneIsNoticed == Spec => []GonePeerNoticed
<1>1. KeepaliveInv => GonePeerNoticed
  <2> SUFFICES ASSUME KeepaliveInv, NEW e \in Ends, bridge[e] = "up"
               PROVE  goneFor[Peer(e)] <= NoticeLimit
    BY DEF GonePeerNoticed
  <2>1. goneFor[Peer(e)] <= quiet[e] + MaxDelay
    BY DEF KeepaliveInv, HearsNothingNew
  <2>2. quiet[e] \in 0..PeerTimeout /\ goneFor[Peer(e)] \in 0..(NoticeLimit + 1)
    BY PeerFacts DEF KeepaliveInv, TypeOK
  <2> QED  BY <2>1, <2>2 DEF NoticeLimit
<1> QED  BY <1>1, KeepaliveInvariant, PTL

\* No end declares a live peer idle, for any periods in which the timeout
\* leaves room for MaxLost losses.
THEOREM LiveStaysUp == Spec => LivePeerNotTimedOut
<1>1. KeepaliveInv /\ [Next]_vars =>
        [\A e \in Ends : bridge[e] = "up" /\ bridge'[e] = "timedOut"
                           => bridge[Peer(e)] # "up"]_vars
  <2> SUFFICES ASSUME KeepaliveInv, Next, NEW e \in Ends, bridge[e] = "up",
                      bridge'[e] = "timedOut", bridge[Peer(e)] = "up"
               PROVE  FALSE
    OBVIOUS
  <2>1. Housekeeping(e) /\ TimedOut(e)
    BY DEF Next, Housekeeping, Return, Arrive, Lose, Second, KeepaliveInv, TypeOK
  <2>2. quiet[e] >= PeerTimeout
    BY <2>1 DEF TimedOut
  <2>3. NoneSent(e) \/ LastUnderWay(e) \/ AllLost(e)
    BY DEF KeepaliveInv, QuietAccounted
  <2>4. quiet[e] \in Nat /\ sinceSent[e] \in 0..SendInterval /\ lost[e] \in 0..MaxLost
    BY DEF KeepaliveInv, TypeOK
  <2>5. PICK a, most \in Nat : /\ a = lost[e] * SendInterval
                               /\ most = MaxLost * SendInterval /\ a <= most
    <3>1. lost[e] \in Nat
      BY <2>4
    <3> QED  BY <2>4, <3>1, OneMoreLost, LossesBounded
  <2>6. FirstSend + most + 2 * MaxDelay < PeerTimeout
    BY <2>5, PatienceAssumption
  <2>7. ~NoneSent(e)
    BY <2>2, <2>4, <2>5, <2>6, FirstSendFacts DEF NoneSent
  <2>8. ~LastUnderWay(e)
    <3> SUFFICES ASSUME LastUnderWay(e)  PROVE FALSE
      OBVIOUS
    <3>1. sinceSent[e] <= 2 * MaxDelay
      BY RoundTripIsShort DEF LastUnderWay, KeepaliveInv
    <3>2. quiet[e] <= sinceSent[e] + FirstSend + a
      BY <2>5 DEF LastUnderWay
    <3> QED  BY <2>2, <2>4, <2>5, <2>6, <3>1, <3>2, FirstSendFacts
  <2>9. ~AllLost(e)
    <3> SUFFICES ASSUME AllLost(e)  PROVE FALSE
      OBVIOUS
    <3>1. quiet[e] + SendInterval <= sinceSent[e] + FirstSend + a
      BY <2>5 DEF AllLost
    <3> QED  BY <2>2, <2>4, <2>5, <2>6, <3>1, FirstSendFacts
  <2> QED  BY <2>3, <2>7, <2>8, <2>9
<1> QED  BY <1>1, KeepaliveInvariant, PTL DEF Spec, LivePeerNotTimedOut
=============================================================================
