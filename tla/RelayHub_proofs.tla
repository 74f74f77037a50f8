--------------------------- MODULE RelayHub_proofs ---------------------------
(***************************************************************************)
(* Theorems about RelayHub, for any connections, devices, channels and     *)
(* bounds: the hub never leaves a channel to a connection that is gone, a  *)
(* stale preference, or an end of a channel that nobody will ever inform.  *)
(***************************************************************************)
EXTENDS RelayHub, WellFoundedInduction, TLAPS

----------------------------------------------------------------------------
(* Choosing a connection *)

\* A nonempty set of naturals has a least element.
LEMMA LeastNatural ==
  ASSUME NEW S \in SUBSET Nat, S # {}
  PROVE  \E x \in S : \A y \in S : x <= y
<1> DEFINE less == {ss \in Nat \X Nat : ss[1] < ss[2]}
<1>1. IsWellFoundedOn(less, Nat)
  BY NatLessThanWellFounded, Zenon DEF OpToRel
<1>2. \A y, x \in Nat : y < x => <<y, x>> \in less
  OBVIOUS
<1> HIDE DEF less
<1>3. PICK x \in S : \A y \in S : ~(<<y, x>> \in less)
  BY <1>1, WFMin, Zenon
<1>4. \A y \in S : ~(y < x)
  <2> SUFFICES ASSUME NEW y \in S PROVE ~(y < x)
    OBVIOUS
  <2>1. y \in Nat /\ x \in Nat
    OBVIOUS
  <2> QED  BY <1>2, <1>3, <2>1, Zenon
<1>5. \A y \in S : x <= y
  BY <1>4
<1> QED  BY <1>5

\* A nonempty set of naturals below a bound has a greatest element.
LEMMA GreatestNatural ==
  ASSUME NEW S \in SUBSET Nat, S # {}, NEW n \in Nat, \A s \in S : s <= n
  PROVE  \E x \in S : \A y \in S : y <= x
<1> DEFINE T == {m \in 0..n : n - m \in S}
<1>1. \A s \in S : n - s \in T
  OBVIOUS
<1>2. T \in SUBSET Nat /\ T # {}
  <2>1. PICK s \in S : TRUE
    OBVIOUS
  <2>2. n - s \in T
    BY <1>1, <2>1
  <2> QED  BY <2>2
<1>3. PICK m \in T : \A t \in T : m <= t
  <2> HIDE DEF T
  <2> QED  BY <1>2, LeastNatural
<1>4. n - m \in S /\ m \in Nat
  BY <1>3
<1>5. \A s \in S : s <= n - m
  BY <1>1, <1>3, <1>4
<1> QED  BY <1>4, <1>5

\* The entries of a table of connections, numbered below some bound.
Numbered(table) ==
    /\ DOMAIN table \subseteq Connections
    /\ table \in [DOMAIN table -> Entry]
    /\ \E n \in Nat : \A k \in DOMAIN table : table[k].sequence < n

\* The newest of some registered connections is one of them.
LEMMA NewestIsMember ==
  ASSUME NEW table, Numbered(table), NEW S, S \subseteq DOMAIN table, S # {}
  PROVE  Newest(table, S) \in S
<1> DEFINE numbers == {table[k].sequence : k \in S}
<1>1. PICK n \in Nat : \A k \in DOMAIN table : table[k].sequence < n
  BY DEF Numbered
<1>2. \A k \in S : table[k].sequence \in Nat /\ table[k].sequence <= n
  BY <1>1 DEF Numbered, Entry
<1>3. numbers \in SUBSET Nat /\ numbers # {} /\ \A x \in numbers : x <= n
  BY <1>2
<1>4. PICK x \in numbers : \A y \in numbers : y <= x
  <2> HIDE DEF numbers
  <2> QED  BY <1>3, GreatestNatural
<1>5. \E k \in S : \A j \in S : table[j].sequence =< table[k].sequence
  BY <1>4
<1> QED  BY <1>5 DEF Newest

\* A promoted connection is a registered, eligible one of the device.
LEMMA SuccessorServes ==
  ASSUME NEW table, Numbered(table), NEW d, NEW n
  PROVE  \/ Successor(table, d, n) = NoConnection
         \/ Successor(table, d, n) \in Of(table, d) /\ Eligible(table, Successor(table, d, n))
<1> DEFINE newer == {k \in Of(table, d) : Eligible(table, k) /\ table[k].sequence > n}
<1>1. newer \subseteq DOMAIN table
  BY DEF Of
<1>2. newer # {} => Newest(table, newer) \in newer
  <2> HIDE DEF newer
  <2> QED  BY <1>1, NewestIsMember
<1> QED  BY <1>2 DEF Successor

\* So is a preference that was refreshed.
LEMMA RefreshedServes ==
  ASSUME NEW table, Numbered(table), NEW d
  PROVE  \/ Refreshed(table, d) = NoConnection
         \/ Refreshed(table, d) \in Of(table, d) /\ Eligible(table, Refreshed(table, d))
  BY SuccessorServes DEF Refreshed

\* A connection picked for an incoming channel is a registered one of its device.
LEMMA PickedIsRegistered ==
  ASSUME Numbered(connections), NEW d
  PROVE  Picked(d) = NoConnection \/ Picked(d) \in Of(connections, d)
<1>1. Services(d) \subseteq Of(connections, d)
  BY DEF Services
<1>2. Services(d) # {} => Newest(connections, Services(d)) \in Services(d)
  BY <1>1, NewestIsMember DEF Of
<1> QED  BY <1>1, <1>2, RefreshedServes DEF Picked

\* The invariant of the tables gives the bound the choices rely on.
LEMMA TableNumbered == TypeOK /\ TableIsCurrent => Numbered(connections)
  BY DEF TypeOK, TableIsCurrent, Numbered

----------------------------------------------------------------------------
(* What the shared parts of the actions do *)

\* The part of the invariant that says nothing of who was told what.
Basics ==
    /\ TypeOK
    /\ NothingFromNothing
    /\ TableIsCurrent
    /\ PreferredServes
    /\ NoChannelOfTheGone

\* Removing an entry, also one that is gone already, leaves a sound preference.
LEMMA RemoveEntryKeeps ==
  ASSUME Basics, NEW k \in Connections, RemoveEntry(k)
  PROVE  /\ DOMAIN connections' = DOMAIN connections \ {k}
         /\ \A j \in DOMAIN connections' : connections'[j] = connections[j]
         /\ DOMAIN connections' \subseteq Connections
         /\ connections' \in [DOMAIN connections' -> Entry]
         /\ preferred' \in [Devices -> Connections \union {NoConnection}]
         /\ PreferredServes'
<1> DEFINE rest == Without(connections, k)
           d == DeviceOf[k]
<1>1. /\ DOMAIN rest = DOMAIN connections \ {k}
      /\ \A j \in DOMAIN rest : rest[j] = connections[j]
      /\ connections' = rest
  BY DEF Without, RemoveEntry
<1>2. DOMAIN rest \subseteq Connections /\ rest \in [DOMAIN rest -> Entry]
  <2>1. rest = [j \in DOMAIN connections \ {k} |-> connections[j]]
    BY DEF Without
  <2> QED  BY <1>1, <2>1 DEF Basics, TypeOK
<1>3. Numbered(rest)
  <2>1. \A j \in DOMAIN rest : rest[j].sequence < nextSequence
    BY <1>1 DEF Basics, TableIsCurrent
  <2>2. nextSequence \in Nat
    BY DEF Basics, TypeOK
  <2> QED  BY <1>2, <2>1, <2>2 DEF Numbered
<1>4. d \in Devices /\ NoConnection \notin Connections
  BY HubAssumption
<1> DEFINE p == PreferredWithout(k)
<1>5. \/ p = NoConnection
      \/ p = preferred[d] /\ p # k
      \/ p \in Of(rest, d) /\ Eligible(rest, p)
  BY <1>3, SuccessorServes DEF PreferredWithout
<1>6. p \in Connections \union {NoConnection}
  BY <1>1, <1>2, <1>4, <1>5 DEF Basics, TypeOK, Of
<1>7. preferred' = [preferred EXCEPT ![d] = p]
  BY DEF RemoveEntry
<1>8. preferred' \in [Devices -> Connections \union {NoConnection}]
  BY <1>4, <1>6, <1>7 DEF Basics, TypeOK
<1>9. PreferredServes'
  <2> SUFFICES ASSUME NEW e \in Devices, preferred'[e] # NoConnection
               PROVE  /\ preferred'[e] \in Of(rest, e)
                      /\ rest[preferred'[e]].support = "LegacyUnknown"
                      /\ ~rest[preferred'[e]].originated
    BY <1>1 DEF PreferredServes, Of
  <2> HIDE DEF p
  <2>1. CASE e = d /\ preferred'[d] = p
    BY <1>1, <1>2, <1>4, <1>5, <2>1 DEF Basics, PreferredServes, Of, Eligible
  <2>2. CASE e # d
    <3>1. preferred'[e] = preferred[e]
      BY <1>4, <1>7, <2>2 DEF Basics, TypeOK
    <3>2. preferred[e] \in Of(connections, e) /\ preferred[e] # k
      BY <2>2, <3>1 DEF Basics, PreferredServes, Of
    <3> QED  BY <1>1, <3>1, <3>2 DEF Basics, PreferredServes, Of
  <2>3. preferred'[d] = p
    BY <1>4, <1>7 DEF Basics, TypeOK
  <2> QED  BY <2>1, <2>2, <2>3
<1> QED  BY <1>1, <1>2, <1>8, <1>9

\* An envelope that arrives adds to what one connection was told, no more.
LEMMA ArrivesTells ==
  ASSUME TypeOK, NEW m \in [to : Connections, channel : ChannelIds, kind : Kinds], Arrives(m)
  PROVE  /\ outbox' \in [Connections -> [ChannelIds -> Seq(Kinds)]]
         /\ \A k \in Connections : k # m.to => outbox'[k] = outbox[k]
         /\ m.to \notin closed => Told(m.to, m.channel, m.kind)'
         /\ \A k \in Connections, c \in ChannelIds : \A kind :
               /\ Told(k, c, kind) => Told(k, c, kind)'
               /\ Told(k, c, kind)' =>
                     Told(k, c, kind) \/ (k = m.to /\ c = m.channel /\ kind = m.kind)
<1>1. CASE m.to \in closed
  BY <1>1 DEF Arrives, TypeOK, Told
<1>2. CASE m.to \notin closed
  <2> DEFINE old == outbox[m.to][m.channel]
             new == outbox'[m.to][m.channel]
  <2>0. outbox' = [outbox EXCEPT ![m.to][m.channel] = Append(@, m.kind)]
    BY <1>2 DEF Arrives
  <2>1. /\ old \in Seq(Kinds) /\ m.kind \in Kinds /\ new = Append(old, m.kind)
        /\ outbox' \in [Connections -> [ChannelIds -> Seq(Kinds)]]
        /\ \A k \in Connections, c \in ChannelIds :
              k # m.to \/ c # m.channel => outbox'[k][c] = outbox[k][c]
        /\ \A k \in Connections : k # m.to => outbox'[k] = outbox[k]
    BY <2>0 DEF TypeOK
  <2>2. /\ DOMAIN new = 1..(Len(old) + 1) /\ DOMAIN old = 1..Len(old) /\ Len(old) \in Nat
        /\ new[Len(old) + 1] = m.kind
        /\ \A i \in 1..Len(old) : new[i] = old[i]
    BY <2>1
  <2>3. Told(m.to, m.channel, m.kind)'
    BY <2>2 DEF Told
  <2>4. ASSUME NEW k \in Connections, NEW c \in ChannelIds, NEW kind
        PROVE  /\ Told(k, c, kind) => Told(k, c, kind)'
               /\ Told(k, c, kind)' =>
                     Told(k, c, kind) \/ (k = m.to /\ c = m.channel /\ kind = m.kind)
    <3>1. CASE k = m.to /\ c = m.channel
      <4>0. /\ Told(k, c, kind) <=> \E i \in DOMAIN old : old[i] = kind
            /\ Told(k, c, kind)' <=> \E i \in DOMAIN new : new[i] = kind
        BY <3>1 DEF Told
      <4>1. \A i \in 1..(Len(old) + 1) : i \in 1..Len(old) \/ i = Len(old) + 1
        BY <2>2
      <4>2. \A i \in DOMAIN old : i \in DOMAIN new /\ new[i] = old[i]
        BY <2>2
      <4>3. \A i \in DOMAIN new : new[i] = m.kind \/ (i \in DOMAIN old /\ new[i] = old[i])
        BY <2>2, <4>1
      <4> HIDE DEF old, new
      <4> QED  BY <3>1, <4>0, <4>2, <4>3
    <3>2. CASE k # m.to \/ c # m.channel
      BY <2>1, <3>2 DEF Told
    <3> QED  BY <3>1, <3>2
  <2> QED  BY <2>1, <2>3, <2>4
<1> QED  BY <1>1, <1>2

\* An idle task takes up the sends whose receivers it found, and nothing else.
LEMMA PostsAdds ==
  ASSUME TypeOK, NEW k \in Connections, NEW S \in SUBSET Envelope, Posts(k, S), unsent[k] = {}
  PROVE  /\ unsent' \in [Connections -> SUBSET Envelope]
         /\ \A j \in Connections : unsent[j] \subseteq unsent'[j]
         /\ \A j \in Connections : \A m \in unsent'[j] :
               m \in unsent[j] \/ (m \in S /\ m.to \in DOMAIN connections)
         /\ \A m \in S : m.to \in DOMAIN connections => m \in unsent'[k]
  BY DEF TypeOK, Posts

----------------------------------------------------------------------------
(* The basic part of the invariant, action by action *)

\* The empty hub satisfies the invariant.
LEMMA InitHolds == Init => HubInv
<1> SUFFICES ASSUME Init PROVE HubInv
  OBVIOUS
<1>1. /\ DOMAIN connections = {} /\ DOMAIN channels = {} /\ DOMAIN opening = {}
      /\ connections \in [DOMAIN connections -> Entry]
      /\ channels \in [DOMAIN channels -> Channel]
      /\ opening \in [DOMAIN opening -> Call]
  BY DEF Init
<1>2. <<>> \in Seq(Kinds)
  OBVIOUS
<1>3. TypeOK
  BY <1>1, <1>2 DEF Init, TypeOK, Phase
<1>4. \A k \in Connections, c \in ChannelIds : outbox[k][c] = <<>> /\ opener[c] = NoConnection
  BY DEF Init
<1>5. \A k \in Connections, c \in ChannelIds : \A kind : ~Told(k, c, kind)
  BY <1>4 DEF Told
<1>6. NothingFromNothing
  BY <1>1, <1>4, <1>5, HubAssumption DEF Init, NothingFromNothing
<1>7. TableIsCurrent /\ PreferredServes /\ NoChannelOfTheGone /\ OfferStands
  BY <1>1 DEF Init, TableIsCurrent, PreferredServes, NoChannelOfTheGone, OfferStands, CallStands
<1>8. TargetNotForgotten /\ SourceNotForgotten
  BY <1>4, <1>5, HubAssumption DEF TargetNotForgotten, SourceNotForgotten
<1> QED  BY <1>3, <1>6, <1>7, <1>8 DEF HubInv

\* Registration keeps the tables sound.
LEMMA RegisterBasics ==
  ASSUME Basics, NEW k \in Connections, Register(k)
  PROVE  Basics'
<1> DEFINE d == DeviceOf[k]
           entry == [support |-> SupportOf[k], sequence |-> nextSequence, originated |-> FALSE]
           table == [j \in DOMAIN connections \union {k} |->
                       IF j = k THEN entry ELSE connections[j]]
           kept == Refreshed(table, d)
           p == PreferredAfterRegister(table, k)
<1>1. /\ connections' = table /\ nextSequence' = nextSequence + 1
      /\ preferred' = [preferred EXCEPT ![d] = p]
      /\ task[k] = "absent" /\ task' = [task EXCEPT ![k] = "serving"]
      /\ UNCHANGED <<channels, closed, opening, unsent, outbox, history>>
  BY DEF Register
<1>2. /\ d \in Devices /\ NoConnection \notin Connections /\ entry \in Entry
      /\ nextSequence \in Nat /\ k \notin DOMAIN connections
      /\ DOMAIN table = DOMAIN connections \union {k}
      /\ table[k] = entry /\ \A j \in DOMAIN connections : table[j] = connections[j]
  BY <1>1, HubAssumption DEF Basics, TypeOK, TableIsCurrent, Entry
<1>3. DOMAIN table \subseteq Connections /\ table \in [DOMAIN table -> Entry]
  BY <1>2 DEF Basics, TypeOK
<1>4. \A j \in DOMAIN table : table[j].sequence < nextSequence + 1
  <2>1. \A j \in DOMAIN connections :
           connections[j].sequence \in Nat /\ connections[j].sequence < nextSequence
    BY DEF Basics, TableIsCurrent, TypeOK, Entry
  <2> QED  BY <1>2, <2>1
<1>5. Numbered(table)
  <2> HIDE DEF table
  <2>1. nextSequence + 1 \in Nat
    BY <1>2
  <2> QED  BY <1>3, <1>4, <2>1 DEF Numbered
<1>6. kept = NoConnection \/ (kept \in Of(table, d) /\ Eligible(table, kept))
  BY <1>5, RefreshedServes
<1> HIDE DEF table, kept
<1>7. \/ p = NoConnection
      \/ p \in Of(table, d) /\ table[p].support = "LegacyUnknown" /\ ~table[p].originated
  <2>1. p = IF kept = NoConnection /\ SupportOf[k] = "LegacyUnknown" THEN k ELSE kept
    BY DEF PreferredAfterRegister, kept
  <2> QED  BY <1>2, <1>6, <2>1 DEF Of, Eligible
<1> HIDE DEF p
<1>8. p \in Connections \union {NoConnection}
  BY <1>3, <1>7 DEF Of
<1>9. TypeOK'
  <2>1. preferred' \in [Devices -> Connections \union {NoConnection}]
    BY <1>1, <1>8 DEF Basics, TypeOK
  <2>2. task' \in [Connections -> Phase]
    BY <1>1 DEF Basics, TypeOK, Phase
  <2> QED  BY <1>1, <1>2, <1>3, <2>1, <2>2 DEF Basics, TypeOK, history
<1>10. \A j \in Connections : /\ task'[j] = "absent" => task[j] = "absent"
                              /\ task[j] = "serving" => task'[j] = "serving"
                              /\ j = k => task'[j] = "serving"
  BY <1>1 DEF Basics, TypeOK
<1>11. NothingFromNothing'
  BY <1>1, <1>10 DEF Basics, NothingFromNothing, history, Told
<1>12. TableIsCurrent'
  <2>1. \A j \in DOMAIN connections' : task'[j] = "serving"
    BY <1>1, <1>2, <1>10 DEF Basics, TableIsCurrent, TypeOK
  <2> QED  BY <1>1, <1>4, <2>1 DEF Basics, TableIsCurrent, history
<1>13. PreferredServes'
  <2> SUFFICES ASSUME NEW e \in Devices, preferred'[e] # NoConnection
               PROVE  /\ preferred'[e] \in Of(table, e)
                      /\ table[preferred'[e]].support = "LegacyUnknown"
                      /\ ~table[preferred'[e]].originated
    BY <1>1 DEF PreferredServes, Of
  <2>1. CASE e = d
    <3>1. preferred'[e] = p
      BY <1>1, <1>2, <2>1 DEF Basics, TypeOK
    <3> QED  BY <1>7, <2>1, <3>1
  <2>2. CASE e # d
    <3>1. preferred'[e] = preferred[e]
      BY <1>1, <1>2, <2>2 DEF Basics, TypeOK
    <3> QED  BY <1>2, <3>1 DEF Basics, PreferredServes, Of
  <2> QED  BY <2>1, <2>2
<1>14. NoChannelOfTheGone'
  BY <1>1, <1>10 DEF Basics, NoChannelOfTheGone, Ends, TypeOK, Channel
<1> QED  BY <1>9, <1>11, <1>12, <1>13, <1>14 DEF Basics

\* The end of a socket takes the connection out of all tables.
LEMMA DisconnectBasics ==
  ASSUME Basics, NEW k \in Connections, Disconnect(k)
  PROVE  Basics'
<1>1. /\ Idle(k) /\ task' = [task EXCEPT ![k] = "leaving"] /\ RemoveEntry(k)
      /\ channels' = [c \in DOMAIN channels \ Lost(k) |-> channels[c]]
      /\ unsent' = [unsent EXCEPT ![k] = {To(PeerOf(c, k), c, "close") :
            c \in {x \in Lost(k) : PeerOf(x, k) \in DOMAIN connections \ {k}}}]
      /\ UNCHANGED <<nextSequence, closed, opening, outbox, history>>
  BY DEF Disconnect
<1>2. /\ DOMAIN connections' = DOMAIN connections \ {k}
      /\ \A j \in DOMAIN connections' : connections'[j] = connections[j]
      /\ DOMAIN connections' \subseteq Connections
      /\ connections' \in [DOMAIN connections' -> Entry]
      /\ preferred' \in [Devices -> Connections \union {NoConnection}]
      /\ PreferredServes'
  BY <1>1, RemoveEntryKeeps
<1>3. /\ DOMAIN channels' = DOMAIN channels \ Lost(k)
      /\ \A c \in DOMAIN channels' : channels'[c] = channels[c]
      /\ channels' \in [DOMAIN channels' -> Channel]
  BY <1>1 DEF Basics, TypeOK
<1>4. \A j \in Connections : \A m \in unsent'[j] :
         \/ m \in unsent[j]
         \/ m \in Envelope /\ m.to \in DOMAIN connections
  BY <1>1 DEF Basics, TypeOK, To, Lost, Envelope, Kinds
<1>5. unsent' \in [Connections -> SUBSET Envelope]
  <2>1. \A j \in Connections : unsent'[j] \in SUBSET Envelope
    BY <1>4 DEF Basics, TypeOK
  <2> QED  BY <1>1, <2>1 DEF Basics, TypeOK
<1>6. \A j \in Connections : /\ task'[j] = "absent" => task[j] = "absent"
                             /\ j # k => task'[j] = task[j]
  BY <1>1 DEF Basics, TypeOK
<1>7. TypeOK'
  <2>1. task' \in [Connections -> Phase]
    BY <1>1 DEF Basics, TypeOK, Phase
  <2> QED  BY <1>1, <1>2, <1>3, <1>5, <2>1 DEF Basics, TypeOK, history
<1>8. NothingFromNothing'
  <2>1. \A j \in DOMAIN connections : task[j] = "serving"
    BY DEF Basics, TableIsCurrent
  <2> QED  BY <1>1, <1>4, <1>6, <2>1 DEF Basics, NothingFromNothing, history, Told
<1>9. TableIsCurrent'
  BY <1>1, <1>2, <1>3, <1>6 DEF Basics, TableIsCurrent, history
<1>10. NoChannelOfTheGone'
  <2>1. \A c \in DOMAIN channels' : k \notin Ends(c) /\ Ends(c)' = Ends(c) /\ Ends(c) \subseteq Connections
    BY <1>3 DEF Ends, Lost, Basics, TypeOK, Channel
  <2> QED  BY <1>3, <1>6, <2>1 DEF Basics, NoChannelOfTheGone
<1> QED  BY <1>2, <1>7, <1>8, <1>9, <1>10 DEF Basics

\* Steps that leave the connections alone and move no task back.
LEMMA SmallBasics ==
  ASSUME Basics, Reset \/ \E k \in Connections : WriterDies(k) \/ Leave(k) \/ SendOne(k)
  PROVE  Basics'
<1>1. ASSUME NEW k \in Connections, WriterDies(k)
      PROVE  Basics'
  BY <1>1 DEF WriterDies, hubVars, history, Basics, TypeOK, NothingFromNothing, Told,
              TableIsCurrent, PreferredServes, Of, NoChannelOfTheGone, Ends
<1>2. ASSUME NEW k \in Connections, Leave(k)
      PROVE  Basics'
  <2>1. \A j \in Connections : /\ task'[j] = "absent" => task[j] = "absent"
                               /\ task[j] = "serving" => task'[j] = "serving"
    BY <1>2 DEF Leave, Basics, TypeOK
  <2>2. /\ task' \in [Connections -> Phase] /\ closed' = closed \union {k}
        /\ UNCHANGED <<hubVars, opening, unsent, outbox, history>>
    BY <1>2 DEF Leave, Basics, TypeOK, Phase
  <2>3. TypeOK'
    BY <2>2 DEF Basics, TypeOK, hubVars, history
  <2>4. NothingFromNothing'
    BY <2>1, <2>2 DEF Basics, NothingFromNothing, Told, history
  <2>5. TableIsCurrent'
    BY <2>1, <2>2 DEF Basics, TypeOK, TableIsCurrent, hubVars, history
  <2>6. PreferredServes'
    BY <2>2 DEF Basics, PreferredServes, Of, hubVars
  <2>7. NoChannelOfTheGone'
    BY <2>1, <2>2 DEF Basics, NoChannelOfTheGone, Ends, hubVars, TypeOK, Channel
  <2> QED  BY <2>3, <2>4, <2>5, <2>6, <2>7 DEF Basics
<1>3. ASSUME NEW k \in Connections, SendOne(k)
      PROVE  Basics'
  <2>1. PICK m \in unsent[k] : /\ unsent' = [unsent EXCEPT ![k] = @ \ {m}]
                              /\ Arrives(m)
                              /\ UNCHANGED <<hubVars, closed, task, opening, history>>
    BY <1>3 DEF SendOne
  <2>2. m \in Envelope
    BY DEF Basics, TypeOK
  <2>3. m \in [to : Connections, channel : ChannelIds, kind : Kinds] /\ m.kind # "incoming"
    BY <2>2 DEF Envelope
  <2>4. /\ outbox' \in [Connections -> [ChannelIds -> Seq(Kinds)]]
        /\ \A j \in Connections : j # m.to => outbox'[j] = outbox[j]
        /\ \A j \in Connections, c \in ChannelIds :
              Told(j, c, "incoming")' => Told(j, c, "incoming")
    BY <2>1, <2>3, ArrivesTells DEF Basics
  <2>5. /\ unsent' \in [Connections -> SUBSET Envelope]
        /\ \A j \in Connections : unsent'[j] \subseteq unsent[j]
    BY <2>1 DEF Basics, TypeOK
  <2>6. TypeOK'
    BY <2>1, <2>4, <2>5 DEF Basics, TypeOK, hubVars, history
  <2>7. task[m.to] # "absent"
    BY <2>3 DEF Basics, NothingFromNothing
  <2>8. NothingFromNothing'
    BY <2>1, <2>4, <2>5, <2>7 DEF Basics, NothingFromNothing, history
  <2>9. TableIsCurrent' /\ PreferredServes' /\ NoChannelOfTheGone'
    BY <2>1 DEF Basics, TableIsCurrent, PreferredServes, Of, NoChannelOfTheGone, Ends,
                hubVars, history
  <2> QED  BY <2>6, <2>8, <2>9 DEF Basics
<1>4. CASE Reset
  <2>1. /\ DOMAIN connections' = {} /\ DOMAIN channels' = {}
        /\ connections' \in [DOMAIN connections' -> Entry]
        /\ channels' \in [DOMAIN channels' -> Channel]
        /\ preferred' = [d \in Devices |-> NoConnection] /\ resets' = resets + 1
        /\ UNCHANGED <<nextSequence, closed, task, opening, unsent, outbox, opener, finished,
                       reoffered>>
    BY <1>4 DEF Reset
  <2>2. TypeOK'
    BY <2>1 DEF Basics, TypeOK
  <2>3. NothingFromNothing'
    BY <2>1 DEF Basics, NothingFromNothing, Told
  <2>4. TableIsCurrent' /\ PreferredServes' /\ NoChannelOfTheGone'
    BY <2>1 DEF TableIsCurrent, PreferredServes, NoChannelOfTheGone
  <2> QED  BY <2>2, <2>3, <2>4 DEF Basics
<1> QED  BY <1>1, <1>2, <1>3, <1>4

\* An OpenChannel costs its connection the preference.
LEMMA HandleOpenBasics ==
  ASSUME Basics, NEW k \in Connections, NEW c \in ChannelIds, NEW d \in Devices,
         HandleOpen(k, c, d)
  PROVE  Basics'
<1> DEFINE spent == [connections[k] EXCEPT
                       !.originated = TRUE,
                       !.support = IF @ = "LegacyUnknown" THEN "ExplicitNo" ELSE @]
           table == [j \in DOMAIN connections |-> IF j # k THEN connections[j] ELSE spent]
           own == DeviceOf[k]
           p == PreferredAfterOpen(table, k)
           call == [channel |-> c, owner |-> d, checked |-> FALSE, target |-> NoConnection]
<1>1. /\ Idle(k) /\ opener[c] = NoConnection /\ opener' = [opener EXCEPT ![c] = k]
      /\ connections' = table /\ preferred' = [preferred EXCEPT ![own] = p]
      /\ opening' = [j \in DOMAIN opening \union {k} |-> IF j = k THEN call ELSE opening[j]]
      /\ UNCHANGED <<nextSequence, channels, closed, task, unsent, outbox, finished,
                     reoffered, resets>>
  BY DEF HandleOpen
<1>2. own \in Devices /\ NoConnection \notin Connections
  BY HubAssumption
<1>3. /\ DOMAIN table = DOMAIN connections /\ DOMAIN table \subseteq Connections
      /\ \A j \in DOMAIN table : j # k => table[j] = connections[j]
  BY DEF Basics, TypeOK
<1>4. k \in DOMAIN connections =>
        /\ table[k] \in Entry /\ table[k].sequence = connections[k].sequence
        /\ table[k].originated
  <2>1. k \in DOMAIN connections => connections[k] \in Entry
    BY DEF Basics, TypeOK
  <2> QED  BY <2>1 DEF Entry, Support
<1>5. table \in [DOMAIN table -> Entry]
  BY <1>3, <1>4 DEF Basics, TypeOK
<1>6. \A j \in DOMAIN table : table[j].sequence < nextSequence
  BY <1>3, <1>4 DEF Basics, TableIsCurrent
<1>7. Numbered(table)
  <2> HIDE DEF table
  <2>1. nextSequence \in Nat
    BY DEF Basics, TypeOK
  <2> QED  BY <1>3, <1>5, <1>6, <2>1 DEF Numbered
<1> HIDE DEF table
<1>8. \/ p = NoConnection
      \/ p = preferred[own] /\ p # k
      \/ p \in Of(table, own) /\ Eligible(table, p)
  <2>1. k \notin DOMAIN connections => preferred[own] # k
    BY <1>2 DEF Basics, PreferredServes, Of
  <2> QED  BY <1>7, <2>1, SuccessorServes DEF PreferredAfterOpen
<1>9. p \in Connections \union {NoConnection}
  BY <1>2, <1>3, <1>8 DEF Basics, TypeOK, Of
<1> HIDE DEF p
<1>10. /\ opening' \in [DOMAIN opening' -> Call] /\ DOMAIN opening' \subseteq Connections
       /\ opener' \in [ChannelIds -> Connections \union {NoConnection}]
  BY <1>1 DEF Basics, TypeOK, Call
<1>11. TypeOK'
  <2>1. preferred' \in [Devices -> Connections \union {NoConnection}]
    BY <1>1, <1>9 DEF Basics, TypeOK
  <2> QED  BY <1>1, <1>3, <1>5, <1>10, <2>1 DEF Basics, TypeOK
<1>12. NothingFromNothing'
  <2>1. task[k] # "absent"
    BY <1>1 DEF Idle
  <2>2. \A x \in ChannelIds : opener'[x] = IF x = c THEN k ELSE opener[x]
    BY <1>1 DEF Basics, TypeOK
  <2>3. \A j \in DOMAIN opening' : opening'[j].target = NoConnection
                                  \/ (j \in DOMAIN opening /\ opening'[j] = opening[j])
    BY <1>1
  <2> QED  BY <1>1, <1>2, <2>1, <2>2, <2>3 DEF Basics, NothingFromNothing, Told
<1>13. TableIsCurrent'
  <2>1. \A x \in DOMAIN channels : opener[x] = channels[x].source /\ x # c
    BY <1>1, <1>2 DEF Basics, TypeOK, TableIsCurrent, Channel
  <2>2. \A x \in DOMAIN channels : opener'[x] = opener[x]
    BY <1>1, <2>1 DEF Basics, TypeOK
  <2> QED  BY <1>1, <1>3, <1>6, <2>1, <2>2 DEF Basics, TableIsCurrent
<1>14. PreferredServes'
  <2> SUFFICES ASSUME NEW e \in Devices, preferred'[e] # NoConnection
               PROVE  /\ preferred'[e] \in Of(table, e)
                      /\ table[preferred'[e]].support = "LegacyUnknown"
                      /\ ~table[preferred'[e]].originated
    BY <1>1 DEF PreferredServes, Of
  <2>1. preferred'[e] = IF e = own THEN p ELSE preferred[e]
    BY <1>1, <1>2 DEF Basics, TypeOK
  <2>2. preferred[e] # NoConnection =>
           /\ preferred[e] \in Of(connections, e)
           /\ connections[preferred[e]].support = "LegacyUnknown"
           /\ ~connections[preferred[e]].originated
    BY DEF Basics, PreferredServes
  <2>3. CASE e = own
    BY <1>3, <1>8, <2>1, <2>2, <2>3 DEF Of, Eligible
  <2>4. CASE e # own
    BY <1>3, <2>1, <2>2, <2>4 DEF Of
  <2> QED  BY <2>3, <2>4
<1>15. NoChannelOfTheGone'
  BY <1>1 DEF Basics, NoChannelOfTheGone, Ends
<1> QED  BY <1>11, <1>12, <1>13, <1>14, <1>15 DEF Basics

\* Picking a connection may refresh the preference, which stays sound.
LEMMA PickKeepsPreference ==
  ASSUME Basics, NEW d \in Devices, preferred' = PreferredAfterPick(d), connections' = connections
  PROVE  /\ preferred' \in [Devices -> Connections \union {NoConnection}]
         /\ PreferredServes'
<1> DEFINE p == Refreshed(connections, d)
<1>1. p = NoConnection \/ (p \in Of(connections, d) /\ Eligible(connections, p))
  BY TableNumbered, RefreshedServes DEF Basics
<1>2. p \in Connections \union {NoConnection}
  BY <1>1 DEF Basics, TypeOK, Of
<1>3. preferred' = preferred \/ preferred' = [preferred EXCEPT ![d] = p]
  BY DEF PreferredAfterPick
<1> HIDE DEF p
<1>4. preferred' \in [Devices -> Connections \union {NoConnection}]
  BY <1>2, <1>3 DEF Basics, TypeOK
<1>5. \A e \in Devices : preferred'[e] = preferred[e] \/ (e = d /\ preferred'[e] = p)
  BY <1>3 DEF Basics, TypeOK
<1>6. PreferredServes'
  BY <1>1, <1>5 DEF Basics, PreferredServes, Of, Eligible
<1> QED  BY <1>4, <1>6

\* A handler that ends without a channel keeps the tables.
LEMMA RejectsBasics ==
  ASSUME Basics, NEW k \in Connections, k \in DOMAIN opening, unsent[k] = {}, Rejects(k),
         preferred' \in [Devices -> Connections \union {NoConnection}], PreferredServes'
  PROVE  Basics'
<1>1. /\ opening' = Without(opening, k)
      /\ Posts(k, {To(k, opening[k].channel, "rejected")})
      /\ UNCHANGED <<connections, nextSequence, channels, closed, task, outbox, history>>
  BY DEF Rejects
<1>2. opening[k].channel \in ChannelIds
  BY DEF Basics, TypeOK, Call
<1>3. {To(k, opening[k].channel, "rejected")} \in SUBSET Envelope
  BY <1>2 DEF To, Envelope, Kinds
<1>4. /\ unsent' \in [Connections -> SUBSET Envelope]
      /\ \A j \in Connections : \A m \in unsent'[j] :
            m \in unsent[j] \/ m.to \in DOMAIN connections
  BY <1>1, <1>3, PostsAdds DEF Basics
<1>5. /\ DOMAIN opening' \subseteq DOMAIN opening
      /\ \A j \in DOMAIN opening' : opening'[j] = opening[j]
      /\ opening' \in [DOMAIN opening' -> Call]
  BY <1>1 DEF Without, Basics, TypeOK
<1>6. TypeOK'
  BY <1>1, <1>4, <1>5 DEF Basics, TypeOK, history
<1>7. NothingFromNothing'
  <2>1. \A j \in DOMAIN connections : task[j] # "absent"
    BY DEF Basics, TableIsCurrent
  <2> QED  BY <1>1, <1>4, <1>5, <2>1 DEF Basics, NothingFromNothing, Told, history
<1>8. TableIsCurrent' /\ NoChannelOfTheGone'
  BY <1>1 DEF Basics, TableIsCurrent, NoChannelOfTheGone, Ends, history
<1> QED  BY <1>6, <1>7, <1>8 DEF Basics

\* An idle task's answer to an envelope of an open channel keeps the tables.
LEMMA EnvelopeBasics ==
  ASSUME Basics, NEW k \in Connections, NEW c \in ChannelIds,
         NEW S \in SUBSET Envelope, Posts(k, S), unsent[k] = {},
         DOMAIN channels' \subseteq DOMAIN channels,
         channels' \in [DOMAIN channels' -> Channel],
         \A x \in DOMAIN channels' : /\ channels'[x].source = channels[x].source
                                    /\ channels'[x].target = channels[x].target,
         finished' \in [Connections -> SUBSET ChannelIds],
         UNCHANGED <<connections, nextSequence, preferred, closed, task, opening, outbox,
                     opener, reoffered, resets>>
  PROVE  Basics'
<1>1. /\ unsent' \in [Connections -> SUBSET Envelope]
      /\ \A j \in Connections : \A m \in unsent'[j] :
            m \in unsent[j] \/ m.to \in DOMAIN connections
  BY PostsAdds DEF Basics
<1>2. TypeOK'
  BY <1>1 DEF Basics, TypeOK
<1>3. NothingFromNothing'
  <2>1. \A j \in DOMAIN connections : task[j] # "absent"
    BY DEF Basics, TableIsCurrent
  <2> QED  BY <1>1, <2>1 DEF Basics, NothingFromNothing, Told
<1>4. TableIsCurrent' /\ PreferredServes'
  BY DEF Basics, TableIsCurrent, PreferredServes, Of
<1>5. NoChannelOfTheGone'
  BY DEF Basics, NoChannelOfTheGone, Ends
<1> QED  BY <1>2, <1>3, <1>4, <1>5 DEF Basics

\* An open channel is set up with a registered connection.
LEMMA ChooseBasics ==
  ASSUME Basics, OfferStands, NEW k \in Connections, Choose(k)
  PROVE  Basics'
<1> DEFINE c == opening[k].channel
           d == opening[k].owner
           t == Picked(d)
<1>1. /\ k \in DOMAIN opening /\ c \notin DOMAIN channels /\ t # NoConnection
      /\ preferred' = PreferredAfterPick(d)
      /\ channels' = [x \in DOMAIN channels \union {c} |->
            IF x = c THEN Inserted(k, t) ELSE channels[x]]
      /\ opening' = [opening EXCEPT ![k].checked = TRUE, ![k].target = t]
      /\ UNCHANGED <<connections, nextSequence, closed, task, unsent, outbox, history>>
  BY DEF Choose, Choosing
<1>2. /\ c \in ChannelIds /\ d \in Devices
      /\ opening[k] \in Call
  BY <1>1 DEF Basics, TypeOK, Call
<1>3. t \in DOMAIN connections /\ t \in Connections /\ task[t] = "serving"
  <2>1. t \in Of(connections, d)
    BY <1>1, PickedIsRegistered, TableNumbered DEF Basics
  <2> QED  BY <2>1 DEF Basics, TypeOK, TableIsCurrent, Of
<1> HIDE DEF t
<1>4. task[k] = "serving" /\ opener[c] = k
  BY <1>1 DEF OfferStands, CallStands
<1>5. Inserted(k, t) \in Channel /\ Inserted(k, t).source = k /\ Inserted(k, t).target = t
  BY <1>3 DEF Inserted, Channel
<1>6. /\ preferred' \in [Devices -> Connections \union {NoConnection}]
      /\ PreferredServes'
  BY <1>1, <1>2, PickKeepsPreference
<1>7. /\ DOMAIN channels' = DOMAIN channels \union {c}
      /\ channels' \in [DOMAIN channels' -> Channel]
      /\ channels'[c] = Inserted(k, t)
      /\ \A x \in DOMAIN channels : channels'[x] = channels[x]
  BY <1>1, <1>5 DEF Basics, TypeOK
<1>8. /\ DOMAIN opening' = DOMAIN opening
      /\ opening' \in [DOMAIN opening -> Call]
      /\ \A j \in DOMAIN opening : opening'[j].target \in {opening[j].target, t}
  BY <1>1, <1>2, <1>3 DEF Basics, TypeOK, Call
<1>9. TypeOK'
  BY <1>1, <1>2, <1>6, <1>7, <1>8 DEF Basics, TypeOK, history
<1>10. NothingFromNothing'
  BY <1>1, <1>3, <1>8 DEF Basics, NothingFromNothing, Told, history
<1>11. TableIsCurrent'
  BY <1>1, <1>4, <1>5, <1>7 DEF Basics, TableIsCurrent, history
<1>12. NoChannelOfTheGone'
  BY <1>1, <1>3, <1>4, <1>5, <1>7 DEF Basics, NoChannelOfTheGone, Ends
<1> QED  BY <1>6, <1>9, <1>10, <1>11, <1>12 DEF Basics

\* Whether the offer reaches the chosen connection or not, the tables stay sound.
LEMMA OfferBasics ==
  ASSUME Basics, OfferStands, NEW k \in Connections, Offer(k) \/ Withdraw(k)
  PROVE  Basics'
<1> DEFINE c == opening[k].channel
           t == opening[k].target
<1>1. k \in DOMAIN opening /\ t # NoConnection /\ opening[k] \in Call
  BY DEF Offer, Withdraw, Offering, Basics, TypeOK
<1>2. c \in ChannelIds /\ t \in Connections /\ task[t] # "absent" /\ opener[c] = k
  BY <1>1 DEF Call, OfferStands, CallStands, Basics, NothingFromNothing
<1>3. CASE Offer(k)
  <2> DEFINE m == To(t, c, "incoming")
  <2>1. /\ Arrives(m) /\ opening' = Without(opening, k)
        /\ UNCHANGED <<hubVars, closed, task, unsent, history>>
    BY <1>3 DEF Offer
  <2>2. /\ m \in [to : Connections, channel : ChannelIds, kind : Kinds]
        /\ m.to = t /\ m.channel = c
    BY <1>2 DEF To, Kinds
  <2> HIDE DEF m
  <2>3. /\ outbox' \in [Connections -> [ChannelIds -> Seq(Kinds)]]
        /\ \A j \in Connections : j # t => outbox'[j] = outbox[j]
        /\ \A j \in Connections, x \in ChannelIds :
              Told(j, x, "incoming")' => Told(j, x, "incoming") \/ x = c
    BY <2>1, <2>2, ArrivesTells DEF Basics
  <2>4. /\ DOMAIN opening' \subseteq DOMAIN opening
        /\ \A j \in DOMAIN opening' : opening'[j] = opening[j]
        /\ opening' \in [DOMAIN opening' -> Call]
    BY <2>1 DEF Without, Basics, TypeOK
  <2>5. TypeOK'
    BY <2>1, <2>3, <2>4 DEF Basics, TypeOK, hubVars, history
  <2>6. NothingFromNothing'
    <3>1. opener[c] # NoConnection
      BY <1>2, HubAssumption
    <3>2. ASSUME NEW j \in Connections, task'[j] = "absent"
          PROVE  /\ \A x \in ChannelIds : outbox'[j][x] = <<>> /\ opener'[x] # j
                 /\ \A i \in Connections : \A n \in unsent'[i] : n.to # j
                 /\ \A i \in DOMAIN opening' : opening'[i].target # j
      <4>1. task[j] = "absent" /\ j # t
        BY <1>2, <2>1, <3>2
      <4>2. outbox'[j] = outbox[j] /\ opener' = opener /\ unsent' = unsent
        BY <2>1, <2>3, <4>1 DEF history
      <4>3. \A x \in ChannelIds : outbox'[j][x] = <<>> /\ opener'[x] # j
        BY <4>1, <4>2 DEF Basics, NothingFromNothing
      <4>4. \A i \in Connections : \A n \in unsent'[i] : n.to # j
        BY <4>1, <4>2 DEF Basics, NothingFromNothing
      <4>5. \A i \in DOMAIN opening' : opening'[i].target # j
        BY <2>4, <4>1 DEF Basics, NothingFromNothing
      <4> QED  BY <4>3, <4>4, <4>5
    <3>3. ASSUME NEW x \in ChannelIds, opener'[x] = NoConnection
          PROVE  \A j \in Connections : ~Told(j, x, "incoming")'
      <4>1. opener[x] = NoConnection /\ x # c
        BY <2>1, <3>1, <3>3 DEF history
      <4> QED  BY <2>3, <4>1 DEF Basics, NothingFromNothing
    <3> QED  BY <3>2, <3>3 DEF NothingFromNothing
  <2>7. TableIsCurrent' /\ PreferredServes' /\ NoChannelOfTheGone'
    BY <2>1 DEF Basics, TableIsCurrent, PreferredServes, Of, NoChannelOfTheGone, Ends,
                hubVars, history
  <2> QED  BY <2>5, <2>6, <2>7 DEF Basics
<1>4. CASE Withdraw(k)
  <2>1. /\ RemoveEntry(t) /\ channels' = Without(channels, c)
        /\ opening' = [opening EXCEPT ![k].target = NoConnection]
        /\ reoffered' = reoffered \union {c}
        /\ UNCHANGED <<nextSequence, closed, task, unsent, outbox, opener, finished, resets>>
    BY <1>4 DEF Withdraw
  <2>2. /\ DOMAIN connections' = DOMAIN connections \ {t}
        /\ \A j \in DOMAIN connections' : connections'[j] = connections[j]
        /\ DOMAIN connections' \subseteq Connections
        /\ connections' \in [DOMAIN connections' -> Entry]
        /\ preferred' \in [Devices -> Connections \union {NoConnection}]
        /\ PreferredServes'
    BY <1>2, <2>1, RemoveEntryKeeps
  <2>3. /\ DOMAIN channels' \subseteq DOMAIN channels
        /\ \A x \in DOMAIN channels' : channels'[x] = channels[x]
        /\ channels' \in [DOMAIN channels' -> Channel]
    BY <2>1 DEF Without, Basics, TypeOK
  <2>4. /\ DOMAIN opening' = DOMAIN opening
        /\ opening' \in [DOMAIN opening -> Call]
        /\ \A j \in DOMAIN opening : opening'[j].target \in {opening[j].target, NoConnection}
    BY <1>1, <2>1 DEF Basics, TypeOK, Call
  <2>5. TypeOK'
    BY <1>2, <2>1, <2>2, <2>3, <2>4 DEF Basics, TypeOK
  <2>6. NothingFromNothing'
    BY <2>1, <2>4, HubAssumption DEF Basics, NothingFromNothing, Told
  <2>7. TableIsCurrent'
    BY <2>1, <2>2, <2>3 DEF Basics, TableIsCurrent
  <2>8. NoChannelOfTheGone'
    BY <2>1, <2>3 DEF Basics, NoChannelOfTheGone, Ends
  <2> QED  BY <2>2, <2>5, <2>6, <2>7, <2>8 DEF Basics
<1> QED  BY <1>3, <1>4

\* An end of a channel that is in the table speaks of that channel.
LEMMA HandlerBasics ==
  ASSUME Basics, NEW k \in Connections, NEW c \in ChannelIds,
         \/ HandleAccepted(k, c) \/ HandleRejected(k, c)
         \/ HandleClose(k, c) \/ HandleData(k, c)
  PROVE  Basics'
<1>1. c \in DOMAIN channels /\ unsent[k] = {} /\ channels[c] \in Channel
  BY DEF HandleAccepted, HandleRejected, HandleClose, HandleData, Idle, Basics, TypeOK
<1>2. channels[c].source \in Connections /\ PeerOf(c, k) \in Connections
  BY <1>1 DEF Channel, PeerOf
<1>3. \A j \in Connections : \A kind \in Kinds \ {"incoming"} : {To(j, c, kind)} \in SUBSET Envelope
  BY DEF To, Envelope
<1>4. finished \in [Connections -> SUBSET ChannelIds] /\ channels \in [DOMAIN channels -> Channel]
  BY DEF Basics, TypeOK
<1>5. channels' = Without(channels, c) =>
         /\ DOMAIN channels' \subseteq DOMAIN channels
         /\ channels' \in [DOMAIN channels' -> Channel]
         /\ \A x \in DOMAIN channels' : channels'[x] = channels[x]
  BY <1>4 DEF Without
<1>6. CASE HandleAccepted(k, c)
  <2>1. {To(channels[c].source, c, "accepted")} \in SUBSET Envelope
    BY <1>2, <1>3 DEF Kinds
  <2>2. /\ channels' = [channels EXCEPT ![c].accepted = TRUE]
        /\ Posts(k, {To(channels[c].source, c, "accepted")})
        /\ UNCHANGED <<connections, nextSequence, preferred, closed, task, opening,
                       outbox, history>>
    BY <1>6 DEF HandleAccepted
  <2>3. /\ DOMAIN channels' = DOMAIN channels
        /\ channels' \in [DOMAIN channels' -> Channel]
        /\ \A x \in DOMAIN channels' : /\ channels'[x].source = channels[x].source
                                      /\ channels'[x].target = channels[x].target
    BY <1>1, <1>4, <2>2 DEF Channel
  <2> QED  BY <1>1, <1>4, <2>1, <2>2, <2>3, EnvelopeBasics DEF history
<1>7. CASE HandleRejected(k, c)
  <2>1. {To(channels[c].source, c, "rejected")} \in SUBSET Envelope
    BY <1>2, <1>3 DEF Kinds
  <2>2. /\ channels' = Without(channels, c)
        /\ Posts(k, {To(channels[c].source, c, "rejected")})
        /\ finished' = [finished EXCEPT ![k] = @ \union {c}]
        /\ UNCHANGED <<connections, nextSequence, preferred, closed, task, opening,
                       outbox, opener, reoffered, resets>>
    BY <1>7 DEF HandleRejected
  <2>3. finished' \in [Connections -> SUBSET ChannelIds]
    BY <1>4, <2>2
  <2> QED  BY <1>1, <1>5, <2>1, <2>2, <2>3, EnvelopeBasics
<1>8. CASE HandleClose(k, c)
  <2>1. {To(PeerOf(c, k), c, "close")} \in SUBSET Envelope
    BY <1>2, <1>3 DEF Kinds
  <2>2. /\ channels' = Without(channels, c)
        /\ Posts(k, {To(PeerOf(c, k), c, "close")})
        /\ finished' = [finished EXCEPT ![k] = @ \union {c}]
        /\ UNCHANGED <<connections, nextSequence, preferred, closed, task, opening,
                       outbox, opener, reoffered, resets>>
    BY <1>8 DEF HandleClose
  <2>3. finished' \in [Connections -> SUBSET ChannelIds]
    BY <1>4, <2>2
  <2> QED  BY <1>1, <1>5, <2>1, <2>2, <2>3, EnvelopeBasics
<1>9. CASE HandleData(k, c)
  <2>1. {To(PeerOf(c, k), c, "data")} \in SUBSET Envelope
    BY <1>2, <1>3 DEF Kinds
  <2>2. /\ Posts(k, {To(PeerOf(c, k), c, "data")})
        /\ UNCHANGED <<hubVars, closed, task, opening, outbox, history>>
    BY <1>9 DEF HandleData
  <2> QED  BY <1>1, <1>4, <2>1, <2>2, EnvelopeBasics DEF hubVars, history
<1> QED  BY <1>6, <1>7, <1>8, <1>9

\* Every step of the hub and of the socket tasks keeps the tables sound.
LEMMA BasicsPreserved == HubInv /\ Next => Basics'
<1> SUFFICES ASSUME HubInv, Next PROVE Basics'
  OBVIOUS
<1>0. Basics /\ OfferStands
  BY DEF HubInv, Basics
<1>1. ASSUME NEW k \in Connections, Deny(k) \/ Refuse(k)
      PROVE  Basics'
  <2>1. k \in DOMAIN opening /\ Rejects(k) /\ unsent[k] = {} /\ connections' = connections
    BY <1>0, <1>1 DEF Deny, Refuse, Choosing, Rejects, OfferStands, CallStands
  <2>2. opening[k].owner \in Devices
    BY <1>0, <2>1 DEF Basics, TypeOK, Call
  <2>3. preferred' = preferred \/ preferred' = PreferredAfterPick(opening[k].owner)
    BY <1>1 DEF Deny, Refuse
  <2>4. preferred' = preferred => /\ preferred' \in [Devices -> Connections \union {NoConnection}]
                                  /\ PreferredServes'
    BY <1>0, <2>1 DEF Basics, TypeOK, PreferredServes, Of
  <2>5. /\ preferred' \in [Devices -> Connections \union {NoConnection}]
        /\ PreferredServes'
    BY <1>0, <2>1, <2>2, <2>3, <2>4, PickKeepsPreference
  <2> QED  BY <1>0, <2>1, <2>5, RejectsBasics
<1>2. CASE Reset
  BY <1>0, <1>2, SmallBasics
<1>3. ASSUME NEW k \in Connections,
             Register(k) \/ WriterDies(k) \/ Disconnect(k) \/ Leave(k) \/ SendOne(k)
      PROVE  Basics'
  BY <1>0, <1>3, RegisterBasics, SmallBasics, DisconnectBasics
<1>4. ASSUME NEW k \in Connections, NEW c \in ChannelIds, NEW d \in Devices, HandleOpen(k, c, d)
      PROVE  Basics'
  BY <1>0, <1>4, HandleOpenBasics
<1>5. ASSUME NEW k \in Connections, Choose(k) \/ Offer(k) \/ Withdraw(k)
      PROVE  Basics'
  BY <1>0, <1>5, ChooseBasics, OfferBasics
<1>6. ASSUME NEW k \in Connections, NEW c \in ChannelIds,
             \/ HandleAccepted(k, c) \/ HandleRejected(k, c)
             \/ HandleClose(k, c) \/ HandleData(k, c)
      PROVE  Basics'
  BY <1>0, <1>6, HandlerBasics
<1> QED  BY <1>1, <1>2, <1>3, <1>4, <1>5, <1>6 DEF Next

----------------------------------------------------------------------------
(* What connections were told, and what they are still to be told *)

\* Connections come back under new ids only, and a word once said or about to
\* be said stays so for whoever can hear it.
Steady ==
    /\ \A k \in DOMAIN connections' : task[k] # "absent" => k \in DOMAIN connections
    /\ closed \subseteq closed'
    /\ \A k \in Connections, c \in ChannelIds :
          /\ Told(k, c, "incoming") => Told(k, c, "incoming")'
          /\ Over(k, c) /\ Reachable(k)' => Over(k, c)'

\* The step offers no channel to anybody.
NoOffer == \A k \in Connections, c \in ChannelIds : Told(k, c, "incoming")' => Told(k, c, "incoming")

\* A channel the step removes is over for both ends, and gone for a task that
\* is still to offer it; one that stays keeps its ends.
EndsProperly(c) ==
    /\ c \in DOMAIN channels' => /\ channels'[c].source = channels[c].source
                                /\ channels'[c].target = channels[c].target
    /\ c \notin DOMAIN channels' =>
          /\ \A k \in Ends(c) : Reachable(k)' => Over(k, c)'
          /\ \A j \in DOMAIN opening : Asking(j, c) /\ opening[j].target = channels[c].target
                => opening[j].target \notin DOMAIN connections'

AllEndProperly == \A c \in DOMAIN channels : EndsProperly(c)

\* The step leaves the tasks that handle an OpenChannel alone.
CallsKept ==
    /\ opening' = opening /\ opener' = opener
    /\ \A j \in DOMAIN opening : task'[j] = task[j] /\ unsent'[j] = unsent[j]

\* What is over stays over if unsent envelopes are sent and not dropped.
LEMMA OverStays ==
  ASSUME TypeOK,
         \A k \in Connections : finished[k] \subseteq finished'[k],
         closed \subseteq closed',
         \A k \in Connections, c \in ChannelIds : \A kind :
            Told(k, c, kind) => Told(k, c, kind)',
         \A j \in Connections : \A m \in unsent[j] :
            m \in unsent'[j] \/ m.to \in closed \/ Told(m.to, m.channel, m.kind)',
         NEW k \in Connections, NEW c \in ChannelIds, Over(k, c), Reachable(k)'
  PROVE  Over(k, c)'
<1>1. CASE c \in finished[k]
  BY <1>1 DEF Over
<1>2. ASSUME NEW kind \in Terminal, Told(k, c, kind)
      PROVE  Over(k, c)'
  BY <1>2 DEF Over
<1>3. ASSUME NEW kind \in Terminal, NEW j \in Connections, To(k, c, kind) \in unsent[j]
      PROVE  Over(k, c)'
  <2>1. To(k, c, kind).to = k /\ To(k, c, kind).channel = c /\ To(k, c, kind).kind = kind
    BY DEF To
  <2>2. k \notin closed
    BY DEF Reachable
  <2>3. To(k, c, kind) \in unsent'[j] \/ Told(k, c, kind)'
    BY <1>3, <2>1, <2>2
  <2> QED  BY <2>3 DEF Over, To
<1> QED  BY <1>1, <1>2, <1>3 DEF Over

\* A call in hand is worked on under the same conditions as before.
LEMMA CallKept ==
  ASSUME HubInv, Steady, NEW j \in DOMAIN opening,
         opening[j].channel \in DOMAIN channels => EndsProperly(opening[j].channel),
         j \in DOMAIN opening', opening'[j] = opening[j],
         opener'[opening[j].channel] = j, task'[j] = task[j], unsent'[j] = unsent[j],
         NEW c, c = opening[j].channel, \A i \in Connections : ~Told(i, c, "incoming")'
  PROVE  CallStands(j)'
<1>0. PICK t : t = opening[j].target
  OBVIOUS
<1>1. j \in Connections /\ c \in ChannelIds /\ t \in Connections \union {NoConnection}
  BY <1>0 DEF HubInv, TypeOK, Call
<1>2. /\ task[j] = "serving" /\ unsent[j] = {} /\ opener[c] = j
      /\ t # NoConnection =>
            \/ c \in DOMAIN channels /\ channels[c].source = j /\ channels[c].target = t
            \/ t \notin DOMAIN connections /\ (Over(j, c) \/ ~Reachable(j))
  BY <1>0 DEF HubInv, OfferStands, CallStands
<1>3. SUFFICES ASSUME t # NoConnection
               PROVE  \/ /\ c \in DOMAIN channels' /\ channels'[c].source = j
                         /\ channels'[c].target = t
                      \/ t \notin DOMAIN connections' /\ (Over(j, c)' \/ ~Reachable(j)')
  BY <1>0, <1>2 DEF CallStands
<1>4. CASE c \in DOMAIN channels /\ channels[c].source = j /\ channels[c].target = t
  <2>1. Asking(j, c) /\ j \in Ends(c)
    BY <1>4 DEF Asking, Ends
  <2> QED  BY <1>0, <1>4, <2>1 DEF EndsProperly
<1>5. CASE t \notin DOMAIN connections /\ (Over(j, c) \/ ~Reachable(j))
  <2>1. t \in Connections /\ task[t] # "absent"
    BY <1>0, <1>1, <1>3 DEF HubInv, NothingFromNothing
  <2>2. t \notin DOMAIN connections'
    BY <1>5, <2>1 DEF Steady
  <2>3. Reachable(j)' => Reachable(j)
    BY <1>2 DEF Steady, Reachable
  <2> QED  BY <1>1, <1>5, <2>2, <2>3 DEF Steady
<1> QED  BY <1>2, <1>3, <1>4, <1>5

\* A connection that was offered a channel before the step is not forgotten.
LEMMA TargetKept ==
  ASSUME HubInv, Steady, NEW k \in Connections, NEW c \in ChannelIds,
         c \in DOMAIN channels => EndsProperly(c),
         Told(k, c, "incoming"), Reachable(k)', ~Over(k, c)'
  PROVE  c \in DOMAIN channels' /\ channels'[c].target = k
<1>1. Reachable(k) /\ ~Over(k, c)
  BY DEF HubInv, NothingFromNothing, Told, Steady, Reachable
<1>2. c \in DOMAIN channels /\ channels[c].target = k /\ k \in Ends(c)
  BY <1>1 DEF HubInv, TargetNotForgotten, Ends
<1> QED  BY <1>2 DEF EndsProperly

\* Nor is one whose OpenChannel was handled before the step.
LEMMA SourceKept ==
  ASSUME HubInv, Steady, NEW k \in Connections, NEW c \in ChannelIds,
         c \in DOMAIN channels => EndsProperly(c),
         opener[c] = k, ~Asking(k, c), Reachable(k)', ~Over(k, c)'
  PROVE  c \in DOMAIN channels' /\ channels'[c].source = k
<1>1. Reachable(k) /\ ~Over(k, c)
  BY DEF HubInv, NothingFromNothing, Steady, Reachable
<1>2. c \in DOMAIN channels /\ channels[c].source = k /\ k \in Ends(c)
  BY <1>1 DEF HubInv, SourceNotForgotten, Ends
<1> QED  BY <1>2 DEF EndsProperly

\* A step of this kind forgets nobody.
LEMMA NobodyForgotten ==
  ASSUME HubInv, Steady, NoOffer, AllEndProperly, CallsKept
  PROVE  OfferStands' /\ TargetNotForgotten' /\ SourceNotForgotten'
<1>1. ASSUME NEW j \in DOMAIN opening
      PROVE  CallStands(j)'
  <2>1. PICK c : c = opening[j].channel
    OBVIOUS
  <2>2. c \in ChannelIds /\ opener[c] = j /\ \A i \in Connections : ~Told(i, c, "incoming")
    BY <2>1 DEF HubInv, TypeOK, Call, OfferStands, CallStands
  <2>3. /\ \A i \in Connections : ~Told(i, c, "incoming")'
        /\ c \in DOMAIN channels => EndsProperly(c)
        /\ opening' = opening /\ opener'[c] = j
        /\ task'[j] = task[j] /\ unsent'[j] = unsent[j]
    BY <2>2 DEF NoOffer, AllEndProperly, CallsKept
  <2> QED  BY <2>1, <2>3, CallKept
<1>2. OfferStands'
  BY <1>1 DEF OfferStands, CallsKept
<1>3. TargetNotForgotten'
  BY TargetKept DEF TargetNotForgotten, NoOffer, AllEndProperly
<1>4. SourceNotForgotten'
  BY SourceKept DEF SourceNotForgotten, CallsKept, Asking, AllEndProperly
<1> QED  BY <1>2, <1>3, <1>4

----------------------------------------------------------------------------
(* The steps that leave the calls in hand alone *)

\* Registration, a write error and the departure of a task say nothing.
LEMMA SilentSteps ==
  ASSUME HubInv, NEW k \in Connections, Register(k) \/ WriterDies(k) \/ Leave(k)
  PROVE  OfferStands' /\ TargetNotForgotten' /\ SourceNotForgotten'
<1>1. /\ UNCHANGED <<channels, opening, unsent, outbox, history>>
      /\ closed \subseteq closed'
  BY DEF Register, WriterDies, Leave, hubVars
<1>2. \A j \in DOMAIN opening : task[j] = "serving" /\ j \in Connections
  BY DEF HubInv, OfferStands, CallStands, TypeOK
<1>3. \A j \in DOMAIN opening : task'[j] = task[j]
  BY <1>2 DEF Register, WriterDies, Leave, HubInv, TypeOK
<1>4. \A j \in DOMAIN connections' : task[j] # "absent" => j \in DOMAIN connections
  BY DEF Register, WriterDies, Leave, hubVars
<1>5. \A j \in Connections, c \in ChannelIds : \A kind : Told(j, c, kind) <=> Told(j, c, kind)'
  BY <1>1 DEF Told
<1>6. \A j \in Connections, c \in ChannelIds : Over(j, c) => Over(j, c)'
  BY <1>1, <1>5 DEF Over, history
<1>7. Steady /\ NoOffer /\ AllEndProperly
  BY <1>1, <1>4, <1>5, <1>6 DEF Steady, NoOffer, EndsProperly, AllEndProperly
<1>8. CallsKept
  BY <1>1, <1>3 DEF CallsKept, history
<1> QED  BY <1>7, <1>8, NobodyForgotten

\* A reset says nothing either, and leaves nobody to be told.
LEMMA ResetForgetsNobody ==
  ASSUME HubInv, Reset
  PROVE  OfferStands' /\ TargetNotForgotten' /\ SourceNotForgotten'
<1>1. /\ DOMAIN connections' = {} /\ DOMAIN channels' = {}
      /\ UNCHANGED <<closed, task, opening, unsent, outbox, opener, finished>>
  BY DEF Reset
<1>2. \A k : ~Reachable(k)'
  BY <1>1 DEF Reachable
<1>3. Steady /\ NoOffer /\ AllEndProperly
  BY <1>1, <1>2 DEF Steady, NoOffer, EndsProperly, AllEndProperly, Told
<1>4. CallsKept
  BY <1>1 DEF CallsKept
<1> QED  BY <1>3, <1>4, NobodyForgotten

\* An envelope that is sent moves from what will be said to what was said.
LEMMA SendForgetsNobody ==
  ASSUME HubInv, NEW k \in Connections, SendOne(k)
  PROVE  OfferStands' /\ TargetNotForgotten' /\ SourceNotForgotten'
<1>1. PICK m \in unsent[k] : /\ unsent' = [unsent EXCEPT ![k] = @ \ {m}]
                            /\ Arrives(m)
                            /\ UNCHANGED <<hubVars, closed, task, opening, history>>
  BY DEF SendOne
<1>2. m \in [to : Connections, channel : ChannelIds, kind : Kinds] /\ m.kind # "incoming"
  BY DEF HubInv, TypeOK, Envelope
<1>3. TypeOK
  BY DEF HubInv
<1>4. /\ m.to \notin closed => Told(m.to, m.channel, m.kind)'
      /\ \A j \in Connections, c \in ChannelIds : \A kind :
            /\ Told(j, c, kind) => Told(j, c, kind)'
            /\ Told(j, c, kind)' =>
                  Told(j, c, kind) \/ (j = m.to /\ c = m.channel /\ kind = m.kind)
  BY <1>1, <1>2, <1>3, ArrivesTells
<1>5. \A j \in Connections : \A n \in unsent[j] : n \in unsent'[j] \/ n = m
  BY <1>1, <1>3 DEF TypeOK
<1>6. \A j \in Connections, c \in ChannelIds : Over(j, c) /\ Reachable(j)' => Over(j, c)'
  <2>1. finished' = finished /\ closed' = closed
    BY <1>1 DEF history
  <2> QED  BY <1>3, <1>4, <1>5, <2>1, OverStays
<1>7. Steady /\ NoOffer /\ AllEndProperly
  <2>1. connections' = connections /\ channels' = channels /\ closed' = closed
    BY <1>1 DEF hubVars
  <2> QED  BY <1>2, <1>4, <1>6, <2>1 DEF Steady, NoOffer, EndsProperly, AllEndProperly
<1>8. CallsKept
  <2>1. k \notin DOMAIN opening
    BY DEF HubInv, OfferStands, CallStands
  <2>2. \A j \in DOMAIN opening : j \in Connections
    BY <1>3 DEF TypeOK
  <2> QED  BY <1>1, <1>3, <2>1, <2>2 DEF CallsKept, history, TypeOK
<1> QED  BY <1>7, <1>8, NobodyForgotten

\* A word about a registered connection that a task takes up to send.
LEMMA WillHear ==
  ASSUME NEW k \in Connections, NEW j \in Connections, NEW c, NEW kind \in Terminal,
         To(j, c, kind) \in unsent'[k]
  PROVE  Over(j, c)'
  BY DEF Over, To

\* disconnect_device tells the other end of every channel it removes.
LEMMA DisconnectForgetsNobody ==
  ASSUME HubInv, NEW k \in Connections, Disconnect(k)
  PROVE  OfferStands' /\ TargetNotForgotten' /\ SourceNotForgotten'
<1> DEFINE heard == {x \in Lost(k) : PeerOf(x, k) \in DOMAIN connections \ {k}}
<1>1. /\ Idle(k) /\ task' = [task EXCEPT ![k] = "leaving"] /\ RemoveEntry(k)
      /\ channels' = [c \in DOMAIN channels \ Lost(k) |-> channels[c]]
      /\ unsent' = [unsent EXCEPT ![k] = {To(PeerOf(c, k), c, "close") : c \in heard}]
      /\ UNCHANGED <<nextSequence, closed, opening, outbox, history>>
  BY DEF Disconnect
<1>2. TypeOK
  BY DEF HubInv
<1>3. k \notin DOMAIN opening /\ unsent[k] = {}
  BY <1>1 DEF Idle
<1>4. DOMAIN connections' = DOMAIN connections \ {k}
  BY <1>1 DEF RemoveEntry, Without
<1>5. \A j \in Connections, c \in ChannelIds : \A kind : Told(j, c, kind) <=> Told(j, c, kind)'
  BY <1>1 DEF Told
<1>6. /\ unsent'[k] = {To(PeerOf(c, k), c, "close") : c \in heard}
      /\ \A j \in Connections : j # k => unsent'[j] = unsent[j]
  BY <1>1, <1>2 DEF TypeOK
<1>7. \A j \in Connections, c \in ChannelIds : Over(j, c) /\ Reachable(j)' => Over(j, c)'
  <2>1. \A j \in Connections : \A m \in unsent[j] : m \in unsent'[j]
    BY <1>3, <1>6
  <2> QED  BY <1>1, <1>2, <1>5, <2>1, OverStays DEF history
<1>8. Steady /\ NoOffer
  BY <1>1, <1>4, <1>5, <1>7 DEF Steady, NoOffer
<1>9. AllEndProperly
  <2>1. ASSUME NEW c \in DOMAIN channels \ DOMAIN channels', NEW j \in Ends(c), Reachable(j)'
        PROVE  Over(j, c)'
    <3>1. c \in Lost(k) /\ channels[c] \in Channel /\ j \in Connections
      BY <1>1, <1>2, <2>1 DEF TypeOK, Ends, Channel
    <3>2. j # k /\ j \in DOMAIN connections
      BY <1>4, <2>1 DEF Reachable
    <3>3. PeerOf(c, k) = j
      BY <3>1, <3>2 DEF Lost, Ends, PeerOf
    <3>4. To(j, c, "close") \in unsent'[k]
      BY <1>6, <3>1, <3>2, <3>3
    <3> QED  BY <3>1, <3>4, WillHear DEF Terminal
  <2>2. ASSUME NEW c \in DOMAIN channels \ DOMAIN channels', NEW j \in DOMAIN opening,
               Asking(j, c), opening[j].target = channels[c].target
        PROVE  opening[j].target \notin DOMAIN connections'
    <3>1. opener[c] = j /\ channels[c].source = j
      BY <2>2 DEF HubInv, OfferStands, CallStands, TableIsCurrent, Asking
    <3>2. k \in Ends(c) /\ j # k
      BY <1>1, <1>3, <2>2 DEF Lost
    <3>3. channels[c].target = k
      BY <3>1, <3>2 DEF Ends
    <3> QED  BY <1>4, <2>2, <3>3
  <2>3. \A c \in DOMAIN channels \cap DOMAIN channels' : channels'[c] = channels[c]
    BY <1>1
  <2> QED  BY <2>1, <2>2, <2>3 DEF EndsProperly, AllEndProperly
<1>10. CallsKept
  <2>1. \A j \in DOMAIN opening : j \in Connections /\ j # k
    BY <1>2, <1>3 DEF TypeOK
  <2> QED  BY <1>1, <1>2, <1>6, <2>1 DEF CallsKept, history, TypeOK
<1> QED  BY <1>8, <1>9, <1>10, NobodyForgotten

\* Nobody but the connection that opened a channel knows it before it is offered.
LEMMA CalledIsUnknown ==
  ASSUME HubInv, NEW k \in Connections, NEW c \in ChannelIds, Idle(k), Knows(k, c),
         NEW j \in DOMAIN opening
  PROVE  ~Asking(j, c)
  BY DEF HubInv, OfferStands, CallStands, Idle, Knows, Asking

\* Taking up an answer keeps what was said, and will be heard where it can be.
LEMMA PostsSteady ==
  ASSUME HubInv, NEW k \in Connections, Idle(k), NEW S \in SUBSET Envelope, Posts(k, S),
         UNCHANGED <<connections, closed, task, opening, outbox, opener>>,
         \A j \in Connections : finished[j] \subseteq finished'[j]
  PROVE  /\ Steady /\ NoOffer /\ CallsKept
         /\ \A m \in S : m.to \in DOMAIN connections => m \in unsent'[k]
<1>1. TypeOK /\ unsent[k] = {} /\ k \notin DOMAIN opening
  BY DEF HubInv, Idle
<1>2. /\ \A j \in Connections : unsent[j] \subseteq unsent'[j]
      /\ \A m \in S : m.to \in DOMAIN connections => m \in unsent'[k]
  BY <1>1, PostsAdds
<1>3. \A j \in Connections, c \in ChannelIds : \A kind : Told(j, c, kind) <=> Told(j, c, kind)'
  BY DEF Told
<1>4. \A j \in Connections, c \in ChannelIds : Over(j, c) /\ Reachable(j)' => Over(j, c)'
  <2>1. \A j \in Connections : \A m \in unsent[j] : m \in unsent'[j]
    BY <1>2
  <2> QED  BY <1>1, <1>3, <2>1, OverStays
<1>5. Steady /\ NoOffer
  BY <1>3, <1>4 DEF Steady, NoOffer
<1>6. CallsKept
  <2>1. \A j \in DOMAIN opening : j \in Connections /\ j # k
    BY <1>1 DEF TypeOK
  <2> QED  BY <1>1, <2>1 DEF CallsKept, Posts, TypeOK
<1> QED  BY <1>2, <1>5, <1>6

\* Data and acceptances change nothing about the ends of channels.
LEMMA CarryForgetsNobody ==
  ASSUME HubInv, NEW k \in Connections, NEW c \in ChannelIds,
         HandleAccepted(k, c) \/ HandleData(k, c)
  PROVE  OfferStands' /\ TargetNotForgotten' /\ SourceNotForgotten'
<1>1. /\ Idle(k) /\ c \in DOMAIN channels
      /\ UNCHANGED <<connections, closed, task, opening, outbox, opener, finished>>
  BY DEF HandleAccepted, HandleData, hubVars, history
<1>2. channels[c] \in Channel
  BY <1>1 DEF HubInv, TypeOK
<1>3. PICK S \in SUBSET Envelope : Posts(k, S)
  <2>1. channels[c].source \in Connections /\ PeerOf(c, k) \in Connections
    BY <1>2 DEF Channel, PeerOf
  <2>2. /\ {To(channels[c].source, c, "accepted")} \in SUBSET Envelope
        /\ {To(PeerOf(c, k), c, "data")} \in SUBSET Envelope
    BY <2>1 DEF To, Envelope, Kinds
  <2> QED  BY <2>2 DEF HandleAccepted, HandleData
<1>4. Steady /\ NoOffer /\ CallsKept
  BY <1>1, <1>3, PostsSteady
<1>5. AllEndProperly
  <2>1. /\ DOMAIN channels' = DOMAIN channels
        /\ \A x \in DOMAIN channels : /\ channels'[x].source = channels[x].source
                                     /\ channels'[x].target = channels[x].target
    <3>1. CASE HandleData(k, c)
      BY <3>1 DEF HandleData, hubVars
    <3>2. CASE HandleAccepted(k, c)
      <4>1. channels \in [DOMAIN channels -> Channel]
        BY DEF HubInv, TypeOK
      <4>2. channels' = [channels EXCEPT ![c].accepted = TRUE]
        BY <3>2 DEF HandleAccepted
      <4> QED  BY <1>2, <4>1, <4>2 DEF Channel
    <3> QED  BY <3>1, <3>2
  <2> QED  BY <2>1 DEF EndsProperly, AllEndProperly
<1> QED  BY <1>4, <1>5, NobodyForgotten

\* A rejection or a close is passed on to the other end.
LEMMA EndForgetsNobody ==
  ASSUME HubInv, NEW k \in Connections, NEW c \in ChannelIds,
         HandleRejected(k, c) \/ HandleClose(k, c)
  PROVE  OfferStands' /\ TargetNotForgotten' /\ SourceNotForgotten'
<1>1. /\ Idle(k) /\ Knows(k, c) /\ c \in DOMAIN channels /\ k \in Ends(c)
      /\ channels' = Without(channels, c)
      /\ finished' = [finished EXCEPT ![k] = @ \union {c}]
      /\ UNCHANGED <<connections, closed, task, opening, outbox, opener>>
  BY DEF HandleRejected, HandleClose, Ends
<1>2. channels[c] \in Channel /\ TypeOK
  BY <1>1 DEF HubInv, TypeOK
<1>3. \A j \in Connections : finished[j] \subseteq finished'[j]
  BY <1>1, <1>2 DEF TypeOK
<1>4. c \in finished'[k]
  BY <1>1, <1>2 DEF TypeOK
<1>5. PICK kind \in Terminal : Posts(k, {To(PeerOf(c, k), c, kind)})
  <2>1. CASE HandleClose(k, c)
    BY <2>1 DEF HandleClose, Terminal
  <2>2. CASE HandleRejected(k, c)
    <3>1. channels[c].source = PeerOf(c, k)
      BY <2>2 DEF HandleRejected, PeerOf
    <3> QED  BY <2>2, <3>1 DEF HandleRejected, Terminal
  <2> QED  BY <2>1, <2>2
<1>6. PeerOf(c, k) \in Connections /\ \A j \in Ends(c) : j = k \/ j = PeerOf(c, k)
  BY <1>1, <1>2 DEF PeerOf, Ends, Channel
<1>7. {To(PeerOf(c, k), c, kind)} \in SUBSET Envelope
  BY <1>6 DEF To, Envelope, Kinds, Terminal
<1>8. /\ Steady /\ NoOffer /\ CallsKept
      /\ \A m \in {To(PeerOf(c, k), c, kind)} : m.to \in DOMAIN connections => m \in unsent'[k]
  BY <1>1, <1>3, <1>5, <1>7, PostsSteady
<1>9. AllEndProperly
  <2>1. /\ DOMAIN channels' = DOMAIN channels \ {c}
        /\ \A x \in DOMAIN channels' : channels'[x] = channels[x]
    BY <1>1 DEF Without
  <2>2. ASSUME NEW j \in Ends(c), Reachable(j)'
        PROVE  Over(j, c)'
    <3>1. CASE j = k
      BY <1>4, <3>1 DEF Over
    <3>2. CASE j = PeerOf(c, k)
      <4>1. To(j, c, kind) \in unsent'[k]
        BY <1>1, <1>8, <2>2, <3>2 DEF To, Reachable
      <4> QED  BY <1>6, <3>2, <4>1, WillHear
    <3> QED  BY <1>6, <3>1, <3>2
  <2>3. \A j \in DOMAIN opening : ~Asking(j, c)
    BY <1>1, CalledIsUnknown
  <2> QED  BY <2>1, <2>2, <2>3 DEF EndsProperly, AllEndProperly
<1> QED  BY <1>8, <1>9, NobodyForgotten

----------------------------------------------------------------------------
(* The steps of an OpenChannel *)

\* The task that starts on an OpenChannel is the first to know of the channel.
LEMMA HandleOpenForgetsNobody ==
  ASSUME HubInv, NEW k \in Connections, NEW c \in ChannelIds, NEW d \in Devices,
         HandleOpen(k, c, d)
  PROVE  OfferStands' /\ TargetNotForgotten' /\ SourceNotForgotten'
<1>1. /\ Idle(k) /\ opener[c] = NoConnection /\ opener' = [opener EXCEPT ![c] = k]
      /\ DOMAIN connections' = DOMAIN connections
      /\ DOMAIN opening' = DOMAIN opening \union {k}
      /\ opening'[k].channel = c /\ opening'[k].target = NoConnection
      /\ \A j \in DOMAIN opening : j # k => opening'[j] = opening[j]
      /\ UNCHANGED <<channels, closed, task, unsent, outbox, finished>>
  BY DEF HandleOpen
<1>2. TypeOK /\ NoConnection \notin Connections
  BY HubAssumption DEF HubInv
<1>3. \A x \in ChannelIds : opener'[x] = IF x = c THEN k ELSE opener[x]
  BY <1>1, <1>2 DEF TypeOK
<1>4. /\ k \notin DOMAIN opening /\ task[k] = "serving" /\ unsent[k] = {}
      /\ \A i \in Connections : ~Told(i, c, "incoming")
  BY <1>1 DEF Idle, HubInv, NothingFromNothing
<1>5. \A j \in Connections, x \in ChannelIds : \A kind : Told(j, x, kind) <=> Told(j, x, kind)'
  BY <1>1 DEF Told
<1>6. \A j \in Connections, x \in ChannelIds : Over(j, x) <=> Over(j, x)'
  BY <1>1, <1>5 DEF Over
<1>7. Steady /\ AllEndProperly
  BY <1>1, <1>5, <1>6 DEF Steady, EndsProperly, AllEndProperly
<1>8. ASSUME NEW j \in DOMAIN opening'
      PROVE  CallStands(j)'
  <2>1. CASE j = k
    BY <1>1, <1>3, <1>4, <1>5, <2>1 DEF CallStands
  <2>2. CASE j # k
    <3>1. j \in DOMAIN opening /\ j \in Connections
      BY <1>1, <1>2, <2>2 DEF TypeOK
    <3>2. PICK x : x = opening[j].channel
      OBVIOUS
    <3>3. /\ x \in ChannelIds /\ opener[x] = j
          /\ \A i \in Connections : ~Told(i, x, "incoming")
      BY <3>1, <3>2 DEF HubInv, TypeOK, Call, OfferStands, CallStands
    <3>4. opener'[x] = j /\ \A i \in Connections : ~Told(i, x, "incoming")'
      BY <1>1, <1>2, <1>3, <1>5, <3>1, <3>3
    <3> QED  BY <1>1, <1>7, <2>2, <3>1, <3>2, <3>3, <3>4, CallKept DEF AllEndProperly
  <2> QED  BY <2>1, <2>2
<1>9. TargetNotForgotten'
  BY <1>5, <1>7, TargetKept DEF TargetNotForgotten, AllEndProperly
<1>10. SourceNotForgotten'
  <2> SUFFICES ASSUME NEW j \in Connections, NEW x \in ChannelIds,
                      Reachable(j)', opener'[x] = j, ~Asking(j, x)', ~Over(j, x)'
               PROVE  x \in DOMAIN channels' /\ channels'[x].source = j
    BY DEF SourceNotForgotten
  <2>1. x # c
    BY <1>1, <1>3 DEF Asking
  <2>2. opener[x] = j /\ ~Asking(j, x)
    BY <1>1, <1>3, <1>4, <2>1 DEF Asking
  <2> QED  BY <1>7, <2>2, SourceKept DEF AllEndProperly
<1> QED  BY <1>8, <1>9, <1>10 DEF OfferStands

\* A call that is over leaves the other calls as they were.
LEMMA OtherCallsKept ==
  ASSUME HubInv, Steady, NEW k \in DOMAIN opening,
         \A j \in DOMAIN opening' : j # k => j \in DOMAIN opening /\ opening'[j] = opening[j],
         UNCHANGED <<opener, task>>,
         \A j \in Connections : j # k => unsent'[j] = unsent[j],
         \A c \in DOMAIN channels : c # opening[k].channel => EndsProperly(c),
         \A j \in Connections, c \in ChannelIds :
            c # opening[k].channel => (Told(j, c, "incoming")' => Told(j, c, "incoming")),
         NEW j \in DOMAIN opening', j # k
  PROVE  CallStands(j)'
<1>1. PICK c : c = opening[j].channel
  OBVIOUS
<1>2. j \in DOMAIN opening /\ j \in Connections
  BY DEF HubInv, TypeOK
<1>3. /\ c \in ChannelIds /\ opener[c] = j /\ c # opening[k].channel
      /\ \A i \in Connections : ~Told(i, c, "incoming")
  BY <1>1, <1>2 DEF HubInv, TypeOK, Call, OfferStands, CallStands
<1> QED  BY <1>1, <1>2, <1>3, CallKept

\* A source that is refused hears of it.
LEMMA RejectsForgetsNobody ==
  ASSUME HubInv, NEW k \in Connections, Deny(k) \/ Refuse(k)
  PROVE  OfferStands' /\ TargetNotForgotten' /\ SourceNotForgotten'
<1>1. /\ k \in DOMAIN opening /\ opening' = Without(opening, k)
      /\ Posts(k, {To(k, opening[k].channel, "rejected")})
      /\ UNCHANGED <<connections, channels, closed, task, outbox, history>>
  BY DEF Deny, Refuse, Choosing, Rejects
<1>2. PICK c : c = opening[k].channel
  OBVIOUS
<1>3. TypeOK /\ unsent[k] = {} /\ opener[c] = k /\ c \in ChannelIds
  BY <1>1, <1>2 DEF HubInv, OfferStands, CallStands, TypeOK, Call
<1>4. {To(k, c, "rejected")} \in SUBSET Envelope
  BY <1>3 DEF To, Envelope, Kinds
<1>5. /\ \A j \in Connections : unsent[j] \subseteq unsent'[j]
      /\ \A m \in {To(k, c, "rejected")} : m.to \in DOMAIN connections => m \in unsent'[k]
  BY <1>1, <1>2, <1>3, <1>4, PostsAdds
<1>6. \A j \in Connections, x \in ChannelIds : \A kind : Told(j, x, kind) <=> Told(j, x, kind)'
  BY <1>1 DEF Told
<1>7. \A j \in Connections, x \in ChannelIds : Over(j, x) /\ Reachable(j)' => Over(j, x)'
  <2>1. \A j \in Connections : \A m \in unsent[j] : m \in unsent'[j]
    BY <1>5
  <2> QED  BY <1>1, <1>3, <1>6, <2>1, OverStays DEF history
<1>8. Steady /\ AllEndProperly
  BY <1>1, <1>6, <1>7 DEF Steady, EndsProperly, AllEndProperly
<1>9. /\ DOMAIN opening' = DOMAIN opening \ {k}
      /\ \A j \in DOMAIN opening' : opening'[j] = opening[j]
      /\ \A j \in Connections : j # k => unsent'[j] = unsent[j]
  BY <1>1, <1>3 DEF Without, Posts, TypeOK
<1>10. OfferStands'
  BY <1>1, <1>6, <1>8, <1>9, OtherCallsKept DEF OfferStands, AllEndProperly, history
<1>11. TargetNotForgotten'
  BY <1>6, <1>8, TargetKept DEF TargetNotForgotten, AllEndProperly
<1>12. SourceNotForgotten'
  <2> SUFFICES ASSUME NEW j \in Connections, NEW x \in ChannelIds,
                      Reachable(j)', opener'[x] = j, ~Asking(j, x)', ~Over(j, x)'
               PROVE  x \in DOMAIN channels' /\ channels'[x].source = j
    BY DEF SourceNotForgotten
  <2>1. CASE Asking(j, x)
    <3>1. j = k /\ x = c
      BY <1>2, <1>9, <2>1 DEF Asking
    <3>2. To(k, c, "rejected").to = k /\ k \in DOMAIN connections
      BY <1>1, <3>1 DEF To, Reachable
    <3>3. To(k, c, "rejected") \in unsent'[k]
      BY <1>5, <3>2
    <3> QED  BY <3>1, <3>3, WillHear DEF Terminal
  <2>2. CASE ~Asking(j, x)
    BY <1>1, <1>8, <2>2, SourceKept DEF AllEndProperly, history
  <2> QED  BY <2>1, <2>2
<1> QED  BY <1>10, <1>11, <1>12

\* A channel that is set up has the two ends its task goes on with.
LEMMA ChooseForgetsNobody ==
  ASSUME HubInv, NEW k \in Connections, Choose(k)
  PROVE  OfferStands' /\ TargetNotForgotten' /\ SourceNotForgotten'
<1>1. PICK c, t : c = opening[k].channel /\ t = Picked(opening[k].owner)
  OBVIOUS
<1>2. /\ k \in DOMAIN opening /\ c \notin DOMAIN channels
      /\ channels' = [x \in DOMAIN channels \union {c} |->
            IF x = c THEN Inserted(k, t) ELSE channels[x]]
      /\ opening' = [opening EXCEPT ![k].checked = TRUE, ![k].target = t]
      /\ UNCHANGED <<connections, closed, task, unsent, outbox, history>>
  BY <1>1 DEF Choose, Choosing
<1>3. TypeOK /\ opening[k] \in Call /\ c \in ChannelIds
  BY <1>1, <1>2 DEF HubInv, TypeOK, Call
<1>4. /\ DOMAIN opening' = DOMAIN opening
      /\ opening'[k].channel = c /\ opening'[k].target = t
      /\ \A j \in DOMAIN opening : j # k => opening'[j] = opening[j]
  BY <1>1, <1>2, <1>3 DEF TypeOK, Call
<1>5. /\ c \in DOMAIN channels' /\ channels'[c].source = k /\ channels'[c].target = t
      /\ \A x \in DOMAIN channels : x \in DOMAIN channels' /\ channels'[x] = channels[x]
  BY <1>2 DEF Inserted
<1>6. \A j \in Connections, x \in ChannelIds : \A kind : Told(j, x, kind) <=> Told(j, x, kind)'
  BY <1>2 DEF Told
<1>7. \A j \in Connections, x \in ChannelIds : Over(j, x) <=> Over(j, x)'
  BY <1>2, <1>6 DEF Over, history
<1>8. Steady /\ AllEndProperly
  BY <1>2, <1>5, <1>6, <1>7 DEF Steady, EndsProperly, AllEndProperly
<1>9. CallStands(k)'
  <2>1. /\ task[k] = "serving" /\ unsent[k] = {} /\ opener[c] = k
        /\ \A i \in Connections : ~Told(i, c, "incoming")
    BY <1>1, <1>2 DEF HubInv, OfferStands, CallStands
  <2>2. \A i \in Connections : ~Told(i, c, "incoming")'
    BY <1>3, <1>6, <2>1
  <2> QED  BY <1>2, <1>4, <1>5, <2>1, <2>2 DEF CallStands, history
<1>10. OfferStands'
  BY <1>2, <1>4, <1>6, <1>8, <1>9, OtherCallsKept DEF OfferStands, AllEndProperly, history
<1>11. TargetNotForgotten'
  BY <1>6, <1>8, TargetKept DEF TargetNotForgotten, AllEndProperly
<1>12. SourceNotForgotten'
  <2>1. \A j \in Connections, x \in ChannelIds : Asking(j, x) => Asking(j, x)'
    BY <1>1, <1>4 DEF Asking
  <2> QED  BY <1>2, <1>8, <2>1, SourceKept DEF SourceNotForgotten, AllEndProperly, history
<1> QED  BY <1>10, <1>11, <1>12

\* An offer that reaches its target finds the channel in the table, if the
\* target is still registered, and so does the source.
LEMMA OfferForgetsNobody ==
  ASSUME HubInv, NEW k \in Connections, Offer(k)
  PROVE  OfferStands' /\ TargetNotForgotten' /\ SourceNotForgotten'
<1>1. PICK c, t, m : /\ c = opening[k].channel /\ t = opening[k].target
                     /\ m = To(t, c, "incoming")
  OBVIOUS
<1>2. /\ k \in DOMAIN opening /\ t # NoConnection /\ Arrives(m)
      /\ opening' = Without(opening, k)
      /\ UNCHANGED <<hubVars, closed, task, unsent, history>>
  BY <1>1 DEF Offer, Offering
<1>3. TypeOK /\ c \in ChannelIds /\ t \in Connections
  BY <1>1, <1>2 DEF HubInv, TypeOK, Call
<1>4. /\ m \in [to : Connections, channel : ChannelIds, kind : Kinds]
      /\ m.to = t /\ m.channel = c /\ m.kind = "incoming"
  BY <1>1, <1>3 DEF To, Kinds
<1>5. \A j \in Connections, x \in ChannelIds : \A kind :
         /\ Told(j, x, kind) => Told(j, x, kind)'
         /\ Told(j, x, kind)' => Told(j, x, kind) \/ (j = t /\ x = c /\ kind = "incoming")
  BY <1>2, <1>3, <1>4, ArrivesTells
<1>6. \A j \in Connections, x \in ChannelIds : Over(j, x) => Over(j, x)'
  BY <1>2, <1>5 DEF Over, history
<1>7. Steady /\ AllEndProperly
  BY <1>2, <1>5, <1>6 DEF Steady, EndsProperly, AllEndProperly, hubVars
<1>8. /\ DOMAIN opening' = DOMAIN opening \ {k}
      /\ \A j \in DOMAIN opening' : opening'[j] = opening[j]
  BY <1>2 DEF Without
<1>9. \/ c \in DOMAIN channels' /\ channels'[c].source = k /\ channels'[c].target = t
      \/ t \notin DOMAIN connections' /\ (Over(k, c)' \/ ~Reachable(k)')
  <2>1. \/ c \in DOMAIN channels /\ channels[c].source = k /\ channels[c].target = t
        \/ t \notin DOMAIN connections /\ (Over(k, c) \/ ~Reachable(k))
    BY <1>1, <1>2 DEF HubInv, OfferStands, CallStands
  <2>2. Reachable(k)' => Reachable(k)
    BY <1>2 DEF Reachable, hubVars
  <2> QED  BY <1>2, <1>3, <1>6, <2>1, <2>2 DEF hubVars
<1>10. OfferStands'
  BY <1>1, <1>2, <1>5, <1>7, <1>8, OtherCallsKept DEF OfferStands, AllEndProperly, history
<1>11. TargetNotForgotten'
  <2> SUFFICES ASSUME NEW j \in Connections, NEW x \in ChannelIds,
                      Reachable(j)', Told(j, x, "incoming")', ~Over(j, x)'
               PROVE  x \in DOMAIN channels' /\ channels'[x].target = j
    BY DEF TargetNotForgotten
  <2>1. CASE Told(j, x, "incoming")
    BY <1>7, <2>1, TargetKept DEF AllEndProperly
  <2>2. CASE j = t /\ x = c
    BY <1>9, <2>2 DEF Reachable
  <2> QED  BY <1>5, <2>1, <2>2
<1>12. SourceNotForgotten'
  <2> SUFFICES ASSUME NEW j \in Connections, NEW x \in ChannelIds,
                      Reachable(j)', opener'[x] = j, ~Asking(j, x)', ~Over(j, x)'
               PROVE  x \in DOMAIN channels' /\ channels'[x].source = j
    BY DEF SourceNotForgotten
  <2>1. CASE Asking(j, x)
    <3>1. j = k /\ x = c
      BY <1>1, <1>8, <2>1 DEF Asking
    <3> QED  BY <1>9, <3>1
  <2>2. CASE ~Asking(j, x)
    BY <1>2, <1>7, <2>2, SourceKept DEF AllEndProperly, history
  <2> QED  BY <2>1, <2>2
<1> QED  BY <1>10, <1>11, <1>12

\* A withdrawn channel was offered to nobody, and its source is still served.
LEMMA WithdrawForgetsNobody ==
  ASSUME HubInv, NEW k \in Connections, Withdraw(k)
  PROVE  OfferStands' /\ TargetNotForgotten' /\ SourceNotForgotten'
<1>1. PICK c : c = opening[k].channel
  OBVIOUS
<1>2. /\ k \in DOMAIN opening /\ RemoveEntry(opening[k].target)
      /\ channels' = Without(channels, c)
      /\ opening' = [opening EXCEPT ![k].target = NoConnection]
      /\ UNCHANGED <<closed, task, unsent, outbox, opener, finished>>
  BY <1>1 DEF Withdraw, Offering
<1>3. /\ TypeOK /\ opening[k] \in Call /\ c \in ChannelIds
      /\ task[k] = "serving" /\ unsent[k] = {} /\ opener[c] = k
      /\ \A i \in Connections : ~Told(i, c, "incoming")
  BY <1>1, <1>2 DEF HubInv, TypeOK, Call, OfferStands, CallStands
<1>4. /\ DOMAIN opening' = DOMAIN opening
      /\ opening'[k].channel = c /\ opening'[k].target = NoConnection
      /\ \A j \in DOMAIN opening : j # k => opening'[j] = opening[j]
  BY <1>1, <1>2, <1>3 DEF TypeOK, Call
<1>5. DOMAIN connections' \subseteq DOMAIN connections
  BY <1>2 DEF RemoveEntry, Without
<1>6. \A j \in Connections, x \in ChannelIds : \A kind : Told(j, x, kind) <=> Told(j, x, kind)'
  BY <1>2 DEF Told
<1>7. \A j \in Connections, x \in ChannelIds : Over(j, x) <=> Over(j, x)'
  BY <1>2, <1>6 DEF Over
<1>8. Steady
  BY <1>2, <1>5, <1>6, <1>7 DEF Steady
<1>9. \A x \in DOMAIN channels : x # c => EndsProperly(x)
  BY <1>2 DEF Without, EndsProperly
<1>10. CallStands(k)'
  BY <1>2, <1>3, <1>4, <1>6 DEF CallStands
<1>11. OfferStands'
  BY <1>1, <1>2, <1>4, <1>6, <1>8, <1>9, <1>10, OtherCallsKept DEF OfferStands
<1>12. TargetNotForgotten'
  BY <1>3, <1>6, <1>8, <1>9, TargetKept DEF TargetNotForgotten
<1>13. SourceNotForgotten'
  <2>1. \A j \in Connections, x \in ChannelIds : Asking(j, x) => Asking(j, x)'
    BY <1>1, <1>4 DEF Asking
  <2>2. \A j \in Connections : opener[c] = j => Asking(j, c)
    BY <1>1, <1>2, <1>3 DEF Asking
  <2> QED  BY <1>2, <1>8, <1>9, <2>1, <2>2, SourceKept DEF SourceNotForgotten
<1> QED  BY <1>11, <1>12, <1>13

----------------------------------------------------------------------------
(* The theorems *)

\* Every step of the hub and of the socket tasks keeps the invariant.
LEMMA InvariantPreserved == HubInv /\ [Next]_vars => HubInv'
<1> SUFFICES ASSUME HubInv, [Next]_vars PROVE HubInv'
  OBVIOUS
<1>1. CASE UNCHANGED vars
  <2>1. TypeOK' /\ NothingFromNothing'
    BY <1>1 DEF vars, hubVars, history, HubInv, TypeOK, NothingFromNothing, Told
  <2>2. TableIsCurrent' /\ PreferredServes' /\ NoChannelOfTheGone'
    BY <1>1 DEF vars, hubVars, history, HubInv, TableIsCurrent, PreferredServes, Of,
                NoChannelOfTheGone, Ends
  <2>3. \A k \in Connections, c \in ChannelIds : \A kind : Told(k, c, kind) <=> Told(k, c, kind)'
    BY <1>1 DEF vars, Told
  <2>4. \A k \in Connections, c \in ChannelIds : Over(k, c) <=> Over(k, c)'
    BY <1>1, <2>3 DEF vars, history, Over
  <2>5. Steady /\ NoOffer /\ AllEndProperly /\ CallsKept
    BY <1>1, <2>3, <2>4 DEF vars, hubVars, history, Steady, NoOffer, EndsProperly,
                            AllEndProperly, CallsKept
  <2> QED  BY <2>1, <2>2, <2>5, NobodyForgotten DEF HubInv
<1>2. CASE Next
  <2>1. Basics'
    BY <1>2, BasicsPreserved
  <2> DEFINE Kept == OfferStands' /\ TargetNotForgotten' /\ SourceNotForgotten'
  <2>2. Reset => Kept
    BY ResetForgetsNobody
  <2>3. ASSUME NEW k \in Connections, Register(k) \/ WriterDies(k) \/ Leave(k) PROVE Kept
    BY <2>3, SilentSteps
  <2>4. ASSUME NEW k \in Connections, Disconnect(k) \/ SendOne(k) PROVE Kept
    BY <2>4, DisconnectForgetsNobody, SendForgetsNobody
  <2>5. ASSUME NEW k \in Connections, NEW c \in ChannelIds, NEW d \in Devices,
               HandleOpen(k, c, d)
        PROVE  Kept
    BY <2>5, HandleOpenForgetsNobody
  <2>6. ASSUME NEW k \in Connections, Deny(k) \/ Refuse(k) PROVE Kept
    BY <2>6, RejectsForgetsNobody
  <2>7. ASSUME NEW k \in Connections, Choose(k) \/ Offer(k) \/ Withdraw(k) PROVE Kept
    BY <2>7, ChooseForgetsNobody, OfferForgetsNobody, WithdrawForgetsNobody
  <2>8. ASSUME NEW k \in Connections, NEW c \in ChannelIds,
               \/ HandleAccepted(k, c) \/ HandleRejected(k, c)
               \/ HandleClose(k, c) \/ HandleData(k, c)
        PROVE  Kept
    BY <2>8, CarryForgetsNobody, EndForgetsNobody
  <2>9. Kept
    BY <1>2, <2>2, <2>3, <2>4, <2>5, <2>6, <2>7, <2>8 DEF Next
  <2> QED  BY <2>1, <2>9 DEF HubInv, Basics
<1> QED  BY <1>1, <1>2

\* The hub's tables, the calls in hand and what each connection was told agree
\* in every reachable state.
THEOREM HubInvariant == Spec => []HubInv
<1>1. Init => HubInv
  BY InitHolds
<1>2. HubInv /\ [Next]_vars => HubInv'
  BY InvariantPreserved
<1> QED  BY <1>1, <1>2, PTL DEF Spec

\* Every variable of the hub keeps its type.
THEOREM HubTypes == Spec => []TypeOK
  BY HubInvariant, PTL DEF HubInv

\* relay.rs never prefers a connection for a device's incoming channels that is
\* gone, of another device, or has opened channels itself.
THEOREM PreferenceIsSound == Spec => []PreferredServes
<1>1. HubInv => PreferredServes
  BY DEF HubInv
<1> QED  BY <1>1, HubInvariant, PTL

\* A connection whose disconnect_device has run is in no channel of the table.
THEOREM GoneHaveNoChannel == Spec => []NoChannelOfTheGone
<1>1. HubInv => NoChannelOfTheGone
  BY DEF HubInv
<1> QED  BY <1>1, HubInvariant, PTL

\* A connection that was offered a channel has it or learns of its end.
THEOREM TargetsHearOfTheEnd == Spec => []TargetNotForgotten
<1>1. HubInv => TargetNotForgotten
  BY DEF HubInv
<1> QED  BY <1>1, HubInvariant, PTL

\* So does the connection that opened it, once its OpenChannel is handled.
THEOREM SourcesHearOfTheEnd == Spec => []SourceNotForgotten
<1>1. HubInv => SourceNotForgotten
  BY DEF HubInv
<1> QED  BY <1>1, HubInvariant, PTL

----------------------------------------------------------------------------
(* Data stays inside its channel *)

\* One more word leaves what was said before it as it was.
LEMMA WithinGrows ==
  ASSUME NEW s \in Seq(Kinds), NEW kind \in Kinds
  PROVE  /\ Append(s, kind) \in Seq(Kinds) /\ Len(Append(s, kind)) = Len(s) + 1
         /\ \A n \in 0..Len(s) : Within(s, n) => Within(Append(s, kind), n)
         /\ Within(s, Len(s)) /\ kind \notin Terminal =>
               Within(Append(s, kind), Len(Append(s, kind)))
         /\ kind \in {"incoming", "accepted"} => Within(Append(s, kind), Len(Append(s, kind)))
<1> DEFINE new == Append(s, kind)
<1>1. /\ new \in Seq(Kinds) /\ Len(new) = Len(s) + 1 /\ Len(s) \in Nat
      /\ new[Len(s) + 1] = kind
      /\ \A i \in 1..Len(s) : new[i] = s[i]
  OBVIOUS
<1> HIDE DEF new
<1>2. ASSUME NEW n \in 0..Len(s), Within(s, n) PROVE Within(new, n)
  BY <1>1, <1>2 DEF Within
<1>3. ASSUME Within(s, Len(s)), kind \notin Terminal PROVE Within(new, Len(new))
  <2>1. PICK j \in 1..Len(s) : /\ s[j] \in {"incoming", "accepted"}
                              /\ \A h \in j..Len(s) : s[h] \notin Terminal
    BY <1>3 DEF Within
  <2>2. \A h \in j..(Len(s) + 1) : new[h] \notin Terminal
    <3> TAKE h \in j..(Len(s) + 1)
    <3>1. CASE h = Len(s) + 1
      BY <1>1, <1>3, <3>1
    <3>2. CASE h # Len(s) + 1
      BY <1>1, <2>1, <3>2
    <3> QED  BY <3>1, <3>2
  <2> QED  BY <1>1, <2>1, <2>2 DEF Within
<1>4. ASSUME kind \in {"incoming", "accepted"} PROVE Within(new, Len(new))
  <2>1. \A h \in (Len(s) + 1)..(Len(s) + 1) : h = Len(s) + 1
    BY <1>1
  <2>2. kind \notin Terminal
    BY <1>4 DEF Terminal
  <2> QED  BY <1>1, <1>4, <2>1, <2>2 DEF Within
<1> QED  BY <1>1, <1>2, <1>3, <1>4 DEF new

\* The step adds nothing to what is under way about channel c.
SaysNoMore(c) ==
    \A p \in Connections : \A m \in unsent'[p] : m.channel = c => m \in unsent[p]

\* Of c a connection is told at most one word that was under way to it.
OnlyDelivers(c) ==
    \A x \in Connections :
        \/ outbox'[x][c] = outbox[x][c]
        \/ \E kind \in Kinds : /\ Coming(x, c, kind) /\ x \notin closed
                               /\ outbox'[x][c] = Append(outbox[x][c], kind)

\* An acceptance under way stays so, or is heard.
AcceptanceStands(c) ==
    \A s \in Connections : \A t \in Connections :
        To(s, c, "accepted") \in unsent[t] =>
            To(s, c, "accepted") \in unsent'[t] \/ Inside(s, c)' \/ s \in closed

SameEntry(c) ==
    c \in DOMAIN channels' => c \in DOMAIN channels /\ channels'[c] = channels[c]

SameCalls(c) ==
    \A k \in Connections : /\ Asking(k, c) <=> Asking(k, c)'
                           /\ Asking(k, c) => opening'[k] = opening[k]

\* No connection that serves gets back what it lost.
NobodyReturns ==
    /\ closed \subseteq closed'
    /\ \A k \in Connections : task[k] = "serving" /\ Reachable(k)' => Reachable(k)

\* The step has nothing to do with channel c, but for delivering a word of it.
Untouched(c) ==
    /\ SaysNoMore(c) /\ OnlyDelivers(c) /\ AcceptanceStands(c)
    /\ SameEntry(c) /\ SameCalls(c) /\ NobodyReturns
    /\ opener'[c] = opener[c] /\ (c \in reoffered => c \in reoffered')

\* Then nothing is said of the channel that was not under way or said before.
LEMMA NothingNewSpoken ==
  ASSUME TypeOK, NEW c \in ChannelIds, SaysNoMore(c), OnlyDelivers(c)
  PROVE  /\ \A k \in Connections : \A kind : Coming(k, c, kind)' => Coming(k, c, kind)
         /\ \A k \in Connections : \A kind : Spoken(k, c, kind)' => Spoken(k, c, kind)
         /\ \A k \in Connections : Ended(k, c)' => Ended(k, c)
<1>1. ASSUME NEW k \in Connections, NEW kind, Coming(k, c, kind)' PROVE Coming(k, c, kind)
  BY <1>1 DEF Coming, SaysNoMore, To
<1>2. ASSUME NEW k \in Connections, NEW kind, Told(k, c, kind)' PROVE Spoken(k, c, kind)
  <2>1. CASE outbox'[k][c] = outbox[k][c]
    BY <1>2, <2>1 DEF Told, Spoken
  <2>2. ASSUME NEW new \in Kinds, Coming(k, c, new), outbox'[k][c] = Append(outbox[k][c], new)
        PROVE  Spoken(k, c, kind)
    <3>1. outbox[k][c] \in Seq(Kinds)
      BY DEF TypeOK
    <3>2. PICK i \in DOMAIN outbox'[k][c] : outbox'[k][c][i] = kind
      BY <1>2 DEF Told
    <3>3. kind = new \/ \E h \in DOMAIN outbox[k][c] : outbox[k][c][h] = kind
      BY <2>2, <3>1, <3>2
    <3> QED  BY <2>2, <3>3 DEF Spoken, Told
  <2> QED  BY <2>1, <2>2 DEF OnlyDelivers
<1>3. \A k \in Connections : \A kind : Spoken(k, c, kind)' => Spoken(k, c, kind)
  BY <1>1, <1>2 DEF Spoken
<1>4. \A k \in Connections : Ended(k, c)' => Ended(k, c)
  BY <1>3 DEF Ended
<1> QED  BY <1>1, <1>3, <1>4

\* A connection inside a channel stays there unless a word of its end was coming.
LEMMA InsideStays ==
  ASSUME TypeOK, NEW c \in ChannelIds, OnlyDelivers(c), NEW k \in Connections, Inside(k, c),
         \A kind \in Terminal : ~Coming(k, c, kind)
  PROVE  Inside(k, c)'
<1>1. outbox[k][c] \in Seq(Kinds)
  BY DEF TypeOK
<1>2. CASE outbox'[k][c] = outbox[k][c]
  BY <1>2 DEF Inside
<1>3. ASSUME NEW kind \in Kinds, Coming(k, c, kind), outbox'[k][c] = Append(outbox[k][c], kind)
      PROVE  Inside(k, c)'
  <2>1. kind \notin Terminal
    BY <1>3
  <2> QED  BY <1>1, <1>3, <2>1, WithinGrows DEF Inside
<1> QED  BY <1>2, <1>3 DEF OnlyDelivers

\* One more word keeps data inside the channel, if data was expected.
LEMMA DataStays ==
  ASSUME TypeOK, NEW k \in Connections, NEW c \in ChannelIds, DataInside(k, c),
         Reoffered(k, c) => Reoffered(k, c)',
         \/ outbox'[k][c] = outbox[k][c]
         \/ \E kind \in Kinds :
               /\ outbox'[k][c] = Append(outbox[k][c], kind)
               /\ kind = "data" => Reoffered(k, c) \/ Inside(k, c)
  PROVE  DataInside(k, c)'
<1>1. CASE outbox'[k][c] = outbox[k][c]
  BY <1>1 DEF DataInside
<1>2. CASE Reoffered(k, c)
  BY <1>2 DEF DataInside
<1>3. ASSUME NEW kind \in Kinds, outbox'[k][c] = Append(outbox[k][c], kind), ~Reoffered(k, c),
             kind = "data" => Inside(k, c)
      PROVE  DataInside(k, c)'
  <2> DEFINE old == outbox[k][c]
             new == outbox'[k][c]
  <2>1. old \in Seq(Kinds)
    BY DEF TypeOK
  <2>2. \A n \in 0..Len(old) : Within(old, n) => Within(new, n)
    BY <1>3, <2>1, WithinGrows
  <2>3. /\ DOMAIN old = 1..Len(old) /\ DOMAIN new = 1..(Len(old) + 1) /\ Len(old) \in Nat
        /\ new[Len(old) + 1] = kind
        /\ \A i \in 1..Len(old) : new[i] = old[i]
    BY <1>3, <2>1
  <2>4. \A i \in DOMAIN old : old[i] = "data" => Within(old, i - 1)
    BY <1>3 DEF DataInside
  <2>5. kind = "data" => Within(old, Len(old))
    BY <1>3 DEF Inside
  <2> HIDE DEF old, new
  <2>6. ASSUME NEW i \in DOMAIN new, new[i] = "data" PROVE Within(new, i - 1)
    <3>1. CASE i = Len(old) + 1
      <4>1. i - 1 = Len(old) /\ Len(old) \in 0..Len(old)
        BY <2>3, <3>1
      <4> QED  BY <2>2, <2>3, <2>5, <2>6, <3>1, <4>1
    <3>2. CASE i # Len(old) + 1
      <4>1. i \in 1..Len(old) /\ i - 1 \in 0..Len(old)
        BY <2>3, <3>2
      <4> QED  BY <2>2, <2>3, <2>4, <2>6, <4>1
    <3> QED  BY <3>1, <3>2
  <2> QED  BY <2>6 DEF DataInside, new
<1> QED  BY <1>1, <1>2, <1>3

\* A step that has nothing to do with a channel keeps its invariant.
LEMMA UntouchedKeeps ==
  ASSUME HubInv, NEW c \in ChannelIds, ChannelInv(c), Untouched(c)
  PROVE  ChannelInv(c)'
<1>0. /\ TypeOK /\ SaysNoMore(c) /\ OnlyDelivers(c) /\ AcceptanceStands(c)
      /\ SameEntry(c) /\ SameCalls(c) /\ NobodyReturns
      /\ opener'[c] = opener[c] /\ (c \in reoffered => c \in reoffered')
  BY DEF HubInv, Untouched
<1>1. /\ \A k \in Connections : \A kind : Coming(k, c, kind)' => Coming(k, c, kind)
      /\ \A k \in Connections : \A kind : Spoken(k, c, kind)' => Spoken(k, c, kind)
      /\ \A k \in Connections : Ended(k, c)' => Ended(k, c)
  BY <1>0, NothingNewSpoken
<1>2. \A k \in Connections : Reoffered(k, c) => Reoffered(k, c)'
  BY <1>0 DEF Reoffered
<1>3. UnopenedIsUnspoken(c)'
  BY <1>0, <1>1 DEF ChannelInv, UnopenedIsUnspoken
<1>4. ASSUME NEW k \in Connections, Asking(k, c)' PROVE CallIsQuiet(k, c)'
  <2>1. CallIsQuiet(k, c) /\ opening'[k] = opening[k]
    BY <1>0, <1>4 DEF ChannelInv, SameCalls
  <2>2. \A x \in Connections : ~Coming(x, c, "data")' /\ (x # k => ~Ended(x, c)')
    BY <1>1, <2>1 DEF CallIsQuiet
  <2>3. c \in DOMAIN channels' => channels'[c].target = opening'[k].target
    BY <1>0, <2>1 DEF CallIsQuiet, SameEntry
  <2>4. IF opening'[k].target = NoConnection
        THEN c \in reoffered' \/ ~Ended(k, c)'
        ELSE opening'[k].checked
    BY <1>0, <1>1, <2>1 DEF CallIsQuiet
  <2> QED  BY <2>2, <2>3, <2>4 DEF CallIsQuiet
<1>5. ASSUME c \in DOMAIN channels' PROVE ChannelIsOpen(c)'
  <2>1. /\ c \in DOMAIN channels /\ channels'[c] = channels[c] /\ channels[c] \in Channel
        /\ ChannelIsOpen(c) /\ Ends(c)' = Ends(c)
    BY <1>0, <1>5 DEF SameEntry, ChannelInv, TypeOK, Ends
  <2>2. PICK s \in Connections, t \in Connections :
           s = channels[c].source /\ t = channels[c].target /\ Ends(c) = {s, t}
    BY <2>1 DEF Channel, Ends
  <2>3. \A k \in {s, t} : Reoffered(k, c) \/ ~Ended(k, c)
    BY <2>1, <2>2 DEF ChannelIsOpen
  <2>4. \A k \in {s, t} : Inside(k, c) /\ ~Reoffered(k, c) => Inside(k, c)'
    <3> SUFFICES ASSUME NEW k \in {s, t}, Inside(k, c), ~Reoffered(k, c) PROVE Inside(k, c)'
      OBVIOUS
    <3>1. \A kind \in Terminal : ~Coming(k, c, kind)
      BY <2>3 DEF Ended, Spoken
    <3> QED  BY <1>0, <2>2, <3>1, InsideStays
  <2>5. \A k \in {s, t} : Reoffered(k, c)' \/ ~Ended(k, c)'
    BY <1>1, <1>2, <2>2, <2>3
  <2>6. Asking(s, c)' \/ Reoffered(t, c)' \/ Inside(t, c)'
    <3>1. Asking(s, c) \/ Reoffered(t, c) \/ Inside(t, c)
      BY <2>1, <2>2 DEF ChannelIsOpen
    <3>2. Asking(s, c) => Asking(s, c)'
      BY <1>0, <2>2 DEF SameCalls
    <3> QED  BY <1>2, <2>2, <2>4, <3>1, <3>2
  <2>7. channels[c].accepted /\ Reachable(s)' /\ ~Reoffered(s, c)' =>
           Inside(s, c)' \/ To(s, c, "accepted") \in unsent'[t]
    <3> SUFFICES ASSUME channels[c].accepted, Reachable(s)', ~Reoffered(s, c)'
                 PROVE  Inside(s, c)' \/ To(s, c, "accepted") \in unsent'[t]
      OBVIOUS
    <3>1. Reachable(s)
      BY <1>0, <2>1, <2>2 DEF NobodyReturns, HubInv, NoChannelOfTheGone
    <3>2. ~Reoffered(s, c)
      BY <1>2, <2>2
    <3>3. Inside(s, c) \/ To(s, c, "accepted") \in unsent[t]
      BY <2>1, <2>2, <3>1, <3>2 DEF ChannelIsOpen
    <3>4. s \notin closed
      BY <3>1 DEF Reachable
    <3> QED  BY <1>0, <2>2, <2>4, <3>2, <3>3, <3>4 DEF AcceptanceStands
  <2> QED  BY <2>1, <2>2, <2>5, <2>6, <2>7 DEF ChannelIsOpen
<1>6. ASSUME NEW p \in Connections, NEW k \in Connections, To(k, c, "data") \in unsent'[p]
      PROVE  DataIsTimely(p, k, c)'
  <2>1. DataIsTimely(p, k, c)
    BY <1>0, <1>6 DEF SaysNoMore, ChannelInv, To
  <2>2. c \in DOMAIN channels' => p \in Ends(c)' /\ k = PeerOf(c, p)'
    BY <1>0, <2>1 DEF DataIsTimely, SameEntry, Ends, PeerOf
  <2>3. CASE Reoffered(k, c)
    BY <1>2, <2>2, <2>3 DEF DataIsTimely
  <2>4. ASSUME \A kind \in Terminal : ~Coming(k, c, kind), k \notin closed => Inside(k, c)
        PROVE  DataIsTimely(p, k, c)'
    <3>1. \A kind \in Terminal : ~Coming(k, c, kind)'
      BY <1>1, <2>4
    <3>2. k \notin closed' => Inside(k, c)'
      BY <1>0, <2>4, InsideStays DEF NobodyReturns
    <3> QED  BY <2>2, <3>1, <3>2 DEF DataIsTimely
  <2> QED  BY <2>1, <2>3, <2>4 DEF DataIsTimely
<1>7. ASSUME NEW k \in Connections PROVE DataInside(k, c)'
  <2>1. DataInside(k, c)
    BY DEF ChannelInv
  <2>2. k \notin closed /\ Coming(k, c, "data") => Reoffered(k, c) \/ Inside(k, c)
    <3>1. Coming(k, c, "data") => \E p \in Connections : DataIsTimely(p, k, c)
      BY DEF ChannelInv, Coming
    <3> QED  BY <3>1 DEF DataIsTimely
  <2>3. \/ outbox'[k][c] = outbox[k][c]
        \/ \E kind \in Kinds : /\ outbox'[k][c] = Append(outbox[k][c], kind)
                               /\ kind = "data" => Reoffered(k, c) \/ Inside(k, c)
    BY <1>0, <2>2 DEF OnlyDelivers
  <2> QED  BY <1>0, <1>2, <2>1, <2>3, DataStays
<1> QED  BY <1>3, <1>4, <1>5, <1>6, <1>7 DEF ChannelInv

\* A step that neither tells nor asks anybody anything, nor changes a channel.
LEMMA NothingTouched ==
  ASSUME NEW c \in ChannelIds, SameEntry(c), NobodyReturns, SaysNoMore(c), SameCalls(c),
         outbox' = outbox, \A p \in Connections : unsent[p] \subseteq unsent'[p],
         opener'[c] = opener[c], c \in reoffered => c \in reoffered'
  PROVE  Untouched(c)
  BY DEF Untouched, OnlyDelivers, AcceptanceStands

\* A reset, a registration and the ends of the tasks of a socket say nothing.
LEMMA SilentStepsUntouched ==
  ASSUME HubInv, NEW c \in ChannelIds,
         Reset \/ \E k \in Connections : Register(k) \/ WriterDies(k) \/ Leave(k)
  PROVE  Untouched(c)
<1>1. ASSUME UNCHANGED <<opening, unsent, outbox, opener, reoffered>>,
             SameEntry(c), NobodyReturns
      PROVE  Untouched(c)
  <2>1. SaysNoMore(c) /\ SameCalls(c)
    BY <1>1 DEF SaysNoMore, SameCalls, Asking
  <2> QED  BY <1>1, <2>1, NothingTouched
<1>2. CASE Reset
  BY <1>1, <1>2 DEF Reset, SameEntry, NobodyReturns, Reachable
<1>3. ASSUME NEW k \in Connections, Register(k) PROVE Untouched(c)
  <2>1. /\ task[k] = "absent" /\ UNCHANGED <<channels, closed, opening, unsent, outbox, history>>
        /\ DOMAIN connections' = DOMAIN connections \union {k}
    BY <1>3 DEF Register
  <2>2. NobodyReturns
    BY <2>1 DEF NobodyReturns, Reachable
  <2> QED  BY <1>1, <2>1, <2>2 DEF SameEntry, history
<1>4. ASSUME NEW k \in Connections, WriterDies(k) \/ Leave(k) PROVE Untouched(c)
  BY <1>1, <1>4 DEF WriterDies, Leave, hubVars, history, SameEntry, NobodyReturns, Reachable
<1> QED  BY <1>2, <1>3, <1>4

\* An envelope that is sent tells what was under way.
LEMMA SendUntouched ==
  ASSUME HubInv, NEW c \in ChannelIds, NEW k \in Connections, SendOne(k)
  PROVE  Untouched(c)
<1>1. PICK m \in unsent[k] : /\ unsent' = [unsent EXCEPT ![k] = @ \ {m}]
                             /\ Arrives(m)
                             /\ UNCHANGED <<hubVars, closed, task, opening, history>>
  BY DEF SendOne
<1>2. TypeOK /\ m \in Envelope
  BY DEF HubInv, TypeOK
<1>3. PICK x \in Connections, d \in ChannelIds, kind \in Kinds : m = To(x, d, kind)
  BY <1>2 DEF Envelope, To
<1>4. /\ SameEntry(c) /\ SameCalls(c) /\ NobodyReturns
      /\ opener'[c] = opener[c] /\ (c \in reoffered => c \in reoffered')
  BY <1>1 DEF hubVars, history, SameEntry, SameCalls, Asking, NobodyReturns, Reachable
<1>5. SaysNoMore(c)
  BY <1>1, <1>2 DEF SaysNoMore, TypeOK
<1>6. \/ x \in closed /\ outbox' = outbox
      \/ x \notin closed /\ outbox' = [outbox EXCEPT ![x][d] = Append(@, kind)]
  BY <1>1, <1>3 DEF Arrives, To
<1>7. Coming(x, d, kind)
  BY <1>3 DEF Coming
<1>8. OnlyDelivers(c)
  <2> SUFFICES ASSUME NEW y \in Connections, outbox'[y][c] # outbox[y][c]
               PROVE  /\ y = x /\ c = d /\ x \notin closed
                      /\ outbox'[y][c] = Append(outbox[y][c], kind)
    BY <1>7 DEF OnlyDelivers
  <2> QED  BY <1>2, <1>6 DEF TypeOK
<1>9. AcceptanceStands(c)
  <2> SUFFICES ASSUME NEW s \in Connections, NEW t \in Connections,
                      To(s, c, "accepted") \in unsent[t], To(s, c, "accepted") \notin unsent'[t],
                      s \notin closed
               PROVE  Inside(s, c)'
    BY DEF AcceptanceStands
  <2>1. m = To(s, c, "accepted")
    BY <1>1, <1>2 DEF TypeOK
  <2>2. x = s /\ d = c /\ kind = "accepted"
    BY <1>3, <2>1 DEF To
  <2>3. outbox[s][c] \in Seq(Kinds) /\ outbox'[s][c] = Append(outbox[s][c], "accepted")
    BY <1>2, <1>6, <2>2 DEF TypeOK
  <2> QED  BY <2>2, <2>3, WithinGrows DEF Inside
<1> QED  BY <1>4, <1>5, <1>8, <1>9 DEF Untouched

\* OpenChannel begins a channel nobody has spoken of.
LEMMA HandleOpenKeepsData ==
  ASSUME HubInv, DataInv, NEW k \in Connections, NEW c \in ChannelIds, NEW d \in Devices,
         HandleOpen(k, c, d)
  PROVE  DataInv'
<1>1. /\ Idle(k) /\ opener[c] = NoConnection /\ opener' = [opener EXCEPT ![c] = k]
      /\ DOMAIN connections' = DOMAIN connections
      /\ DOMAIN opening' = DOMAIN opening \union {k}
      /\ \A j \in DOMAIN opening : j # k => opening'[j] = opening[j]
      /\ opening'[k] = [channel |-> c, owner |-> d, checked |-> FALSE, target |-> NoConnection]
      /\ UNCHANGED <<channels, closed, unsent, outbox, reoffered>>
  BY DEF HandleOpen
<1>2. TypeOK /\ k \notin DOMAIN opening /\ opener \in [ChannelIds -> Connections \union {NoConnection}]
  BY <1>1 DEF HubInv, TypeOK, Idle
<1>3. ASSUME NEW x \in ChannelIds, x # c PROVE ChannelInv(x)'
  <2>1. SameEntry(x) /\ NobodyReturns /\ SaysNoMore(x)
    BY <1>1 DEF SameEntry, NobodyReturns, Reachable, SaysNoMore
  <2>2. SameCalls(x)
    BY <1>1, <1>2, <1>3 DEF SameCalls, Asking
  <2>3. Untouched(x)
    BY <1>1, <1>2, <1>3, <2>1, <2>2, NothingTouched
  <2> QED  BY <2>3, UntouchedKeeps DEF DataInv
<1>4. \A j \in Connections, kind \in Kinds : ~Spoken(j, c, kind) /\ ~Spoken(j, c, kind)'
  <2>1. \A j \in Connections, kind \in Kinds : ~Spoken(j, c, kind)
    BY <1>1 DEF DataInv, ChannelInv, UnopenedIsUnspoken
  <2> QED  BY <1>1, <2>1 DEF Spoken, Told, Coming
<1>5. \A j \in Connections : ~Ended(j, c)'
  BY <1>4 DEF Ended, Terminal, Kinds
<1>6. c \notin DOMAIN channels'
  BY <1>1, <1>2, HubAssumption DEF HubInv, TableIsCurrent, TypeOK, Channel
<1>7. ASSUME NEW j \in Connections, Asking(j, c)' PROVE CallIsQuiet(j, c)'
  <2>1. j = k
    <3>1. \A i \in DOMAIN opening : opening[i].channel # c
      BY <1>1, <1>2, HubAssumption DEF HubInv, OfferStands, CallStands, TypeOK
    <3> QED  BY <1>1, <1>7, <3>1 DEF Asking
  <2>2. \A i \in Connections : ~Coming(i, c, "data")'
    BY <1>4 DEF Spoken, Kinds
  <2> QED  BY <1>1, <1>5, <1>6, <2>1, <2>2 DEF CallIsQuiet
<1>8. \A p \in Connections, j \in Connections : To(j, c, "data") \notin unsent'[p]
  BY <1>4 DEF Spoken, Coming, Kinds
<1>9. \A j \in Connections : DataInside(j, c)'
  BY <1>4 DEF Spoken, Told, DataInside, Kinds
<1>10. UnopenedIsUnspoken(c)'
  BY <1>4 DEF UnopenedIsUnspoken
<1>11. ChannelInv(c)'
  BY <1>6, <1>7, <1>8, <1>9, <1>10 DEF ChannelInv
<1> QED  BY <1>3, <1>11 DEF DataInv

\* An OpenChannel is in the hands of one task, that of the channel's opener.
LEMMA OneCaller ==
  ASSUME HubInv, NEW k \in Connections, NEW c \in ChannelIds, Asking(k, c)
  PROVE  /\ opener[c] = k /\ task[k] = "serving" /\ unsent[k] = {}
         /\ \A j \in Connections : Asking(j, c) => j = k
  BY DEF HubInv, OfferStands, CallStands, Asking

\* What a task takes up about one channel says nothing of another.
LEMMA PostsElsewhere ==
  ASSUME TypeOK, NEW k \in Connections, NEW S \in SUBSET Envelope, Posts(k, S), unsent[k] = {},
         NEW c \in ChannelIds, \A m \in S : m.channel # c
  PROVE  SaysNoMore(c) /\ \A p \in Connections : unsent[p] \subseteq unsent'[p]
<1>1. /\ \A j \in Connections : unsent[j] \subseteq unsent'[j]
      /\ \A j \in Connections : \A m \in unsent'[j] : m \in unsent[j] \/ m \in S
  BY PostsAdds
<1> QED  BY <1>1 DEF SaysNoMore

\* A refused OpenChannel leaves nothing of its channel.
LEMMA RejectsKeepsData ==
  ASSUME HubInv, DataInv, NEW k \in Connections, Deny(k) \/ Refuse(k)
  PROVE  DataInv'
<1>0. k \in DOMAIN opening /\ TypeOK
  BY DEF Deny, Refuse, Choosing, HubInv
<1>a. PICK c \in ChannelIds : c = opening[k].channel
  BY <1>0 DEF TypeOK, Call
<1>1. /\ k \in DOMAIN opening /\ (~opening[k].checked \/ opening[k].target = NoConnection)
      /\ opening' = Without(opening, k) /\ Posts(k, {To(k, c, "rejected")})
      /\ UNCHANGED <<connections, channels, closed, outbox, opener, reoffered>>
  BY <1>a DEF Deny, Refuse, Rejects, Choosing, history
<1>2. TypeOK /\ Asking(k, c) /\ opening[k] \in Call
  BY <1>0, <1>a DEF TypeOK, Asking
<1>3. /\ opener[c] = k /\ unsent[k] = {}
      /\ \A j \in Connections : Asking(j, c) => j = k
  BY <1>2, OneCaller
<1>4. /\ DOMAIN opening' = DOMAIN opening \ {k}
      /\ \A j \in DOMAIN opening' : opening'[j] = opening[j]
  BY <1>1 DEF Without
<1>5. {To(k, c, "rejected")} \in SUBSET Envelope
  BY DEF To, Envelope, Kinds
<1>6. ASSUME NEW x \in ChannelIds, x # c PROVE ChannelInv(x)'
  <2>1. SameEntry(x) /\ NobodyReturns
    BY <1>1 DEF SameEntry, NobodyReturns, Reachable
  <2>2. SaysNoMore(x) /\ \A p \in Connections : unsent[p] \subseteq unsent'[p]
    BY <1>1, <1>2, <1>3, <1>5, <1>6, PostsElsewhere DEF To
  <2>3. SameCalls(x)
    BY <1>4, <1>6, <1>a DEF SameCalls, Asking
  <2>4. Untouched(x)
    BY <1>1, <2>1, <2>2, <2>3, NothingTouched
  <2> QED  BY <2>4, UntouchedKeeps DEF DataInv
<1>7. ChannelInv(c)'
  <2>1. CallIsQuiet(k, c) /\ ChannelInv(c)
    BY <1>2 DEF DataInv, ChannelInv
  <2>2. c \notin DOMAIN channels'
    <3>1. opening[k].target = NoConnection
      BY <1>1, <2>1 DEF CallIsQuiet
    <3> QED  BY <1>1, <1>2, <2>1, <3>1, HubAssumption DEF CallIsQuiet, TypeOK, Channel
  <2>3. \A j \in Connections : ~Asking(j, c)'
    BY <1>3, <1>4 DEF Asking
  <2>4. \A p \in Connections, j \in Connections : To(j, c, "data") \notin unsent'[p]
    <3>1. \A p \in Connections : \A m \in unsent'[p] : m \in unsent[p] \/ m = To(k, c, "rejected")
      BY <1>1, <1>2, <1>3, <1>5, PostsAdds
    <3> QED  BY <2>1, <3>1 DEF CallIsQuiet, Coming, To
  <2>5. \A j \in Connections : DataInside(j, c)'
    BY <1>1, <2>1 DEF ChannelInv, DataInside, Reoffered
  <2>6. UnopenedIsUnspoken(c)'
    BY <1>1, <1>3, HubAssumption DEF UnopenedIsUnspoken
  <2> QED  BY <2>2, <2>3, <2>4, <2>5, <2>6 DEF ChannelInv
<1> QED  BY <1>6, <1>7 DEF DataInv

\* A chosen connection has not been told of the channel's end, and its source
\* only of that of an earlier choice.
LEMMA ChooseKeepsData ==
  ASSUME HubInv, DataInv, NEW k \in Connections, Choose(k)
  PROVE  DataInv'
<1>0. k \in DOMAIN opening /\ TypeOK /\ Picked(opening[k].owner) # NoConnection
  BY DEF Choose, Choosing, HubInv
<1>a. PICK c \in ChannelIds, t \in Connections :
         c = opening[k].channel /\ t = Picked(opening[k].owner)
  <2>1. Picked(opening[k].owner) \in Of(connections, opening[k].owner)
    BY <1>0, PickedIsRegistered, TableNumbered DEF HubInv
  <2> QED  BY <1>0, <2>1 DEF TypeOK, Call, Of
<1>1. /\ k \in DOMAIN opening /\ opening[k].target = NoConnection
      /\ c \notin DOMAIN channels
      /\ channels' = [x \in DOMAIN channels \union {c} |->
               IF x = c THEN [source |-> k, target |-> t, accepted |-> FALSE] ELSE channels[x]]
      /\ opening' = [opening EXCEPT ![k].checked = TRUE, ![k].target = t]
      /\ UNCHANGED <<connections, closed, unsent, outbox, opener, reoffered>>
  BY <1>a DEF Choose, Choosing, Inserted, history
<1>2. TypeOK /\ Asking(k, c) /\ opening[k] \in Call
  BY <1>0, <1>a DEF TypeOK, Asking
<1>3. /\ opener[c] = k
      /\ \A j \in Connections : Asking(j, c) => j = k
  BY <1>2, OneCaller
<1>4. /\ DOMAIN opening' = DOMAIN opening
      /\ \A j \in DOMAIN opening : opening'[j].channel = opening[j].channel
      /\ \A j \in DOMAIN opening : j # k => opening'[j] = opening[j]
      /\ opening'[k].checked /\ opening'[k].target = t
  BY <1>1, <1>2 DEF TypeOK, Call
<1>5. ASSUME NEW x \in ChannelIds, x # c PROVE ChannelInv(x)'
  <2>1. SameEntry(x) /\ NobodyReturns /\ SaysNoMore(x)
    BY <1>1, <1>5 DEF SameEntry, NobodyReturns, Reachable, SaysNoMore
  <2>2. SameCalls(x)
    BY <1>4, <1>5, <1>a DEF SameCalls, Asking
  <2>3. Untouched(x)
    BY <1>1, <2>1, <2>2, NothingTouched
  <2> QED  BY <2>3, UntouchedKeeps DEF DataInv
<1>6. ChannelInv(c)'
  <2>1. CallIsQuiet(k, c) /\ ChannelInv(c)
    BY <1>2 DEF DataInv, ChannelInv
  <2>2. /\ \A x \in Connections : ~Coming(x, c, "data")' /\ (x # k => ~Ended(x, c)')
        /\ c \in reoffered' \/ ~Ended(k, c)'
    BY <1>1, <2>1 DEF CallIsQuiet, Coming, Ended, Spoken, Told
  <2>3. channels'[c] = [source |-> k, target |-> t, accepted |-> FALSE]
    BY <1>1
  <2>4. Asking(k, c)' /\ \A j \in Connections : Asking(j, c)' => j = k
    BY <1>2, <1>3, <1>4 DEF Asking
  <2>5. CallIsQuiet(k, c)'
    BY <1>2, <1>4, <2>2, <2>3, HubAssumption DEF CallIsQuiet
  <2>6. ChannelIsOpen(c)'
    <3>1. Ends(c)' = {k, t}
      BY <2>3 DEF Ends
    <3>2. \A x \in {k, t} : Reoffered(x, c)' \/ ~Ended(x, c)'
      BY <1>1, <1>2, <1>3, <2>2 DEF Reoffered
    <3> QED  BY <2>3, <2>4, <3>1, <3>2 DEF ChannelIsOpen
  <2>7. \A p \in Connections, j \in Connections : To(j, c, "data") \notin unsent'[p]
    BY <2>2 DEF Coming
  <2>8. \A j \in Connections : DataInside(j, c)'
    BY <1>1, <2>1 DEF ChannelInv, DataInside, Reoffered
  <2>9. UnopenedIsUnspoken(c)'
    BY <1>1, <1>3, HubAssumption DEF UnopenedIsUnspoken
  <2> QED  BY <2>4, <2>5, <2>6, <2>7, <2>8, <2>9 DEF ChannelInv
<1> QED  BY <1>5, <1>6 DEF DataInv

\* A connection that is offered the channel is inside it from then on.
LEMMA OfferKeepsData ==
  ASSUME HubInv, DataInv, NEW k \in Connections, Offer(k)
  PROVE  DataInv'
<1>0. k \in DOMAIN opening /\ TypeOK /\ opening[k].target # NoConnection
  BY DEF Offer, Offering, HubInv
<1>a. PICK c \in ChannelIds, t \in Connections :
         c = opening[k].channel /\ t = opening[k].target
  BY <1>0 DEF TypeOK, Call
<1>1. /\ t \notin closed /\ outbox' = [outbox EXCEPT ![t][c] = Append(@, "incoming")]
      /\ Arrives(To(t, c, "incoming"))
      /\ opening' = Without(opening, k)
      /\ UNCHANGED <<connections, channels, closed, unsent, opener, reoffered>>
  BY <1>a DEF Offer, Arrives, To, hubVars, history
<1>2. Asking(k, c)
  BY <1>0, <1>a DEF Asking
<1>3. /\ opener[c] = k
      /\ \A j \in Connections : Asking(j, c) => j = k
  BY <1>2, OneCaller
<1>4. /\ DOMAIN opening' = DOMAIN opening \ {k}
      /\ \A j \in DOMAIN opening' : opening'[j] = opening[j]
  BY <1>1 DEF Without
<1>5. /\ \A j \in Connections, x \in ChannelIds : j # t \/ x # c => outbox'[j][x] = outbox[j][x]
      /\ outbox[t][c] \in Seq(Kinds) /\ outbox'[t][c] = Append(outbox[t][c], "incoming")
  BY <1>0, <1>1 DEF TypeOK
<1>6. ASSUME NEW x \in ChannelIds, x # c PROVE ChannelInv(x)'
  <2>1. SameEntry(x) /\ NobodyReturns /\ SaysNoMore(x)
    BY <1>1 DEF SameEntry, NobodyReturns, Reachable, SaysNoMore
  <2>2. SameCalls(x)
    BY <1>4, <1>6, <1>a DEF SameCalls, Asking
  <2>3. OnlyDelivers(x) /\ AcceptanceStands(x)
    BY <1>1, <1>5, <1>6 DEF OnlyDelivers, AcceptanceStands
  <2>4. Untouched(x)
    BY <1>1, <2>1, <2>2, <2>3 DEF Untouched
  <2> QED  BY <2>4, UntouchedKeeps DEF DataInv
<1>7. ChannelInv(c)'
  <2>1. CallIsQuiet(k, c) /\ ChannelInv(c)
    BY <1>2 DEF DataInv, ChannelInv
  <2>2. \A j \in Connections : Ended(j, c)' => Ended(j, c)
    <3>1. To(t, c, "incoming") \in [to : Connections, channel : ChannelIds, kind : Kinds]
      BY DEF To, Kinds
    <3>2. \A j \in Connections, kind \in Terminal : Told(j, c, kind)' => Told(j, c, kind)
      BY <1>0, <1>1, <3>1, ArrivesTells DEF To, Terminal
    <3> QED  BY <1>1, <3>2 DEF Ended, Spoken, Coming
  <2>3. Inside(t, c)'
    BY <1>5, WithinGrows DEF Inside, Kinds
  <2>4. ASSUME c \in DOMAIN channels' PROVE ChannelIsOpen(c)'
    <3>1. /\ channels'[c] = channels[c] /\ channels[c] \in Channel /\ channels[c].target = t
          /\ ChannelIsOpen(c)
      BY <1>0, <1>1, <1>a, <2>1, <2>4 DEF CallIsQuiet, ChannelInv, TypeOK
    <3>2. PICK s \in Connections : s = channels[c].source /\ Ends(c) = {s, t} /\ Ends(c)' = {s, t}
      BY <3>1 DEF Channel, Ends
    <3>3. \A j \in {s, t} : Reoffered(j, c)' \/ ~Ended(j, c)'
      BY <1>1, <2>2, <3>1, <3>2 DEF ChannelIsOpen, Reoffered
    <3>4. channels[c].accepted /\ Reachable(s)' /\ ~Reoffered(s, c)' =>
             Inside(s, c)' \/ To(s, c, "accepted") \in unsent'[t]
      <4>1. Inside(s, c) => Inside(s, c)'
        BY <1>5, <2>3 DEF Inside
      <4> QED  BY <1>1, <3>1, <3>2, <4>1 DEF ChannelIsOpen, Reoffered, Reachable
    <3> QED  BY <2>3, <3>1, <3>2, <3>3, <3>4 DEF ChannelIsOpen
  <2>5. \A j \in Connections : ~Asking(j, c)'
    BY <1>3, <1>4 DEF Asking
  <2>6. \A p \in Connections, j \in Connections : To(j, c, "data") \notin unsent'[p]
    BY <1>1, <2>1 DEF CallIsQuiet, Coming
  <2>7. ASSUME NEW j \in Connections PROVE DataInside(j, c)'
    <3>1. DataInside(j, c) /\ (Reoffered(j, c) => Reoffered(j, c)')
      BY <1>1, <2>1 DEF ChannelInv, Reoffered
    <3> QED  BY <1>0, <1>5, <3>1, DataStays DEF Kinds
  <2>8. UnopenedIsUnspoken(c)'
    BY <1>1, <1>3, HubAssumption DEF UnopenedIsUnspoken
  <2> QED  BY <2>4, <2>5, <2>6, <2>7, <2>8 DEF ChannelInv
<1> QED  BY <1>6, <1>7 DEF DataInv

\* A withdrawn offer puts the channel among those that are offered again.
LEMMA WithdrawKeepsData ==
  ASSUME HubInv, DataInv, NEW k \in Connections, Withdraw(k)
  PROVE  DataInv'
<1>0. k \in DOMAIN opening /\ TypeOK
  BY DEF Withdraw, Offering, HubInv
<1>a. PICK c \in ChannelIds : c = opening[k].channel
  BY <1>0 DEF TypeOK, Call
<1>1. /\ RemoveEntry(opening[k].target) /\ channels' = Without(channels, c)
      /\ opening' = [opening EXCEPT ![k].target = NoConnection]
      /\ reoffered' = reoffered \union {c}
      /\ UNCHANGED <<closed, unsent, outbox, opener>>
  BY <1>a DEF Withdraw
<1>2. Asking(k, c)
  BY <1>0, <1>a DEF Asking
<1>3. /\ opener[c] = k
      /\ \A j \in Connections : Asking(j, c) => j = k
  BY <1>2, OneCaller
<1>4. /\ DOMAIN opening' = DOMAIN opening
      /\ \A j \in DOMAIN opening : opening'[j].channel = opening[j].channel
      /\ \A j \in DOMAIN opening : j # k => opening'[j] = opening[j]
      /\ opening'[k].target = NoConnection
  BY <1>0, <1>1 DEF TypeOK, Call
<1>5. /\ DOMAIN channels' = DOMAIN channels \ {c}
      /\ \A x \in DOMAIN channels' : channels'[x] = channels[x]
      /\ DOMAIN connections' \subseteq DOMAIN connections
  BY <1>1 DEF Without, RemoveEntry
<1>6. ASSUME NEW x \in ChannelIds, x # c PROVE ChannelInv(x)'
  <2>1. SameEntry(x) /\ NobodyReturns /\ SaysNoMore(x)
    BY <1>1, <1>5 DEF SameEntry, NobodyReturns, Reachable, SaysNoMore
  <2>2. SameCalls(x)
    BY <1>4, <1>6, <1>a DEF SameCalls, Asking
  <2>3. Untouched(x)
    BY <1>1, <2>1, <2>2, NothingTouched
  <2> QED  BY <2>3, UntouchedKeeps DEF DataInv
<1>7. ChannelInv(c)'
  <2>1. CallIsQuiet(k, c) /\ ChannelInv(c)
    BY <1>2 DEF DataInv, ChannelInv
  <2>2. \A x \in Connections : ~Coming(x, c, "data")' /\ (x # k => ~Ended(x, c)')
    BY <1>1, <2>1 DEF CallIsQuiet, Coming, Ended, Spoken, Told
  <2>3. \A j \in Connections : Asking(j, c)' => j = k
    BY <1>3, <1>4 DEF Asking
  <2>4. CallIsQuiet(k, c)'
    BY <1>1, <1>4, <1>5, <2>2 DEF CallIsQuiet
  <2>5. \A p \in Connections, j \in Connections : To(j, c, "data") \notin unsent'[p]
    BY <2>2 DEF Coming
  <2>6. \A j \in Connections : DataInside(j, c)'
    BY <1>1, <2>1 DEF ChannelInv, DataInside, Reoffered
  <2>7. UnopenedIsUnspoken(c)'
    BY <1>1, <1>3, HubAssumption DEF UnopenedIsUnspoken
  <2> QED  BY <1>5, <2>3, <2>4, <2>5, <2>6, <2>7 DEF ChannelInv
<1> QED  BY <1>6, <1>7 DEF DataInv

\* When one end closes a channel only the other end is told, and the data that is
\* under way goes to the end that closes.
LEMMA EndKeepsData ==
  ASSUME HubInv, NEW c \in ChannelIds, ChannelInv(c), NEW k \in Connections, Idle(k),
         c \in DOMAIN channels, k \in Ends(c), c \notin DOMAIN channels',
         \A p \in Connections : \A m \in unsent'[p] : m.channel = c =>
            m \in unsent[p] \/ (m.to = PeerOf(c, k) /\ m.kind \in Terminal),
         UNCHANGED <<closed, opening, outbox, opener, reoffered>>
  PROVE  ChannelInv(c)'
<1>1. TypeOK /\ unsent[k] = {} /\ ~Asking(k, c)
  BY DEF HubInv, Idle, Asking
<1>2. PICK s \in Connections, t \in Connections :
         /\ s = channels[c].source /\ t = channels[c].target /\ Ends(c) = {s, t}
         /\ opener[c] = s
  BY <1>1 DEF HubInv, TypeOK, Channel, TableIsCurrent, Ends
<1>3. PICK x \in {s, t} : x = PeerOf(c, k)
  BY <1>2 DEF PeerOf
<1>4. \A j \in Connections : \A kind : Coming(j, c, kind)' =>
         Coming(j, c, kind) \/ (j = x /\ kind \in Terminal)
  BY <1>3 DEF Coming, To
<1>5. \A j \in Connections : Ended(j, c)' => Ended(j, c) \/ j = x
  BY <1>4 DEF Ended, Spoken, Told
<1>6. ASSUME NEW j \in Connections, Asking(j, c)' PROVE CallIsQuiet(j, c)'
  <2>1. Asking(j, c) /\ CallIsQuiet(j, c)
    BY <1>6 DEF Asking, ChannelInv
  <2>2. j = s /\ j # k
    BY <1>1, <1>2, <2>1, OneCaller
  <2>3. x = j
    BY <1>2, <1>3, <2>2 DEF PeerOf
  <2>4. \A i \in Connections : ~Coming(i, c, "data")' /\ (i # j => ~Ended(i, c)')
    BY <1>4, <1>5, <2>1, <2>3 DEF CallIsQuiet, Terminal
  <2>5. opening'[j].target # NoConnection /\ opening'[j].checked
    BY <1>2, <2>1, HubAssumption DEF CallIsQuiet
  <2> QED  BY <2>4, <2>5 DEF CallIsQuiet
<1>7. ASSUME NEW p \in Connections, NEW j \in Connections, To(j, c, "data") \in unsent'[p]
      PROVE  DataIsTimely(p, j, c)'
  <2>1. To(j, c, "data") \in unsent[p]
    BY <1>7 DEF To, Terminal
  <2>2. DataIsTimely(p, j, c) /\ p # k
    BY <1>1, <2>1 DEF ChannelInv
  <2>3. j = k /\ x = p
    BY <1>2, <1>3, <2>2 DEF DataIsTimely, PeerOf
  <2>4. \A kind \in Terminal : Coming(j, c, kind)' => Coming(j, c, kind)
    BY <1>4, <2>2, <2>3
  <2>5. Reoffered(j, c)' \/ ((\A kind \in Terminal : ~Coming(j, c, kind)')
                              /\ (j \notin closed' => Inside(j, c)'))
    BY <2>2, <2>4 DEF DataIsTimely, Reoffered, Inside
  <2> QED  BY <2>5 DEF DataIsTimely
<1>8. \A j \in Connections : DataInside(j, c)'
  BY DEF ChannelInv, DataInside, Reoffered
<1>9. UnopenedIsUnspoken(c)'
  BY <1>2, HubAssumption DEF UnopenedIsUnspoken
<1> QED  BY <1>6, <1>7, <1>8, <1>9 DEF ChannelInv

\* So when a client rejects or closes a channel.
LEMMA ClientEndsKeepData ==
  ASSUME HubInv, DataInv, NEW k \in Connections, NEW c \in ChannelIds,
         HandleRejected(k, c) \/ HandleClose(k, c)
  PROVE  DataInv'
<1>1. /\ Idle(k) /\ c \in DOMAIN channels /\ k \in Ends(c)
      /\ channels' = Without(channels, c)
      /\ \E kind \in Terminal : Posts(k, {To(PeerOf(c, k), c, kind)})
      /\ UNCHANGED <<connections, closed, opening, outbox, opener, reoffered>>
  BY DEF HandleRejected, HandleClose, Ends, PeerOf, Terminal
<1>2. TypeOK /\ unsent[k] = {}
  BY <1>1 DEF HubInv, Idle
<1>3. PICK x \in Connections, kind \in Terminal :
         x = PeerOf(c, k) /\ Posts(k, {To(x, c, kind)})
  BY <1>1, <1>2 DEF TypeOK, Channel, PeerOf
<1>4. {To(x, c, kind)} \in SUBSET Envelope
  BY DEF To, Envelope, Kinds, Terminal
<1>5. DOMAIN channels' = DOMAIN channels \ {c} /\ \A y \in DOMAIN channels' : channels'[y] = channels[y]
  BY <1>1 DEF Without
<1>6. ASSUME NEW y \in ChannelIds, y # c PROVE ChannelInv(y)'
  <2>1. SameEntry(y) /\ NobodyReturns /\ SameCalls(y)
    BY <1>1, <1>5 DEF SameEntry, NobodyReturns, Reachable, SameCalls, Asking
  <2>2. SaysNoMore(y) /\ \A p \in Connections : unsent[p] \subseteq unsent'[p]
    BY <1>2, <1>3, <1>4, <1>6, PostsElsewhere DEF To
  <2>3. Untouched(y)
    BY <1>1, <2>1, <2>2, NothingTouched
  <2> QED  BY <2>3, UntouchedKeeps DEF DataInv
<1>7. ChannelInv(c)'
  <2>1. \A p \in Connections : \A m \in unsent'[p] : m \in unsent[p] \/ m = To(x, c, kind)
    BY <1>2, <1>3, <1>4, PostsAdds
  <2>2. \A p \in Connections : \A m \in unsent'[p] : m.channel = c =>
           m \in unsent[p] \/ (m.to = PeerOf(c, k) /\ m.kind \in Terminal)
    BY <1>3, <2>1 DEF To
  <2> QED  BY <1>1, <1>5, <2>2, EndKeepsData DEF DataInv
<1> QED  BY <1>6, <1>7 DEF DataInv

\* And when a websocket ends, for every channel that ends with it.
LEMMA DisconnectKeepsData ==
  ASSUME HubInv, DataInv, NEW k \in Connections, Disconnect(k)
  PROVE  DataInv'
<1>1. /\ Idle(k) /\ RemoveEntry(k)
      /\ channels' = [c \in DOMAIN channels \ Lost(k) |-> channels[c]]
      /\ unsent' = [unsent EXCEPT ![k] = {To(PeerOf(c, k), c, "close") :
            c \in {x \in Lost(k) : PeerOf(x, k) \in DOMAIN connections \ {k}}}]
      /\ UNCHANGED <<closed, opening, outbox, opener, reoffered>>
  BY DEF Disconnect, history
<1>2. TypeOK /\ unsent[k] = {}
  BY <1>1 DEF HubInv, Idle
<1>3. /\ \A p \in Connections : unsent[p] \subseteq unsent'[p]
      /\ \A p \in Connections : \A m \in unsent'[p] :
            m \in unsent[p] \/ \E c \in Lost(k) : m = To(PeerOf(c, k), c, "close")
  BY <1>1, <1>2 DEF TypeOK
<1>4. DOMAIN connections' \subseteq DOMAIN connections
  BY <1>1 DEF RemoveEntry, Without
<1>5. ASSUME NEW c \in ChannelIds, c \notin Lost(k) PROVE ChannelInv(c)'
  <2>1. SameEntry(c) /\ NobodyReturns /\ SameCalls(c)
    BY <1>1, <1>4 DEF SameEntry, NobodyReturns, Reachable, SameCalls, Asking
  <2>2. SaysNoMore(c)
    BY <1>3, <1>5 DEF SaysNoMore, To
  <2>3. Untouched(c)
    BY <1>1, <1>3, <2>1, <2>2, NothingTouched
  <2> QED  BY <2>3, UntouchedKeeps DEF DataInv
<1>6. ASSUME NEW c \in ChannelIds, c \in Lost(k) PROVE ChannelInv(c)'
  <2>1. c \in DOMAIN channels /\ k \in Ends(c) /\ c \notin DOMAIN channels'
    BY <1>1, <1>6 DEF Lost
  <2>2. \A p \in Connections : \A m \in unsent'[p] : m.channel = c =>
           m \in unsent[p] \/ (m.to = PeerOf(c, k) /\ m.kind \in Terminal)
    BY <1>3 DEF To, Terminal
  <2> QED  BY <1>1, <2>1, <2>2, EndKeepsData DEF DataInv
<1> QED  BY <1>5, <1>6 DEF DataInv

\* The source of a channel hears of its acceptance before any data.
LEMMA AcceptedKeepsData ==
  ASSUME HubInv, DataInv, NEW k \in Connections, NEW c \in ChannelIds, HandleAccepted(k, c)
  PROVE  DataInv'
<1>1. /\ Idle(k) /\ Knows(k, c) /\ c \in DOMAIN channels /\ channels[c].target = k
      /\ channels' = [channels EXCEPT ![c].accepted = TRUE]
      /\ Posts(k, {To(channels[c].source, c, "accepted")})
      /\ UNCHANGED <<connections, closed, opening, outbox, opener, reoffered>>
  BY DEF HandleAccepted, history
<1>2. TypeOK /\ unsent[k] = {} /\ channels[c] \in Channel
  BY <1>1 DEF HubInv, Idle, TypeOK
<1>3. PICK s \in Connections : s = channels[c].source
  BY <1>2 DEF Channel
<1>4. {To(s, c, "accepted")} \in SUBSET Envelope
  BY DEF To, Envelope, Kinds
<1>5. /\ DOMAIN channels' = DOMAIN channels
      /\ \A x \in DOMAIN channels : x # c => channels'[x] = channels[x]
      /\ channels'[c].source = s /\ channels'[c].target = k
  BY <1>1, <1>2, <1>3 DEF TypeOK, Channel
<1>6. ASSUME NEW x \in ChannelIds, x # c PROVE ChannelInv(x)'
  <2>1. SameEntry(x) /\ NobodyReturns /\ SameCalls(x)
    BY <1>1, <1>5, <1>6 DEF SameEntry, NobodyReturns, Reachable, SameCalls, Asking
  <2>2. SaysNoMore(x) /\ \A p \in Connections : unsent[p] \subseteq unsent'[p]
    BY <1>1, <1>2, <1>3, <1>4, <1>6, PostsElsewhere DEF To
  <2>3. Untouched(x)
    BY <1>1, <2>1, <2>2, NothingTouched
  <2> QED  BY <2>3, UntouchedKeeps DEF DataInv
<1>7. ChannelInv(c)'
  <2>1. /\ \A p \in Connections : \A m \in unsent'[p] : m \in unsent[p] \/ m = To(s, c, "accepted")
        /\ s \in DOMAIN connections => To(s, c, "accepted") \in unsent'[k]
    <3>1. Posts(k, {To(s, c, "accepted")}) /\ To(s, c, "accepted").to = s
      BY <1>1, <1>3 DEF To
    <3> QED  BY <1>2, <1>4, <3>1, PostsAdds
  <2>2. \A j \in Connections : \A kind \in Terminal \union {"data"} :
           Coming(j, c, kind)' => Coming(j, c, kind)
    BY <2>1 DEF Coming, To, Terminal
  <2>3. \A j \in Connections : Ended(j, c)' => Ended(j, c)
    BY <1>1, <2>2 DEF Ended, Spoken, Told
  <2>4. ChannelInv(c) /\ ChannelIsOpen(c)
    BY <1>1 DEF DataInv, ChannelInv
  <2>5. ChannelIsOpen(c)'
    <3>1. Ends(c) = {s, k} /\ Ends(c)' = {s, k}
      BY <1>1, <1>3, <1>5 DEF Ends
    <3>2. \A j \in {s, k} : Reoffered(j, c)' \/ ~Ended(j, c)'
      BY <1>1, <2>3, <2>4, <3>1 DEF ChannelIsOpen, Reoffered
    <3>3. Asking(s, c)' \/ Reoffered(k, c)' \/ Inside(k, c)'
      BY <1>1, <1>3, <2>4 DEF ChannelIsOpen, Reoffered, Inside, Asking
    <3>4. Reachable(s)' => To(s, c, "accepted") \in unsent'[k]
      BY <1>1, <2>1 DEF Reachable
    <3> QED  BY <1>5, <3>1, <3>2, <3>3, <3>4 DEF ChannelIsOpen
  <2>6. \A j \in Connections : ~Asking(j, c)'
    BY <1>1, CalledIsUnknown DEF Asking
  <2>7. ASSUME NEW p \in Connections, NEW j \in Connections, To(j, c, "data") \in unsent'[p]
        PROVE  DataIsTimely(p, j, c)'
    <3>1. DataIsTimely(p, j, c)
      BY <2>1, <2>4, <2>7 DEF ChannelInv, To
    <3>2. p \in Ends(c)' /\ j = PeerOf(c, p)'
      BY <1>1, <1>3, <1>5, <3>1 DEF DataIsTimely, Ends, PeerOf
    <3> QED  BY <1>1, <2>2, <3>1, <3>2 DEF DataIsTimely, Reoffered, Inside
  <2>8. \A j \in Connections : DataInside(j, c)'
    BY <1>1, <2>4 DEF ChannelInv, DataInside, Reoffered
  <2>9. UnopenedIsUnspoken(c)'
    BY <1>1, <1>3, HubAssumption DEF UnopenedIsUnspoken, HubInv, TableIsCurrent
  <2> QED  BY <2>5, <2>6, <2>7, <2>8, <2>9 DEF ChannelInv
<1> QED  BY <1>6, <1>7 DEF DataInv

\* Data is taken up for a connection that is inside the channel.
LEMMA DataKeepsData ==
  ASSUME HubInv, DataInv, NEW k \in Connections, NEW c \in ChannelIds, HandleData(k, c)
  PROVE  DataInv'
<1>1. /\ Idle(k) /\ Knows(k, c) /\ c \in DOMAIN channels /\ channels[c].accepted
      /\ k \in Ends(c) /\ Posts(k, {To(PeerOf(c, k), c, "data")})
      /\ UNCHANGED <<connections, channels, closed, opening, outbox, opener, reoffered>>
  BY DEF HandleData, MayCarry, hubVars, history
<1>2. TypeOK /\ unsent[k] = {} /\ channels[c] \in Channel /\ ~Asking(k, c)
  BY <1>1 DEF HubInv, Idle, TypeOK, Asking
<1>3. PICK s \in Connections, t \in Connections, x \in Connections :
         /\ s = channels[c].source /\ t = channels[c].target /\ x = PeerOf(c, k)
         /\ Ends(c) = {s, t} /\ x \in {s, t}
  BY <1>2 DEF Channel, PeerOf, Ends
<1>4. {To(x, c, "data")} \in SUBSET Envelope
  BY DEF To, Envelope, Kinds
<1>5. ASSUME NEW y \in ChannelIds, y # c PROVE ChannelInv(y)'
  <2>1. SameEntry(y) /\ NobodyReturns /\ SameCalls(y)
    BY <1>1 DEF SameEntry, NobodyReturns, Reachable, SameCalls, Asking
  <2>2. SaysNoMore(y) /\ \A p \in Connections : unsent[p] \subseteq unsent'[p]
    BY <1>1, <1>2, <1>3, <1>4, <1>5, PostsElsewhere DEF To
  <2>3. Untouched(y)
    BY <1>1, <2>1, <2>2, NothingTouched
  <2> QED  BY <2>3, UntouchedKeeps DEF DataInv
<1>6. ChannelInv(c)'
  <2>1. /\ \A p \in Connections : unsent[p] \subseteq unsent'[p]
        /\ \A p \in Connections : \A m \in unsent'[p] :
              m \in unsent[p] \/ (m = To(x, c, "data") /\ x \in DOMAIN connections)
    BY <1>1, <1>2, <1>3, <1>4, PostsAdds DEF To
  <2>2. \A j \in Connections : \A kind \in Terminal : Coming(j, c, kind)' => Coming(j, c, kind)
    BY <2>1 DEF Coming, To, Terminal
  <2>3. \A j \in Connections : Ended(j, c)' => Ended(j, c)
    BY <1>1, <2>2 DEF Ended, Spoken, Told
  <2>4. ChannelInv(c) /\ ChannelIsOpen(c)
    BY <1>1 DEF DataInv, ChannelInv
  <2>5. ChannelIsOpen(c)'
    <3>1. Ends(c)' = {s, t} /\ s = channels'[c].source /\ t = channels'[c].target
      BY <1>1, <1>3 DEF Ends
    <3>2. \A j \in {s, t} : Reoffered(j, c)' \/ ~Ended(j, c)'
      BY <1>1, <1>3, <2>3, <2>4 DEF ChannelIsOpen, Reoffered
    <3>3. Asking(s, c)' \/ Reoffered(t, c)' \/ Inside(t, c)'
      BY <1>1, <1>3, <2>4 DEF ChannelIsOpen, Reoffered, Inside, Asking
    <3>4. Reachable(s)' /\ ~Reoffered(s, c)' =>
             Inside(s, c)' \/ To(s, c, "accepted") \in unsent'[t]
      BY <1>1, <1>3, <2>1, <2>4 DEF ChannelIsOpen, Reachable, Reoffered, Inside
    <3> QED  BY <3>1, <3>2, <3>3, <3>4 DEF ChannelIsOpen
  <2>6. \A j \in Connections : ~Asking(j, c)'
    BY <1>1, CalledIsUnknown DEF Asking
  <2>7. ASSUME NEW p \in Connections, NEW j \in Connections, To(j, c, "data") \in unsent'[p]
        PROVE  DataIsTimely(p, j, c)'
    <3>1. CASE To(j, c, "data") \in unsent[p]
      <4>1. DataIsTimely(p, j, c)
        BY <2>4, <3>1 DEF ChannelInv
      <4> QED  BY <1>1, <2>2, <4>1 DEF DataIsTimely, Reoffered, Inside, Ends, PeerOf
    <3>2. CASE To(j, c, "data") \notin unsent[p]
      <4>1. p = k /\ j = x /\ x \in DOMAIN connections
        BY <1>1, <1>2, <2>1, <2>7, <3>2 DEF Posts, TypeOK, To
      <4>2. Reoffered(x, c) \/ \A kind \in Terminal : ~Coming(x, c, kind)
        BY <1>3, <2>4 DEF ChannelIsOpen, Ended, Spoken
      <4>3. Reoffered(x, c) \/ (x \notin closed => Inside(x, c))
        <5>1. CASE k = s
          <6>1. x = t
            BY <1>3, <5>1 DEF PeerOf
          <6> QED  BY <1>2, <1>3, <2>4, <5>1, <6>1 DEF ChannelIsOpen
        <5>2. CASE k # s
          <6>1. k = t /\ x = s
            BY <1>1, <1>3, <5>2 DEF PeerOf
          <6> QED  BY <1>1, <1>2, <1>3, <2>4, <4>1, <6>1 DEF ChannelIsOpen, Reachable
        <5> QED  BY <5>1, <5>2
      <4>4. p \in Ends(c)' /\ j = PeerOf(c, p)'
        BY <1>1, <1>3, <4>1 DEF Ends, PeerOf
      <4>5. \A kind \in Terminal : ~Coming(j, c, kind) => ~Coming(j, c, kind)'
        BY <2>2
      <4> QED  BY <1>1, <4>1, <4>2, <4>3, <4>4, <4>5 DEF DataIsTimely, Reoffered, Inside
    <3> QED  BY <3>1, <3>2
  <2>8. \A j \in Connections : DataInside(j, c)'
    BY <1>1, <2>4 DEF ChannelInv, DataInside, Reoffered
  <2>9. UnopenedIsUnspoken(c)'
    BY <1>1, <1>3, HubAssumption DEF UnopenedIsUnspoken, HubInv, TableIsCurrent
  <2> QED  BY <2>5, <2>6, <2>7, <2>8, <2>9 DEF ChannelInv
<1> QED  BY <1>5, <1>6 DEF DataInv

\* In the empty hub nothing has been said.
LEMMA InitDataHolds == Init => DataInv
<1> SUFFICES ASSUME Init, NEW c \in ChannelIds PROVE ChannelInv(c)
  BY DEF DataInv
<1>1. /\ DOMAIN opening = {} /\ DOMAIN channels = {}
      /\ \A k \in Connections : unsent[k] = {} /\ outbox[k][c] = <<>>
  BY DEF Init
<1>2. \A k \in Connections : \A kind : ~Spoken(k, c, kind)
  BY <1>1 DEF Spoken, Told, Coming
<1> QED  BY <1>1, <1>2 DEF ChannelInv, UnopenedIsUnspoken, Asking, DataInside

\* Every step keeps what data relies on.
LEMMA DataPreserved == HubInv /\ DataInv /\ [Next]_vars => DataInv'
<1> SUFFICES ASSUME HubInv, DataInv, [Next]_vars PROVE DataInv'
  OBVIOUS
<1>1. (\A c \in ChannelIds : Untouched(c)) => DataInv'
  BY UntouchedKeeps DEF DataInv
<1>2. CASE UNCHANGED vars
  <2>1. \A c \in ChannelIds : Untouched(c)
    BY <1>2 DEF vars, hubVars, history, Untouched, SaysNoMore, OnlyDelivers, AcceptanceStands,
                SameEntry, SameCalls, Asking, NobodyReturns, Reachable
  <2> QED  BY <1>1, <2>1
<1>3. CASE Next
  <2>1. ASSUME Reset \/ \E k \in Connections : Register(k) \/ WriterDies(k) \/ Leave(k)
        PROVE  DataInv'
    BY <1>1, <2>1, SilentStepsUntouched
  <2>2. ASSUME NEW k \in Connections, SendOne(k) PROVE DataInv'
    BY <1>1, <2>2, SendUntouched
  <2>3. ASSUME NEW k \in Connections, Disconnect(k) PROVE DataInv'
    BY <2>3, DisconnectKeepsData
  <2>4. ASSUME NEW k \in Connections, NEW c \in ChannelIds, NEW d \in Devices,
               HandleOpen(k, c, d)
        PROVE  DataInv'
    BY <2>4, HandleOpenKeepsData
  <2>5. ASSUME NEW k \in Connections, Deny(k) \/ Refuse(k) \/ Choose(k) PROVE DataInv'
    BY <2>5, RejectsKeepsData, ChooseKeepsData
  <2>6. ASSUME NEW k \in Connections, Offer(k) \/ Withdraw(k) PROVE DataInv'
    BY <2>6, OfferKeepsData, WithdrawKeepsData
  <2>7. ASSUME NEW k \in Connections, NEW c \in ChannelIds,
               \/ HandleAccepted(k, c) \/ HandleRejected(k, c)
               \/ HandleClose(k, c) \/ HandleData(k, c)
        PROVE  DataInv'
    BY <2>7, AcceptedKeepsData, ClientEndsKeepData, DataKeepsData
  <2> QED  BY <1>3, <2>1, <2>2, <2>3, <2>4, <2>5, <2>6, <2>7 DEF Next
<1> QED  BY <1>2, <1>3

\* However the tasks that speak to a connection interleave, it hears the data of
\* a channel after the channel's beginning and before its end.
THEOREM DataStaysInside == Spec => []DataInsideChannel
<1>1. Init => HubInv /\ DataInv
  BY InitHolds, InitDataHolds
<1>2. HubInv /\ DataInv /\ [Next]_vars => (HubInv /\ DataInv)'
  BY InvariantPreserved, DataPreserved
<1>3. DataInv => DataInsideChannel
  BY DEF DataInv, ChannelInv, DataInsideChannel
<1> QED  BY <1>1, <1>2, <1>3, PTL DEF Spec
=============================================================================
