------------------------- MODULE ControlPlane_proofs -------------------------
(***************************************************************************)
(* Theorems about ControlPlane, for any devices, services, tokens, tasks   *)
(* and bounds: references are never broken, a join token admits one        *)
(* device, no session outlives its device's deadline, and permissions and  *)
(* candidates come from who may give them.                                 *)
(***************************************************************************)
EXTENDS ControlPlane, TLAPS

----------------------------------------------------------------------------
(* Types *)

\* A time a task may have read is a second that has come.
LEMMA LooksAreSeconds ==
  ASSUME TypeOK, NEW t \in Tasks, NEW at \in Looks(t)
  PROVE  at \in Seconds
  BY ControlAssumption DEF Looks, TypeOK, TaskState, Seconds

LEMMA RegisteredAreDevices ==
  ASSUME TypeOK
  PROVE  Registered \subseteq Devices
  BY DEF TypeOK, Registered, DeviceRow

LEMMA IdleIsState == ControlAssumption => Idle \in TaskState
  BY DEF ControlAssumption, Idle, TaskState, Seconds

\* Every step of a task that ends its request leaves it idle.
LEMMA DoneKeepsTasks ==
  ASSUME TypeOK, NEW t \in Tasks, Done(t)
  PROVE  task' \in [Tasks -> TaskState]
  BY IdleIsState, ControlAssumption DEF TypeOK, Done

\* A new session is a row of the table.
LEMMA SessionRowsKept ==
  ASSUME TypeOK, NEW d \in Devices, NEW e \in Nat, NewSession(d, e)
  PROVE  sessions' \subseteq SessionRow /\ issued' \in Nat
  BY DEF TypeOK, NewSession, SessionRow

LEMMA ConsumedRowsKept ==
  ASSUME TypeOK, NEW row \in joinTokens
  PROVE  Consumed(row) \subseteq TokenRow
  BY DEF TypeOK, Consumed, TokenRow

LEMMA AdmittedRowsKept ==
  ASSUME TypeOK, NEW row \in joinTokens, NEW d \in Devices
  PROVE  Admitted(row, d) \subseteq [token : Tokens, device : Devices, clear : Nat]
  BY DEF TypeOK, Admitted, TokenRow

LEMMA TypesPreserved == TypeOK /\ [Next]_vars => TypeOK'
<1> SUFFICES ASSUME TypeOK, [Next]_vars PROVE TypeOK'
  OBVIOUS
<1> USE ControlAssumption, RoutesAssumption
<1>1. CASE UNCHANGED vars
  BY <1>1 DEF TypeOK, vars, tables, ids, counts, history
<1>2. CASE Tick
  BY <1>2 DEF TypeOK, Tick, tables, ids, counts, history, Seconds
<1>3. CASE Restart
  BY <1>3, IdleIsState DEF TypeOK, Restart, tables, ids, history
<1>4. ASSUME NEW j \in Tokens, CreateToken(j) PROVE TypeOK'
  <2>1. now \in Nat /\ Ttls \subseteq Nat
    BY DEF TypeOK, Seconds
  <2>2. joinTokens' \subseteq TokenRow
    <3>1. PICK ttl \in Ttls :
            joinTokens' = joinTokens \cup
                {[token |-> j, expires |-> now + ttl, used |-> FALSE]}
      BY <1>4 DEF CreateToken
    <3>2. now + ttl \in Nat
      BY <2>1
    <3>3. [token |-> j, expires |-> now + ttl, used |-> FALSE] \in TokenRow
      BY <3>2 DEF TokenRow
    <3> QED  BY <3>1, <3>3 DEF TypeOK
  <2> QED  BY <1>4, <2>2 DEF CreateToken, TypeOK, ids, counts, history
<1>5. ASSUME NEW t \in Tasks, NEW route \in Routes, Arrive(t, route) PROVE TypeOK'
  <2>1. task' \in [Tasks -> TaskState]
    BY <1>5, IdleIsState DEF Arrive, TypeOK, TaskState, Idle
  <2> QED  BY <1>5, <2>1 DEF Arrive, TypeOK, tables, ids, counts, history
<1>6. ASSUME NEW t \in Tasks, Abandon(t) \/ Disconnect(t) \/ ResetHub(t) PROVE TypeOK'
  <2>1. task' \in [Tasks -> TaskState]
    BY <1>6, DoneKeepsTasks DEF Abandon, Disconnect, ResetHub, Done
  <2> QED
    BY <1>6, <2>1 DEF Abandon, Disconnect, ResetHub, TypeOK, tables, ids, counts, history
<1>7. ASSUME NEW t \in Tasks, CheckSession(t) PROVE TypeOK'
  <2>1. PICK row \in sessions, at \in Looks(t) :
          task' = [task EXCEPT ![t].stage = "known", ![t].seen = at,
                               ![t].device = row.device]
    BY <1>7 DEF CheckSession
  <2>2. at \in Seconds /\ row.device \in Devices
    BY <2>1, LooksAreSeconds DEF TypeOK, SessionRow
  <2>3. task' \in [Tasks -> TaskState]
    <3> DEFINE known == [task[t] EXCEPT !.stage = "known", !.seen = at,
                                        !.device = row.device]
    <3>1. task[t] \in TaskState
      BY DEF TypeOK
    <3>2. known \in TaskState
      BY <2>2, <3>1 DEF TaskState
    <3>3. task' = [task EXCEPT ![t] = known]
      BY <2>1, Zenon
    <3> QED
      <4> HIDE DEF known
      <4> QED  BY <3>2, <3>3 DEF TypeOK
  <2> QED  BY <1>7, <2>3 DEF CheckSession, TypeOK, tables, ids, counts, history
<1>8. ASSUME NEW t \in Tasks, StartRendezvous(t) PROVE TypeOK'
  <2>1. PICK at \in Looks(t), list \in {Nobody, task[t].device} :
          attempts' = attempts \cup
             {StartedRow(task[t].device, task[t].service, at, list)}
    BY <1>8 DEF StartRendezvous
  <2>2. at + RendezvousTtl \in Nat /\ started + 1 \in Nat
    BY <2>1, LooksAreSeconds DEF Seconds, TypeOK
  <2>3. task[t].service \in Services /\ {task[t].device, Owner[task[t].service]} \subseteq Devices
    BY <1>8, RegisteredAreDevices DEF StartRendezvous, TypeOK
  <2>4. attempts' \subseteq AttemptRow
    <3> DEFINE new == StartedRow(task[t].device, task[t].service, at, list)
    <3>1. new \in AttemptRow
      BY <2>2, <2>3 DEF StartedRow, AttemptRow
    <3> HIDE DEF new
    <3>2. attempts' = attempts \cup {new}
      BY <2>1 DEF new
    <3> QED  BY <3>1, <3>2 DEF TypeOK
  <2>5. started' \in Nat /\ task' \in [Tasks -> TaskState]
    BY <1>8, DoneKeepsTasks DEF StartRendezvous, TypeOK
  <2> QED  BY <1>8, <2>4, <2>5 DEF StartRendezvous, TypeOK, counts, history
<1>9. ASSUME NEW t \in Tasks, Connect(t) PROVE TypeOK'
  <2>1. task' \in [Tasks -> TaskState]
    BY <1>9 DEF Connect, TypeOK, TaskState
  <2> QED  BY <1>9, <2>1 DEF Connect, TypeOK, tables, ids, counts, history
<1>10. ASSUME NEW t \in Tasks, ClearDevices(t) PROVE TypeOK'
  <2>1. task' \in [Tasks -> TaskState]
    BY <1>10 DEF ClearDevices, TypeOK, TaskState
  <2> QED  BY <1>10, <2>1 DEF ClearDevices, TypeOK, ids, history
<1>11. ASSUME NEW t \in Tasks, NEW d \in Devices, Rejoin(t, d) PROVE TypeOK'
  <2>1. PICK row \in devices, at \in Looks(t) :
          NewSession(d, RenewedUntil(row, at))
    BY <1>11 DEF Rejoin
  <2>2. RenewedUntil(row, at) \in Nat
    BY <2>1, LooksAreSeconds DEF RenewedUntil, Seconds, TypeOK, DeviceRow
  <2>3. sessions' \subseteq SessionRow /\ issued' \in Nat
    BY <2>1, <2>2, SessionRowsKept
  <2>4. task' \in [Tasks -> TaskState]
    BY <1>11, DoneKeepsTasks DEF Rejoin
  <2> QED  BY <1>11, <2>3, <2>4 DEF Rejoin, TypeOK, counts, history
<1>12. ASSUME NEW t \in Tasks, NEW d \in Devices, Join(t, d) PROVE TypeOK'
  <2>1. PICK row \in joinTokens :
          /\ joinTokens' = Consumed(row)
          /\ devices' = devices \cup {JoinedRow(row, d)}
          /\ NewSession(d, row.expires)
          /\ admissions' = Admitted(row, d)
    BY <1>12 DEF Join
  <2>2. row.expires \in Nat
    BY <2>1 DEF TypeOK, TokenRow
  <2>3. sessions' \subseteq SessionRow /\ issued' \in Nat
    BY <2>1, <2>2, SessionRowsKept
  <2>4. devices' \subseteq DeviceRow
    BY <2>1, <2>2 DEF JoinedRow, TypeOK, DeviceRow
  <2>5. joinTokens' \subseteq TokenRow
    BY <2>1, ConsumedRowsKept
  <2>6. admissions' \subseteq [token : Tokens, device : Devices, clear : Nat]
    BY <2>1, AdmittedRowsKept
  <2>7. task' \in [Tasks -> TaskState]
    BY <1>12, DoneKeepsTasks DEF Join
  <2> QED  BY <1>12, <2>3, <2>4, <2>5, <2>6, <2>7 DEF Join, TypeOK, counts
<1>13. ASSUME NEW t \in Tasks, NEW d \in Devices, JoinBreaks(t, d) PROVE TypeOK'
  <2>1. PICK row \in joinTokens :
          /\ joinTokens' = Consumed(row)
          /\ \/ UNCHANGED <<devices, admissions>>
             \/ /\ devices' = devices \cup {JoinedRow(row, d)}
                /\ admissions' = Admitted(row, d)
    BY <1>13 DEF JoinBreaks
  <2>2. devices' \subseteq DeviceRow
    BY <2>1 DEF JoinedRow, TypeOK, DeviceRow, TokenRow
  <2>3. joinTokens' \subseteq TokenRow
    BY <2>1, ConsumedRowsKept
  <2>4. admissions' \subseteq [token : Tokens, device : Devices, clear : Nat]
    BY <2>1, AdmittedRowsKept DEF TypeOK
  <2>5. task' \in [Tasks -> TaskState]
    BY <1>13, DoneKeepsTasks DEF JoinBreaks
  <2> QED  BY <1>13, <2>2, <2>3, <2>4, <2>5 DEF JoinBreaks, TypeOK, ids
<1>14. ASSUME NEW t \in Tasks, NEW d \in Devices, RejoinBreaks(t, d) PROVE TypeOK'
  <2>1. task' \in [Tasks -> TaskState]
    BY <1>14, DoneKeepsTasks DEF RejoinBreaks
  <2> QED  BY <1>14, <2>1 DEF RejoinBreaks, TypeOK, ids, history
<1>15. ASSUME NEW t \in Tasks, NEW v \in Services, DeleteService(t, v) PROVE TypeOK'
  <2>1. task' \in [Tasks -> TaskState]
    BY <1>15, DoneKeepsTasks DEF DeleteService
  <2> QED  BY <1>15, <2>1 DEF AclWithout, AttemptsWithout, DeleteService, TypeOK, ids, counts, history
<1>16. ASSUME NEW t \in Tasks, NEW v \in Services, Authorize(t, v) PROVE TypeOK'
  <2>1. task' \in [Tasks -> TaskState]
    <3> DEFINE allowed == [task[t] EXCEPT !.stage = "allowed", !.service = v]
    <3>1. task[t] \in TaskState
      BY DEF TypeOK
    <3>2. allowed \in TaskState
      BY <3>1 DEF TaskState
    <3>3. task' = [task EXCEPT ![t] = allowed]
      BY <1>16, Zenon DEF Authorize
    <3> QED
      <4> HIDE DEF allowed
      <4> QED  BY <3>2, <3>3 DEF TypeOK
  <2> QED  BY <1>16, <2>1 DEF Authorize, TypeOK, tables, ids, counts, history
<1>17. ASSUME NEW t \in Tasks, NEW v \in Services, NEW sources \in SUBSET Guests,
              UpsertService(t, v, sources)
       PROVE  TypeOK'
  <2>1. task' \in [Tasks -> TaskState]
    BY <1>17, DoneKeepsTasks DEF UpsertService
  <2>2. {v} \X sources \subseteq Services \X Devices
    OBVIOUS
  <2>3. {v} \X (sources \cup {Owner[v]}) \subseteq Services \X Devices
    OBVIOUS
  <2> QED  BY <1>17, <2>1, <2>2, <2>3 DEF AclWithout, AttemptsWithout, UpsertService, TypeOK, ids, counts
<1>18. ASSUME NEW t \in Tasks, NEW row \in attempts, Announce(t, row) PROVE TypeOK'
  <2>1. task' \in [Tasks -> TaskState]
    BY <1>18, DoneKeepsTasks DEF Announce
  <2>2. PICK list \in {Nobody, task[t].device} :
           attempts' = (attempts \ {row}) \cup {WithCandidates(row, task[t].device, list)}
    BY <1>18 DEF Announce
  <2>3. task[t].device \in Devices /\ row \in AttemptRow
    BY <1>18 DEF Announce, TypeOK, AttemptRow
  <2>4. WithCandidates(row, task[t].device, list) \in AttemptRow
    BY <2>2, <2>3 DEF WithCandidates, AttemptRow
  <2>5. attempts' \subseteq AttemptRow
    BY <2>2, <2>4 DEF TypeOK
  <2> QED  BY <1>18, <2>1, <2>5 DEF Announce, TypeOK, ids, counts, history
<1> QED
  BY <1>1, <1>2, <1>3, <1>4, <1>5, <1>6, <1>7, <1>8, <1>9, <1>10, <1>11, <1>12,
     <1>13, <1>14, <1>15, <1>16, <1>17, <1>18 DEF Next

----------------------------------------------------------------------------
(* Tokens and admissions *)

TokenFacts ==
    KeysAreUnique /\ TokenAdmitsOne /\ AdmittedByToken /\ AdmittedBySpentToken

\* Using up a token leaves its row otherwise as it was.
LEMMA ConsumedRow ==
  ASSUME TypeOK, NEW row \in joinTokens
  PROVE  LET spent == [row EXCEPT !.used = TRUE]
         IN  /\ spent.token = row.token /\ spent.expires = row.expires /\ spent.used
             /\ \A j \in Consumed(row) : j = spent \/ (j \in joinTokens /\ j # row)
             /\ \A j \in joinTokens : j # row => j \in Consumed(row)
             /\ spent \in Consumed(row)
  BY DEF TypeOK, Consumed, TokenRow

\* A token that is used up for an unknown device admits it, or nobody if the
\* registration breaks off, and had admitted nobody before.
LEMMA AdmissionKeepsTokenFacts ==
  ASSUME TypeOK, TokenFacts, NEW d \in Devices, d \notin Registered,
         NEW row \in joinTokens, ~row.used, joinTokens' = Consumed(row),
         \/ UNCHANGED <<devices, admissions>>
         \/ /\ devices' = devices \cup {JoinedRow(row, d)}
            /\ admissions' = Admitted(row, d),
         clears' = clears
  PROVE  TokenFacts'
<1> DEFINE spent == [row EXCEPT !.used = TRUE]
           admission == [token |-> row.token, device |-> d, clear |-> clears]
<1>1. /\ spent.token = row.token /\ spent.expires = row.expires /\ spent.used
      /\ \A j \in joinTokens' : j = spent \/ (j \in joinTokens /\ j # row)
      /\ \A j \in joinTokens : j # row => j \in joinTokens'
      /\ spent \in joinTokens'
  BY ConsumedRow
<1> HIDE DEF spent
<1>2. KeysAreUnique'
  <2>1. \A a \in joinTokens', b \in joinTokens' : a.token = b.token => a = b
    BY <1>1 DEF TokenFacts, KeysAreUnique
  <2>2. \A a \in devices', b \in devices' : a.device = b.device => a = b
    BY DEF JoinedRow, TokenFacts, KeysAreUnique, Registered
  <2> QED  BY <2>1, <2>2 DEF KeysAreUnique
<1>3. \A a \in admissions : a.token # row.token
  BY DEF TokenFacts, AdmittedBySpentToken, KeysAreUnique
<1>4. admissions' \subseteq admissions \cup {admission}
  BY DEF Admitted
<1>5. TokenAdmitsOne'
  BY <1>3, <1>4 DEF TokenFacts, TokenAdmitsOne
<1>6. \A j \in joinTokens : \E k \in joinTokens' :
         k.token = j.token /\ k.expires = j.expires /\ (j.used => k.used)
  BY <1>1
<1>7. AdmittedBySpentToken'
  BY <1>1, <1>4, <1>6 DEF TokenFacts, AdmittedBySpentToken
<1>8. AdmittedByToken'
  <2>1. ASSUME NEW r \in devices
        PROVE  \/ r.deadline = NoDeadline /\ r.device \in Legacy /\ clears' = 0
               \/ \E a \in admissions', j \in joinTokens' :
                    /\ a.device = r.device /\ a.clear = clears'
                    /\ j.token = a.token /\ j.expires = r.deadline
    <3>1. admissions \subseteq admissions'
      BY DEF Admitted
    <3> QED  BY <1>6, <3>1 DEF TokenFacts, AdmittedByToken
  <2>2. ASSUME NEW r \in devices', r \notin devices
        PROVE  \E a \in admissions', j \in joinTokens' :
                    /\ a.device = r.device /\ a.clear = clears'
                    /\ j.token = a.token /\ j.expires = r.deadline
    <3>1. r = [device |-> d, deadline |-> row.expires] /\ admission \in admissions'
      BY <2>2 DEF JoinedRow, Admitted
    <3> QED  BY <1>1, <3>1
  <2> QED  BY <2>1, <2>2 DEF AdmittedByToken
<1> QED  BY <1>2, <1>5, <1>7, <1>8 DEF TokenFacts

LEMMA CreationKeepsTokenFacts ==
  ASSUME TypeOK, TokenFacts, NEW j \in Tokens, CreateToken(j)
  PROVE  TokenFacts'
<1>1. PICK ttl \in Ttls :
        joinTokens' = joinTokens \cup
            {[token |-> j, expires |-> now + ttl, used |-> FALSE]}
  BY DEF CreateToken
<1> DEFINE new == [token |-> j, expires |-> now + ttl, used |-> FALSE]
<1>5. /\ joinTokens' = joinTokens \cup {new} /\ new.token = j /\ devices' = devices
      /\ \A row \in joinTokens : row.token # j
  BY <1>1 DEF CreateToken
<1>2. KeysAreUnique'
  <2> HIDE DEF new
  <2> QED  BY <1>5 DEF TokenFacts, KeysAreUnique
<1>3. joinTokens \subseteq joinTokens' /\ UNCHANGED <<devices, clears, admissions>>
  BY <1>1 DEF CreateToken, counts, history
<1>4. TokenAdmitsOne' /\ AdmittedByToken' /\ AdmittedBySpentToken'
  BY <1>3 DEF TokenFacts, TokenAdmitsOne, AdmittedByToken, AdmittedBySpentToken
<1> QED  BY <1>2, <1>4 DEF TokenFacts

LEMMA TokenFactsPreserved ==
  ASSUME TypeOK, TokenFacts, [Next]_vars
  PROVE  TokenFacts'
<1>1. CASE UNCHANGED <<joinTokens, devices, clears, admissions>>
  BY <1>1 DEF TokenFacts, KeysAreUnique, TokenAdmitsOne, AdmittedByToken,
              AdmittedBySpentToken
<1>2. ASSUME NEW j \in Tokens, CreateToken(j) PROVE TokenFacts'
  BY <1>2, CreationKeepsTokenFacts
<1>3. ASSUME NEW t \in Tasks, NEW d \in Devices, Join(t, d) \/ JoinBreaks(t, d)
      PROVE  TokenFacts'
  <2>1. d \notin Registered /\ clears' = clears
    BY <1>3 DEF Join, JoinBreaks, counts
  <2>2. \E row \in joinTokens :
          /\ ~row.used
          /\ joinTokens' = Consumed(row)
          /\ \/ UNCHANGED <<devices, admissions>>
             \/ /\ devices' = devices \cup {JoinedRow(row, d)}
                /\ admissions' = Admitted(row, d)
    BY <1>3 DEF Join, JoinBreaks, Consumable
  <2> QED  BY <2>1, <2>2, AdmissionKeepsTokenFacts
<1>4. ASSUME NEW t \in Tasks, ClearDevices(t) PROVE TokenFacts'
  BY <1>4 DEF ClearDevices, history, TokenFacts, KeysAreUnique, TokenAdmitsOne,
              AdmittedByToken, AdmittedBySpentToken
<1>5. CASE UNCHANGED vars
  BY <1>1, <1>5 DEF vars, tables, counts, history
<1>6. CASE Tick \/ Restart
  BY <1>1, <1>6 DEF Tick, Restart, tables, counts, history
<1>7. ASSUME NEW t \in Tasks,
             \/ \E route \in Routes : Arrive(t, route)
             \/ Abandon(t) \/ CheckSession(t) \/ StartRendezvous(t)
             \/ Connect(t) \/ Disconnect(t) \/ ResetHub(t)
      PROVE  TokenFacts'
  BY <1>1, <1>7 DEF Arrive, Abandon, CheckSession, StartRendezvous, Connect,
                    Disconnect, ResetHub, tables, counts, history
<1>8. ASSUME NEW t \in Tasks, NEW d \in Devices, Rejoin(t, d) \/ RejoinBreaks(t, d)
      PROVE  TokenFacts'
  BY <1>1, <1>8 DEF Rejoin, RejoinBreaks, counts, history
<1>9. ASSUME NEW t \in Tasks, NEW v \in Services,
             \/ DeleteService(t, v) \/ Authorize(t, v)
             \/ \E sources \in SUBSET Guests : UpsertService(t, v, sources)
      PROVE  TokenFacts'
  BY <1>1, <1>9 DEF DeleteService, Authorize, UpsertService, tables, counts, history
<1>10. ASSUME NEW t \in Tasks, NEW row \in attempts, Announce(t, row)
       PROVE  TokenFacts'
  BY <1>1, <1>10 DEF Announce, counts, history
<1> QED
  BY <1>2, <1>3, <1>4, <1>5, <1>6, <1>7, <1>8, <1>9, <1>10 DEF Next

----------------------------------------------------------------------------
(* References and sessions *)

RowFacts == References /\ SessionsHonourDeadlines

\* A new session belongs to a device in the table and ends with it.
LEMMA NewSessionKeepsRowFacts ==
  ASSUME TypeOK, RowFacts, NEW d \in Devices, NEW e \in Nat, NewSession(d, e),
         devices \subseteq devices', d \in Registered',
         \A r \in devices' : r.device = d => r.deadline \in {NoDeadline, e},
         \A r \in devices' : r.device # d => r \in devices,
         UNCHANGED <<services, acl, attempts>>
  PROVE  RowFacts'
<1> DEFINE new == [id |-> issued + 1, device |-> d, expires |-> e]
<1>1. sessions' = {row \in sessions : row.device # d} \cup {new}
  BY DEF NewSession
<1>2. new.device = d /\ new.expires = e
  OBVIOUS
<1> HIDE DEF new
<1>3. Registered \subseteq Registered'
  BY DEF Registered
<1>4. References'
  BY <1>1, <1>2, <1>3 DEF RowFacts, References
<1>5. SessionsHonourDeadlines'
  BY <1>1, <1>2 DEF RowFacts, SessionsHonourDeadlines
<1> QED  BY <1>4, <1>5 DEF RowFacts

LEMMA RowFactsPreserved ==
  ASSUME TypeOK, KeysAreUnique, RowFacts, [Next]_vars
  PROVE  RowFacts'
<1>1. CASE UNCHANGED <<devices, sessions, services, acl, attempts>>
  BY <1>1 DEF RowFacts, References, SessionsHonourDeadlines, Registered
<1>2. ASSUME NEW t \in Tasks, NEW d \in Devices, Rejoin(t, d) PROVE RowFacts'
  <2>1. PICK row \in devices, at \in Looks(t) :
          /\ row.device = d
          /\ NewSession(d, RenewedUntil(row, at))
    BY <1>2 DEF Rejoin
  <2>2. RenewedUntil(row, at) \in Nat
    BY <2>1, LooksAreSeconds, ControlAssumption DEF RenewedUntil, Seconds, TypeOK, DeviceRow
  <2>3. \A r \in devices : r.device = d => r = row
    BY <2>1 DEF KeysAreUnique
  <2>4. devices' = devices /\ UNCHANGED <<services, acl, attempts>> /\ d \in Registered'
    BY <1>2, <2>1 DEF Rejoin, Registered
  <2> QED  BY <2>1, <2>2, <2>3, <2>4, NewSessionKeepsRowFacts DEF RenewedUntil
<1>3. ASSUME NEW t \in Tasks, NEW d \in Devices, Join(t, d) PROVE RowFacts'
  <2>1. PICK row \in joinTokens :
          /\ devices' = devices \cup {JoinedRow(row, d)}
          /\ NewSession(d, row.expires)
    BY <1>3 DEF Join
  <2>2. row.expires \in Nat
    BY <2>1 DEF TypeOK, TokenRow
  <2>3. d \notin Registered /\ UNCHANGED <<services, acl, attempts>>
    BY <1>3 DEF Join
  <2> DEFINE joined == [device |-> d, deadline |-> row.expires]
  <2>4. /\ devices' = devices \cup {joined}
        /\ joined.device = d /\ joined.deadline = row.expires
        /\ \A r \in devices : r.device # d
    BY <2>1, <2>3 DEF JoinedRow, Registered
  <2> HIDE DEF joined
  <2>5. /\ devices \subseteq devices' /\ d \in Registered'
        /\ \A r \in devices' : r.device = d => r.deadline = row.expires
        /\ \A r \in devices' : r.device # d => r \in devices
    BY <2>4 DEF Registered
  <2> QED  BY <2>1, <2>2, <2>3, <2>5, NewSessionKeepsRowFacts
<1>4. ASSUME NEW t \in Tasks, NEW d \in Devices, JoinBreaks(t, d) PROVE RowFacts'
  <2>1. PICK row \in joinTokens :
          \/ devices' = devices
          \/ devices' = devices \cup {JoinedRow(row, d)}
    BY <1>4 DEF JoinBreaks
  <2>2. UNCHANGED <<sessions, services, acl, attempts>> /\ d \notin Registered
    BY <1>4 DEF JoinBreaks
  <2>3. Registered \subseteq Registered'
    BY <2>1 DEF Registered
  <2>4. References'
    BY <2>2, <2>3 DEF RowFacts, References
  <2>5. \A s \in sessions : s.device # d
    BY <2>2 DEF RowFacts, References
  <2>6. SessionsHonourDeadlines'
    BY <2>1, <2>2, <2>5 DEF JoinedRow, RowFacts, SessionsHonourDeadlines
  <2> QED  BY <2>4, <2>6 DEF RowFacts
<1>5. ASSUME NEW t \in Tasks, NEW d \in Devices, RejoinBreaks(t, d) PROVE RowFacts'
  BY <1>5 DEF RejoinBreaks, RowFacts, References, SessionsHonourDeadlines, Registered
<1>6. ASSUME NEW t \in Tasks, NEW v \in Services, NEW sources \in SUBSET Guests,
             UpsertService(t, v, sources)
      PROVE  RowFacts'
  <2>1. Registered' = Registered /\ Owner[v] \in Registered
    BY <1>6 DEF UpsertService, Registered
  <2>2. \A entry \in acl' : entry[1] \in services'
    BY <1>6 DEF AclWithout, UpsertService, RowFacts, References
  <2>3. References'
    BY <1>6, <2>1, <2>2 DEF UpsertService, RowFacts, References
  <2> QED  BY <1>6, <2>3 DEF UpsertService, RowFacts, SessionsHonourDeadlines
<1>7. ASSUME NEW t \in Tasks, NEW v \in Services, DeleteService(t, v) PROVE RowFacts'
  BY <1>7 DEF AclWithout, AttemptsWithout, DeleteService, RowFacts, References, SessionsHonourDeadlines, Registered
<1>8. ASSUME NEW t \in Tasks, StartRendezvous(t) PROVE RowFacts'
  <2>1. PICK at \in Looks(t), list \in {Nobody, task[t].device} :
          attempts' = attempts \cup
             {StartedRow(task[t].device, task[t].service, at, list)}
    BY <1>8 DEF StartRendezvous
  <2>2. /\ task[t].service \in services
        /\ {task[t].device, Owner[task[t].service]} \subseteq Registered
        /\ UNCHANGED <<devices, sessions, services, acl>>
    BY <1>8 DEF StartRendezvous
  <2>3. References'
    BY <2>1, <2>2 DEF StartedRow, RowFacts, References, Registered
  <2> QED  BY <2>2, <2>3 DEF RowFacts, SessionsHonourDeadlines
<1>9. ASSUME NEW t \in Tasks, NEW row \in attempts, Announce(t, row) PROVE RowFacts'
  <2>4. PICK list \in {Nobody, task[t].device} :
           attempts' = (attempts \ {row}) \cup {WithCandidates(row, task[t].device, list)}
    BY <1>9 DEF Announce
  <2> DEFINE new == WithCandidates(row, task[t].device, list)
  <2>1. new.service = row.service /\ new.source = row.source /\ new.target = row.target
    BY DEF WithCandidates, TypeOK, AttemptRow
  <2>2. attempts' \subseteq attempts \cup {new} /\ UNCHANGED <<devices, sessions, services, acl>>
    BY <1>9, <2>4 DEF Announce
  <2> HIDE DEF new
  <2>3. References'
    BY <2>1, <2>2 DEF RowFacts, References, Registered
  <2> QED  BY <2>2, <2>3 DEF RowFacts, SessionsHonourDeadlines
<1>10. ASSUME NEW t \in Tasks, ClearDevices(t) PROVE RowFacts'
  BY <1>10 DEF ClearDevices, RowFacts, References, SessionsHonourDeadlines
<1>11. CASE UNCHANGED vars
  BY <1>1, <1>11 DEF vars, tables
<1>12. CASE Tick \/ Restart \/ \E j \in Tokens : CreateToken(j)
  BY <1>1, <1>12 DEF Tick, Restart, CreateToken, tables
<1>13. ASSUME NEW t \in Tasks,
              \/ \E route \in Routes : Arrive(t, route)
              \/ Abandon(t) \/ CheckSession(t) \/ Connect(t) \/ Disconnect(t) \/ ResetHub(t)
              \/ \E v \in Services : Authorize(t, v)
       PROVE  RowFacts'
  BY <1>1, <1>13 DEF Arrive, Abandon, CheckSession, Connect, Disconnect, ResetHub,
                     Authorize, tables
<1> QED
  BY <1>2, <1>3, <1>4, <1>5, <1>6, <1>7, <1>8, <1>9, <1>10, <1>11, <1>12, <1>13 DEF Next

----------------------------------------------------------------------------
(* Permissions and candidates *)

PermissionFacts ==
    PermissionsWereGranted /\ AttemptsWereGranted /\ CandidatesAreThePeers

\* Nothing that permits is taken back from the history.
LEMMA GrantsGrow ==
  ASSUME [Next]_vars
  PROVE  grants \subseteq grants'
<1>1. CASE UNCHANGED grants
  BY <1>1
<1>2. CASE Next
  <2>1. ASSUME NEW t \in Tasks, NEW v \in Services, NEW sources \in SUBSET Guests,
               UpsertService(t, v, sources)
        PROVE  grants \subseteq grants'
    BY <2>1 DEF UpsertService
  <2>2. ASSUME NEW t \in Tasks, NEW row \in attempts, Announce(t, row)
        PROVE  grants' = grants
    BY <2>2 DEF Announce, history
  <2>3. ASSUME NEW t \in Tasks, NEW d \in Devices,
               Rejoin(t, d) \/ Join(t, d) \/ JoinBreaks(t, d) \/ RejoinBreaks(t, d)
        PROVE  grants' = grants
    BY <2>3 DEF Rejoin, Join, JoinBreaks, RejoinBreaks, history
  <2>4. ASSUME NEW t \in Tasks,
               \/ \E route \in Routes : Arrive(t, route)
               \/ Abandon(t) \/ CheckSession(t) \/ StartRendezvous(t)
               \/ Connect(t) \/ Disconnect(t) \/ ClearDevices(t) \/ ResetHub(t)
               \/ \E v \in Services : DeleteService(t, v) \/ Authorize(t, v)
        PROVE  grants' = grants
    BY <2>4 DEF Arrive, Abandon, CheckSession, StartRendezvous, Connect, Disconnect,
                ClearDevices, ResetHub, DeleteService, Authorize, history
  <2>5. CASE Tick \/ Restart \/ \E j \in Tokens : CreateToken(j)
    BY <2>5 DEF Tick, Restart, CreateToken, history
  <2> QED  BY <1>2, <2>1, <2>2, <2>3, <2>4, <2>5 DEF Next
<1>3. CASE UNCHANGED vars
  BY <1>3 DEF vars, history
<1> QED  BY <1>2, <1>3

\* A task in the stage "allowed" either was there before, as it is, or has just
\* been let in by authorize_relay_service.
LEMMA AllowedTasks ==
  ASSUME TypeOK, [Next]_vars, NEW u \in Tasks, task'[u].stage = "allowed"
  PROVE  \/ task'[u] = task[u]
         \/ Allowed(task'[u].service, task'[u].device)
<1>1. CASE UNCHANGED vars
  BY <1>1 DEF vars
<1>2. CASE Tick \/ \E j \in Tokens : CreateToken(j)
  BY <1>2 DEF Tick, CreateToken
<1>3. CASE Restart
  BY <1>3 DEF Restart, Idle
<1>4. ASSUME NEW t \in Tasks, NEW route \in Routes, Arrive(t, route)
      PROVE  task'[u] = task[u]
  BY <1>4 DEF Arrive, TypeOK, Idle
<1>5. ASSUME NEW t \in Tasks, Done(t) PROVE task'[u] = task[u]
  BY <1>5 DEF Done, TypeOK, Idle
<1>6. ASSUME NEW t \in Tasks, CheckSession(t) \/ Connect(t) \/ ClearDevices(t)
      PROVE  task'[u] = task[u]
  <2>1. CASE u = t
    <3>1. task'[u].stage \in {"known", "socket", "cleared"}
      BY <1>6, <2>1, ZenonT(60) DEF CheckSession, Connect, ClearDevices, TypeOK, TaskState
    <3> QED  BY <3>1
  <2>2. CASE u # t
    BY <1>6, <2>2 DEF CheckSession, Connect, ClearDevices, TypeOK
  <2> QED  BY <2>1, <2>2
<1>7. ASSUME NEW t \in Tasks, NEW v \in Services, Authorize(t, v)
      PROVE  task'[u] = task[u] \/ Allowed(task'[u].service, task'[u].device)
  <2>1. CASE u = t
    <3>1. task'[u].service = v /\ task'[u].device = task[t].device
      BY <1>7, <2>1 DEF Authorize, TypeOK, TaskState
    <3> QED  BY <1>7, <3>1 DEF Authorize
  <2>2. CASE u # t
    BY <1>7, <2>2 DEF Authorize, TypeOK
  <2> QED  BY <2>1, <2>2
<1>8. ASSUME NEW t \in Tasks,
             \/ Abandon(t) \/ StartRendezvous(t) \/ Disconnect(t) \/ ResetHub(t)
             \/ \E d \in Devices :
                  Rejoin(t, d) \/ Join(t, d) \/ JoinBreaks(t, d) \/ RejoinBreaks(t, d)
             \/ \E v \in Services : DeleteService(t, v)
             \/ \E v \in Services, sources \in SUBSET Guests : UpsertService(t, v, sources)
             \/ \E row \in attempts : Announce(t, row)
      PROVE  Done(t)
  BY <1>8 DEF Abandon, StartRendezvous, Disconnect, ResetHub, Rejoin, Join, JoinBreaks,
              RejoinBreaks, DeleteService, UpsertService, Announce, Done
<1> QED  BY <1>1, <1>2, <1>3, <1>4, <1>5, <1>6, <1>7, <1>8 DEF Next

\* Tables in which every permission was granted before stay so.
LEMMA TablesKeepPermissions ==
  ASSUME TypeOK, PermissionFacts, [Next]_vars,
         services' \subseteq services, acl' \subseteq acl,
         \A row \in attempts' : \E old \in attempts :
            /\ row.service = old.service /\ row.source = old.source
            /\ row.target = old.target
            /\ row.sourceList \in {old.sourceList, Nobody, row.source}
            /\ \/ /\ row.targetList = old.targetList
                  /\ row.targetAnnounced = old.targetAnnounced
               \/ row.targetList \in {Nobody, row.target} /\ row.targetAnnounced
  PROVE  PermissionFacts'
<1>1. grants \subseteq grants'
  BY GrantsGrow
<1>2. ASSUME NEW u \in Tasks, task'[u].stage = "allowed"
      PROVE  <<task'[u].service, task'[u].device>> \in grants
  <2>1. CASE task'[u] = task[u]
    BY <1>2, <2>1 DEF PermissionFacts, PermissionsWereGranted
  <2>2. CASE Allowed(task'[u].service, task'[u].device)
    BY <2>2 DEF Allowed, PermissionFacts, PermissionsWereGranted
  <2> QED  BY <1>2, <2>1, <2>2, AllowedTasks
<1>3. PermissionsWereGranted'
  BY <1>1, <1>2 DEF PermissionFacts, PermissionsWereGranted
<1>4. AttemptsWereGranted'
  BY <1>1 DEF PermissionFacts, AttemptsWereGranted
<1>5. CandidatesAreThePeers'
  BY DEF PermissionFacts, CandidatesAreThePeers
<1> QED  BY <1>3, <1>4, <1>5 DEF PermissionFacts

LEMMA PermissionFactsPreserved ==
  ASSUME TypeOK, PermissionFacts, [Next]_vars
  PROVE  PermissionFacts'
<1>1. CASE UNCHANGED <<services, acl, attempts>>
  BY <1>1, TablesKeepPermissions
<1>2. ASSUME NEW t \in Tasks, NEW v \in Services, NEW sources \in SUBSET Guests,
             UpsertService(t, v, sources)
      PROVE  PermissionFacts'
  <2>1. /\ services' = services \cup {v} /\ attempts' = attempts
        /\ acl' = AclWithout(v) \cup ({v} \X sources)
        /\ grants' = grants \cup ({v} \X (sources \cup {Owner[v]}))
    BY <1>2 DEF UpsertService
  <2>2. \A u \in Tasks : task'[u].stage = "allowed" =>
           <<task'[u].service, task'[u].device>> \in grants
    BY <1>2, <2>1, AllowedTasks DEF Allowed, PermissionFacts, PermissionsWereGranted
  <2>3. PermissionsWereGranted'
    BY <2>1, <2>2 DEF AclWithout, PermissionFacts, PermissionsWereGranted
  <2>4. AttemptsWereGranted' /\ CandidatesAreThePeers'
    BY <2>1 DEF PermissionFacts, AttemptsWereGranted, CandidatesAreThePeers
  <2> QED  BY <2>3, <2>4 DEF PermissionFacts
<1>3. ASSUME NEW t \in Tasks, StartRendezvous(t) PROVE PermissionFacts'
  <2>1. PICK at \in Looks(t), list \in {Nobody, task[t].device} :
          attempts' = attempts \cup
             {StartedRow(task[t].device, task[t].service, at, list)}
    BY <1>3 DEF StartRendezvous
  <2>2. <<task[t].service, task[t].device>> \in grants
    BY <1>3 DEF StartRendezvous, At, PermissionFacts, PermissionsWereGranted
  <2>3. services' = services /\ acl' = acl /\ grants' = grants
    BY <1>3 DEF StartRendezvous, history
  <2>4. \A u \in Tasks : task'[u].stage = "allowed" =>
           <<task'[u].service, task'[u].device>> \in grants
    BY AllowedTasks DEF Allowed, PermissionFacts, PermissionsWereGranted
  <2>5. PermissionsWereGranted'
    BY <2>3, <2>4 DEF PermissionFacts, PermissionsWereGranted
  <2>6. AttemptsWereGranted' /\ CandidatesAreThePeers'
    BY <2>1, <2>2, <2>3
    DEF StartedRow, PermissionFacts, AttemptsWereGranted, CandidatesAreThePeers
  <2> QED  BY <2>5, <2>6 DEF PermissionFacts
<1>4. ASSUME NEW t \in Tasks, NEW row \in attempts, Announce(t, row)
      PROVE  PermissionFacts'
  <2>1. PICK list \in {Nobody, task[t].device} :
           attempts' = (attempts \ {row}) \cup {WithCandidates(row, task[t].device, list)}
    BY <1>4 DEF Announce
  <2> DEFINE new == WithCandidates(row, task[t].device, list)
  <2>2. task[t].device \in {row.source, row.target} /\ row \in AttemptRow
    BY <1>4 DEF Announce, TypeOK
  <2>3. /\ new.service = row.service /\ new.source = row.source
        /\ new.target = row.target
        /\ new.sourceList \in {row.sourceList, Nobody, new.source}
        /\ \/ /\ new.targetList = row.targetList
              /\ new.targetAnnounced = row.targetAnnounced
           \/ new.targetList \in {Nobody, new.target} /\ new.targetAnnounced
    BY <2>2 DEF WithCandidates, AttemptRow
  <2>4. attempts' = (attempts \ {row}) \cup {new} /\ services' = services /\ acl' = acl
    BY <1>4, <2>1 DEF Announce
  <2> HIDE DEF new
  <2> QED  BY <2>3, <2>4, TablesKeepPermissions
<1>5. ASSUME NEW t \in Tasks, NEW v \in Services, DeleteService(t, v)
      PROVE  PermissionFacts'
  <2>1. services' \subseteq services /\ acl' \subseteq acl /\ attempts' \subseteq attempts
    BY <1>5 DEF AclWithout, AttemptsWithout, DeleteService
  <2> QED  BY <2>1, TablesKeepPermissions
<1>6. ASSUME NEW t \in Tasks, ClearDevices(t) PROVE PermissionFacts'
  <2>1. services' = {} /\ acl' = {} /\ attempts' = {}
    BY <1>6 DEF ClearDevices
  <2> QED  BY <2>1, TablesKeepPermissions
<1>7. CASE UNCHANGED vars
  BY <1>1, <1>7 DEF vars, tables
<1>8. CASE Tick \/ Restart \/ \E j \in Tokens : CreateToken(j)
  BY <1>1, <1>8 DEF Tick, Restart, CreateToken, tables
<1>9. ASSUME NEW t \in Tasks,
              \/ \E route \in Routes : Arrive(t, route)
              \/ Abandon(t) \/ CheckSession(t) \/ Connect(t) \/ Disconnect(t) \/ ResetHub(t)
              \/ \E v \in Services : Authorize(t, v)
       PROVE  PermissionFacts'
  BY <1>1, <1>9 DEF Arrive, Abandon, CheckSession, Connect, Disconnect, ResetHub,
                    Authorize, tables
<1>10. ASSUME NEW t \in Tasks, NEW d \in Devices,
              Rejoin(t, d) \/ Join(t, d) \/ JoinBreaks(t, d) \/ RejoinBreaks(t, d)
       PROVE  PermissionFacts'
  BY <1>1, <1>10 DEF Rejoin, Join, JoinBreaks, RejoinBreaks
<1> QED
  BY <1>2, <1>3, <1>4, <1>5, <1>6, <1>7, <1>8, <1>9, <1>10 DEF Next

----------------------------------------------------------------------------
(* The status of a rendezvous *)

\* What a step does to the rendezvous: it keeps or deletes them, starts one under
\* a fresh id, or takes an announcement into one.
LEMMA AttemptSteps ==
  ASSUME [Next]_vars
  PROVE  \/ attempts' \subseteq attempts /\ started' = started
         \/ \E t \in Tasks : StartRendezvous(t)
         \/ \E t \in Tasks, row \in attempts : Announce(t, row)
<1>1. CASE UNCHANGED vars
  BY <1>1 DEF vars, tables, ids
<1>2. CASE Tick \/ Restart \/ \E j \in Tokens : CreateToken(j)
  BY <1>2 DEF Tick, Restart, CreateToken, tables, ids
<1>3. ASSUME NEW t \in Tasks,
             \/ \E route \in Routes : Arrive(t, route)
             \/ Abandon(t) \/ CheckSession(t) \/ Connect(t) \/ Disconnect(t)
             \/ ResetHub(t) \/ ClearDevices(t)
             \/ \E v \in Services : Authorize(t, v)
      PROVE  attempts' \subseteq attempts /\ started' = started
  BY <1>3 DEF Arrive, Abandon, CheckSession, Connect, Disconnect, ResetHub,
              ClearDevices, Authorize, tables, ids
<1>4. ASSUME NEW t \in Tasks, NEW d \in Devices,
             Rejoin(t, d) \/ Join(t, d) \/ JoinBreaks(t, d) \/ RejoinBreaks(t, d)
      PROVE  attempts' \subseteq attempts /\ started' = started
  BY <1>4 DEF Rejoin, Join, JoinBreaks, RejoinBreaks, ids
<1>5. ASSUME NEW t \in Tasks, NEW v \in Services,
             \/ DeleteService(t, v)
             \/ \E sources \in SUBSET Guests : UpsertService(t, v, sources)
      PROVE  attempts' \subseteq attempts /\ started' = started
  BY <1>5 DEF DeleteService, UpsertService, AttemptsWithout, ids
<1> QED  BY <1>1, <1>2, <1>3, <1>4, <1>5 DEF Next

\* The new row of start_direct_rendezvous has the next id.
LEMMA StartedAttempt ==
  ASSUME NEW t \in Tasks, StartRendezvous(t)
  PROVE  /\ started' = started + 1
         /\ \E new : attempts' = attempts \cup {new} /\ new.id = started + 1
<1>1. PICK at \in Looks(t), list \in {Nobody, task[t].device} :
        attempts' = attempts \cup
           {StartedRow(task[t].device, task[t].service, at, list)}
  BY DEF StartRendezvous
<1> DEFINE new == StartedRow(task[t].device, task[t].service, at, list)
<1>2. attempts' = attempts \cup {new} /\ new.id = started + 1
  BY <1>1 DEF StartedRow
<1>3. started' = started + 1
  BY DEF StartRendezvous
<1> HIDE DEF new
<1> QED  BY <1>2, <1>3

\* What an announcement may do to a row: it keeps the deadline and the candidates
\* of one of the ends, and never forgets that the target was heard.
Announced(old, new) ==
    /\ new.id = old.id /\ new.expires = old.expires
    /\ old.targetAnnounced => new.targetAnnounced
    /\ new.sourceList = old.sourceList \/ new.targetList = old.targetList

\* An announcement changes one row.
LEMMA AnnouncedAttempt ==
  ASSUME TypeOK, NEW t \in Tasks, NEW old \in attempts, Announce(t, old)
  PROVE  /\ started' = started
         /\ \E new : attempts' = (attempts \ {old}) \cup {new} /\ Announced(old, new)
<1>1. PICK list \in {Nobody, task[t].device} :
         attempts' = (attempts \ {old}) \cup {WithCandidates(old, task[t].device, list)}
  BY DEF Announce
<1> DEFINE new == WithCandidates(old, task[t].device, list)
<1>2. old \in AttemptRow
  BY DEF TypeOK
<1>3. Announced(old, new)
  BY <1>2 DEF Announced, WithCandidates, AttemptRow
<1>4. started' = started
  BY DEF Announce, ids
<1> HIDE DEF new
<1>5. attempts' = (attempts \ {old}) \cup {new}
  BY <1>1 DEF new
<1> QED  BY <1>3, <1>4, <1>5

LEMMA AttemptIdsPreserved ==
  ASSUME TypeOK, AttemptIdsAreFresh, [Next]_vars
  PROVE  AttemptIdsAreFresh'
<1>1. started \in Nat /\ \A row \in attempts : row.id \in Nat
  BY DEF TypeOK, AttemptRow
<1>2. CASE attempts' \subseteq attempts /\ started' = started
  BY <1>2 DEF AttemptIdsAreFresh
<1>3. ASSUME NEW t \in Tasks, StartRendezvous(t) PROVE AttemptIdsAreFresh'
  <2>1. PICK new : attempts' = attempts \cup {new} /\ new.id = started + 1
    BY <1>3, StartedAttempt
  <2>2. started' = started + 1
    BY <1>3, StartedAttempt
  <2>3. \A row \in attempts : row.id # new.id
    BY <1>1, <2>1 DEF AttemptIdsAreFresh
  <2> QED  BY <1>1, <2>1, <2>2, <2>3 DEF AttemptIdsAreFresh
<1>4. ASSUME NEW t \in Tasks, NEW old \in attempts, Announce(t, old)
      PROVE  AttemptIdsAreFresh'
  <2>1. PICK new : /\ new.id = old.id /\ started' = started
                   /\ attempts' = (attempts \ {old}) \cup {new}
    BY <1>4, AnnouncedAttempt DEF Announced
  <2> QED  BY <2>1 DEF AttemptIdsAreFresh
<1> QED  BY <1>2, <1>3, <1>4, AttemptSteps

LEMMA TimePassesOn ==
  ASSUME TypeOK, [Next]_vars
  PROVE  now <= now'
<1>1. CASE Tick
  BY <1>1 DEF Tick, TypeOK, Seconds
<1>2. now \in Nat
  BY DEF TypeOK, Seconds
<1>3. ASSUME NEW t \in Tasks,
             \/ \E route \in Routes : Arrive(t, route)
             \/ Abandon(t) \/ CheckSession(t) \/ Connect(t) \/ Disconnect(t)
             \/ ResetHub(t) \/ ClearDevices(t) \/ StartRendezvous(t)
             \/ \E v \in Services : Authorize(t, v) \/ DeleteService(t, v)
             \/ \E v \in Services, sources \in SUBSET Guests : UpsertService(t, v, sources)
             \/ \E row \in attempts : Announce(t, row)
             \/ \E d \in Devices :
                  Rejoin(t, d) \/ Join(t, d) \/ JoinBreaks(t, d) \/ RejoinBreaks(t, d)
      PROVE  now' = now
  BY <1>3 DEF Arrive, Abandon, CheckSession, Connect, Disconnect, ResetHub,
              ClearDevices, StartRendezvous, Authorize, DeleteService, UpsertService,
              Announce, Rejoin, Join, JoinBreaks, RejoinBreaks
<1>4. ASSUME Restart \/ \E j \in Tokens : CreateToken(j) PROVE now' = now
  BY <1>4 DEF Restart, CreateToken
<1>5. ASSUME UNCHANGED vars PROVE now' = now
  BY <1>5 DEF vars
<1>6. now' = now \/ now <= now'
  BY <1>1, <1>3, <1>4, <1>5 DEF Next
<1> QED  BY <1>2, <1>6

\* A row that stays as it is, or to which one announcement was made, moves on.
LEMMA RowMovesOn ==
  ASSUME NEW row \in attempts, NEW next, now \in Nat, now' \in Nat, now <= now',
         row.expires \in Nat, Announced(row, next),
         row.targetList # Nobody => row.targetAnnounced
  PROVE  MovesOn(row, next)
<1>1. ASSUME Status(row, now) = "expired" PROVE Status(next, now') = "expired"
  BY <1>1 DEF Announced, Status
<1>2. ASSUME Status(next, now') = "waiting_for_target"
      PROVE  Status(row, now) = "waiting_for_target"
  <2>1. ~next.targetAnnounced /\ ~(next.expires < now')
    BY <1>2 DEF Status
  <2>2. ~row.targetAnnounced /\ ~(row.expires < now)
    BY <2>1 DEF Announced
  <2> QED  BY <2>2 DEF Status
<1>3. ASSUME Status(row, now) = "ready", Status(next, now') \notin {"ready", "expired"}
      PROVE  (next.sourceList = Nobody) # (next.targetList = Nobody)
  <2>1. row.sourceList # Nobody /\ row.targetList # Nobody
    BY <1>3 DEF Status
  <2>2. next.sourceList = Nobody \/ next.targetList = Nobody
    BY <1>3 DEF Status
  <2> QED  BY <2>1, <2>2 DEF Announced
<1> QED  BY <1>1, <1>2, <1>3 DEF MovesOn

LEMMA StatusStep ==
  ASSUME TypeOK, AttemptIdsAreFresh, CandidatesAreThePeers, [Next]_vars,
         NEW row \in attempts, NEW next \in attempts', row.id = next.id
  PROVE  MovesOn(row, next)
<1>1. now \in Nat /\ now' \in Nat /\ now <= now'
  BY TimePassesOn, TypesPreserved DEF TypeOK, Seconds
<1>2. row.expires \in Nat /\ row.id \in Nat /\ started \in Nat /\ row.id <= started
  BY DEF TypeOK, AttemptRow, AttemptIdsAreFresh
<1>3. row.targetList # Nobody => row.targetAnnounced
  BY DEF CandidatesAreThePeers
<1>4. Announced(row, next)
  <2>1. CASE next \in attempts
    <3>1. next = row
      BY <2>1 DEF AttemptIdsAreFresh
    <3> QED  BY <3>1 DEF Announced
  <2>2. CASE next \notin attempts
    <3>1. PICK t \in Tasks, old \in attempts : Announce(t, old)
      BY <1>2, <2>2, AttemptSteps, StartedAttempt
    <3>2. Announced(old, next)
      BY <2>2, <3>1, AnnouncedAttempt
    <3>3. old = row
      BY <3>2 DEF Announced, AttemptIdsAreFresh
    <3> QED  BY <3>2, <3>3
  <2> QED  BY <2>1, <2>2
<1> QED  BY <1>1, <1>2, <1>3, <1>4, RowMovesOn

----------------------------------------------------------------------------
(* The sockets that the hub knows *)

HubFacts == HubMatchesSockets /\ ResetsFollowClears

\* A step that neither makes nor ends a socket or a clear leaves the facts alone.
LEMMA SameSocketsKeepHubFacts ==
  ASSUME HubFacts, hub' = hub, clears' = clears,
         \A u \in Tasks : /\ task'[u].stage = "socket" <=> task[u].stage = "socket"
                          /\ task'[u].stage = "cleared" => task[u].stage = "cleared"
  PROVE  HubFacts'
<1>1. {t \in Tasks : task'[t].stage = "socket"} = {t \in Tasks : task[t].stage = "socket"}
  OBVIOUS
<1>2. HubMatchesSockets'
  BY <1>1 DEF HubFacts, HubMatchesSockets
<1>3. ResetsFollowClears'
  BY DEF HubFacts, ResetsFollowClears
<1> QED  BY <1>2, <1>3 DEF HubFacts

\* A request that ends before it is a socket or has cleared the devices.
LEMMA EndedRequestsKeepHubFacts ==
  ASSUME TypeOK, HubFacts, NEW t \in Tasks, task[t].stage # "socket", Done(t),
         hub' = hub, clears' = clears
  PROVE  HubFacts'
<1>1. \A u \in Tasks : task'[u] = task[u] \/ (u = t /\ task'[u] = Idle)
  BY DEF TypeOK, Done
<1>2. \A u \in Tasks : /\ task'[u].stage = "socket" <=> task[u].stage = "socket"
                       /\ task'[u].stage = "cleared" => task[u].stage = "cleared"
  BY <1>1 DEF Idle
<1> QED  BY <1>2, SameSocketsKeepHubFacts

LEMMA HubFactsPreserved ==
  ASSUME TypeOK, HubFacts, [Next]_vars
  PROVE  HubFacts'
<1>1. CASE UNCHANGED vars
  BY <1>1, SameSocketsKeepHubFacts DEF vars, counts
<1>2. CASE Tick
  BY <1>2, SameSocketsKeepHubFacts DEF Tick, counts
<1>3. CASE Restart
  BY <1>3 DEF Restart, Idle, HubFacts, HubMatchesSockets, ResetsFollowClears
<1>4. ASSUME NEW j \in Tokens, CreateToken(j) PROVE HubFacts'
  BY <1>4, SameSocketsKeepHubFacts DEF CreateToken, counts
<1>5. ASSUME NEW t \in Tasks, NEW route \in Routes, Arrive(t, route) PROVE HubFacts'
  <2>1. \A u \in Tasks : task'[u] = task[u] \/ (u = t /\ task'[u].stage = "arrived")
    BY <1>5 DEF Arrive, TypeOK, Idle
  <2>2. task[t].stage = "idle"
    BY <1>5 DEF Arrive, Idle
  <2> QED  BY <1>5, <2>1, <2>2, SameSocketsKeepHubFacts DEF Arrive, counts
<1>6. ASSUME NEW t \in Tasks, Abandon(t) PROVE HubFacts'
  BY <1>6, EndedRequestsKeepHubFacts DEF Abandon, Done, counts
<1>7. ASSUME NEW t \in Tasks, CheckSession(t) PROVE HubFacts'
  <2>1. PICK row \in sessions, at \in Looks(t) :
           task' = [task EXCEPT ![t].stage = "known", ![t].seen = at,
                                ![t].device = row.device]
    BY <1>7 DEF CheckSession
  <2>2. task[t].stage = "arrived"
    BY <1>7 DEF CheckSession
  <2>3. \A u \in Tasks : task'[u] = task[u] \/ (u = t /\ task'[u].stage = "known")
    BY <2>1 DEF TypeOK, TaskState
  <2> QED  BY <1>7, <2>2, <2>3, SameSocketsKeepHubFacts DEF CheckSession, counts
<1>8. ASSUME NEW t \in Tasks, NEW v \in Services, Authorize(t, v) PROVE HubFacts'
  <2>1. \A u \in Tasks : task'[u] = task[u] \/ (u = t /\ task'[u].stage = "allowed")
    BY <1>8 DEF Authorize, TypeOK, TaskState
  <2> QED  BY <1>8, <2>1, SameSocketsKeepHubFacts DEF Authorize, At, counts
<1>9. ASSUME NEW t \in Tasks, Connect(t) PROVE HubFacts'
  <2>1. /\ \A u \in Tasks \ {t} : task'[u] = task[u]
        /\ task'[t].stage = "socket"
    BY <1>9 DEF Connect, TypeOK, TaskState
  <2>2. hub' = hub \cup {t} /\ clears' = clears
    BY <1>9 DEF Connect, counts
  <2> QED  BY <2>1, <2>2 DEF HubFacts, HubMatchesSockets, ResetsFollowClears
<1>10. ASSUME NEW t \in Tasks, Disconnect(t) PROVE HubFacts'
  <2>1. /\ \A u \in Tasks \ {t} : task'[u] = task[u]
        /\ task'[t].stage = "idle"
    BY <1>10 DEF Disconnect, Done, Idle, TypeOK
  <2>2. hub' = hub \ {t} /\ clears' = clears
    BY <1>10 DEF Disconnect, counts
  <2> QED  BY <2>1, <2>2 DEF HubFacts, HubMatchesSockets, ResetsFollowClears
<1>11. ASSUME NEW t \in Tasks, ClearDevices(t) PROVE HubFacts'
  <2>1. /\ \A u \in Tasks \ {t} : task'[u] = task[u]
        /\ task[t].stage = "arrived" /\ task'[t].stage = "cleared"
    BY <1>11 DEF ClearDevices, At, TypeOK, TaskState
  <2>2. hub' = hub /\ clears' > 0
    BY <1>11 DEF ClearDevices, TypeOK
  <2> QED  BY <2>1, <2>2 DEF HubFacts, HubMatchesSockets, ResetsFollowClears
<1>12. ASSUME NEW t \in Tasks, ResetHub(t) PROVE HubFacts'
  <2>1. /\ \A u \in Tasks \ {t} : task'[u] = task[u]
        /\ task[t].stage = "cleared" /\ task'[t].stage = "idle"
    BY <1>12 DEF ResetHub, At, Done, Idle, TypeOK
  <2>2. hub' = {} /\ clears' = clears
    BY <1>12 DEF ResetHub, counts
  <2>3. clears > 0
    BY <2>1 DEF HubFacts, ResetsFollowClears
  <2> QED  BY <2>1, <2>2, <2>3 DEF HubFacts, HubMatchesSockets, ResetsFollowClears
<1>13. ASSUME NEW t \in Tasks, NEW d \in Devices,
              Rejoin(t, d) \/ Join(t, d) \/ JoinBreaks(t, d) \/ RejoinBreaks(t, d)
       PROVE  HubFacts'
  <2>1. task[t].stage # "socket" /\ Done(t) /\ hub' = hub /\ clears' = clears
    BY <1>13 DEF Rejoin, Join, JoinBreaks, RejoinBreaks, At, counts
  <2> QED  BY <2>1, EndedRequestsKeepHubFacts
<1>14. ASSUME NEW t \in Tasks,
              \/ StartRendezvous(t)
              \/ \E v \in Services : DeleteService(t, v)
              \/ \E v \in Services, sources \in SUBSET Guests : UpsertService(t, v, sources)
              \/ \E row \in attempts : Announce(t, row)
       PROVE  HubFacts'
  <2>1. task[t].stage # "socket" /\ Done(t) /\ hub' = hub /\ clears' = clears
    BY <1>14 DEF StartRendezvous, DeleteService, UpsertService, Announce, At, counts
  <2> QED  BY <2>1, EndedRequestsKeepHubFacts
<1> QED
  BY <1>1, <1>2, <1>3, <1>4, <1>5, <1>6, <1>7, <1>8, <1>9, <1>10, <1>11, <1>12, <1>13,
     <1>14 DEF Next

----------------------------------------------------------------------------
(* The theorems *)

LEMMA InitHolds == Init => ControlInv
<1> SUFFICES ASSUME Init PROVE ControlInv
  OBVIOUS
<1>1. TypeOK
  BY IdleIsState, ControlAssumption DEF Init, TypeOK, DeviceRow, Seconds
<1>2. KeysAreUnique /\ References /\ SessionsHonourDeadlines
  BY DEF Init, KeysAreUnique, References, SessionsHonourDeadlines
<1>3. TokenAdmitsOne /\ AdmittedByToken /\ AdmittedBySpentToken
  BY DEF Init, TokenAdmitsOne, AdmittedByToken, AdmittedBySpentToken
<1>4. PermissionsWereGranted /\ AttemptsWereGranted /\ CandidatesAreThePeers
  BY DEF Init, Idle, PermissionsWereGranted, AttemptsWereGranted, CandidatesAreThePeers
<1>5. AttemptIdsAreFresh
  BY DEF Init, AttemptIdsAreFresh
<1>6. HubMatchesSockets /\ ResetsFollowClears
  BY DEF Init, Idle, HubMatchesSockets, ResetsFollowClears
<1> QED  BY <1>1, <1>2, <1>3, <1>4, <1>5, <1>6 DEF ControlInv

LEMMA InvariantPreserved == ControlInv /\ [Next]_vars => ControlInv'
<1> SUFFICES ASSUME ControlInv, [Next]_vars PROVE ControlInv'
  OBVIOUS
<1>1. TypeOK /\ TokenFacts /\ RowFacts /\ PermissionFacts /\ AttemptIdsAreFresh /\ HubFacts
  BY DEF ControlInv, TokenFacts, RowFacts, PermissionFacts, HubFacts
<1>2. TypeOK'
  BY <1>1, TypesPreserved
<1>3. TokenFacts'
  BY <1>1, TokenFactsPreserved
<1>4. RowFacts'
  BY <1>1, RowFactsPreserved DEF TokenFacts
<1>5. PermissionFacts'
  BY <1>1, PermissionFactsPreserved
<1>6. AttemptIdsAreFresh'
  BY <1>1, AttemptIdsPreserved
<1>7. HubFacts'
  BY <1>1, HubFactsPreserved
<1> QED  BY <1>2, <1>3, <1>4, <1>5, <1>6, <1>7
         DEF ControlInv, TokenFacts, RowFacts, PermissionFacts, HubFacts

\* Types, keys, references, deadlines, admissions and permissions agree in every
\* reachable state of the database, whatever requests interleave and break off.
THEOREM ControlInvariant == Spec => []ControlInv
<1>1. Init => ControlInv
  BY InitHolds
<1>2. ControlInv /\ [Next]_vars => ControlInv'
  BY InvariantPreserved
<1> QED  BY <1>1, <1>2, PTL DEF Spec

\* Every table keeps its schema and every task its stages.
THEOREM ControlTypes == Spec => []TypeOK
  BY ControlInvariant, PTL DEF ControlInv

\* No deletion in delete_service or clear_devices leaves a row that refers to a
\* deleted one, and no late insertion does.
THEOREM ReferencesHold == Spec => []References
<1>1. ControlInv => References
  BY DEF ControlInv
<1> QED  BY <1>1, ControlInvariant, PTL

\* register_device admits one device per join token.
THEOREM TokensAdmitOne == Spec => []TokenAdmitsOne
<1>1. ControlInv => TokenAdmitsOne
  BY DEF ControlInv
<1> QED  BY <1>1, ControlInvariant, PTL

\* register_device, which spans no transaction, leaves no device row behind that a
\* join token did not pay for after the last clear, and no row has a deadline but
\* its token's.
THEOREM DevicesAreAdmitted == Spec => []AdmittedByToken
<1>1. ControlInv => AdmittedByToken
  BY DEF ControlInv
<1> QED  BY <1>1, ControlInvariant, PTL

\* The relay hub knows only open sockets, and all of them until the administrator
\* first clears the devices: no websocket is lost track of by requests that break
\* off or by a restart.
THEOREM HubKnowsSockets == Spec => []HubMatchesSockets
<1>1. ControlInv => HubMatchesSockets
  BY DEF ControlInv
<1> QED  BY <1>1, ControlInvariant, PTL

\* The candidates that an end of a rendezvous polls are those its peer announced.
THEOREM CandidatesAreGenuine == Spec => []CandidatesAreThePeers
<1>1. ControlInv => CandidatesAreThePeers
  BY DEF ControlInv
<1> QED  BY <1>1, ControlInvariant, PTL

\* No refresh carries a session past the deadline of its device.
THEOREM DeadlinesAreHonoured == Spec => []SessionsHonourDeadlines
<1>1. ControlInv => SessionsHonourDeadlines
  BY DEF ControlInv
<1> QED  BY <1>1, ControlInvariant, PTL

\* Whoever holds a session that session_device_id accepts, register_device lets
\* renew it in the same second.
THEOREM ValidSessionsRenew == Spec => []ValidSessionRenews
<1>1. ControlInv => ValidSessionRenews
  <2> SUFFICES ASSUME ControlInv, NEW s \in sessions, ValidSession(s, now)
               PROVE  \E row \in devices : row.device = s.device /\ Renewable(row, now)
    BY DEF ValidSessionRenews
  <2>1. PICK row \in devices : row.device = s.device
    BY DEF ControlInv, References, Registered
  <2>2. row.deadline # NoDeadline => row.deadline = s.expires
    BY <2>1 DEF ControlInv, SessionsHonourDeadlines
  <2> QED  BY <2>1, <2>2 DEF Renewable, ValidSession
<1> QED  BY <1>1, ControlInvariant, PTL

\* A rendezvous exists only between devices whose owner at some time allowed it.
THEOREM AttemptsAreGranted == Spec => []AttemptsWereGranted
<1>1. ControlInv => AttemptsWereGranted
  BY DEF ControlInv
<1> QED  BY <1>1, ControlInvariant, PTL

\* The status that the two ends of a rendezvous poll never turns back: an expired one
\* is not revived, the target is not waited for again, and a ready one is left
\* before it expires only for an end that takes its own candidates back.
THEOREM StatusNeverTurnsBack == Spec => StatusMovesOn
<1> DEFINE Moves ==
      \A row \in attempts : \A next \in attempts' :
         row.id = next.id => MovesOn(row, next)
<1>1. ControlInv /\ [Next]_vars => Moves
  BY StatusStep DEF ControlInv
<1>2. ControlInv /\ [Next]_vars => [Moves]_vars
  BY <1>1
<1> HIDE DEF Moves
<1>3. Spec => [][Moves]_vars
  BY <1>2, ControlInvariant, PTL DEF Spec
<1> QED  BY <1>3 DEF Moves, StatusMovesOn
=============================================================================
