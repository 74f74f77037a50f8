---------------------------- MODULE ControlPlane ----------------------------
(***************************************************************************)
(* The control plane of the server: the tables of db.rs and the handlers   *)
(* of routes.rs that read and write them.                                  *)
(*                                                                         *)
(* A table is a set of rows: INSERT adds one, DELETE filters, UPDATE maps. *)
(* The connection to SQLite is behind one mutex, and what a handler does   *)
(* under one lock is one action.  Most handlers take the lock more than    *)
(* once: the session is checked under one, the permission under another,   *)
(* the rows change under a third, and other handlers run in between.  The  *)
(* clock is read before the lock is awaited, so a handler may decide by    *)
(* any second since it last looked.                                        *)
(*                                                                         *)
(* The bundled SQLite enforces foreign keys: an insertion that refers to a *)
(* missing row fails.  A handler is dropped at an await when its client    *)
(* hangs up, which also stands for every refusal: nothing more happens.    *)
(*                                                                         *)
(* Left out: names, keys and signatures (a device is who it says it is),   *)
(* last_seen_at and the snapshots, which only show rows, and what a        *)
(* candidate list says: a list that is not empty is the device that it     *)
(* speaks for, and an empty one, which any end may announce, is Nobody.    *)
(***************************************************************************)
EXTENDS Integers, FiniteSets

CONSTANTS
    Devices,
    Services,       \* service ids: each stands for an owner and a name
    Owner,          \* the device whose id a service id was derived from
    Tokens,         \* join tokens the administrator may create
    Tasks,          \* tasks that handle requests and websockets
    Legacy,         \* devices in the database since before deadlines existed
    Nobody,         \* no device, no service yet, no candidates
    NoDeadline,     \* NULL of session_deadline_at
    Ttls,           \* lifetimes of join tokens
    LegacyTtl,      \* LEGACY_SESSION_TTL_SECONDS
    RendezvousTtl,  \* DIRECT_RENDEZVOUS_TTL_SECONDS
    Routes,         \* bound: the requests that clients send
    Guests,         \* bound: the devices that owners put on an ACL
    MaxTime,        \* bound: the last second
    MaxSessions,    \* bound: session tokens ever issued
    MaxAttempts,    \* bound: rendezvous ever started
    MaxClears,      \* bound: times the administrator clears the devices
    MaxFailures     \* bound: restarts and failed statements

ASSUME ControlAssumption ==
    /\ Owner \in [Services -> Devices]
    /\ Legacy \subseteq Devices /\ Guests \subseteq Devices
    /\ Nobody \notin Devices \cup Services
    /\ NoDeadline \notin Int
    /\ Ttls \subseteq Nat /\ LegacyTtl \in Nat /\ RendezvousTtl \in Nat
    /\ MaxTime \in Nat /\ MaxSessions \in Nat /\ MaxAttempts \in Nat
    /\ MaxClears \in Nat /\ MaxFailures \in Nat

SessionRoutes == {"upsert", "delete", "start", "announce", "connect"}

ASSUME RoutesAssumption == Routes \subseteq SessionRoutes \cup {"register", "clear"}

VARIABLES
    now,          \* unix_timestamp_now
    joinTokens,   \* table join_tokens
    devices,      \* table devices
    sessions,     \* table device_sessions
    services,     \* table services, by id
    acl,          \* table service_acl: pairs of service and source device
    attempts,     \* table direct_rendezvous_attempts
    hub,          \* sockets that the relay hub has registered
    task,         \* where each task stands
    issued,       \* session tokens given out so far
    started,      \* rendezvous ids given out so far
    clears, failures,
    admissions,   \* history: which token admitted which device, after how many clears
    grants        \* history: who was ever allowed to use which service

tables == <<joinTokens, devices, sessions, services, acl, attempts>>
ids == <<issued, started>>
counts == <<clears, failures>>
history == <<admissions, grants>>
vars == <<now, tables, hub, task, ids, counts, history>>

Idle == [route |-> "none", stage |-> "idle", seen |-> 0,
         device |-> Nobody, service |-> Nobody]

(***************************************************************************)
(* What the tables say.                                                    *)
(***************************************************************************)
Registered == {row.device : row \in devices}

Renewable_Strictly(row, at) == row.deadline # NoDeadline => row.deadline > at
\* The deadline of a device row has not passed (register_device).
Renewable(row, at) == row.deadline # NoDeadline => row.deadline >= at

\* session_device_id accepts the row's token.
ValidSession(row, at) == row.expires >= at

Allowed_Published(v, d) == v \in services
\* authorize_relay_service
Allowed(v, d) == v \in services /\ (Owner[v] = d \/ <<v, d>> \in acl)

\* direct_rendezvous_from_row
Status(row, at) ==
    IF row.expires < at THEN "expired"
    ELSE IF row.sourceList # Nobody /\ row.targetList # Nobody THEN "ready"
    ELSE IF ~row.targetAnnounced THEN "waiting_for_target"
    ELSE "gathering_candidates"

\* The seconds a task may have read from the clock since it last looked.
Looks(t) == task[t].seen .. now

Init ==
    /\ now = 0
    /\ joinTokens = {}
    /\ devices = {[device |-> d, deadline |-> NoDeadline] : d \in Legacy}
    /\ sessions = {} /\ services = {} /\ acl = {} /\ attempts = {}
    /\ hub = {}
    /\ task = [t \in Tasks |-> Idle]
    /\ issued = 0 /\ started = 0 /\ clears = 0 /\ failures = 0
    /\ admissions = {} /\ grants = {}

(***************************************************************************)
(* Time, the administrator's tokens, and requests as they come and go.     *)
(***************************************************************************)
Tick ==
    /\ now < MaxTime
    /\ now' = now + 1
    /\ UNCHANGED <<tables, hub, task, ids, counts, history>>

\* create_join_token.  A lifetime also allows for the wait for the lock.
CreateToken(j) ==
    /\ \A row \in joinTokens : row.token # j
    /\ \E ttl \in Ttls :
          joinTokens' = joinTokens \cup
              {[token |-> j, expires |-> now + ttl, used |-> FALSE]}
    /\ UNCHANGED <<now, devices, sessions, services, acl, attempts, hub, task,
                   ids, counts, history>>

Arrive(t, route) ==
    /\ task[t] = Idle
    /\ route = "clear" => clears < MaxClears
    /\ task' = [task EXCEPT ![t] =
                   [Idle EXCEPT !.route = route, !.stage = "arrived", !.seen = now]]
    /\ UNCHANGED <<now, tables, hub, ids, counts, history>>

\* The client hangs up or is refused, and the handler is gone.
Abandon(t) ==
    /\ task[t].stage \in {"arrived", "known", "allowed", "cleared"}
    /\ task' = [task EXCEPT ![t] = Idle]
    /\ UNCHANGED <<now, tables, hub, ids, counts, history>>

At(t, route, stage) == task[t].route = route /\ task[t].stage = stage

Done(t) == task' = [task EXCEPT ![t] = Idle]

(***************************************************************************)
(* register_device, under one lock.                                        *)
(***************************************************************************)
NewSession_Beside(d, expires) ==
    /\ issued < MaxSessions
    /\ issued' = issued + 1
    /\ sessions' = sessions \cup
           {[id |-> issued + 1, device |-> d, expires |-> expires]}
\* The rows of the device's old sessions go, the new one comes.
NewSession(d, expires) ==
    /\ issued < MaxSessions
    /\ issued' = issued + 1
    /\ sessions' = {row \in sessions : row.device # d} \cup
           {[id |-> issued + 1, device |-> d, expires |-> expires]}

RenewedUntil(row, at) ==
    IF row.deadline = NoDeadline THEN at + LegacyTtl ELSE row.deadline

Rejoin(t, d) ==
    /\ At(t, "register", "arrived")
    /\ \E row \in devices, at \in Looks(t) :
          /\ row.device = d
          /\ Renewable(row, at)
          /\ NewSession(d, RenewedUntil(row, at))
    /\ Done(t)
    /\ UNCHANGED <<now, joinTokens, devices, services, acl, attempts, hub,
                   started, counts, history>>

Consumable_Again(row, at) == row.expires >= at
\* consume_join_token_locked
Consumable(row, at) == ~row.used /\ row.expires >= at
Consumed(row) == (joinTokens \ {row}) \cup {[row EXCEPT !.used = TRUE]}

JoinedRow_Default(row, d) == [device |-> d, deadline |-> now + LegacyTtl]
JoinedRow(row, d) == [device |-> d, deadline |-> row.expires]

Admitted(row, d) ==
    admissions \cup {[token |-> row.token, device |-> d, clear |-> clears]}

Join(t, d) ==
    /\ At(t, "register", "arrived")
    /\ d \notin Registered
    /\ \E row \in joinTokens, at \in Looks(t) :
          /\ Consumable(row, at)
          /\ joinTokens' = Consumed(row)
          /\ devices' = devices \cup {JoinedRow(row, d)}
          /\ NewSession(d, row.expires)
          /\ admissions' = Admitted(row, d)
    /\ Done(t)
    /\ UNCHANGED <<now, services, acl, attempts, hub, started, counts, grants>>

\* No transaction spans register_device: the statements before the one that
\* fails, or before the server stops, have happened.
JoinBreaks(t, d) ==
    /\ At(t, "register", "arrived")
    /\ d \notin Registered
    /\ failures < MaxFailures
    /\ \E row \in joinTokens, at \in Looks(t) :
          /\ Consumable(row, at)
          /\ joinTokens' = Consumed(row)
          /\ \/ UNCHANGED <<devices, admissions>>
             \/ /\ devices' = devices \cup {JoinedRow(row, d)}
                /\ admissions' = Admitted(row, d)
    /\ failures' = failures + 1
    /\ Done(t)
    /\ UNCHANGED <<now, sessions, services, acl, attempts, hub, ids, clears, grants>>

RejoinBreaks(t, d) ==
    /\ At(t, "register", "arrived")
    /\ failures < MaxFailures
    /\ \E row \in devices, at \in Looks(t) : row.device = d /\ Renewable(row, at)
    /\ sessions' = {row \in sessions : row.device # d}
    /\ failures' = failures + 1
    /\ Done(t)
    /\ UNCHANGED <<now, joinTokens, devices, services, acl, attempts, hub, ids,
                   clears, history>>

(***************************************************************************)
(* Requests with a session: the check, then the lock of the operation.     *)
(***************************************************************************)
\* session_device_id
CheckSession(t) ==
    /\ task[t].route \in SessionRoutes /\ task[t].stage = "arrived"
    /\ \E row \in sessions, at \in Looks(t) :
          /\ ValidSession(row, at)
          /\ task' = [task EXCEPT ![t].stage = "known", ![t].seen = at,
                                  ![t].device = row.device]
    /\ UNCHANGED <<now, tables, hub, ids, counts, history>>

AclWithout_Kept(v) == acl
AclWithout(v) == {entry \in acl : entry[1] # v}
AttemptsWithout(v) == {row \in attempts : row.service # v}

UpsertService(t, v, sources) ==
    /\ At(t, "upsert", "known")
    /\ Owner[v] = task[t].device
    /\ task[t].device \in Registered
    /\ services' = services \cup {v}
    /\ acl' = AclWithout(v) \cup ({v} \X sources)
    /\ grants' = grants \cup ({v} \X (sources \cup {Owner[v]}))
    /\ Done(t)
    /\ UNCHANGED <<now, joinTokens, devices, sessions, attempts, hub, ids, counts,
                   admissions>>

DeleteService(t, v) ==
    /\ At(t, "delete", "known")
    /\ Owner[v] = task[t].device
    /\ v \in services
    /\ services' = services \ {v}
    /\ acl' = AclWithout(v)
    /\ attempts' = AttemptsWithout(v)
    /\ Done(t)
    /\ UNCHANGED <<now, joinTokens, devices, sessions, hub, ids, counts, history>>

\* start_direct_rendezvous: the permission under one lock, the row under another.
Authorize(t, v) ==
    /\ At(t, "start", "known")
    /\ Allowed(v, task[t].device)
    /\ task' = [task EXCEPT ![t].stage = "allowed", ![t].service = v]
    /\ UNCHANGED <<now, tables, hub, ids, counts, history>>

StartedRow(source, v, at, list) ==
    [id |-> started + 1, service |-> v, source |-> source, target |-> Owner[v],
     sourceList |-> list, targetList |-> Nobody, targetAnnounced |-> FALSE,
     expires |-> at + RendezvousTtl]

StartRendezvous(t) ==
    LET source == task[t].device
        v == task[t].service
    IN  /\ At(t, "start", "allowed")
        /\ v \in services
        /\ {source, Owner[v]} \subseteq Registered
        /\ started < MaxAttempts
        /\ \E at \in Looks(t), list \in {Nobody, source} :
              attempts' = attempts \cup {StartedRow(source, v, at, list)}
        /\ started' = started + 1
        /\ Done(t)
        /\ UNCHANGED <<now, joinTokens, devices, sessions, services, acl, hub,
                       issued, counts, history>>

WithCandidates_Renewed(row, d, list) ==
    IF row.source = d
    THEN [row EXCEPT !.sourceList = list, !.expires = now + RendezvousTtl]
    ELSE [row EXCEPT !.targetList = list, !.targetAnnounced = TRUE,
                     !.expires = now + RendezvousTtl]
\* update_direct_rendezvous_candidates.  A device that is both ends is the source.
WithCandidates(row, d, list) ==
    IF row.source = d
    THEN [row EXCEPT !.sourceList = list]
    ELSE [row EXCEPT !.targetList = list, !.targetAnnounced = TRUE]

Announce(t, row) ==
    LET d == task[t].device
    IN  /\ At(t, "announce", "known")
        /\ row \in attempts
        /\ d \in {row.source, row.target}
        /\ \E at \in Looks(t) : row.expires >= at
        /\ \E list \in {Nobody, d} :
              attempts' = (attempts \ {row}) \cup {WithCandidates(row, d, list)}
        /\ Done(t)
        /\ UNCHANGED <<now, joinTokens, devices, sessions, services, acl, hub,
                       ids, counts, history>>

(***************************************************************************)
(* The relay websocket and the administrator's clear.                      *)
(***************************************************************************)
\* relay_ws has checked the session; the upgraded socket registers.
Connect(t) ==
    /\ At(t, "connect", "known")
    /\ task' = [task EXCEPT ![t].stage = "socket"]
    /\ hub' = hub \cup {t}
    /\ UNCHANGED <<now, tables, ids, counts, history>>

Disconnect_Unnoticed(t) ==
    /\ task[t].stage = "socket"
    /\ Done(t)
    /\ UNCHANGED <<now, tables, hub, ids, counts, history>>
Disconnect(t) ==
    /\ task[t].stage = "socket"
    /\ hub' = hub \ {t}
    /\ Done(t)
    /\ UNCHANGED <<now, tables, ids, counts, history>>

ClearDevices(t) ==
    /\ At(t, "clear", "arrived")
    /\ clears < MaxClears
    /\ attempts' = {} /\ acl' = {} /\ services' = {} /\ sessions' = {} /\ devices' = {}
    /\ clears' = clears + 1
    /\ task' = [task EXCEPT ![t].stage = "cleared"]
    /\ UNCHANGED <<now, joinTokens, hub, ids, failures, history>>

\* RelayHub::reset; the sockets stay open.
ResetHub(t) ==
    /\ At(t, "clear", "cleared")
    /\ hub' = {}
    /\ Done(t)
    /\ UNCHANGED <<now, tables, ids, counts, history>>

\* The server stops and starts again: only the tables survive.
Restart ==
    /\ failures < MaxFailures
    /\ failures' = failures + 1
    /\ task' = [t \in Tasks |-> Idle]
    /\ hub' = {}
    /\ UNCHANGED <<now, tables, ids, clears, history>>

Next ==
    \/ Tick
    \/ Restart
    \/ \E j \in Tokens : CreateToken(j)
    \/ \E t \in Tasks :
          \/ \E route \in Routes : Arrive(t, route)
          \/ Abandon(t)
          \/ CheckSession(t)
          \/ StartRendezvous(t)
          \/ Connect(t)
          \/ Disconnect(t)
          \/ ClearDevices(t)
          \/ ResetHub(t)
          \/ \E d \in Devices :
                Rejoin(t, d) \/ Join(t, d) \/ JoinBreaks(t, d) \/ RejoinBreaks(t, d)
          \/ \E v \in Services : DeleteService(t, v) \/ Authorize(t, v)
          \/ \E v \in Services, sources \in SUBSET Guests : UpsertService(t, v, sources)
          \/ \E row \in attempts : Announce(t, row)

Spec == Init /\ [][Next]_vars

(***************************************************************************)
(* Types.                                                                  *)
(***************************************************************************)
Seconds == 0 .. MaxTime
TokenRow == [token : Tokens, expires : Nat, used : BOOLEAN]
DeviceRow == [device : Devices, deadline : Nat \cup {NoDeadline}]
SessionRow == [id : Nat, device : Devices, expires : Nat]
AttemptRow == [id : Nat, service : Services, source : Devices, target : Devices,
               sourceList : Devices \cup {Nobody}, targetList : Devices \cup {Nobody},
               targetAnnounced : BOOLEAN, expires : Nat]
TaskState == [route : Routes \cup {"none"},
              stage : {"idle", "arrived", "known", "allowed", "socket", "cleared"},
              seen : Seconds,
              device : Devices \cup {Nobody}, service : Services \cup {Nobody}]

\* Every table holds rows of its schema, and every task is in one of its stages.
TypeOK ==
    /\ now \in Seconds
    /\ joinTokens \subseteq TokenRow
    /\ devices \subseteq DeviceRow
    /\ sessions \subseteq SessionRow
    /\ services \subseteq Services
    /\ acl \subseteq Services \X Devices
    /\ attempts \subseteq AttemptRow
    /\ hub \subseteq Tasks
    /\ task \in [Tasks -> TaskState]
    /\ issued \in Nat /\ started \in Nat /\ clears \in Nat /\ failures \in Nat
    /\ admissions \subseteq [token : Tokens, device : Devices, clear : Nat]
    /\ grants \subseteq Services \X Devices

(***************************************************************************)
(* Safety.                                                                 *)
(***************************************************************************)
\* The foreign keys hold, so that none of the deletions in delete_service and
\* clear_devices is ever refused, whatever requests they overtake.
References ==
    /\ \A row \in sessions : row.device \in Registered
    /\ \A v \in services : Owner[v] \in Registered
    /\ \A entry \in acl : entry[1] \in services
    /\ \A row \in attempts :
          row.service \in services /\ {row.source, row.target} \subseteq Registered

\* The newest session of a device is its only one, and it ends when the device
\* does: no refresh carries it past the deadline that the join token set
\* (refreshed_session_keeps_original_join_token_deadline in the tests of db.rs).
SessionsHonourDeadlines ==
    /\ \A row \in sessions, other \in sessions :
          row.device = other.device => row = other
    /\ \A s \in sessions, row \in devices :
          s.device = row.device => row.deadline \in {NoDeadline, s.expires}

\* Whoever holds a session that is still accepted can also renew it: the two
\* comparisons with the deadline (db.rs:230 and 787) agree on the last second.
ValidSessionRenews ==
    \A s \in sessions : ValidSession(s, now) =>
        \E row \in devices : row.device = s.device /\ Renewable(row, now)

\* A join token admits one device, also when the registration breaks off or two
\* registrations race for it.
TokenAdmitsOne ==
    \A a \in admissions, b \in admissions : a.token = b.token => a = b

\* A device is in the table because a token admitted it since the last clear, and
\* its deadline is that token's; or it has been there from before deadlines existed.
AdmittedByToken ==
    \A row \in devices :
        \/ row.deadline = NoDeadline /\ row.device \in Legacy /\ clears = 0
        \/ \E a \in admissions, j \in joinTokens :
              /\ a.device = row.device /\ a.clear = clears
              /\ j.token = a.token /\ j.expires = row.deadline

\* Nobody has a rendezvous for a service that its owner never let it use, however
\* the service's ACL and the devices changed between the check and the insertion.
AttemptsWereGranted ==
    \A row \in attempts : <<row.service, row.source>> \in grants

\* The candidates an end reads as its peer's were announced by that peer, and a
\* rendezvous that has candidates of the target does not wait for it.
CandidatesAreThePeers ==
    \A row \in attempts :
        /\ row.target = Owner[row.service]
        /\ row.sourceList \in {Nobody, row.source}
        /\ row.targetList \in {Nobody, row.target}
        /\ row.targetList # Nobody => row.targetAnnounced

\* The hub knows only sockets that are open, and as long as nobody cleared the
\* devices it knows all of them.
HubMatchesSockets ==
    LET sockets == {t \in Tasks : task[t].stage = "socket"}
    IN  hub \subseteq sockets /\ (clears = 0 => hub = sockets)

\* What the two ends poll never turns back, whatever announcements come late or
\* twice: a rendezvous that has expired stays so, one whose target was heard never
\* waits for it again, and a ready one stays ready until it expires, but for one
\* case: one end, and one only, has taken its own candidates back.
MovesOn(row, next) ==
    LET before == Status(row, now)
        after == Status(next, now')
    IN  /\ before = "expired" => after = "expired"
        /\ after = "waiting_for_target" => before = "waiting_for_target"
        /\ before = "ready" =>
              \/ after \in {"ready", "expired"}
              \/ (next.sourceList = Nobody) # (next.targetList = Nobody)

StatusMovesOn ==
    [][\A row \in attempts : \A next \in attempts' :
          row.id = next.id => MovesOn(row, next)]_vars

(***************************************************************************)
(* The invariant that the proofs rest on.                                  *)
(***************************************************************************)
\* Primary keys: a token and a device have one row each, and so has a rendezvous,
\* as its id is fresh.
KeysAreUnique ==
    /\ \A a \in joinTokens, b \in joinTokens : a.token = b.token => a = b
    /\ \A a \in devices, b \in devices : a.device = b.device => a = b

AttemptIdsAreFresh ==
    /\ \A row \in attempts : row.id <= started
    /\ \A a \in attempts, b \in attempts : a.id = b.id => a = b

\* Whoever was admitted was admitted by a token that is marked as used.
AdmittedBySpentToken ==
    \A a \in admissions : \E j \in joinTokens : j.token = a.token /\ j.used

\* Permissions, in the tables or already checked, were granted at some time.
PermissionsWereGranted ==
    /\ \A v \in services : <<v, Owner[v]>> \in grants
    /\ acl \subseteq grants
    /\ \A t \in Tasks : task[t].stage = "allowed" =>
          <<task[t].service, task[t].device>> \in grants

\* The hub is reset only by a task that has cleared the devices.
ResetsFollowClears ==
    \A t \in Tasks : task[t].stage = "cleared" => clears > 0

\* The inductive invariant: types, keys, references, the registered sockets, and
\* where deadlines, admissions, permissions and candidates come from.
ControlInv ==
    /\ TypeOK
    /\ KeysAreUnique
    /\ References
    /\ SessionsHonourDeadlines
    /\ TokenAdmitsOne
    /\ AdmittedByToken
    /\ AdmittedBySpentToken
    /\ PermissionsWereGranted
    /\ AttemptsWereGranted
    /\ CandidatesAreThePeers
    /\ AttemptIdsAreFresh
    /\ HubMatchesSockets
    /\ ResetsFollowClears
=============================================================================
