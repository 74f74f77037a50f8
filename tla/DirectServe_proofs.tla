------------------------- MODULE DirectServe_proofs -------------------------
(***************************************************************************)
(* Proofs about DirectServe, for any rendezvous, channels and bounds.      *)
(***************************************************************************)
EXTENDS DirectServe, TLAPS

\* A rendezvous has one task, and the hub's route names it exactly as long as the
\* task probes or serves.
RouteInv ==
    \A r \in Rendezvous :
        /\ r \notin active \union handled => task[<<r, 1>>] = "none"
        /\ task[<<r, 2>>] = "none"
        /\ route[r] # None => route[r] = 1 /\ Live(<<r, 1>>)
        /\ hub /\ Live(<<r, 1>>) => route[r] = 1

LEMMA TypeInit == Init => TypeOK
  BY NoneAssumption DEF Init, TypeOK, Tasks, Handlers, Slots

LEMMA Messages ==
    ASSUME TypeOK
    PROVE  /\ \A r \in Rendezvous :
                 /\ Probe("source hello", r) \in ToTarget /\ Probe("source ack", r) \in ToTarget
                 /\ Probe("target hello", r) \in ToSource /\ Probe("target ack", r) \in ToSource
           /\ \A c \in Channels :
                 /\ Of[c] \in Rendezvous /\ Tunnel("open", c) \in ToTarget
                 /\ Tunnel("accept", c) \in ToSource /\ Tunnel("reject", c) \in ToSource
                 /\ Tunnel("close", c) \in ToSource
           /\ \A m \in ToTarget : m.r \in Rendezvous
  BY OfAssumption DEF ToTarget, ToSource, Probes, Tunnels, Probe, Tunnel

LEMMA TypeStep == TypeOK /\ [Next]_vars => TypeOK'
<1> SUFFICES ASSUME TypeOK, [Next]_vars PROVE TypeOK'
  OBVIOUS
<1> USE DEF TypeOK, serverVars, sourceVars, supervisorVars, hubVars, queues, handlerVars, netVars
<1>1. CASE UNCHANGED vars
  BY <1>1 DEF vars
<1>2. ASSUME NEW r \in Rendezvous,
             \/ Start(r) \/ Expire(r) \/ SourceReady(r) \/ SourceGivesUp(r)
             \/ SourceHello(r) \/ SourceProbed(r)
      PROVE  TypeOK'
  <2>1. CASE Start(r) \/ Expire(r) \/ SourceGivesUp(r)
    BY <2>1 DEF Start, Expire, SourceGivesUp
  <2>2. CASE SourceReady(r) \/ SourceHello(r)
    BY <2>2, Messages DEF SourceReady, SourceHello, Send
  <2>3. CASE SourceProbed(r)
    BY <2>3, Messages DEF SourceProbed, Arrives
  <2> QED
    BY <1>2, <2>1, <2>2, <2>3
<1>3. ASSUME NEW r \in Rendezvous, SourceBreaks(r) PROVE TypeOK'
  BY <1>3 DEF SourceBreaks
<1>4. CASE Poll
  BY <1>4 DEF Poll, Pending, Joined, Fresh
<1>5. CASE PollFails
  BY <1>5 DEF PollFails, Joined
<1>6. ASSUME NEW s \in Tasks, SessionStep(s) PROVE TypeOK'
  <2> s[1] \in Rendezvous /\ s[2] \in Slots
    BY DEF Tasks
  <2>1. CASE Announce(s) \/ TargetReady(s) \/ TargetHello(s)
    BY <2>1, Messages, ZenonT(60) DEF Announce, TargetReady, TargetHello, Send
  <2>2. CASE TargetGivesUp(s)
    BY <2>2 DEF TargetGivesUp, TaskEnds, Unregister
  <2>3. CASE TargetProbed(s)
    BY <2>3, Messages DEF TargetProbed, Read, Send
  <2>4. CASE SessionCut(s)
    BY <2>4 DEF SessionCut, TaskEnds, Unregister
  <2>5. ASSUME NEW c \in Channels, Keep(s, c) PROVE TypeOK'
    BY <2>5, Messages DEF Keep, Read, Kept
  <2>6. ASSUME NEW c \in Channels, ServeOpen(s, c) PROVE TypeOK'
    BY <2>6 DEF ServeOpen, Handlers, Slots
  <2>7. ASSUME NEW kind \in {"source hello", "source ack"}, ServeProbe(s, kind) PROVE TypeOK'
    BY <2>7 DEF ServeProbe, Read
  <2> QED
    BY <1>6, <2>1, <2>2, <2>3, <2>4, <2>5, <2>6, <2>7 DEF SessionStep
<1>7. ASSUME NEW m \in net, HubReceives(m) PROVE TypeOK'
  <2>1. CASE route[m.r] = None
    BY <1>7, <2>1, Messages DEF HubReceives, Arrives
  <2>2. CASE route[m.r] # None /\ Live(<<m.r, route[m.r]>>)
    <3> m \in ToTarget /\ <<m.r, route[m.r]>> \in Tasks
      BY <1>7, <2>2, Messages DEF HubReceives, Tasks
    <3> DEFINE s == <<m.r, route[m.r]>>
    <3>1. inbox' = [inbox EXCEPT ![s] = @ \union {m}]
      BY <1>7, <2>2, Messages DEF HubReceives
    <3>2. inbox[s] \union {m} \in SUBSET ToTarget
      OBVIOUS
    <3>3. inbox' \in [Tasks -> SUBSET ToTarget]
      BY <3>1, <3>2
    <3> HIDE DEF s
    <3> QED
      BY <1>7, <2>2, <3>3, Messages DEF HubReceives, Arrives
  <2>3. CASE route[m.r] # None /\ ~Live(<<m.r, route[m.r]>>)
    <3>1. route' = [route EXCEPT ![m.r] = None] /\ inbox' = inbox
      BY <1>7, <2>3 DEF HubReceives, Unregister
    <3>2. net' \subseteq net /\ doubled' \subseteq doubled \union {m} /\ UNCHANGED lost
      BY <1>7 DEF HubReceives, Arrives
    <3> QED
      BY <1>7, <3>1, <3>2, ZenonT(60) DEF HubReceives
  <2> QED
    BY <2>1, <2>2, <2>3
<1>8. ASSUME NEW m \in net, Lose(m) PROVE TypeOK'
  BY <1>8 DEF Lose
<1>9. CASE HubFails
  BY <1>9 DEF HubFails
<1>10. ASSUME NEW h \in Handlers,
              RegisterChannel(h) \/ TargetRefuses(h) \/ Accept(h) \/ HandlerEnds(h)
       PROVE  TypeOK'
  <2> h[1] \in Channels /\ h[2] \in Slots
    BY DEF Handlers
  <2>1. CASE RegisterChannel(h)
    BY <2>1 DEF RegisterChannel
  <2>2. CASE HandlerEnds(h)
    <3>1. /\ handler' = [handler EXCEPT ![h] = "over"]
          /\ croute' \in {croute, [croute EXCEPT ![h[1]] = None]}
      BY <2>2 DEF HandlerEnds, HandlerOver
    <3>2. net' \subseteq net \union {Tunnel("close", h[1])} /\ UNCHANGED <<lost, doubled>>
      BY <2>2 DEF HandlerEnds, Send
    <3> QED
      BY <2>2, <3>1, <3>2, Messages DEF HandlerEnds
  <2>3. CASE TargetRefuses(h)
    BY <2>3, Messages DEF TargetRefuses, HandlerOver, Send
  <2>4. CASE Accept(h)
    BY <2>4, Messages DEF Accept, Send
  <2> QED
    BY <1>10, <2>1, <2>2, <2>3, <2>4
<1>11. ASSUME NEW c \in Channels, Open(c) \/ OpenTimesOut(c) \/ SourceEnds(c) PROVE TypeOK'
  <2>1. CASE Open(c)
    <3>1. opener' \in [Channels -> {"idle", "opening", "bridging", "over"}]
      BY <2>1 DEF Open
    <3>2. net' = net \union {Tunnel("open", c)} /\ Tunnel("open", c) \in ToTarget
      BY <2>1, Messages DEF Open, Send
    <3> QED
      BY <2>1, <3>1, <3>2 DEF Open, Send
  <2>2. CASE OpenTimesOut(c) \/ SourceEnds(c)
    BY <2>2 DEF OpenTimesOut, SourceEnds
  <2> QED
    BY <1>11, <2>1, <2>2
<1>12. ASSUME NEW c \in Channels, NEW kind \in {"accept", "reject", "close"}, Answer(c, kind)
       PROVE  TypeOK'
  BY <1>12 DEF Answer, SourceReceives, Outcome, Arrives
<1> QED
  BY <1>1, <1>2, <1>3, <1>4, <1>5, <1>6, <1>7, <1>8, <1>9, <1>10, <1>11, <1>12 DEF Next

(***************************************************************************)
(* The route of a session.                                                 *)
(***************************************************************************)
\* What the route invariant says of a task that was started.
LEMMA OneTask ==
    ASSUME RouteInv, NEW s \in Tasks, task[s] # "none"
    PROVE  /\ s[1] \in Rendezvous /\ s[2] = 1 /\ s = <<s[1], 1>>
           /\ s[1] \in active \union handled
           /\ route[s[1]] # None => route[s[1]] = 1 /\ Live(s)
           /\ hub /\ Live(s) => route[s[1]] = 1
<1>1. s[1] \in Rendezvous /\ s[2] \in Slots /\ s = <<s[1], s[2]>>
  BY DEF Tasks
<1>2. ASSUME s[2] = 2 PROVE FALSE
  <2>1. task[<<s[1], 2>>] = "none"
    BY <1>1 DEF RouteInv
  <2>2. s = <<s[1], 2>>
    BY <1>1, <1>2
  <2> QED
    BY <2>1, <2>2
<1>3. s[2] = 1
  BY <1>1, <1>2 DEF Slots
<1>4. s = <<s[1], 1>>
  BY <1>1, <1>3
<1> QED
  BY <1>1, <1>3, <1>4 DEF RouteInv

\* The task of one rendezvous moves on and its route with it.
LEMMA TaskMoves ==
    ASSUME TypeOK, RouteInv, NEW s \in Tasks, NEW stage, task[s] # "none", stage # "none",
           task' = [task EXCEPT ![s] = stage],
           \/ /\ route' = route
              /\ stage \in {"probing", "serving"} <=> Live(s)
           \/ route' = [route EXCEPT ![s[1]] = None] /\ stage \notin {"probing", "serving"}
           \/ route' = [route EXCEPT ![s[1]] = s[2]] /\ stage \in {"probing", "serving"}
           \/ route' = route /\ route[s[1]] = None /\ stage \notin {"probing", "serving"},
           UNCHANGED <<hub, supervisorVars>>
    PROVE  RouteInv'
<1> SUFFICES ASSUME NEW r \in Rendezvous
             PROVE  /\ r \notin active \union handled => task'[<<r, 1>>] = "none"
                    /\ task'[<<r, 2>>] = "none"
                    /\ route'[r] # None => route'[r] = 1 /\ task'[<<r, 1>>] \in {"probing", "serving"}
                    /\ hub /\ task'[<<r, 1>>] \in {"probing", "serving"} => route'[r] = 1
  BY DEF RouteInv, Live, supervisorVars
<1>1. /\ s[1] \in Rendezvous /\ s[2] = 1 /\ s = <<s[1], 1>> /\ s[1] \in active \union handled
      /\ route[s[1]] # None => route[s[1]] = 1 /\ Live(s)
      /\ hub /\ Live(s) => route[s[1]] = 1
  BY OneTask
<1>2. /\ <<r, 1>> \in Tasks /\ <<r, 2>> \in Tasks
      /\ s = <<r, 1>> <=> r = s[1]
      /\ s # <<r, 2>>
  BY <1>1 DEF Tasks, Slots
<1>3. /\ task'[<<r, 1>>] = IF r = s[1] THEN stage ELSE task[<<r, 1>>]
      /\ task'[<<r, 2>>] = task[<<r, 2>>]
  <2>1. \A t \in Tasks : task'[t] = IF t = s THEN stage ELSE task[t]
    BY DEF TypeOK
  <2> QED
    BY <1>2, <2>1
<1>4. /\ r \notin active \union handled => task[<<r, 1>>] = "none"
      /\ task[<<r, 2>>] = "none"
      /\ route[r] # None => route[r] = 1 /\ task[<<r, 1>>] \in {"probing", "serving"}
      /\ hub /\ task[<<r, 1>>] \in {"probing", "serving"} => route[r] = 1
  BY DEF RouteInv, Live
<1>5. r # s[1] => route'[r] = route[r]
  BY DEF TypeOK
<1>6. CASE r # s[1]
  BY <1>3, <1>4, <1>5, <1>6
<1>7. CASE r = s[1]
  <2>1. task'[<<r, 1>>] = stage
    BY <1>3, <1>7
  <2>2. CASE route' = route
    BY <1>1, <1>3, <1>4, <1>7, <2>1, <2>2 DEF Live, TypeOK
  <2>3. CASE route' = [route EXCEPT ![s[1]] = None] /\ stage \notin {"probing", "serving"}
    BY <1>1, <1>3, <1>4, <1>7, <2>1, <2>3 DEF TypeOK
  <2>4. CASE route' = [route EXCEPT ![s[1]] = s[2]] /\ stage \in {"probing", "serving"}
    BY <1>1, <1>3, <1>4, <1>7, <2>1, <2>4 DEF TypeOK
  <2> QED
    BY <2>2, <2>3, <2>4
<1> QED
  BY <1>6, <1>7

\* What the route invariant speaks of changes in few of the actions.
LEMMA RouteStep == TypeOK /\ RouteInv /\ [Next]_vars => RouteInv'
<1> SUFFICES ASSUME TypeOK, RouteInv, [Next]_vars PROVE RouteInv'
  OBVIOUS
<1>c. ASSUME UNCHANGED <<task, hubVars, supervisorVars>> PROVE RouteInv'
  BY <1>c DEF RouteInv, Live, hubVars, supervisorVars
<1>1. CASE UNCHANGED vars
  BY <1>1, <1>c DEF vars
<1>2. ASSUME NEW r \in Rendezvous,
             \/ Start(r) \/ Expire(r) \/ SourceReady(r) \/ SourceGivesUp(r)
             \/ SourceHello(r) \/ SourceProbed(r) \/ SourceBreaks(r)
      PROVE  RouteInv'
  BY <1>2, <1>c DEF Start, Expire, SourceReady, SourceGivesUp, SourceHello, SourceProbed, SourceBreaks
<1>3. CASE Poll \/ PollFails
  <2> SUFFICES ASSUME NEW r \in Rendezvous
               PROVE  /\ r \notin active' \union handled' => task'[<<r, 1>>] = "none"
                      /\ task'[<<r, 2>>] = "none"
                      /\ task'[<<r, 1>>] \in {"probing", "serving"} <=> Live(<<r, 1>>)
    BY <1>3 DEF Poll, Pending, PollFails, RouteInv, Live, hubVars
  <2>1. <<r, 1>> \in Tasks /\ <<r, 2>> \in Tasks
    BY DEF Tasks, Slots
  <2>2. task[<<r, 2>>] = "none" /\ (r \notin active \union handled => task[<<r, 1>>] = "none")
    BY DEF RouteInv
  <2>3. CASE Poll
    <3> DEFINE fresh == Fresh({q \in Rendezvous : rdv[q] \in {"waiting", "ready"}},
                              active \ Joined, handled \union Joined)
    <3>1. /\ active' = (active \ Joined) \union fresh
          /\ handled \union Joined \subseteq handled'
          /\ task' = [s \in Tasks |->
                 IF s[1] \in fresh /\ s[2] = (IF task[<<s[1], 1>>] = "none" THEN 1 ELSE 2)
                 THEN "announcing"
                 ELSE IF task[s] = "over" THEN "joined" ELSE task[s]]
      BY <2>3 DEF Poll, Pending
    <3>2. r \in fresh => r \notin active \union handled
      BY DEF Fresh
    <3>3. /\ task'[<<r, 1>>] = IF r \in fresh /\ task[<<r, 1>>] = "none" THEN "announcing"
                               ELSE IF task[<<r, 1>>] = "over" THEN "joined" ELSE task[<<r, 1>>]
          /\ task'[<<r, 2>>] = IF r \in fresh /\ task[<<r, 1>>] # "none" THEN "announcing"
                               ELSE IF task[<<r, 2>>] = "over" THEN "joined" ELSE task[<<r, 2>>]
      BY <2>1, <3>1
    <3> HIDE DEF fresh
    <3> QED
      BY <2>2, <3>1, <3>2, <3>3 DEF Live
  <2>4. CASE PollFails
    <3>1. /\ task'[<<r, 1>>] = IF task[<<r, 1>>] = "over" THEN "joined" ELSE task[<<r, 1>>]
          /\ task'[<<r, 2>>] = IF task[<<r, 2>>] = "over" THEN "joined" ELSE task[<<r, 2>>]
      BY <2>1, <2>4 DEF PollFails
    <3> QED
      BY <2>2, <2>4, <3>1 DEF PollFails, Live
  <2> QED
    BY <1>3, <2>3, <2>4
<1>4. ASSUME NEW s \in Tasks, SessionStep(s) PROVE RouteInv'
  <2>1. CASE Announce(s)
    BY <2>1, TaskMoves DEF Announce, Live, hubVars
  <2>2. CASE TargetReady(s)
    <3>1. route[s[1]] = None
      BY <2>2, OneTask DEF TargetReady, Live
    <3> QED
      BY <2>2, <3>1, TaskMoves DEF TargetReady
  <2>3. CASE TargetGivesUp(s)
    BY <2>3, OneTask, TaskMoves DEF TargetGivesUp, GivesUp, TaskEnds, Unregister, Live
  <2>4. CASE TargetHello(s)
    BY <2>4, <1>c DEF TargetHello
  <2>5. CASE TargetProbed(s)
    BY <2>5, TaskMoves DEF TargetProbed, Live, hubVars
  <2>6. CASE SessionCut(s)
    BY <2>6, TaskMoves DEF SessionCut, TaskEnds, Unregister, Live
  <2>7. ASSUME NEW c \in Channels, Keep(s, c) \/ ServeOpen(s, c) PROVE RouteInv'
    BY <2>7, <1>c DEF Keep, ServeOpen
  <2>8. ASSUME NEW kind \in {"source hello", "source ack"}, ServeProbe(s, kind) PROVE RouteInv'
    BY <2>8, <1>c DEF ServeProbe
  <2> QED
    BY <1>4, <2>1, <2>2, <2>3, <2>4, <2>5, <2>6, <2>7, <2>8 DEF SessionStep
<1>5. ASSUME NEW m \in net, HubReceives(m) PROVE RouteInv'
  <2>1. m.r \in Rendezvous
    BY <1>5, Messages DEF HubReceives
  <2>2. route[m.r] # None => Live(<<m.r, route[m.r]>>)
    BY <2>1 DEF RouteInv
  <2> QED
    BY <1>5, <2>2, <1>c DEF HubReceives, hubVars
<1>6. CASE HubFails
  BY <1>6 DEF HubFails, RouteInv, Live, supervisorVars
<1>7. ASSUME NEW m \in net, Lose(m) PROVE RouteInv'
  BY <1>7, <1>c DEF Lose
<1>8. ASSUME NEW h \in Handlers,
             RegisterChannel(h) \/ TargetRefuses(h) \/ Accept(h) \/ HandlerEnds(h)
      PROVE  RouteInv'
  BY <1>8, <1>c DEF RegisterChannel, TargetRefuses, Accept, HandlerEnds
<1>9. ASSUME NEW c \in Channels, Open(c) \/ OpenTimesOut(c) \/ SourceEnds(c) PROVE RouteInv'
  BY <1>9, <1>c DEF Open, OpenTimesOut, SourceEnds
<1>10. ASSUME NEW c \in Channels, NEW kind \in {"accept", "reject", "close"}, Answer(c, kind)
       PROVE  RouteInv'
  BY <1>10, <1>c DEF Answer, SourceReceives, Outcome
<1> QED
  BY <1>1, <1>2, <1>3, <1>4, <1>5, <1>6, <1>7, <1>8, <1>9, <1>10 DEF Next

\* SessionKeepsItsRoute: for any rendezvous, and any order of polls, ends of tasks and
\* changes at the server, no session loses its place at the hub to another one.
THEOREM SessionsKeepTheirRoutes == Spec => []SessionKeepsItsRoute
<1>1. Init => TypeOK /\ RouteInv
  BY TypeInit, NoneAssumption DEF Init, RouteInv, Live, Tasks, Slots
<1>2. TypeOK /\ RouteInv /\ [Next]_vars => TypeOK' /\ RouteInv'
  BY TypeStep, RouteStep
<1>3. TypeOK /\ RouteInv => SessionKeepsItsRoute
  <2> SUFFICES ASSUME TypeOK, RouteInv, NEW s \in Tasks, hub, Live(s) PROVE route[s[1]] = s[2]
    BY DEF SessionKeepsItsRoute
  <2> QED
    BY OneTask DEF Live
<1> QED
  BY <1>1, <1>2, <1>3, PTL DEF Spec

\* Every variable of a direct attempt stays within its type.
THEOREM ServeTypes == Spec => []TypeOK
<1>1. TypeOK /\ [Next]_vars => TypeOK'
  BY TypeStep
<1> QED
  BY <1>1, TypeInit, PTL DEF Spec

(***************************************************************************)
(* The opening of a channel.                                               *)
(***************************************************************************)
Past(r) == task[<<r, 1>>] \in {"probing", "serving", "over", "joined"}

\* The source hears of a session, and opens channels, only after the target's probe began.
PathInv ==
    /\ \A r \in Rendezvous :
          \/ source[r] = "connected"
          \/ Probe("target hello", r) \in net
          \/ Probe("target ack", r) \in net
          => Past(r)
    /\ \A c \in Channels : opener[c] # "idle" => Past(Of[c])

\* Until its datagram is doubled, an OpenChannel is in one place, and its channel has
\* one handler, whose route is there before the acceptance.
ChanInv(c) ==
    LET m == Tunnel("open", c) IN
    /\ opener[c] = "idle" =>
          /\ m \notin net /\ Tunnel("accept", c) \notin net
          /\ \A s \in Tasks : m \notin inbox[s] /\ m \notin kept[s]
          /\ handler[<<c, 1>>] = "none" /\ handler[<<c, 2>>] = "none"
    /\ \A s \in Tasks : m \in inbox[s] \/ m \in kept[s] => s = <<Of[c], 1>>
    /\ opener[c] = "opening" /\ hub /\ Live(<<Of[c], 1>>) /\ (\A x \in lost : x.c # c) => Somewhere(c)
    /\ m \notin doubled =>
          /\ handler[<<c, 2>>] = "none"
          /\ handler[<<c, 1>>] # "none" =>
                m \notin net /\ \A s \in Tasks : m \notin inbox[s] /\ m \notin kept[s]
          /\ m \in net => \A s \in Tasks : m \notin inbox[s] /\ m \notin kept[s]
          /\ \A s \in Tasks : ~(m \in inbox[s] /\ m \in kept[s])
          /\ Tunnel("accept", c) \in net \/ opener[c] = "bridging" =>
                handler[<<c, 1>>] \in {"bridging", "over"}
          /\ Live(<<Of[c], 1>>) /\ handler[<<c, 1>>] \in {"connecting", "bridging"} => croute[c] = 1

LEMMA Distinct ==
    /\ \A c, d \in Channels, k, l \in {"open", "accept", "reject", "close"} :
          Tunnel(k, c) = Tunnel(l, d) <=> k = l /\ c = d
    /\ \A c \in Channels : \A r, k, l : Tunnel(k, c) # Probe(l, r)
    /\ \A q, r, k, l : Probe(k, q) = Probe(l, r) <=> k = l /\ q = r
  BY NoneAssumption DEF Tunnel, Probe

\* A task's stages only advance.
LEMMA StagesAdvance ==
    ASSUME TypeOK, RouteInv, [Next]_vars, NEW r \in Rendezvous
    PROVE  /\ Past(r) => Past(r)'
           /\ Live(<<r, 1>>)' => Live(<<r, 1>>) \/ ~Past(r)
<1> DEFINE t == <<r, 1>>
<1> SUFFICES task'[t] = task[t]
               \/ (task[t] \in {"none", "announcing", "waiting"} /\ task'[t] # "serving")
               \/ (Live(t) /\ task'[t] \in {"serving", "over"})
               \/ (task[t] \in {"over", "announcing", "waiting"} /\ task'[t] \in {"over", "joined"})
  BY DEF Past, Live
<1>0. t \in Tasks
  BY DEF Tasks, Slots
<1>1. CASE UNCHANGED task
  BY <1>1
<1>2. CASE Poll \/ PollFails
  <2>1. CASE Poll
    <3>1. task'[t] \in {"announcing", "joined", task[t]}
          /\ (task'[t] = "announcing" => task[t] = "announcing" \/ r \notin active \union handled)
          /\ (task'[t] = "joined" => task[t] \in {"over", "joined"})
      BY <1>0, <2>1 DEF Poll, Pending, Joined, Fresh
    <3> QED
      BY <3>1 DEF RouteInv
  <2>2. CASE PollFails
    BY <1>0, <2>2 DEF PollFails
  <2> QED
    BY <1>2, <2>1, <2>2
<1>3. ASSUME NEW s \in Tasks,
             Announce(s) \/ TargetReady(s) \/ TargetGivesUp(s) \/ TargetProbed(s) \/ SessionCut(s)
      PROVE  task'[t] = task[t]
               \/ (task[t] \in {"none", "announcing", "waiting"} /\ task'[t] # "serving")
               \/ (Live(t) /\ task'[t] \in {"serving", "over"})
  <2>1. CASE t = s
    BY <1>0, <1>3, <2>1, ZenonT(60)
    DEF TypeOK, Announce, TargetReady, TargetGivesUp, GivesUp, TargetProbed, SessionCut, TaskEnds, Live
  <2>2. CASE t # s
    BY <1>0, <1>3, <2>2
    DEF TypeOK, Announce, TargetReady, TargetGivesUp, TargetProbed, SessionCut, TaskEnds
  <2> QED
    BY <2>1, <2>2
<1> QED
  BY <1>1, <1>2, <1>3
  DEF Next, SessionStep, vars, Start, Expire, SourceReady, SourceGivesUp, SourceHello, SourceProbed,
      SourceBreaks, TargetHello, Keep, ServeOpen, ServeProbe, HubReceives, Lose, HubFails,
      RegisterChannel, TargetRefuses, Accept, HandlerEnds, Open, OpenTimesOut, SourceEnds, Answer, SourceReceives

LEMMA PathStep == TypeOK /\ RouteInv /\ PathInv /\ [Next]_vars => PathInv'
<1> SUFFICES ASSUME TypeOK, RouteInv, PathInv, [Next]_vars PROVE PathInv'
  OBVIOUS
<1>a. \A r \in Rendezvous : Past(r) => Past(r)'
  BY StagesAdvance
<1>b. \A c \in Channels : Of[c] \in Rendezvous
  BY OfAssumption
<1>d. \A r, q \in Rendezvous :
         /\ Probe("target hello", r) # Probe("source hello", q) /\ Probe("target ack", r) # Probe("source hello", q)
         /\ Probe("target hello", r) # Probe("source ack", q) /\ Probe("target ack", r) # Probe("source ack", q)
         /\ \A c \in Channels, k \in {"open", "accept", "reject", "close"} :
               Probe("target hello", r) # Tunnel(k, c) /\ Probe("target ack", r) # Tunnel(k, c)
         /\ q # r => Probe("target hello", r) # Probe("target hello", q) /\ Probe("target ack", r) # Probe("target ack", q)
         /\ Probe("target hello", r) # Probe("target ack", q)
  BY NoneAssumption DEF Tunnel, Probe
<1>c. ASSUME \A r \in Rendezvous :
                 /\ source'[r] = "connected" => source[r] = "connected" \/ Past(r)
                 /\ Probe("target hello", r) \in net' => Probe("target hello", r) \in net
                 /\ Probe("target ack", r) \in net' => Probe("target ack", r) \in net,
             \A c \in Channels : opener'[c] # "idle" => opener[c] # "idle" \/ Past(Of[c])
      PROVE  PathInv'
  BY <1>a, <1>b, <1>c DEF PathInv
<1>1. CASE UNCHANGED vars
  BY <1>1, <1>c DEF vars, sourceVars, netVars
<1>2. ASSUME NEW r \in Rendezvous, Start(r) \/ Expire(r) \/ SourceGivesUp(r) PROVE PathInv'
  BY <1>2, <1>c DEF Start, Expire, SourceGivesUp, sourceVars, netVars, TypeOK
<1>3. ASSUME NEW r \in Rendezvous, SourceReady(r) \/ SourceHello(r) PROVE PathInv'
  <2>1. net' = net \union {Probe("source hello", r)}
    BY <1>3 DEF SourceReady, SourceHello, Send
  <2>2. \A q \in Rendezvous : source'[q] = "connected" => source[q] = "connected"
    BY <1>3 DEF SourceReady, SourceHello, sourceVars, TypeOK
  <2>3. UNCHANGED opener
    BY <1>3 DEF SourceReady, SourceHello, sourceVars
  <2> QED
    BY <2>1, <2>2, <2>3, <1>a, <1>b, <1>d DEF PathInv
<1>4. ASSUME NEW r \in Rendezvous, SourceProbed(r) PROVE PathInv'
  <2>1. net' \subseteq net \union {Probe("source ack", r)}
    BY <1>4 DEF SourceProbed, Arrives
  <2>2. Past(r)
    BY <1>4 DEF SourceProbed, Arrives, PathInv
  <2>3. UNCHANGED opener /\ \A q \in Rendezvous : q # r => source'[q] = source[q]
    BY <1>4 DEF SourceProbed, TypeOK
  <2> QED
    BY <2>1, <2>2, <2>3, <1>a, <1>b, <1>d DEF PathInv
<1>5. ASSUME NEW r \in Rendezvous, SourceBreaks(r) PROVE PathInv'
  BY <1>5, <1>c DEF SourceBreaks, netVars, TypeOK
<1>6. CASE Poll \/ PollFails \/ HubFails
  BY <1>6, <1>c DEF Poll, Pending, PollFails, HubFails, sourceVars, netVars
<1>7. ASSUME NEW s \in Tasks, SessionStep(s) PROVE PathInv'
  <2> s[1] \in Rendezvous
    BY DEF Tasks
  <2>1. CASE TargetReady(s) \/ TargetHello(s) \/ TargetProbed(s)
    <3>1. s[2] = 1 /\ s = <<s[1], 1>>
      BY <2>1, OneTask DEF TargetReady, TargetHello, TargetProbed
    <3>2. CASE UNCHANGED netVars
      BY <2>1, <3>2, <1>c DEF TargetReady, TargetHello, TargetProbed, sourceVars, netVars
    <3>3. CASE Past(s[1])' /\ net' \subseteq net \union {Probe("target hello", s[1]), Probe("target ack", s[1])}
      BY <2>1, <3>3, <1>a, <1>b, <1>d
      DEF TargetReady, TargetHello, TargetProbed, sourceVars, PathInv
    <3>4. ~UNCHANGED netVars => task'[s] \in {"probing", "serving"}
      BY <2>1 DEF TargetReady, TargetHello, TargetProbed, TypeOK
    <3>5. ~UNCHANGED netVars => Past(s[1])'
      BY <3>1, <3>4 DEF Past
    <3> QED
      BY <2>1, <3>2, <3>3, <3>5 DEF TargetReady, TargetHello, TargetProbed, Send
  <2>2. CASE Announce(s) \/ TargetGivesUp(s) \/ SessionCut(s)
    BY <2>2, <1>c DEF Announce, TargetGivesUp, SessionCut, sourceVars, netVars
  <2>3. ASSUME NEW c \in Channels, Keep(s, c) \/ ServeOpen(s, c) PROVE PathInv'
    BY <2>3, <1>c DEF Keep, ServeOpen, sourceVars, netVars
  <2>4. ASSUME NEW kind \in {"source hello", "source ack"}, ServeProbe(s, kind) PROVE PathInv'
    BY <2>4, <1>c DEF ServeProbe, sourceVars, netVars
  <2> QED
    BY <1>7, <2>1, <2>2, <2>3, <2>4 DEF SessionStep
<1>8. ASSUME NEW m \in net, HubReceives(m) \/ Lose(m) PROVE PathInv'
  BY <1>8, <1>c DEF HubReceives, Lose, Arrives, sourceVars
<1>9. ASSUME NEW h \in Handlers,
             RegisterChannel(h) \/ TargetRefuses(h) \/ Accept(h) \/ HandlerEnds(h)
      PROVE  PathInv'
  <2> h[1] \in Channels
    BY DEF Handlers
  <2>1. net' \subseteq net \union {Tunnel(k, h[1]) : k \in {"accept", "reject", "close"}}
    BY <1>9 DEF RegisterChannel, TargetRefuses, Accept, HandlerEnds, netVars, Send
  <2>2. UNCHANGED sourceVars
    BY <1>9 DEF RegisterChannel, TargetRefuses, Accept, HandlerEnds
  <2> QED
    BY <2>1, <2>2, <1>c, <1>d DEF sourceVars
<1>10. ASSUME NEW c \in Channels, Open(c) PROVE PathInv'
  <2>1. net' = net \union {Tunnel("open", c)} /\ UNCHANGED source
    BY <1>10 DEF Open, Send
  <2>2. \A d \in Channels : d # c => opener'[d] = opener[d]
    BY <1>10 DEF Open, TypeOK
  <2>3. Past(Of[c])
    BY <1>10, <1>b DEF Open, PathInv
  <2> QED
    BY <2>1, <2>2, <2>3, <1>a, <1>b, <1>d DEF PathInv
<1>11. ASSUME NEW c \in Channels, OpenTimesOut(c) \/ SourceEnds(c) PROVE PathInv'
  BY <1>11, <1>c DEF OpenTimesOut, SourceEnds, netVars, TypeOK
<1>12. ASSUME NEW c \in Channels, NEW kind \in {"accept", "reject", "close"}, Answer(c, kind)
       PROVE  PathInv'
  BY <1>12, <1>c DEF Answer, SourceReceives, Outcome, Arrives, TypeOK
<1> QED
  BY <1>1, <1>2, <1>3, <1>4, <1>5, <1>6, <1>7, <1>8, <1>9, <1>10, <1>11, <1>12 DEF Next

\* What does not touch a channel's own datagrams, handlers and ends leaves its part alone;
\* a session that begins has no channel yet.
LEMMA ChannelFrame ==
    ASSUME TypeOK, RouteInv, PathInv, [Next]_vars, NEW c \in Channels, ChanInv(c),
           opener'[c] = opener[c], hub' => hub, lost \subseteq lost', doubled \subseteq doubled',
           \A s \in Tasks : /\ Tunnel("open", c) \in inbox'[s] <=> Tunnel("open", c) \in inbox[s]
                            /\ Tunnel("open", c) \in kept'[s] <=> Tunnel("open", c) \in kept[s],
           \A k \in Slots : handler'[<<c, k>>] = handler[<<c, k>>],
           croute'[c] = croute[c],
           \A kind \in {"open", "accept", "reject", "close"} :
               Tunnel(kind, c) \in net' <=> Tunnel(kind, c) \in net
    PROVE  ChanInv(c)'
<1>1. Of[c] \in Rendezvous
  BY OfAssumption
<1>2. Live(<<Of[c], 1>>)' => Live(<<Of[c], 1>>) \/ opener[c] = "idle"
  BY <1>1, StagesAdvance DEF PathInv
<1>3. Somewhere(c) => Somewhere(c)'
  BY DEF Somewhere
<1>4. handler'[<<c, 1>>] = handler[<<c, 1>>] /\ handler'[<<c, 2>>] = handler[<<c, 2>>]
  BY DEF Slots
<1> QED
  BY <1>2, <1>3, <1>4, NoneAssumption DEF ChanInv, Live

\* When its session ends, nothing of a channel is promised any more.
LEMMA SessionOver ==
    ASSUME NEW c \in Channels, ChanInv(c), UNCHANGED <<opener, handler, netVars>>, ~Live(<<Of[c], 1>>)',
           \A s \in Tasks : inbox'[s] \subseteq inbox[s] /\ kept'[s] \subseteq kept[s]
    PROVE  ChanInv(c)'
  BY DEF ChanInv, Live, netVars

LEMMA ChanStep ==
    ASSUME TypeOK, RouteInv, PathInv, [Next]_vars, NEW c \in Channels, ChanInv(c)
    PROVE  ChanInv(c)'
<1> DEFINE m == Tunnel("open", c)
           r == Of[c]
           t == <<r, 1>>
           kinds == {"open", "accept", "reject", "close"}
<1>a. r \in Rendezvous /\ t \in Tasks
  BY OfAssumption DEF Tasks, Slots
<1>b. /\ \A d \in Channels, k, l \in kinds : Tunnel(k, c) = Tunnel(l, d) <=> k = l /\ c = d
      /\ \A k \in kinds, q \in Rendezvous :
            /\ Tunnel(k, c) # Probe("source hello", q) /\ Tunnel(k, c) # Probe("source ack", q)
            /\ Tunnel(k, c) # Probe("target hello", q) /\ Tunnel(k, c) # Probe("target ack", q)
      /\ \A k \in kinds : Tunnel(k, c).c = c /\ Tunnel(k, c).r = r
  BY Distinct, NoneAssumption DEF Tunnel, Probe
<1>c. \A k \in Slots : <<c, k>> \in Handlers
  BY DEF Handlers
<1> HIDE DEF m, r, t, kinds
<1>1. CASE UNCHANGED vars
  BY <1>1, ChannelFrame DEF vars, sourceVars, hubVars, queues, handlerVars, netVars
<1>2. ASSUME NEW q \in Rendezvous, Start(q) \/ Expire(q) \/ SourceGivesUp(q) PROVE ChanInv(c)'
  BY <1>2, ChannelFrame DEF Start, Expire, SourceGivesUp, sourceVars, hubVars, queues, handlerVars, netVars
<1>3. ASSUME NEW q \in Rendezvous, SourceReady(q) \/ SourceHello(q) PROVE ChanInv(c)'
  <2>1. net' = net \union {Probe("source hello", q)} /\ UNCHANGED <<lost, doubled>>
    BY <1>3 DEF SourceReady, SourceHello, Send
  <2>2. \A k \in kinds : Tunnel(k, c) \in net' <=> Tunnel(k, c) \in net
    BY <1>b, <2>1
  <2>3. UNCHANGED <<opener, hub, inbox, kept, handler, croute>>
    BY <1>3 DEF SourceReady, SourceHello, sourceVars, hubVars, queues, handlerVars
  <2> QED
    BY <2>1, <2>2, <2>3, ChannelFrame DEF kinds
<1>4. ASSUME NEW q \in Rendezvous, SourceProbed(q) PROVE ChanInv(c)'
  <2>1. /\ net' \subseteq net \union {Probe("source ack", q)}
        /\ net \subseteq net' \union {Probe("target ack", q), Probe("target hello", q)}
        /\ lost' = lost /\ doubled \subseteq doubled'
    BY <1>4 DEF SourceProbed, Arrives
  <2>2. \A k \in kinds : Tunnel(k, c) \in net' <=> Tunnel(k, c) \in net
    BY <1>b, <2>1
  <2> QED
    BY <1>4, <2>1, <2>2, ChannelFrame DEF SourceProbed, hubVars, queues, handlerVars, kinds
<1>5. ASSUME NEW q \in Rendezvous, SourceBreaks(q) PROVE ChanInv(c)'
  <2>1. UNCHANGED <<task, hub, inbox, kept, handler, croute, net, lost, doubled>>
    BY <1>5 DEF SourceBreaks, hubVars, queues, handlerVars, netVars
  <2>2. opener'[c] = opener[c] \/ (opener'[c] = "over" /\ opener[c] # "idle")
    BY <1>5 DEF SourceBreaks
  <2> QED
    BY <2>1, <2>2 DEF ChanInv, Live, Somewhere
<1>6. CASE Poll \/ PollFails
  BY <1>6, ChannelFrame DEF Poll, Pending, PollFails, sourceVars, hubVars, queues, handlerVars, netVars
<1>7. ASSUME NEW s \in Tasks, SessionStep(s) PROVE ChanInv(c)'
  <2> s[1] \in Rendezvous
    BY DEF Tasks
  <2>1. CASE Announce(s)
    BY <2>1, ChannelFrame DEF Announce, sourceVars, hubVars, queues, handlerVars, netVars
  <2>2. CASE TargetReady(s) \/ TargetHello(s)
    <3>1. /\ net \subseteq net' /\ net' \subseteq net \union {Probe("target hello", s[1])}
          /\ UNCHANGED <<lost, doubled>>
      BY <2>2 DEF TargetReady, TargetHello, Send, netVars
    <3>2. \A k \in kinds : Tunnel(k, c) \in net' <=> Tunnel(k, c) \in net
      BY <1>b, <3>1, ZenonT(60)
    <3>3. UNCHANGED <<opener, hub, inbox, kept, handler, croute>>
      BY <2>2 DEF TargetReady, TargetHello, sourceVars, hubVars, queues, handlerVars
    <3> QED
      BY <3>1, <3>2, <3>3, ChannelFrame DEF kinds
  <2>3. CASE TargetProbed(s)
    <3>1. /\ net \subseteq net' /\ net' \subseteq net \union {Probe("target ack", s[1])}
          /\ UNCHANGED <<lost, doubled>>
      BY <2>3 DEF TargetProbed, Send, netVars
    <3>2. inbox' = [inbox EXCEPT ![s] = @ \ {Probe("source ack", s[1])}]
            \/ inbox' = [inbox EXCEPT ![s] = @ \ {Probe("source hello", s[1])}]
      BY <2>3 DEF TargetProbed, Read
    <3>3. \A u \in Tasks : Tunnel("open", c) \in inbox'[u] <=> Tunnel("open", c) \in inbox[u]
      BY <3>2, <1>b DEF TypeOK, kinds
    <3>4. \A k \in kinds : Tunnel(k, c) \in net' <=> Tunnel(k, c) \in net
      BY <1>b, <3>1, ZenonT(60)
    <3> QED
      BY <2>3, <3>1, <3>3, <3>4, ChannelFrame DEF TargetProbed, sourceVars, hubVars, handlerVars, kinds
  <2>4. CASE TargetGivesUp(s) \/ SessionCut(s)
    <3>1. /\ task' = [task EXCEPT ![s] = "over"]
          /\ inbox' = [inbox EXCEPT ![s] = {}] /\ kept' = [kept EXCEPT ![s] = {}]
          /\ UNCHANGED <<opener, hub, handler, netVars>>
      BY <2>4 DEF TargetGivesUp, SessionCut, TaskEnds, sourceVars, handlerVars
    <3>2. s = <<s[1], 1>>
      BY <2>4, OneTask DEF TargetGivesUp, GivesUp, SessionCut, Live
    <3>3. CASE s = t
      <4>1. ~Live(t)'
        BY <3>1, <3>3 DEF Live, TypeOK
      <4>2. \A u \in Tasks : inbox'[u] \subseteq inbox[u] /\ kept'[u] \subseteq kept[u]
        BY <3>1 DEF TypeOK
      <4> QED
        BY <3>1, <4>1, <4>2, SessionOver DEF t, r
    <3>4. CASE s # t
      <4>1. s[1] # r
        BY <3>2, <3>4 DEF t
      <4>2. croute'[c] = croute[c]
        BY <2>4, <4>1 DEF TargetGivesUp, SessionCut, handlerVars, TypeOK, r
      <4>3. m \notin inbox[s] /\ m \notin kept[s]
        BY <3>4 DEF ChanInv, m, t, r
      <4>4. \A u \in Tasks : (m \in inbox'[u] <=> m \in inbox[u]) /\ (m \in kept'[u] <=> m \in kept[u])
        BY <3>1, <4>3 DEF TypeOK
      <4> QED
        BY <3>1, <4>2, <4>4, ChannelFrame DEF m, netVars
    <3> QED
      BY <3>3, <3>4
  <2>5. ASSUME NEW d \in Channels, Keep(s, d) PROVE ChanInv(c)'
    <3>1. /\ Tunnel("open", d) \in inbox[s]
          /\ inbox' = [inbox EXCEPT ![s] = @ \ {Tunnel("open", d)}]
          /\ kept' = [kept EXCEPT ![s] = @ \union {Tunnel("open", d)}]
          /\ UNCHANGED <<opener, task, hub, route, handler, croute, net, lost, doubled>>
      BY <2>5 DEF Keep, Read, Kept, sourceVars, hubVars, handlerVars, netVars
    <3>2. \A u \in Tasks :
             /\ inbox'[u] = IF u = s THEN inbox[u] \ {Tunnel("open", d)} ELSE inbox[u]
             /\ kept'[u] = IF u = s THEN kept[u] \union {Tunnel("open", d)} ELSE kept[u]
      BY <3>1 DEF TypeOK
    <3>3. CASE d # c
      <4>1. \A u \in Tasks : (m \in inbox'[u] <=> m \in inbox[u]) /\ (m \in kept'[u] <=> m \in kept[u])
        BY <3>2, <3>3, <1>b DEF m, kinds
      <4> QED
        BY <3>1, <4>1, ChannelFrame DEF m
    <3>4. CASE d = c
      <4>1. \A u \in Tasks : m \in inbox'[u] \/ m \in kept'[u] <=> m \in inbox[u] \/ m \in kept[u]
        BY <3>1, <3>2, <3>4 DEF m
      <4>2. m \notin doubled => \A u \in Tasks : ~(m \in inbox'[u] /\ m \in kept'[u])
        BY <3>1, <3>2, <3>4 DEF ChanInv, m
      <4>3. Somewhere(c) => Somewhere(c)'
        BY <3>1, <4>1 DEF Somewhere, m
      <4> QED
        BY <3>1, <4>1, <4>2, <4>3 DEF ChanInv, Live, m
    <3> QED
      BY <3>3, <3>4
  <2>6. ASSUME NEW d \in Channels, ServeOpen(s, d) PROVE ChanInv(c)'
    <3> DEFINE k == IF handler[<<d, 1>>] = "none" THEN 1 ELSE 2
    <3>1. /\ Tunnel("open", d) \in inbox[s] \/ Tunnel("open", d) \in kept[s]
          /\ handler' = [handler EXCEPT ![<<d, k>>] = "starting"]
          /\ UNCHANGED <<opener, task, hub, croute, net, lost, doubled>>
      BY <2>6 DEF ServeOpen, sourceVars, hubVars, netVars
    <3>2. \/ /\ Tunnel("open", d) \notin kept[s]
             /\ \A u \in Tasks : inbox'[u] = IF u = s THEN inbox[u] \ {Tunnel("open", d)} ELSE inbox[u]
             /\ kept' = kept
          \/ /\ Tunnel("open", d) \in kept[s]
             /\ \A u \in Tasks : kept'[u] = IF u = s THEN kept[u] \ {Tunnel("open", d)} ELSE kept[u]
             /\ inbox' = inbox
      BY <2>6, SMTT(30), ZenonT(60) DEF ServeOpen, TypeOK
    <3>3. CASE d # c
      <4>1. \A u \in Tasks : (m \in inbox'[u] <=> m \in inbox[u]) /\ (m \in kept'[u] <=> m \in kept[u])
        BY <3>2, <3>3, <1>b DEF m, kinds
      <4>2. \A l \in Slots : handler'[<<c, l>>] = handler[<<c, l>>]
        BY <3>1, <3>3, <1>c DEF TypeOK
      <4> QED
        BY <3>1, <4>1, <4>2, ChannelFrame DEF m
    <3>4. CASE d = c
      <4>1. /\ handler[<<c, 1>>] = "none" => handler'[<<c, 1>>] = "starting" /\ handler'[<<c, 2>>] = handler[<<c, 2>>]
            /\ handler[<<c, 1>>] # "none" => handler'[<<c, 2>>] = "starting" /\ handler'[<<c, 1>>] = handler[<<c, 1>>]
        BY <3>1, <3>4, <1>c DEF TypeOK, Slots
      <4>2. Somewhere(c)'
        BY <4>1 DEF Somewhere, Slots
      <4>3. \A u \in Tasks : (m \in inbox'[u] => m \in inbox[u]) /\ (m \in kept'[u] => m \in kept[u])
        BY <3>2
      <4>4. opener[c] # "idle" /\ s = t
        BY <3>1, <3>4 DEF ChanInv, m, t, r
      <4>5. ASSUME m \notin doubled
            PROVE  /\ handler[<<c, 1>>] = "none" /\ m \notin net
                   /\ \A u \in Tasks : m \notin inbox'[u] /\ m \notin kept'[u]
        <5>1. m \in inbox[s] \/ m \in kept[s]
          BY <3>1, <3>4 DEF m
        <5>2. handler[<<c, 1>>] = "none" /\ m \notin net
          BY <4>5, <5>1 DEF ChanInv, m
        <5>3. \A u \in Tasks : u # s => m \notin inbox[u] /\ m \notin kept[u]
          BY <4>4 DEF ChanInv, m, t, r
        <5>4. ~(m \in inbox[s] /\ m \in kept[s])
          BY <4>5 DEF ChanInv, m
        <5>5. m \notin inbox'[s] /\ m \notin kept'[s]
          BY <3>2, <3>4, <5>1, <5>4 DEF m
        <5> QED
          BY <4>3, <5>2, <5>3, <5>5
      <4> QED
        BY <3>1, <4>1, <4>2, <4>3, <4>4, <4>5 DEF ChanInv, Live, m, t, r
    <3> QED
      BY <3>3, <3>4
  <2>7. ASSUME NEW kind \in {"source hello", "source ack"}, ServeProbe(s, kind) PROVE ChanInv(c)'
    <3>1. Tunnel("open", c) # Probe(kind, s[1])
      BY <1>b DEF kinds
    <3>2. \A u \in Tasks : Tunnel("open", c) \in inbox'[u] <=> Tunnel("open", c) \in inbox[u]
      BY <2>7, <3>1 DEF ServeProbe, Read, TypeOK
    <3> QED
      BY <2>7, <3>2, ChannelFrame DEF ServeProbe, sourceVars, hubVars, handlerVars, netVars
  <2> QED
    BY <1>7, <2>1, <2>2, <2>3, <2>4, <2>5, <2>6, <2>7 DEF SessionStep
<1>8. ASSUME NEW x \in net, HubReceives(x) PROVE ChanInv(c)'
  <2>1. /\ hub /\ net' \subseteq net /\ net \subseteq net' \union {x} /\ lost' = lost
        /\ doubled \subseteq doubled' /\ (x \in net' => x \in doubled')
        /\ UNCHANGED <<opener, task, hub, kept, handler, croute>>
    BY <1>8 DEF HubReceives, Arrives, sourceVars, handlerVars
  <2>2. x.r \in Rendezvous
    BY <1>8, Messages DEF HubReceives
  <2>3. \/ inbox' = inbox /\ ~Live(<<x.r, 1>>)
        \/ /\ \A u \in Tasks : inbox'[u] = IF u = <<x.r, 1>> THEN inbox[u] \union {x} ELSE inbox[u]
           /\ Live(<<x.r, 1>>)
    <3>1. CASE route[x.r] = None
      <4>1. inbox' = inbox
        BY <1>8, <3>1 DEF HubReceives
      <4>2. ~Live(<<x.r, 1>>)
        <5>1. None # 1
          BY NoneAssumption
        <5> QED
          BY <2>1, <2>2, <3>1, <5>1 DEF RouteInv
      <4> QED
        BY <4>1, <4>2
    <3>2. CASE route[x.r] # None
      <4>1. route[x.r] = 1 /\ Live(<<x.r, 1>>)
        BY <2>2, <3>2 DEF RouteInv
      <4>2. inbox' = [inbox EXCEPT ![<<x.r, 1>>] = @ \union {x}]
        BY <1>8, <3>2, <4>1 DEF HubReceives
      <4>3. \A u \in Tasks : inbox'[u] = IF u = <<x.r, 1>> THEN inbox[u] \union {x} ELSE inbox[u]
        BY <4>2 DEF TypeOK
      <4> QED
        BY <4>1, <4>3
    <3> QED
      BY <3>1, <3>2
  <2>4. CASE \A k \in kinds : x # Tunnel(k, c)
    BY <2>1, <2>3, <2>4, ChannelFrame DEF kinds
  <2>5. CASE x = m
    <3>1. opener[c] # "idle"
      BY <2>5 DEF ChanInv, m
    <3>2. CASE ~Live(t)
      <4>1. \A u \in Tasks : inbox'[u] \subseteq inbox[u] \union {m}
        BY <2>3, <2>5
      <4>2. \A u \in Tasks : m \in inbox'[u] => m \in inbox[u]
        BY <2>3, <2>5, <3>2, <1>b DEF m, t, r, kinds
      <4>3. ~Live(t)' /\ (m \notin doubled' => m \notin doubled)
        BY <2>1, <3>2 DEF Live
      <4>4. Tunnel("accept", c) \in net' => Tunnel("accept", c) \in net
        BY <2>1
      <4> QED
        BY <2>1, <3>1, <4>2, <4>3, <4>4 DEF ChanInv, m, t, r
    <3>3. CASE Live(t)
      <4>1. \A u \in Tasks : inbox'[u] = IF u = t THEN inbox[u] \union {m} ELSE inbox[u]
        BY <2>3, <2>5, <3>3, <1>b DEF m, t, kinds
      <4>2. Somewhere(c)'
        BY <4>1, <1>a DEF Somewhere, m
      <4>3. m \notin doubled' => m \notin doubled /\ m \notin net'
        BY <2>1, <2>5
      <4>4. \A u \in Tasks : m \in inbox'[u] => m \in inbox[u] \/ u = t
        BY <4>1
      <4> QED
        BY <2>1, <2>5, <3>1, <4>2, <4>3, <4>4 DEF ChanInv, Live, m, t, r
    <3> QED
      BY <3>2, <3>3
  <2>6. CASE \E k \in kinds \ {"open"} : x = Tunnel(k, c)
    <3>1. x.kind \in {"accept", "reject", "close"}
      BY <2>6 DEF Tunnel, kinds
    <3>2. x \notin ToTarget
      BY <3>1 DEF ToTarget, Probes, Tunnels
    <3> QED
      BY <1>8, <3>2 DEF HubReceives
  <2> QED
    BY <2>4, <2>5, <2>6 DEF m, kinds
<1>9. ASSUME NEW x \in net, Lose(x) PROVE ChanInv(c)'
  <2>1. /\ net' = net \ {x} /\ lost' = lost \union {x}
        /\ UNCHANGED <<opener, task, hub, inbox, kept, handler, croute, doubled>>
    BY <1>9 DEF Lose, sourceVars, hubVars, queues, handlerVars
  <2>2. CASE \E k \in kinds : x = Tunnel(k, c)
    <3>1. x.c = c
      BY <2>2, <1>b
    <3> QED
      BY <2>1, <3>1 DEF ChanInv, Live
  <2>3. CASE \A k \in kinds : x # Tunnel(k, c)
    BY <2>1, <2>3, ChannelFrame DEF kinds
  <2> QED
    BY <2>2, <2>3
<1>10. CASE HubFails
  BY <1>10, ChannelFrame DEF HubFails, sourceVars, queues, handlerVars, netVars
<1>11. ASSUME NEW h \in Handlers,
              RegisterChannel(h) \/ TargetRefuses(h) \/ Accept(h) \/ HandlerEnds(h)
       PROVE  ChanInv(c)'
  <2> h[1] \in Channels /\ h[2] \in Slots /\ h = <<h[1], h[2]>>
    BY DEF Handlers
  <2>1. /\ UNCHANGED <<opener, task, hub, inbox, kept, lost, doubled>>
        /\ net \subseteq net' /\ net' \subseteq net \union {Tunnel(k, h[1]) : k \in {"accept", "reject", "close"}}
        /\ Tunnel("accept", h[1]) \in net' => Tunnel("accept", h[1]) \in net \/ Accept(h)
    BY <1>11, Distinct DEF RegisterChannel, TargetRefuses, Accept, HandlerEnds, Send, sourceVars, hubVars, queues, netVars
  <2>2. CASE h[1] # c
    <3>1. \A k \in Slots : handler'[<<c, k>>] = handler[<<c, k>>]
      BY <1>11, <1>c, <2>2 DEF RegisterChannel, TargetRefuses, Accept, HandlerEnds, HandlerOver, TypeOK
    <3>2. croute'[c] = croute[c]
      BY <1>11, <2>2 DEF RegisterChannel, TargetRefuses, Accept, HandlerEnds, HandlerOver, TypeOK
    <3>3. \A k \in kinds : Tunnel(k, c) \in net' <=> Tunnel(k, c) \in net
      BY <2>1, <2>2, <1>b, ZenonT(60) DEF kinds
    <3> QED
      BY <2>1, <3>1, <3>2, <3>3, ChannelFrame DEF kinds
  <2>3. CASE h[1] = c
    <3>1. handler[h] # "none" /\ opener[c] # "idle"
      BY <1>11, <2>3 DEF RegisterChannel, TargetRefuses, Accept, HandlerEnds, ChanInv, Slots
    <3>2. \A k \in Slots : handler'[<<c, k>>] = IF k = h[2] THEN handler'[h] ELSE handler[<<c, k>>]
      BY <1>11, <1>c, <2>3 DEF RegisterChannel, TargetRefuses, Accept, HandlerEnds, HandlerOver, TypeOK
    <3>3. m \notin doubled => h[2] = 1 /\ h = <<c, 1>> /\ m \notin net
      BY <2>3, <3>1 DEF ChanInv, Slots, m
    <3>4. m \in net' <=> m \in net
      BY <2>1, <2>3, <1>b DEF m, kinds
    <3>5. Somewhere(c) => Somewhere(c)'
      <4>1. CASE RegisterChannel(h)
        <5>1. handler'[h] = "connecting"
          BY <4>1 DEF RegisterChannel, TypeOK
        <5>2. \A k \in Slots : handler[<<c, k>>] \in {"starting", "connecting"} =>
                  handler'[<<c, k>>] \in {"starting", "connecting"}
          BY <3>2, <5>1
        <5> QED
          BY <2>1, <5>2 DEF Somewhere
      <4>2. CASE TargetRefuses(h) \/ Accept(h)
        <5>1. \E kind \in {"open", "accept", "reject", "close"} : Tunnel(kind, c) \in net'
          BY <2>3, <4>2 DEF TargetRefuses, Accept, Send
        <5> QED
          BY <5>1 DEF Somewhere
      <4>3. CASE HandlerEnds(h)
        <5>1. \A k \in Slots : handler[<<c, k>>] \in {"starting", "connecting"} => handler'[<<c, k>>] = handler[<<c, k>>]
          BY <2>3, <3>2, <4>3 DEF HandlerEnds
        <5> QED
          BY <2>1, <5>1 DEF Somewhere
      <4> QED
        BY <1>11, <4>1, <4>2, <4>3
    <3>6. ASSUME m \notin doubled
          PROVE  /\ handler'[<<c, 2>>] = "none" /\ m \notin net
                 /\ \A u \in Tasks : m \notin inbox[u] /\ m \notin kept[u]
                 /\ Tunnel("accept", c) \in net' \/ opener[c] = "bridging" =>
                        handler'[<<c, 1>>] \in {"bridging", "over"}
                 /\ Live(t) /\ handler'[<<c, 1>>] \in {"connecting", "bridging"} => croute'[c] = 1
      <4>1. h = <<c, 1>> /\ h[2] = 1 /\ handler'[<<c, 2>>] = handler[<<c, 2>>] /\ handler[<<c, 2>>] = "none"
        BY <3>2, <3>3, <3>6 DEF ChanInv, m, Slots
      <4>2. /\ Tunnel("accept", c) \in net \/ opener[c] = "bridging" => handler[h] \in {"bridging", "over"}
            /\ Live(t) /\ handler[h] \in {"connecting", "bridging"} => croute[c] = 1
        BY <3>6, <4>1 DEF ChanInv, m, t, r
      <4>3. m \notin net /\ \A u \in Tasks : m \notin inbox[u] /\ m \notin kept[u]
        BY <3>1, <3>6, <4>1 DEF ChanInv, m
      <4>4. CASE RegisterChannel(h)
        <5>1. handler[h] = "starting" /\ croute'[c] = 1 /\ net' = net
          BY <2>3, <4>1, <4>4 DEF RegisterChannel, TypeOK, netVars
        <5> QED
          BY <4>1, <4>2, <4>3, <5>1
      <4>5. CASE Accept(h)
        <5>1. handler[h] = "connecting" /\ handler'[<<c, 1>>] = "bridging" /\ croute' = croute
          BY <4>1, <4>5 DEF Accept, TypeOK
        <5> QED
          BY <4>1, <4>2, <4>3, <5>1
      <4>6. CASE TargetRefuses(h) \/ HandlerEnds(h)
        <5>1. handler'[<<c, 1>>] = "over"
          BY <4>1, <4>6 DEF TargetRefuses, HandlerEnds, HandlerOver, TypeOK
        <5> QED
          BY <4>1, <4>3, <5>1
      <4> QED
        BY <1>11, <4>4, <4>5, <4>6
    <3> QED
      BY <2>1, <3>1, <3>4, <3>5, <3>6 DEF ChanInv, Live, m, t, r
  <2> QED
    BY <2>2, <2>3
<1>12. ASSUME NEW d \in Channels, Open(d) PROVE ChanInv(c)'
  <2>1. /\ opener[d] = "idle" /\ opener' = [opener EXCEPT ![d] = "opening"]
        /\ net' = net \union {Tunnel("open", d)}
        /\ UNCHANGED <<task, hub, inbox, kept, handler, croute, lost, doubled>>
    BY <1>12 DEF Open, Send, hubVars, queues, handlerVars
  <2>2. CASE d # c
    BY <2>1, <2>2, <1>b, ChannelFrame, ZenonT(60) DEF TypeOK, kinds
  <2>3. CASE d = c
    <3>1. opener'[c] = "opening" /\ m \in net' /\ (Tunnel("accept", c) \in net' => Tunnel("accept", c) \in net)
      BY <2>1, <2>3, <1>b DEF TypeOK, m, kinds
    <3>2. Somewhere(c)'
      BY <3>1 DEF Somewhere, m
    <3> QED
      BY <2>1, <2>3, <3>1, <3>2 DEF ChanInv, Live, m
  <2> QED
    BY <2>2, <2>3
<1>13. ASSUME NEW d \in Channels, OpenTimesOut(d) \/ SourceEnds(d) PROVE ChanInv(c)'
  <2>1. /\ opener[d] # "idle" /\ opener' = [opener EXCEPT ![d] = "over"]
        /\ UNCHANGED <<task, hub, inbox, kept, handler, croute, net, lost, doubled>>
    BY <1>13 DEF OpenTimesOut, SourceEnds, hubVars, queues, handlerVars, netVars
  <2>2. CASE d # c
    BY <2>1, <2>2, ChannelFrame DEF TypeOK
  <2>3. CASE d = c
    BY <2>1, <2>3 DEF ChanInv, Live, TypeOK
  <2> QED
    BY <2>2, <2>3
<1>14. ASSUME NEW d \in Channels, NEW kind \in {"accept", "reject", "close"}, Answer(d, kind)
       PROVE  ChanInv(c)'
  <2>1. /\ Tunnel(kind, d) \in net
        /\ net' \subseteq net /\ net \subseteq net' \union {Tunnel(kind, d)}
        /\ lost' = lost /\ doubled \subseteq doubled'
        /\ \A e \in Channels : opener'[e] = IF e # d THEN opener[e]
              ELSE CASE opener[e] = "opening" /\ kind = "accept" -> "bridging"
                     [] opener[e] \in {"opening", "bridging"} /\ kind # "accept" -> "over"
                     [] OTHER -> opener[e]
        /\ UNCHANGED <<task, hub, inbox, kept, handler, croute>>
    BY <1>14 DEF Answer, SourceReceives, Outcome, Arrives, hubVars, queues, handlerVars, TypeOK
  <2> kind \in kinds /\ "open" \in kinds /\ kind # "open"
    BY DEF kinds
  <2>2. CASE d # c
    <3>1. \A k \in kinds : Tunnel(k, c) # Tunnel(kind, d)
      BY <2>2 DEF Tunnel
    <3>2. \A k \in kinds : Tunnel(k, c) \in net' <=> Tunnel(k, c) \in net
      BY <2>1, <3>1
    <3> QED
      BY <2>1, <2>2, <3>2, ChannelFrame DEF kinds
  <2>3. CASE d = c
    <3>1. m \in net' <=> m \in net
      <4>1. m # Tunnel(kind, d)
        BY <1>b DEF m
      <4> QED
        BY <2>1, <4>1
    <3>2. /\ opener'[c] # "opening"
          /\ opener'[c] = "bridging" => opener[c] = "bridging" \/ (kind = "accept" /\ opener[c] = "opening")
          /\ opener'[c] = "idle" => opener[c] = "idle"
      BY <2>1, <2>3
    <3>3. Tunnel("accept", c) \in net' \/ opener'[c] = "bridging" =>
              Tunnel("accept", c) \in net \/ opener[c] = "bridging"
      BY <2>1, <2>3, <3>2
    <3> QED
      BY <2>1, <3>1, <3>2, <3>3 DEF ChanInv, Live, m
  <2> QED
    BY <2>2, <2>3
<1> QED
  BY <1>1, <1>2, <1>3, <1>4, <1>5, <1>6, <1>7, <1>8, <1>9, <1>10, <1>11, <1>12, <1>13, <1>14 DEF Next

ServeInv ==
    /\ TypeOK /\ RouteInv /\ PathInv
    /\ \A c \in Channels : ChanInv(c)

LEMMA ServeInvariant == Spec => []ServeInv
<1>1. Init => ServeInv
  <2> SUFFICES ASSUME Init PROVE ServeInv
    OBVIOUS
  <2>1. TypeOK
    BY TypeInit
  <2>2. RouteInv
    BY NoneAssumption DEF Init, RouteInv, Live, Tasks, Slots
  <2>3. PathInv
    BY DEF Init, PathInv
  <2>4. ASSUME NEW c \in Channels PROVE ChanInv(c)
    BY OfAssumption DEF Init, ChanInv, Tasks, Handlers, Slots
  <2> QED
    BY <2>1, <2>2, <2>3, <2>4 DEF ServeInv
<1>2. ServeInv /\ [Next]_vars => ServeInv'
  BY TypeStep, RouteStep, PathStep, ChanStep DEF ServeInv
<1> QED
  BY <1>1, <1>2, PTL DEF Spec

\* OpenNotSwallowed: for any channels, and any number of losses and repetitions, a source
\* that waits for a target whose session lives waits for something under way, unless a
\* datagram of its own channel was lost.
THEOREM OpensAreNotSwallowed == Spec => []OpenNotSwallowed
<1>1. ServeInv => OpenNotSwallowed
  <2> SUFFICES ASSUME ServeInv, NEW c \in Channels, opener[c] = "opening", hub,
                      NEW k \in Slots, Live(<<Of[c], k>>), \A x \in lost : x.c # c
               PROVE  Somewhere(c)
    BY DEF OpenNotSwallowed
  <2>1. Of[c] \in Rendezvous
    BY OfAssumption
  <2>2. Live(<<Of[c], 1>>)
    BY <2>1 DEF ServeInv, RouteInv, Live, Slots
  <2> QED
    BY <2>2 DEF ServeInv, ChanInv
<1> QED
  BY <1>1, ServeInvariant, PTL

\* AcceptedIsRouted: for any channels, a channel that the source may believe open has its
\* target's handler registered.
THEOREM AcceptedAreRouted == Spec => []AcceptedIsRouted
<1>1. ServeInv => AcceptedIsRouted
  <2> SUFFICES ASSUME ServeInv, NEW c \in Channels,
                      Tunnel("accept", c) \in net \/ opener[c] = "bridging",
                      Tunnel("open", c) \notin doubled,
                      NEW k \in Slots, Live(<<Of[c], k>>)
               PROVE  \E l \in Slots : \/ handler[<<c, l>>] = "bridging" /\ croute[c] = l
                                       \/ handler[<<c, l>>] = "over"
    BY DEF AcceptedIsRouted
  <2>1. Of[c] \in Rendezvous
    BY OfAssumption
  <2>2. Live(<<Of[c], 1>>)
    BY <2>1 DEF ServeInv, RouteInv, Live, Slots
  <2>3. \/ handler[<<c, 1>>] = "bridging" /\ croute[c] = 1
        \/ handler[<<c, 1>>] = "over"
    BY <2>2 DEF ServeInv, ChanInv
  <2> QED
    BY <2>3 DEF Slots
<1> QED
  BY <1>1, ServeInvariant, PTL
=============================================================================
