--------------------------- MODULE LwipLinkProofs ---------------------------
(* For every queue length and every number of link changes and conflicts:  *)
(* LwipLink's type invariant; that the state the lwIP port publishes       *)
(* follows lwIP's interface; and that lwIP's interface and its ACD client  *)
(* follow the ports, by an invariant on the requests in between; and, from *)
(* the monitor to OpENer, that all of them agree once nothing is on its    *)
(* way, and that the steps on the way come to an end.                      *)
EXTENDS LwipLink, SequenceTheorems, FiniteSetTheorems, TLAPS

\* The main thread broadcasts only where it notifies, so that the step after its broadcast
\* is not beyond the last: TypeOK alone is not inductive.
MainBroadcasts == broadcast.by = "main" => \E s \in {"notify", "opener_notify"} : At(s)

IInv == TypeOK /\ MainBroadcasts

LEMMA Bounds ==
  QueueLength \in Nat \ {0} /\ MaxLinkChanges \in Nat /\ MaxAcdEvents \in Nat
  BY BoundAssumption

\* A step other than the last is followed by another.
LEMMA NextStep ==
  ASSUME main.step \in 1..Len(Steps), NEW s, At(s), s # "done"
  PROVE  main.step + 1 \in 1..Len(Steps)
  <1>1. Len(Steps) = 14 /\ Steps[14] = "done"
    BY DEF Steps
  <1> QED
    BY <1>1 DEF At

-----------------------------------------------------------------------------
(* The requests that are sent.                                             *)

LEMMA OneRequest ==
  ASSUME NEW S, NEW r \in S
  PROVE  <<r>> \in Seq(S) /\ Len(<<r>>) = 1 /\ <<r>>[1] = r
  OBVIOUS

LEMMA EdgeRequestsType ==
  ASSUME NEW old, NEW new
  PROVE  EdgeRequests(old, new) \in Seq(LinkRequests)
  <1>0. /\ <<>> \in Seq(LinkRequests)
        /\ <<"LINK_UP">> \in Seq(LinkRequests) /\ <<"LINK_DOWN">> \in Seq(LinkRequests)
        /\ <<"PORT_LINK_UP">> \in Seq(LinkRequests)
        /\ <<"PORT_LINK_DOWN">> \in Seq(LinkRequests)
    BY OneRequest, EmptySeq DEF LinkRequests
  <1>1. LinkEdge(old, new) \in Seq(LinkRequests)
    BY <1>0 DEF LinkEdge
  <1>2. \A p : PortEdge(p, old, new) \in Seq(LinkRequests)
    BY <1>0 DEF PortEdge
  <1>3. LinkEdge(old, new) \o PortEdge(1, old, new) \in Seq(LinkRequests)
    BY <1>1, <1>2, ConcatProperties
  <1> QED
    BY <1>2, <1>3, ConcatProperties DEF EdgeRequests

LEMMA RoomInQueue ==
  ASSUME TypeOK
  PROVE  Room \in Nat /\ Room <= QueueLength - Len(queue) /\ Len(queue) \in Nat
  BY Bounds, LenProperties DEF TypeOK, Room

\* What a request does to the queue: it takes a prefix of what is sent.
LEMMA RequestQueue ==
  ASSUME TypeOK, NEW rs \in Seq(Requests), Request(rs)
  PROVE  \E sent \in 0..Len(rs) :
           /\ queue' \in Seq(Requests)
           /\ Len(queue') = Len(queue) + sent /\ Len(queue') <= QueueLength
           /\ \A i \in 1..Len(queue) : queue'[i] = queue[i]
           /\ \A i \in 1..sent : queue'[Len(queue) + i] = rs[i]
           /\ lost' = lost \cup Kinds({rs[i] : i \in (sent + 1)..Len(rs)})
  <1>1. Room \in Nat /\ Room <= QueueLength - Len(queue) /\ Len(queue) \in Nat
    BY RoomInQueue
  <1>2. Len(rs) \in Nat /\ \A i \in 1..Len(rs) : rs[i] \in Requests
    BY LenProperties, ElementOfSeq
  <1> DEFINE sent == IF Len(rs) <= Room THEN Len(rs) ELSE Room
             part == SubSeq(rs, 1, sent)
  <1>3. sent \in 0..Len(rs) /\ sent \in Nat /\ sent <= Room
    BY <1>1, <1>2
  <1>4. \A i \in 1..sent : rs[i] \in Requests
    BY <1>2, <1>3
  <1>5. queue' = queue \o part
    BY DEF Request
  <1>6. lost' = lost \cup Kinds({rs[i] : i \in (sent + 1)..Len(rs)})
    BY DEF Request
  <1>7. queue \in Seq(Requests)
    BY DEF TypeOK
  <1> HIDE DEF sent
  <1>8. /\ part \in Seq(Requests)
        /\ Len(part) = sent
        /\ \A i \in 1..sent : part[i] = rs[i]
    <2>1. /\ part \in Seq(Requests)
          /\ Len(part) = IF 1 <= sent THEN sent - 1 + 1 ELSE 0
          /\ \A i \in 1..(sent - 1 + 1) : part[i] = rs[1 + i - 1]
      BY <1>3, <1>4, SubSeqProperties
    <2> QED
      BY <1>3, <2>1
  <1> HIDE DEF part
  <1>9. /\ queue' \in Seq(Requests)
        /\ Len(queue') = Len(queue) + sent
        /\ \A i \in 1..(Len(queue) + sent) :
             queue'[i] = IF i <= Len(queue) THEN queue[i] ELSE part[i - Len(queue)]
    <2>1. /\ queue \o part \in Seq(Requests)
          /\ Len(queue \o part) = Len(queue) + Len(part)
          /\ \A i \in 1..(Len(queue) + Len(part)) :
               (queue \o part)[i] = IF i <= Len(queue) THEN queue[i] ELSE part[i - Len(queue)]
      BY ONLY <1>7, <1>8, ConcatProperties
    <2> QED
      BY ONLY <1>5, <1>8, <2>1
  <1>10. Len(queue') <= QueueLength
    BY <1>1, <1>3, <1>9, Bounds
  <1>11. \A i \in 1..Len(queue) : queue'[i] = queue[i]
    BY <1>1, <1>3, <1>9
  <1>12. \A i \in 1..sent : queue'[Len(queue) + i] = rs[i]
    <2>1. SUFFICES ASSUME NEW i \in 1..sent
                   PROVE  queue'[Len(queue) + i] = rs[i]
      OBVIOUS
    <2>2. /\ Len(queue) + i \in 1..(Len(queue) + sent)
          /\ ~(Len(queue) + i <= Len(queue)) /\ Len(queue) + i - Len(queue) = i
      BY <1>1, <1>3
    <2> QED
      BY <1>8, <1>9, <2>2
  <1> QED
    BY <1>3, <1>6, <1>9, <1>10, <1>11, <1>12

LEMMA RequestType ==
  ASSUME TypeOK, NEW rs \in Seq(Requests), Request(rs)
  PROVE  /\ queue' \in Seq(Requests) /\ Len(queue') <= QueueLength
         /\ lost' \subseteq {"link", "ip"}
  BY RequestQueue DEF TypeOK, Kinds

\* A request that is taken is no longer in the queue.
LEMMA TakesQueue ==
  ASSUME TypeOK, NEW r, Takes(r)
  PROVE  /\ queue' \in Seq(Requests)
         /\ Len(queue) \in Nat \ {0} /\ queue[1] = r
         /\ Len(queue') = Len(queue) - 1 /\ Len(queue') <= QueueLength
         /\ \A i \in 1..Len(queue') : queue'[i] = queue[i + 1]
  <1>1. queue \in Seq(Requests) /\ queue # <<>> /\ queue' = Tail(queue)
    BY DEF TypeOK, Takes
  <1>2. Len(queue) \in Nat \ {0}
    BY <1>1, EmptySeq
  <1>3. queue[1] = r
    BY <1>1 DEF Takes
  <1>4. /\ queue' \in Seq(Requests)
        /\ Len(queue') = Len(queue) - 1
        /\ \A i \in 1..Len(queue') : queue'[i] = queue[i + 1]
    BY <1>1, HeadTailProperties
  <1>5. Len(queue) <= QueueLength
    BY DEF TypeOK
  <1>6. Len(queue') <= QueueLength
    BY <1>2, <1>4, <1>5, Bounds
  <1> QED
    BY <1>2, <1>3, <1>4, <1>6
-----------------------------------------------------------------------------
(* Type correctness.                                                       *)

LEMMA StatusChangedType ==
  ASSUME NEW n
  PROVE  /\ StatusChanged(n) \in Seq(Requests)
         /\ StatusChanged(n) \o <<"ACD">> \in Seq(Requests)
         /\ <<"ACD">> \o StatusChanged(n) \o <<"ACD">> \in Seq(Requests)
  <1>1. <<"ACD">> \in Seq(Requests) /\ <<>> \in Seq(Requests)
    BY OneRequest, EmptySeq DEF Requests
  <1>2. IpRequest(n) \in Requests
    BY DEF IpRequest, Requests, IpRequests
  <1>3. StatusChanged(n) \in Seq(Requests)
    BY <1>1, <1>2, OneRequest DEF StatusChanged
  <1>4. <<"ACD">> \o StatusChanged(n) \in Seq(Requests)
    BY <1>1, <1>3, ConcatProperties
  <1> QED
    BY <1>1, <1>3, <1>4, ConcatProperties

LEMMA AcdRequestType ==
  <<>> \in Seq(Requests) /\ <<"ACD">> \in Seq(Requests)
  BY OneRequest, EmptySeq DEF Requests

LEMMA BroadcastType ==
  ASSUME TypeOK, NEW by \in {"monitor", "main"}
  PROVE  /\ \A mask \in SUBSET Ports :
              BroadcastStarts(by, mask) => broadcast' \in BroadcastStates
         /\ BroadcastEnds(by) =>
              /\ port_link_status' \in SUBSET Ports /\ opener_ports' \in SUBSET Ports
              /\ source' \in Sources /\ broadcast' \in BroadcastStates
  <1>1. <<>> \in Seq(LinkRequests)
    BY EmptySeq
  <1>2. ASSUME NEW mask \in SUBSET Ports, BroadcastStarts(by, mask)
        PROVE  broadcast' \in BroadcastStates
    BY <1>1, <1>2, EdgeRequestsType DEF BroadcastStarts, BroadcastStates
  <1>3. ASSUME BroadcastEnds(by)
        PROVE  /\ port_link_status' \in SUBSET Ports /\ opener_ports' \in SUBSET Ports
               /\ source' \in Sources /\ broadcast' \in BroadcastStates
    <2>1. broadcast.mask \in SUBSET Ports
      BY DEF TypeOK, BroadcastStates
    <2>2. port_link_status' \in SUBSET Ports /\ opener_ports' \in SUBSET Ports
      BY <1>3, <2>1 DEF BroadcastEnds, TypeOK
    <2>3. source' \in Sources
      BY <1>3 DEF BroadcastEnds, TypeOK, Sources
    <2>4. broadcast' \in BroadcastStates
      BY <1>1, <1>3 DEF BroadcastEnds, NoBroadcast, BroadcastStates
    <2> QED
      BY <2>2, <2>3, <2>4
  <1> QED
    BY <1>2, <1>3

LEMMA InitType == Init => TypeOK
  <1> SUFFICES ASSUME Init PROVE TypeOK
    OBVIOUS
  <1>1. <<>> \in Seq(Requests) /\ <<>> \in Seq(LinkRequests) /\ Len(<<>>) = 0
    BY EmptySeq
  <1>2. 1 \in 1..Len(Steps)
    BY DEF Steps
  <1>3. monitor \in MonitorStates /\ broadcast \in BroadcastStates
    BY <1>1 DEF Init, MonitorStates, BroadcastStates, NoBroadcast
  <1>4. netif \in NetifStates /\ main \in MainStates /\ source \in Sources
    BY <1>2 DEF Init, NetifStates, MainStates, Sources
  <1>5. launcher \in LauncherSteps /\ acd \in AcdStates
    BY DEF Init, LauncherSteps, AcdStates
  <1>6. 0 \in 0..MaxLinkChanges /\ 0 \in 0..MaxAcdEvents /\ 0 <= QueueLength /\ 0 \in Nat
    BY Bounds
  <1> QED
    BY <1>1, <1>3, <1>4, <1>5, <1>6 DEF Init, TypeOK

LEMMA MonitorType ==
  ASSUME TypeOK, Monitor
  PROVE  TypeOK'
  <1> USE DEF queueVars, portVars, lwipVars, stateVars, boundVars
  <1>1. CASE MonitorPolls
    <2>1. monitor' \in MonitorStates
      BY <1>1 DEF MonitorPolls, TypeOK, MonitorStates
    <2> QED
      BY <1>1, <2>1 DEF MonitorPolls, TypeOK
  <1>2. CASE MonitorUpdates
    <2>1. monitor.polled \cap {1} \in SUBSET Ports
          /\ link_status \cup (monitor.polled \cap {2}) \in SUBSET Ports
      BY DEF TypeOK, Ports
    <2>2. link_status' \in SUBSET Ports
      BY <1>2, <2>1 DEF MonitorUpdates
    <2>3. monitor' \in MonitorStates
      BY <1>2 DEF MonitorUpdates, MonitorGoes, TypeOK, MonitorStates
    <2> QED
      BY <1>2, <2>2, <2>3 DEF MonitorUpdates, TypeOK
  <1>3. CASE MonitorFindsNoChange
    <2>1. monitor' \in MonitorStates
      BY <1>3 DEF MonitorFindsNoChange, MonitorGoes, TypeOK, MonitorStates
    <2> QED
      BY <1>3, <2>1 DEF MonitorFindsNoChange, TypeOK
  <1>4. CASE MonitorBroadcasts
    <2>1. broadcast' \in BroadcastStates
      BY <1>4, BroadcastType DEF MonitorBroadcasts, TypeOK
    <2>2. monitor' \in MonitorStates
      BY <1>4 DEF MonitorBroadcasts, MonitorGoes, TypeOK, MonitorStates
    <2> QED
      BY <1>4, <2>1, <2>2 DEF MonitorBroadcasts, TypeOK
  <1> QED
    BY <1>1, <1>2, <1>3, <1>4 DEF Monitor

LEMMA BroadcasterType ==
  ASSUME TypeOK, MainBroadcasts, Broadcaster
  PROVE  TypeOK'
  <1> USE DEF monitorVars, queueVars, portVars, lwipVars, stateVars, boundVars
  <1>1. CASE BroadcastRequests
    <2>1. broadcast.todo \in Seq(LinkRequests) /\ broadcast.todo # <<>>
      BY <1>1 DEF BroadcastRequests, TypeOK, BroadcastStates
    <2>2. Head(broadcast.todo) \in LinkRequests /\ Tail(broadcast.todo) \in Seq(LinkRequests)
      BY <2>1, HeadTailProperties
    <2>3. <<Head(broadcast.todo)>> \in Seq(Requests)
      BY <2>2, OneRequest DEF Requests
    <2>4. /\ queue' \in Seq(Requests) /\ Len(queue') <= QueueLength
          /\ lost' \in SUBSET {"link", "ip"}
      BY <1>1, <2>3, RequestType DEF BroadcastRequests
    <2>5. broadcast' \in BroadcastStates
      BY <1>1, <2>2 DEF BroadcastRequests, TypeOK, BroadcastStates
    <2> QED
      BY <1>1, <2>4, <2>5 DEF BroadcastRequests, TypeOK
  <1>2. CASE MonitorEnds
    <2>1. monitor' \in MonitorStates
      BY <1>2 DEF MonitorEnds, TypeOK, MonitorStates
    <2>2. BroadcastEnds("monitor")
      BY <1>2 DEF MonitorEnds
    <2> QED
      BY <1>2, <2>1, <2>2, BroadcastType DEF MonitorEnds, TypeOK
  <1>3. CASE MainEnds
    <2>1. BroadcastEnds("main")
      BY <1>3 DEF MainEnds
    <2>2. \E s \in {"notify", "opener_notify"} : At(s)
      BY <2>1 DEF BroadcastEnds, MainBroadcasts
    <2>3. main.step \in 1..Len(Steps)
      BY DEF TypeOK, MainStates
    <2>4. main.step + 1 \in 1..Len(Steps)
      BY <2>2, <2>3, NextStep
    <2>5. main' \in MainStates
      BY <1>3, <2>4 DEF MainEnds, TypeOK, MainStates
    <2> QED
      BY <1>3, <2>1, <2>5, BroadcastType DEF MainEnds, TypeOK
  <1> QED
    BY <1>1, <1>2, <1>3 DEF Broadcaster

LEMMA LwipType ==
  ASSUME TypeOK, Lwip
  PROVE  TypeOK'
  <1> USE DEF monitorVars, queueVars, portVars, lwipVars, stateVars
  <1>1. CASE ConflictDetected
    <2>1. /\ queue' \in Seq(Requests) /\ Len(queue') <= QueueLength
          /\ lost' \in SUBSET {"link", "ip"}
      BY <1>1, StatusChangedType, RequestType DEF ConflictDetected
    <2>2. netif' \in NetifStates /\ acd' \in AcdStates
      BY <1>1 DEF ConflictDetected, TypeOK, NetifStates, AcdStates
    <2>3. acd_events' \in 0..MaxAcdEvents
      BY <1>1, Bounds DEF ConflictDetected, TypeOK
    <2> QED
      BY <1>1, <2>1, <2>2, <2>3 DEF ConflictDetected, TypeOK
  <1>2. CASE AcdReports
    <2>1. /\ queue' \in Seq(Requests) /\ Len(queue') <= QueueLength
          /\ lost' \in SUBSET {"link", "ip"}
      BY <1>2, AcdRequestType, RequestType DEF AcdReports
    <2>2. acd_events' \in 0..MaxAcdEvents
      BY <1>2, Bounds DEF AcdReports, TypeOK
    <2> QED
      BY <1>2, <2>1, <2>2 DEF AcdReports, TypeOK
  <1> QED
    BY <1>1, <1>2 DEF Lwip

\* The launcher's calls of lwIP leave the queue typed, and change only lwIP's state.
LEMMA CallsType ==
  ASSUME TypeOK, LauncherCallsLwip
  PROVE  TypeOK'
  <1> USE DEF monitorVars, queueVars, portVars, lwipVars, stateVars, boundVars
  <1>1. ASSUME SetUp, UNCHANGED acd_link_num
        PROVE  /\ queue' \in Seq(Requests) /\ Len(queue') <= QueueLength
               /\ lost' \in SUBSET {"link", "ip"}
               /\ launcher' \in LauncherSteps /\ netif' \in NetifStates
               /\ acd' \in AcdStates /\ acd_link_num' \in Nat
    <2>1. /\ queue' \in Seq(Requests) /\ Len(queue') <= QueueLength
          /\ lost' \in SUBSET {"link", "ip"}
      <3>1. CASE Request(StatusChanged(netif'))
        BY <3>1, StatusChangedType, RequestType
      <3>2. CASE Request(IF acd_link_num > 0 THEN <<"ACD">> ELSE <<>>)
        BY <3>2, AcdRequestType, RequestType
      <3>3. CASE UNCHANGED queueVars
        BY <3>3 DEF TypeOK
      <3> QED
        BY <1>1, <3>1, <3>2, <3>3 DEF SetUp
    <2>2. launcher' \in LauncherSteps
      BY <1>1 DEF SetUp, LauncherGoes, LauncherSteps
    <2>3. netif' \in NetifStates
      BY <1>1 DEF SetUp, TypeOK, NetifStates
    <2>4. acd' \in AcdStates
      BY <1>1 DEF SetUp, TypeOK, AcdStates
    <2> QED
      BY <1>1, <2>1, <2>2, <2>3, <2>4 DEF TypeOK
  <1>2. ASSUME SetDown, UNCHANGED acd_link_num
        PROVE  /\ queue' \in Seq(Requests) /\ Len(queue') <= QueueLength
               /\ lost' \in SUBSET {"link", "ip"}
               /\ launcher' \in LauncherSteps /\ netif' \in NetifStates
               /\ acd' \in AcdStates /\ acd_link_num' \in Nat
    <2>1. /\ queue' \in Seq(Requests) /\ Len(queue') <= QueueLength
          /\ lost' \in SUBSET {"link", "ip"}
      <3>1. CASE Request(StatusChanged(netif'))
        BY <3>1, StatusChangedType, RequestType
      <3>2. CASE UNCHANGED queueVars
        BY <3>2 DEF TypeOK
      <3> QED
        BY <1>2, <3>1, <3>2 DEF SetDown
    <2>2. launcher' \in LauncherSteps /\ netif' \in NetifStates
      BY <1>2 DEF SetDown, LauncherGoes, LauncherSteps, TypeOK, NetifStates
    <2> QED
      BY <1>2, <2>1, <2>2 DEF TypeOK, SetDown
  <1>3. ASSUME SetLinkUp
        PROVE  /\ queue' \in Seq(Requests) /\ Len(queue') <= QueueLength
               /\ lost' \in SUBSET {"link", "ip"}
               /\ launcher' \in LauncherSteps /\ netif' \in NetifStates
               /\ acd' \in AcdStates /\ acd_link_num' \in Nat
    <2>1. /\ queue' \in Seq(Requests) /\ Len(queue') <= QueueLength
          /\ lost' \in SUBSET {"link", "ip"}
      <3>1. CASE Request(<<"ACD">> \o StatusChanged(netif') \o <<"ACD">>)
        BY <3>1, StatusChangedType, RequestType
      <3>2. CASE Request(<<"ACD">>)
        BY <3>2, AcdRequestType, RequestType
      <3>3. CASE UNCHANGED queueVars
        BY <3>3 DEF TypeOK
      <3> QED
        BY <1>3, <3>1, <3>2, <3>3 DEF SetLinkUp
    <2>2. launcher' \in LauncherSteps /\ acd_link_num' \in Nat
      BY <1>3 DEF SetLinkUp, LauncherGoes, LauncherSteps, TypeOK
    <2>3. netif' \in NetifStates /\ acd' \in AcdStates
      BY <1>3 DEF SetLinkUp, TypeOK, NetifStates, AcdStates
    <2> QED
      BY <2>1, <2>2, <2>3
  <1>4. ASSUME SetLinkDown
        PROVE  /\ queue' \in Seq(Requests) /\ Len(queue') <= QueueLength
               /\ lost' \in SUBSET {"link", "ip"}
               /\ launcher' \in LauncherSteps /\ netif' \in NetifStates
               /\ acd' \in AcdStates /\ acd_link_num' \in Nat
    <2>1. launcher' \in LauncherSteps /\ acd' \in AcdStates
      BY <1>4 DEF SetLinkDown, LauncherGoes, LauncherSteps, TypeOK, AcdStates
    <2>2. acd_link_num' \in Nat
      BY <1>4 DEF SetLinkDown, TypeOK
    <2> QED
      BY <1>4, <2>1, <2>2 DEF TypeOK, SetLinkDown
  <1>5. /\ queue' \in Seq(Requests) /\ Len(queue') <= QueueLength
        /\ lost' \in SUBSET {"link", "ip"}
        /\ launcher' \in LauncherSteps /\ netif' \in NetifStates
        /\ acd' \in AcdStates /\ acd_link_num' \in Nat
    BY <1>1, <1>2, <1>3, <1>4 DEF LauncherCallsLwip
  <1> QED
    BY <1>5 DEF LauncherCallsLwip, TypeOK

LEMMA LauncherType ==
  ASSUME TypeOK, Launcher
  PROVE  TypeOK'
  <1> USE DEF monitorVars, queueVars, portVars, lwipVars, stateVars, boundVars
  <1>1. CASE LauncherTakesLink
    <2>1. queue' \in Seq(Requests) /\ Len(queue') <= QueueLength
      BY <1>1, TakesQueue DEF LauncherTakesLink
    <2>2. launcher' \in LauncherSteps /\ lost' \in SUBSET {"link", "ip"}
      BY <1>1 DEF LauncherTakesLink, LauncherSteps, LinkRequests, TypeOK
    <2> QED
      BY <1>1, <2>1, <2>2 DEF LauncherTakesLink, TypeOK
  <1>2. CASE LauncherTakesIp
    <2>1. queue' \in Seq(Requests) /\ Len(queue') <= QueueLength
      BY <1>2, TakesQueue DEF LauncherTakesIp
    <2>2. launcher' \in LauncherSteps /\ netif_state' \in {Up, Down}
      BY <1>2 DEF LauncherTakesIp, SetNetifState, LauncherSteps
    <2> QED
      BY <1>2, <2>1, <2>2 DEF LauncherTakesIp, TypeOK
  <1>3. CASE LauncherTakesAcd
    <2>1. queue' \in Seq(Requests) /\ Len(queue') <= QueueLength
      BY <1>3, TakesQueue DEF LauncherTakesAcd
    <2>2. launcher' \in LauncherSteps
      BY <1>3 DEF LauncherTakesAcd, LauncherSteps
    <2> QED
      BY <1>3, <2>1, <2>2 DEF LauncherTakesAcd, TypeOK
  <1>4. CASE LauncherCallsLwip
    BY <1>4, CallsType
  <1>5. CASE LauncherTells
    <2>1. launcher' \in LauncherSteps
      BY <1>5 DEF LauncherTells, LauncherGoes, LauncherSteps
    <2>2. configured' \in BOOLEAN /\ notified' \in BOOLEAN /\ source' \in Sources
      BY <1>5 DEF LauncherTells, Callback, TypeOK, Sources
    <2> QED
      BY <1>5, <2>1, <2>2 DEF LauncherTells, TypeOK
  <1>6. CASE LauncherTellsAcd
    <2>1. launcher' \in LauncherSteps
      BY <1>6 DEF LauncherTellsAcd, LauncherGoes, LauncherSteps
    <2>2. notified' \in BOOLEAN
      BY <1>6 DEF LauncherTellsAcd, TypeOK
    <2> QED
      BY <1>6, <2>1, <2>2 DEF LauncherTellsAcd, TypeOK
  <1> QED
    BY <1>1, <1>2, <1>3, <1>4, <1>5, <1>6 DEF Launcher

LEMMA MainType ==
  ASSUME TypeOK, Main
  PROVE  TypeOK'
  <1> USE DEF monitorVars, queueVars, portVars, lwipVars, stateVars, boundVars
  <1>1. main.step \in 1..Len(Steps) /\ main.mask \in SUBSET Ports
    BY DEF TypeOK, MainStates
  <1>2. ASSUME NEW s, At(s), s # "done" PROVE main.step + 1 \in 1..Len(Steps)
    BY <1>1, <1>2, NextStep
  <1>3. ASSUME NEW s, MainGoes(s), s # "done" PROVE main' \in MainStates
    BY <1>2, <1>3 DEF MainGoes, TypeOK, MainStates
  <1>4. CASE MainOpens
    <2>1. main' \in MainStates
      BY <1>3, <1>4 DEF MainOpens
    <2> QED
      BY <1>4, <2>1 DEF MainOpens, TypeOK
  <1>5. CASE MainClears
    <2>1. main' \in MainStates
      BY <1>3, <1>5 DEF MainClears
    <2> QED
      BY <1>5, <2>1 DEF MainClears, TypeOK
  <1>6. CASE MainGetsLinkStatus
    <2>1. main.step + 1 \in 1..Len(Steps)
      BY <1>2, <1>6 DEF MainGetsLinkStatus
    <2>2. main' \in MainStates
      BY <1>6, <2>1 DEF MainGetsLinkStatus, TypeOK, MainStates
    <2> QED
      BY <1>6, <2>2 DEF MainGetsLinkStatus, TypeOK
  <1>7. CASE MainNotifies
    <2>1. BroadcastStarts("main", main.mask)
      BY <1>7 DEF MainNotifies
    <2>2. broadcast' \in BroadcastStates
      BY <1>1, <2>1, BroadcastType
    <2> QED
      BY <1>7, <2>2 DEF MainNotifies, TypeOK
  <1>8. CASE MainWaits
    <2>1. main' \in MainStates
      BY <1>3, <1>8 DEF MainWaits
    <2> QED
      BY <1>8, <2>1 DEF MainWaits, TypeOK
  <1>9. CASE MainGetsState
    <2>1. main.step + 1 \in 1..Len(Steps)
      BY <1>2, <1>9 DEF MainGetsState
    <2>2. main' \in MainStates
      BY <1>9, <2>1 DEF MainGetsState, TypeOK, MainStates
    <2> QED
      BY <1>9, <2>2 DEF MainGetsState, TypeOK
  <1>10. CASE MainTellsState
    <2>1. main.step + 1 \in 1..Len(Steps)
      BY <1>2, <1>10 DEF MainTellsState
    <2>2. main' \in MainStates
      BY <1>10, <2>1 DEF MainTellsState, TypeOK, MainStates
    <2>3. configured' \in BOOLEAN /\ notified' \in BOOLEAN /\ source' \in Sources
      BY <1>10 DEF MainTellsState, Callback, TypeOK, Sources
    <2> QED
      BY <1>10, <2>2, <2>3 DEF MainTellsState, TypeOK
  <1> QED
    BY <1>4, <1>5, <1>6, <1>7, <1>8, <1>9, <1>10 DEF Main

LEMMA TypeStep ==
  ASSUME IInv, [Next]_vars
  PROVE  TypeOK'
  <1>1. TypeOK /\ MainBroadcasts
    BY DEF IInv
  <1>2. CASE LinkChanges
    <2>1. link' \in SUBSET Ports /\ link_changes' \in 0..MaxLinkChanges
      BY <1>1, <1>2, Bounds DEF LinkChanges, TypeOK
    <2> QED
      BY <1>1, <1>2, <2>1
      DEF LinkChanges, TypeOK, monitorVars, queueVars, portVars, lwipVars, stateVars
  <1>3. CASE UNCHANGED vars
    BY <1>1, <1>3
    DEF vars, TypeOK, monitorVars, queueVars, portVars, lwipVars, stateVars, boundVars
  <1> QED
    BY <1>1, <1>2, <1>3, MonitorType, BroadcasterType, LwipType, LauncherType, MainType
    DEF Next

\* The main thread stays at its notification until its broadcast ends.
LEMMA MainBroadcastsStep ==
  ASSUME IInv, [Next]_vars
  PROVE  MainBroadcasts'
  <1> USE DEF At
  <1>1. TypeOK /\ MainBroadcasts /\ broadcast \in BroadcastStates
    BY DEF IInv, TypeOK
  <1>2. CASE UNCHANGED <<broadcast, main>>
    BY <1>1, <1>2 DEF MainBroadcasts
  <1>3. CASE MonitorBroadcasts
    BY <1>3 DEF MonitorBroadcasts, BroadcastStarts, MainBroadcasts
  <1>4. CASE Broadcaster
    <2>1. CASE BroadcastRequests
      BY <1>1, <2>1 DEF BroadcastRequests, MainBroadcasts, BroadcastStates
    <2>2. CASE MonitorEnds \/ MainEnds
      BY <2>2 DEF MonitorEnds, MainEnds, BroadcastEnds, NoBroadcast, MainBroadcasts
    <2> QED
      BY <1>4, <2>1, <2>2 DEF Broadcaster
  <1>5. CASE Main
    <2>1. CASE MainNotifies
      BY <1>1, <2>1 DEF MainNotifies, MainBroadcasts
    <2>2. CASE MainOpens
      BY <1>1, <2>2 DEF MainOpens, MainGoes, MainBroadcasts
    <2>3. CASE MainClears \/ MainWaits
      BY <1>1, <2>3 DEF MainClears, MainWaits, MainGoes, MainBroadcasts
    <2>4. CASE MainGetsLinkStatus
      BY <1>1, <2>4 DEF MainGetsLinkStatus, MainBroadcasts
    <2>5. CASE MainGetsState \/ MainTellsState
      BY <1>1, <2>5 DEF MainGetsState, MainTellsState, MainBroadcasts
    <2> QED
      BY <1>5, <2>1, <2>2, <2>3, <2>4, <2>5 DEF Main
  <1>6. ASSUME LinkChanges \/ (Monitor /\ ~MonitorBroadcasts) \/ Lwip
        PROVE  UNCHANGED <<broadcast, main>>
    BY <1>6
    DEF LinkChanges, Monitor, MonitorPolls, MonitorUpdates, MonitorFindsNoChange, Lwip,
        ConflictDetected, AcdReports
  <1>7. ASSUME Launcher PROVE UNCHANGED <<broadcast, main>>
    BY <1>7
    DEF Launcher, LauncherTakesLink, LauncherTakesIp, LauncherTakesAcd, LauncherCallsLwip,
        LauncherTells, LauncherTellsAcd
  <1>8. CASE UNCHANGED vars
    BY <1>2, <1>8 DEF vars
  <1> QED
    BY <1>2, <1>3, <1>4, <1>5, <1>6, <1>7, <1>8 DEF Next

\* Every variable keeps the type that TypeOK gives it: the main thread never goes beyond
\* its last step, a full queue takes nothing, and only requests get into it.
THEOREM TypeCorrect == Spec => []TypeOK
  <1>1. Init => IInv
    BY InitType DEF Init, NoBroadcast, MainBroadcasts, IInv
  <1>2. IInv /\ [Next]_vars => IInv'
    BY TypeStep, MainBroadcastsStep DEF IInv
  <1>3. IInv => TypeOK
    BY DEF IInv
  <1> QED
    BY <1>1, <1>2, <1>3, PTL DEF Spec
-----------------------------------------------------------------------------
(* The published state follows lwIP's interface.                           *)

\* What lwIP's callbacks send on a step that makes its interface n: requests that say what
\* n is, and at least one if that is no longer what the interface was.
Announces(rs, n) ==
  /\ rs \in Seq(Requests)
  /\ \A i \in 1..Len(rs) : rs[i] \in IpRequests => rs[i] = IpRequest(n)
  /\ \/ IpRequest(n) = IpRequest(netif)
     \/ \E i \in 1..Len(rs) : rs[i] \in IpRequests

LEMMA QuietAnnounces ==
  ASSUME NEW r \in Requests \ IpRequests, NEW n, IpRequest(n) = IpRequest(netif)
  PROVE  Announces(<<r>>, n) /\ Announces(<<>>, n)
  <1>1. /\ <<r>> \in Seq(Requests) /\ Len(<<r>>) = 1 /\ <<r>>[1] = r
        /\ <<>> \in Seq(Requests) /\ Len(<<>>) = 0
    BY OneRequest, EmptySeq
  <1> QED
    BY <1>1 DEF Announces

LEMMA ConcatAnnounces ==
  ASSUME NEW rs, NEW n, Announces(rs, n)
  PROVE  Announces(rs \o <<"ACD">>, n) /\ Announces(<<"ACD">> \o rs, n)
  <1> DEFINE acdRequest == <<"ACD">>
  <1>1. /\ acdRequest \in Seq(Requests) /\ Len(acdRequest) = 1
        /\ acdRequest[1] \notin IpRequests
    BY AcdRequestType DEF IpRequests
  <1>2. /\ rs \in Seq(Requests) /\ Len(rs) \in Nat
        /\ \A i \in 1..Len(rs) : rs[i] \in IpRequests => rs[i] = IpRequest(n)
        /\ \/ IpRequest(n) = IpRequest(netif)
           \/ \E i \in 1..Len(rs) : rs[i] \in IpRequests
    BY LenProperties DEF Announces
  <1> HIDE DEF acdRequest
  <1>3. Announces(rs \o acdRequest, n)
    <2>1. /\ rs \o acdRequest \in Seq(Requests)
          /\ Len(rs \o acdRequest) = Len(rs) + 1
          /\ \A i \in 1..(Len(rs) + 1) :
               (rs \o acdRequest)[i] = IF i <= Len(rs) THEN rs[i] ELSE acdRequest[i - Len(rs)]
      BY ONLY <1>1, <1>2, ConcatProperties
    <2>2. \A i \in 1..Len(rs) : (rs \o acdRequest)[i] = rs[i]
      BY <1>2, <2>1
    <2>3. (rs \o acdRequest)[Len(rs) + 1] = acdRequest[1]
      BY <1>2, <2>1
    <2>4. \A i \in 1..(Len(rs) + 1) : i \in 1..Len(rs) \/ i = Len(rs) + 1
      BY <1>2
    <2>5. \A i \in 1..Len(rs) : i \in 1..(Len(rs) + 1)
      BY <1>2
    <2> QED
      BY <1>1, <1>2, <2>1, <2>2, <2>3, <2>4, <2>5 DEF Announces
  <1>4. Announces(acdRequest \o rs, n)
    <2>1. /\ acdRequest \o rs \in Seq(Requests)
          /\ Len(acdRequest \o rs) = 1 + Len(rs)
          /\ \A i \in 1..(1 + Len(rs)) :
               (acdRequest \o rs)[i] = IF i <= 1 THEN acdRequest[i] ELSE rs[i - 1]
      BY ONLY <1>1, <1>2, ConcatProperties
    <2>2. (acdRequest \o rs)[1] = acdRequest[1]
      BY <1>2, <2>1
    <2>3. \A i \in 1..Len(rs) : i + 1 \in 1..(1 + Len(rs)) /\ (acdRequest \o rs)[i + 1] = rs[i]
      BY <1>2, <2>1
    <2>4. \A i \in 1..(1 + Len(rs)) : i = 1 \/ (i - 1 \in 1..Len(rs) /\ i = (i - 1) + 1)
      BY <1>2
    <2>5. \A i \in 1..(1 + Len(rs)) :
            (acdRequest \o rs)[i] \in IpRequests => (acdRequest \o rs)[i] = IpRequest(n)
      <3>1. SUFFICES ASSUME NEW i \in 1..(1 + Len(rs)),
                            (acdRequest \o rs)[i] \in IpRequests
                     PROVE  (acdRequest \o rs)[i] = IpRequest(n)
        OBVIOUS
      <3>2. i # 1
        BY <1>1, <2>2, <3>1
      <3>3. i - 1 \in 1..Len(rs) /\ i = (i - 1) + 1
        BY <2>4, <3>2
      <3>4. (acdRequest \o rs)[i] = rs[i - 1]
        BY <2>3, <3>3
      <3> QED
        BY <1>2, <3>1, <3>3, <3>4
    <2>6. \/ IpRequest(n) = IpRequest(netif)
          \/ \E i \in 1..(1 + Len(rs)) : (acdRequest \o rs)[i] \in IpRequests
      BY <1>2, <2>3
    <2> QED
      BY <2>1, <2>5, <2>6 DEF Announces
  <1> QED
    BY <1>3, <1>4 DEF acdRequest

LEMMA StatusAnnounces ==
  ASSUME NEW n
  PROVE  Announces(StatusChanged(n), n)
  <1>1. IpRequest(n) \in IpRequests /\ IpRequest(n) \in Requests
    BY DEF IpRequest, IpRequests, Requests
  <1>2. CASE n.up = netif.up /\ n.addr = netif.addr
    <2>1. StatusChanged(n) = <<>> /\ IpRequest(n) = IpRequest(netif)
      BY <1>2 DEF StatusChanged, IpRequest
    <2>2. <<>> \in Seq(Requests) /\ Len(<<>>) = 0
      BY EmptySeq
    <2> QED
      BY <2>1, <2>2 DEF Announces
  <1>3. CASE ~(n.up = netif.up /\ n.addr = netif.addr)
    <2>1. StatusChanged(n) = <<IpRequest(n)>>
      BY <1>3 DEF StatusChanged
    <2>2. /\ <<IpRequest(n)>> \in Seq(Requests) /\ Len(<<IpRequest(n)>>) = 1
          /\ <<IpRequest(n)>>[1] = IpRequest(n)
      BY <1>1, OneRequest
    <2> QED
      BY <1>1, <2>1, <2>2 DEF Announces
  <1> QED
    BY <1>2, <1>3

\* A step that sends what it should keeps the published state following the interface.
LEMMA RequestFollows ==
  ASSUME TypeOK, StateFollowsNetif, NEW rs, Announces(rs, netif'), Request(rs),
         netif_state' = netif_state
  PROVE  StateFollowsNetif'
  <1> SUFFICES ASSUME "ip" \notin lost'
               PROVE  /\ \A i \in 1..Len(queue') :
                           IsLastIpRequest(i)' => queue'[i] = IpRequest(netif')
                      /\ (\A i \in 1..Len(queue') : queue'[i] \notin IpRequests) =>
                           netif_state' = IF IpRequest(netif') = "IP_UP" THEN Up ELSE Down
    BY DEF StateFollowsNetif
  <1>1. /\ rs \in Seq(Requests) /\ Len(rs) \in Nat /\ Len(queue) \in Nat
        /\ \A i \in 1..Len(rs) : rs[i] \in IpRequests => rs[i] = IpRequest(netif')
        /\ \/ IpRequest(netif') = IpRequest(netif)
           \/ \E i \in 1..Len(rs) : rs[i] \in IpRequests
    BY LenProperties DEF Announces, TypeOK
  <1>2. PICK sent \in 0..Len(rs) :
          /\ Len(queue') = Len(queue) + sent
          /\ \A i \in 1..Len(queue) : queue'[i] = queue[i]
          /\ \A i \in 1..sent : queue'[Len(queue) + i] = rs[i]
          /\ lost' = lost \cup Kinds({rs[i] : i \in (sent + 1)..Len(rs)})
    BY <1>1, RequestQueue
  <1>3. \A i \in 1..Len(rs) : rs[i] \in IpRequests => i \in 1..sent
    <2>1. SUFFICES ASSUME NEW i \in 1..Len(rs), rs[i] \in IpRequests, i \notin 1..sent
                   PROVE  FALSE
      OBVIOUS
    <2>2. i \in (sent + 1)..Len(rs)
      BY <1>1, <2>1
    <2>3. "ip" \in Kinds({rs[j] : j \in (sent + 1)..Len(rs)})
      BY <2>1, <2>2 DEF Kinds
    <2> QED
      BY <1>2, <2>3
  <1>4. \A i \in 1..Len(queue') :
          i \in 1..Len(queue) \/ \E j \in 1..sent : i = Len(queue) + j
    <2>1. \A i \in 1..(Len(queue) + sent) :
            i \in 1..Len(queue) \/ (i - Len(queue) \in 1..sent /\ i = Len(queue) + (i - Len(queue)))
      BY <1>1, <1>2
    <2> QED
      BY <1>2, <2>1
  <1>5. \A j \in 1..sent : Len(queue) + j \in 1..Len(queue') /\ j \in 1..Len(rs)
    BY <1>1, <1>2
  <1>6. \A i \in 1..Len(queue) : i \in 1..Len(queue')
    BY <1>1, <1>2
  <1>7. CASE \E k \in 1..Len(rs) : rs[k] \in IpRequests
    <2>1. PICK k \in 1..sent : rs[k] \in IpRequests
      BY <1>3, <1>7
    <2>2. Len(queue) + k \in 1..Len(queue') /\ queue'[Len(queue) + k] \in IpRequests
      BY <1>2, <1>5, <2>1
    <2>3. ASSUME NEW i \in 1..Len(queue'), IsLastIpRequest(i)'
          PROVE  queue'[i] = IpRequest(netif')
      <3>1. /\ queue'[i] \in IpRequests
            /\ \A j \in (i + 1)..Len(queue') : queue'[j] \notin IpRequests
        BY <2>3 DEF IsLastIpRequest
      <3>2. i \notin 1..Len(queue)
        <4>1. ASSUME i \in 1..Len(queue) PROVE Len(queue) + k \in (i + 1)..Len(queue')
          BY <1>1, <1>2, <4>1
        <4> QED
          BY <2>2, <3>1, <4>1
      <3>3. PICK j \in 1..sent : i = Len(queue) + j
        BY <1>4, <3>2
      <3> QED
        BY <1>1, <1>2, <1>5, <3>1, <3>3
    <2> QED
      BY <2>2, <2>3
  <1>8. CASE \A k \in 1..Len(rs) : rs[k] \notin IpRequests
    <2>1. IpRequest(netif') = IpRequest(netif) /\ "ip" \notin lost
      BY <1>1, <1>2, <1>8
    <2>2. /\ \A i \in 1..Len(queue) : IsLastIpRequest(i) => queue[i] = IpRequest(netif)
          /\ (\A i \in 1..Len(queue) : queue[i] \notin IpRequests) =>
               netif_state = IF IpRequest(netif) = "IP_UP" THEN Up ELSE Down
      BY <2>1 DEF StateFollowsNetif
    <2>3. ASSUME NEW i \in 1..Len(queue'), IsLastIpRequest(i)'
          PROVE  queue'[i] = IpRequest(netif')
      <3>1. /\ queue'[i] \in IpRequests
            /\ \A j \in (i + 1)..Len(queue') : queue'[j] \notin IpRequests
        BY <2>3 DEF IsLastIpRequest
      <3>2. i \in 1..Len(queue)
        BY <1>2, <1>4, <1>5, <1>8, <3>1
      <3>3. \A j \in (i + 1)..Len(queue) : j \in (i + 1)..Len(queue') /\ j \in 1..Len(queue)
        BY <1>1, <1>2, <3>2
      <3>4. IsLastIpRequest(i)
        BY <1>2, <3>1, <3>2, <3>3 DEF IsLastIpRequest
      <3> QED
        BY <1>2, <2>1, <2>2, <3>2, <3>4
    <2>4. ASSUME \A i \in 1..Len(queue') : queue'[i] \notin IpRequests
          PROVE  netif_state' = IF IpRequest(netif') = "IP_UP" THEN Up ELSE Down
      <3>1. \A i \in 1..Len(queue) : queue[i] \notin IpRequests
        BY <1>2, <1>6, <2>4
      <3> QED
        BY <2>1, <2>2, <3>1
    <2> QED
      BY <2>3, <2>4
  <1> QED
    BY <1>7, <1>8

\* The launcher takes the oldest request, and publishes what it says of the interface.
LEMMA TakesFollows ==
  ASSUME TypeOK, StateFollowsNetif, NEW r, Takes(r), netif' = netif, lost \subseteq lost',
         netif_state' = IF r \notin IpRequests THEN netif_state
                        ELSE IF r = "IP_UP" THEN Up ELSE Down
  PROVE  StateFollowsNetif'
  <1> SUFFICES ASSUME "ip" \notin lost'
               PROVE  /\ \A i \in 1..Len(queue') :
                           IsLastIpRequest(i)' => queue'[i] = IpRequest(netif)
                      /\ (\A i \in 1..Len(queue') : queue'[i] \notin IpRequests) =>
                           netif_state' = IF IpRequest(netif) = "IP_UP" THEN Up ELSE Down
    BY DEF StateFollowsNetif, IpRequest
  <1>1. /\ Len(queue) \in Nat \ {0} /\ queue[1] = r
        /\ Len(queue') = Len(queue) - 1
        /\ \A i \in 1..Len(queue') : queue'[i] = queue[i + 1]
    BY TakesQueue
  <1>2. /\ \A i \in 1..Len(queue) : IsLastIpRequest(i) => queue[i] = IpRequest(netif)
        /\ (\A i \in 1..Len(queue) : queue[i] \notin IpRequests) =>
             netif_state = IF IpRequest(netif) = "IP_UP" THEN Up ELSE Down
    BY DEF StateFollowsNetif
  <1>3. \A i \in 1..Len(queue') : i + 1 \in 1..Len(queue)
    BY <1>1
  <1>4. \A j \in 2..Len(queue) : j - 1 \in 1..Len(queue') /\ queue'[j - 1] = queue[j]
    <2>1. \A j \in 2..Len(queue) : j - 1 \in 1..Len(queue') /\ (j - 1) + 1 = j
      BY <1>1
    <2> QED
      BY <1>1, <2>1
  <1>5. ASSUME NEW i \in 1..Len(queue'), IsLastIpRequest(i)'
        PROVE  queue'[i] = IpRequest(netif)
    <2>1. /\ queue'[i] \in IpRequests
          /\ \A j \in (i + 1)..Len(queue') : queue'[j] \notin IpRequests
      BY <1>5 DEF IsLastIpRequest
    <2>2. \A j \in (i + 2)..Len(queue) : j \in 2..Len(queue) /\ j - 1 \in (i + 1)..Len(queue')
      BY <1>1
    <2>3. \A j \in ((i + 1) + 1)..Len(queue) : queue[j] \notin IpRequests
      <3>1. (i + 1) + 1 = i + 2
        OBVIOUS
      <3> QED
        BY <1>4, <2>1, <2>2, <3>1
    <2>4. IsLastIpRequest(i + 1)
      BY <1>1, <2>1, <2>3 DEF IsLastIpRequest
    <2> QED
      BY <1>1, <1>2, <1>3, <2>4
  <1>6. ASSUME \A i \in 1..Len(queue') : queue'[i] \notin IpRequests
        PROVE  netif_state' = IF IpRequest(netif) = "IP_UP" THEN Up ELSE Down
    <2>1. \A j \in 2..Len(queue) : queue[j] \notin IpRequests
      BY <1>4, <1>6
    <2>2. 1 \in 1..Len(queue) /\ \A j \in 1..Len(queue) : j = 1 \/ j \in 2..Len(queue)
      BY <1>1
    <2>3. CASE r \in IpRequests
      <3>1. IsLastIpRequest(1)
        BY <1>1, <2>1, <2>3 DEF IsLastIpRequest
      <3>2. r = IpRequest(netif)
        BY <1>1, <1>2, <2>2, <3>1
      <3> QED
        BY <2>3, <3>2
    <2>4. CASE r \notin IpRequests
      <3>1. \A j \in 1..Len(queue) : queue[j] \notin IpRequests
        BY <1>1, <2>1, <2>2, <2>4
      <3> QED
        BY <1>2, <2>4, <3>1
    <2> QED
      BY <2>3, <2>4
  <1> QED
    BY <1>5, <1>6

\* What a step does not touch.
LEMMA UnchangedFollows ==
  ASSUME StateFollowsNetif, UNCHANGED <<queueVars, netif, netif_state>>
  PROVE  StateFollowsNetif'
  BY DEF StateFollowsNetif, IsLastIpRequest, IpRequest, queueVars

LEMMA CallsFollow ==
  ASSUME TypeOK, StateFollowsNetif, LauncherCallsLwip
  PROVE  StateFollowsNetif'
  <1> USE DEF stateVars
  <1>1. netif_state' = netif_state
    BY DEF LauncherCallsLwip
  <1>2. "ACD" \in Requests \ IpRequests
    BY DEF Requests, IpRequests
  \* Its link is no part of what lwIP says of the interface.
  <1>3. ASSUME UNCHANGED queueVars, netif' = [netif EXCEPT !.link = TRUE]
                                    \/ netif' = [netif EXCEPT !.link = FALSE]
        PROVE  StateFollowsNetif'
    <2>1. IpRequest(netif') = IpRequest(netif)
      BY <1>3 DEF IpRequest, TypeOK, NetifStates
    <2> QED
      BY <1>1, <1>3, <2>1 DEF StateFollowsNetif, IsLastIpRequest, queueVars
  <1>4. ASSUME netif' = netif, Request(<<"ACD">>) \/ Request(<<>>)
        PROVE  StateFollowsNetif'
    <2>1. Announces(<<"ACD">>, netif') /\ Announces(<<>>, netif')
      BY <1>2, <1>4, QuietAnnounces
    <2> QED
      BY <1>1, <1>4, <2>1, RequestFollows
  <1>5. CASE SetUp
    <2>1. CASE LauncherGoes("up", "link_up") /\ Request(StatusChanged(netif'))
      BY <1>1, <2>1, StatusAnnounces, RequestFollows
    <2>2. CASE UNCHANGED queueVars /\ netif' = [netif EXCEPT !.link = TRUE]
      BY <1>3, <2>2
    <2>3. CASE netif' = netif /\ Request(IF acd_link_num > 0 THEN <<"ACD">> ELSE <<>>)
      BY <1>4, <2>3
    <2>4. CASE netif' = netif /\ UNCHANGED queueVars
      BY <1>1, <2>4, UnchangedFollows
    <2> QED
      BY <1>5, <2>1, <2>2, <2>3, <2>4 DEF SetUp
  <1>6. CASE SetDown
    <2>1. CASE UNCHANGED queueVars /\ netif' = [netif EXCEPT !.link = FALSE]
      BY <1>3, <2>1
    <2>2. CASE Request(StatusChanged(netif'))
      BY <1>1, <2>2, StatusAnnounces, RequestFollows
    <2> QED
      BY <1>6, <2>1, <2>2 DEF SetDown
  <1>7. CASE SetLinkUp
    <2>1. CASE Request(<<"ACD">> \o StatusChanged(netif') \o <<"ACD">>)
      <3>1. Announces(<<"ACD">> \o StatusChanged(netif'), netif')
        BY StatusAnnounces, ConcatAnnounces
      <3>2. Announces((<<"ACD">> \o StatusChanged(netif')) \o <<"ACD">>, netif')
        BY <3>1, ConcatAnnounces
      <3> QED
        BY <1>1, <2>1, <3>2, RequestFollows
    <2>2. CASE netif' = netif /\ Request(<<"ACD">>)
      BY <1>4, <2>2
    <2>3. CASE netif' = netif /\ UNCHANGED queueVars
      BY <1>1, <2>3, UnchangedFollows
    <2> QED
      BY <1>7, <2>1, <2>2, <2>3 DEF SetLinkUp
  <1>8. CASE SetLinkDown
    BY <1>1, <1>8, UnchangedFollows DEF SetLinkDown
  <1> QED
    BY <1>5, <1>6, <1>7, <1>8 DEF LauncherCallsLwip

LEMMA FollowsStep ==
  ASSUME IInv, StateFollowsNetif, [Next]_vars
  PROVE  StateFollowsNetif'
  <1>1. TypeOK
    BY DEF IInv
  <1>2. "ACD" \in Requests \ IpRequests /\ "ACD" \notin IpRequests
    BY DEF Requests, IpRequests
  <1>3. CASE UNCHANGED <<queueVars, netif, netif_state>>
    BY <1>3, UnchangedFollows
  <1>4. CASE BroadcastRequests
    <2>1. broadcast.todo \in Seq(LinkRequests) /\ broadcast.todo # <<>>
      BY <1>1, <1>4 DEF BroadcastRequests, TypeOK, BroadcastStates
    <2>2. Head(broadcast.todo) \in Requests \ IpRequests
      BY <2>1, HeadTailProperties DEF Requests, LinkRequests, IpRequests
    <2>3. netif' = netif /\ netif_state' = netif_state
      BY <1>4 DEF BroadcastRequests, lwipVars, stateVars
    <2>4. Announces(<<Head(broadcast.todo)>>, netif')
      BY <2>2, <2>3, QuietAnnounces
    <2> QED
      BY <1>1, <1>4, <2>3, <2>4, RequestFollows DEF BroadcastRequests
  <1>5. CASE ConflictDetected
    <2>1. Announces(StatusChanged(netif') \o <<"ACD">>, netif')
      BY StatusAnnounces, ConcatAnnounces
    <2>2. Request(StatusChanged(netif') \o <<"ACD">>) /\ netif_state' = netif_state
      BY <1>5 DEF ConflictDetected, stateVars
    <2> QED
      BY <1>1, <2>1, <2>2, RequestFollows
  <1>6. CASE AcdReports
    <2>1. netif' = netif /\ netif_state' = netif_state /\ Request(<<"ACD">>)
      BY <1>6 DEF AcdReports, lwipVars, stateVars
    <2>2. Announces(<<"ACD">>, netif')
      BY <1>2, <2>1, QuietAnnounces
    <2> QED
      BY <1>1, <2>1, <2>2, RequestFollows
  <1>7. CASE LauncherTakesLink
    <2>1. PICK r \in LinkRequests : Takes(r)
      BY <1>7 DEF LauncherTakesLink
    <2>2. r \notin IpRequests
      BY DEF LinkRequests, IpRequests
    <2>3. netif' = netif /\ netif_state' = netif_state /\ lost \subseteq lost'
      BY <1>7 DEF LauncherTakesLink, lwipVars, stateVars
    <2> QED
      BY <1>1, <2>1, <2>2, <2>3, TakesFollows
  <1>8. CASE LauncherTakesIp
    <2>1. netif' = netif /\ lost \subseteq lost'
      BY <1>8 DEF LauncherTakesIp, lwipVars
    <2>2. CASE Takes("IP_UP") /\ SetNetifState(Up)
      <3>1. netif_state' = Up /\ "IP_UP" \in IpRequests
        BY <2>2 DEF SetNetifState, IpRequests
      <3> QED
        BY <1>1, <2>1, <2>2, <3>1, TakesFollows
    <2>3. CASE Takes("IP_DOWN") /\ SetNetifState(Down)
      <3>1. netif_state' = Down /\ "IP_DOWN" \in IpRequests /\ "IP_DOWN" # "IP_UP"
        BY <2>3 DEF SetNetifState, IpRequests
      <3> QED
        BY <1>1, <2>1, <2>3, <3>1, TakesFollows
    <2> QED
      BY <1>8, <2>2, <2>3 DEF LauncherTakesIp
  <1>9. CASE LauncherTakesAcd
    <2>1. Takes("ACD") /\ netif' = netif /\ netif_state' = netif_state /\ lost \subseteq lost'
      BY <1>9 DEF LauncherTakesAcd, lwipVars, stateVars
    <2> QED
      BY <1>1, <1>2, <2>1, TakesFollows
  <1>10. CASE LauncherCallsLwip
    BY <1>1, <1>10, CallsFollow
  <1>11. ASSUME LinkChanges \/ Monitor \/ MonitorEnds \/ MainEnds
         PROVE  UNCHANGED <<queueVars, netif, netif_state>>
    BY <1>11
    DEF LinkChanges, Monitor, MonitorPolls, MonitorUpdates, MonitorFindsNoChange,
        MonitorBroadcasts, MonitorEnds, MainEnds, lwipVars, stateVars
  <1>12. ASSUME LauncherTells \/ LauncherTellsAcd \/ Main \/ UNCHANGED vars
         PROVE  UNCHANGED <<queueVars, netif, netif_state>>
    BY <1>12
    DEF LauncherTells, LauncherTellsAcd, Main, MainOpens, MainClears, MainGetsLinkStatus,
        MainNotifies, MainWaits, MainGetsState, MainTellsState, lwipVars, stateVars, vars
  <1> QED
    BY <1>3, <1>4, <1>5, <1>6, <1>7, <1>8, <1>9, <1>10, <1>11, <1>12
    DEF Next, Broadcaster, Lwip, Launcher

\* The published state, with the last request that is still in the queue, says what lwIP's
\* interface is, for every length of the queue and any number of links that change and of
\* addresses in conflict, unless a request was lost: the callback of lwIP that has to say
\* so is called within the very step that changes the interface, whoever takes it.
THEOREM StateFollows == Spec => []StateFollowsNetif
  <1>1. Init => IInv /\ StateFollowsNetif
    <2> SUFFICES ASSUME Init PROVE IInv /\ StateFollowsNetif
      OBVIOUS
    <2>1. IInv
      BY InitType DEF Init, NoBroadcast, MainBroadcasts, IInv
    <2>2. queue = <<>> /\ Len(queue) = 0 /\ netif_state = Down
      BY EmptySeq DEF Init
    <2>3. IpRequest(netif) = "IP_DOWN"
      BY DEF Init, IpRequest
    <2> QED
      BY <2>1, <2>2, <2>3 DEF StateFollowsNetif
  <1>2. IInv /\ StateFollowsNetif /\ [Next]_vars => (IInv /\ StateFollowsNetif)'
    BY TypeStep, MainBroadcastsStep, FollowsStep DEF IInv
  <1> QED
    BY <1>1, <1>2, PTL DEF Spec
-----------------------------------------------------------------------------
(* What lwIP knows of the links, and the link requests on their way to it.  *)

\* Whether the interface is up, and for how many ports.
LinkStates == [up : BOOLEAN, num : Nat]

LinkState(u, n) == [up |-> u, num |-> n]

\* What is known of a set of ports.
Known(ports) == LinkState(ports # {}, Cardinality(ports))

Less(n) == IF n = 0 THEN 0 ELSE n - 1

Effect(r, s) ==
  [up  |-> IF r = "LINK_UP" THEN TRUE ELSE IF r = "LINK_DOWN" THEN FALSE ELSE s.up,
   num |-> IF r = "PORT_LINK_UP" THEN s.num + 1
           ELSE IF r = "PORT_LINK_DOWN" THEN Less(s.num) ELSE s.num]

\* A port comes up only on an interface that is up: ACD has been started before.
Timely(r, s) == r = "PORT_LINK_UP" => s.up

\* The requests of q, handled one after the other, lead from x to y.  The last conjunct,
\* that requests of another kind lead nowhere, follows from the others by induction; as
\* a part of the definition it needs none.
Leads(x, q, y) ==
  \E st \in [0..Len(q) -> LinkStates] :
    /\ st[0] = x /\ st[Len(q)] = y
    /\ \A i \in 1..Len(q) : Timely(q[i], st[i - 1]) /\ st[i] = Effect(q[i], st[i - 1])
    /\ \A i \in 0..Len(q) :
         (\A j \in (i + 1)..Len(q) : q[j] \notin LinkRequests) => st[i] = y

LEMMA EffectOfRequest ==
  ASSUME NEW s \in LinkStates, NEW r
  PROVE  Effect(r, s) \in LinkStates /\ (r \notin LinkRequests => Effect(r, s) = s)
  <1>1. s.up \in BOOLEAN /\ s.num \in Nat /\ s = [up |-> s.up, num |-> s.num]
    BY DEF LinkStates
  <1>2. \A b \in BOOLEAN, n \in Nat : [up |-> b, num |-> n] \in LinkStates
    BY DEF LinkStates
  <1>3. Effect(r, s) \in LinkStates
    <2>1. Less(s.num) \in Nat /\ s.num + 1 \in Nat
      BY <1>1 DEF Less
    <2> QED
      BY <1>1, <1>2, <2>1 DEF Effect
  <1>4. r \notin LinkRequests => Effect(r, s) = s
    BY <1>1 DEF Effect, LinkRequests
  <1> QED
    BY <1>3, <1>4

LEMMA LeadsNowhere ==
  ASSUME NEW x, NEW q, NEW y, Len(q) \in Nat, Leads(x, q, y)
  PROVE  /\ x \in LinkStates /\ y \in LinkStates
         /\ (\A i \in 1..Len(q) : q[i] \notin LinkRequests) => x = y
  <1>1. PICK st \in [0..Len(q) -> LinkStates] :
          /\ st[0] = x /\ st[Len(q)] = y
          /\ \A i \in 0..Len(q) :
               (\A j \in (i + 1)..Len(q) : q[j] \notin LinkRequests) => st[i] = y
    BY DEF Leads
  <1>2. 0 \in 0..Len(q) /\ Len(q) \in 0..Len(q)
    OBVIOUS
  <1>3. ASSUME \A i \in 1..Len(q) : q[i] \notin LinkRequests PROVE x = y
    BY <1>1, <1>2, <1>3
  <1> QED
    BY <1>1, <1>2, <1>3

LEMMA LeadsEmpty ==
  ASSUME NEW x \in LinkStates
  PROVE  Leads(x, <<>>, x)
  <1> DEFINE st == [i \in 0..0 |-> x]
  <1>1. Len(<<>>) = 0 /\ st \in [0..0 -> LinkStates] /\ st[0] = x
    OBVIOUS
  <1>2. \A i \in 0..0 : st[i] = x
    OBVIOUS
  <1>3. 1..0 = {}
    OBVIOUS
  <1> HIDE DEF st
  <1> QED
    BY <1>1, <1>2, <1>3 DEF Leads

\* One request more at the end.
LEMMA LeadsOn ==
  ASSUME NEW x, NEW q, NEW y, NEW r, NEW e,
         Len(q) \in Nat, Len(r) = Len(q) + 1, \A i \in 1..Len(q) : r[i] = q[i],
         r[Len(q) + 1] = e, Leads(x, q, y), Timely(e, y)
  PROVE  Leads(x, r, Effect(e, y))
  <1> DEFINE n == Len(q)
             z == Effect(e, y)
  <1>1. PICK st \in [0..n -> LinkStates] :
          /\ st[0] = x /\ st[n] = y
          /\ \A i \in 1..n : Timely(q[i], st[i - 1]) /\ st[i] = Effect(q[i], st[i - 1])
          /\ \A i \in 0..n :
               (\A j \in (i + 1)..n : q[j] \notin LinkRequests) => st[i] = y
    BY DEF Leads
  <1> DEFINE su == [i \in 0..(n + 1) |-> IF i = n + 1 THEN z ELSE st[i]]
  <1>2. y \in LinkStates /\ z \in LinkStates /\ (e \notin LinkRequests => z = y)
    BY LeadsNowhere, EffectOfRequest
  <1> HIDE DEF z
  <1>3. /\ su \in [0..(n + 1) -> LinkStates]
        /\ su[n + 1] = z /\ \A i \in 0..n : su[i] = st[i]
    BY <1>2
  <1> HIDE DEF su
  <1>4. su[0] = x
    BY <1>1, <1>3
  <1>5. ASSUME NEW i \in 1..(n + 1)
        PROVE  Timely(r[i], su[i - 1]) /\ su[i] = Effect(r[i], su[i - 1])
    <2>1. CASE i = n + 1
      <3>1. i - 1 = n /\ su[n] = y
        BY <1>1, <1>3, <2>1
      <3> QED
        BY <1>3, <2>1, <3>1 DEF z
    <2>2. CASE i # n + 1
      <3>1. i \in 1..n /\ i - 1 \in 0..n /\ i \in 0..n
        BY <2>2
      <3> QED
        BY <1>1, <1>3, <3>1
    <2> QED
      BY <2>1, <2>2
  <1>6. ASSUME NEW i \in 0..(n + 1), \A j \in (i + 1)..(n + 1) : r[j] \notin LinkRequests
        PROVE  su[i] = z
    <2>1. CASE i = n + 1
      BY <1>3, <2>1
    <2>2. CASE i # n + 1
      <3>1. i \in 0..n /\ n + 1 \in (i + 1)..(n + 1)
        BY <2>2
      <3>2. \A j \in (i + 1)..n : j \in (i + 1)..(n + 1) /\ j \in 1..n
        BY <3>1
      <3> QED
        BY <1>1, <1>2, <1>3, <1>6, <3>1, <3>2
    <2> QED
      BY <2>1, <2>2
  <1>7. Len(r) = n + 1
    OBVIOUS
  <1> HIDE DEF n
  <1> QED
    BY <1>3, <1>4, <1>5, <1>6, <1>7 DEF Leads, z

\* The first request is handled.
LEMMA LeadsFrom ==
  ASSUME NEW x, NEW q, NEW y, NEW r,
         Len(q) \in Nat \ {0}, Len(r) = Len(q) - 1, \A i \in 1..Len(r) : r[i] = q[i + 1],
         Leads(x, q, y)
  PROVE  Leads(Effect(q[1], x), r, y) /\ Timely(q[1], x)
  <1> DEFINE n == Len(r)
  <1>1. PICK st \in [0..(n + 1) -> LinkStates] :
          /\ st[0] = x /\ st[n + 1] = y
          /\ \A i \in 1..(n + 1) : Timely(q[i], st[i - 1]) /\ st[i] = Effect(q[i], st[i - 1])
          /\ \A i \in 0..(n + 1) :
               (\A j \in (i + 1)..(n + 1) : q[j] \notin LinkRequests) => st[i] = y
    <2>1. Len(q) = n + 1
      OBVIOUS
    <2> QED
      BY <2>1 DEF Leads
  <1>2. n \in Nat /\ n = Len(r)
    OBVIOUS
  <1> HIDE DEF n
  <1> DEFINE su == [i \in 0..n |-> st[i + 1]]
  <1>3. \A i \in 0..n : i + 1 \in 0..(n + 1) /\ i + 1 \in 1..(n + 1)
    BY <1>2
  <1>4. su \in [0..n -> LinkStates] /\ \A i \in 0..n : su[i] = st[i + 1]
    BY <1>3
  <1> HIDE DEF su
  <1>5. 1 \in 1..(n + 1) /\ 0 \in 0..n /\ n \in 0..n /\ 1 - 1 = 0 /\ 0 + 1 = 1
    BY <1>2
  <1>6. Timely(q[1], x) /\ su[0] = Effect(q[1], x) /\ su[n] = y
    BY <1>1, <1>4, <1>5
  <1>7. ASSUME NEW i \in 1..n
        PROVE  Timely(r[i], su[i - 1]) /\ su[i] = Effect(r[i], su[i - 1])
    <2>1. i - 1 \in 0..n /\ i \in 0..n /\ (i - 1) + 1 = i /\ i + 1 \in 1..(n + 1)
          /\ (i + 1) - 1 = i
      BY <1>2
    <2>2. su[i - 1] = st[i] /\ su[i] = st[i + 1] /\ r[i] = q[i + 1]
      BY <1>2, <1>4, <2>1
    <2>3. Timely(q[i + 1], st[i]) /\ st[i + 1] = Effect(q[i + 1], st[i])
      BY <1>1, <2>1
    <2> QED
      BY <2>2, <2>3
  <1>8. ASSUME NEW i \in 0..n, \A j \in (i + 1)..n : r[j] \notin LinkRequests
        PROVE  su[i] = y
    <2>1. \A j \in ((i + 1) + 1)..(n + 1) :
            j - 1 \in (i + 1)..n /\ j - 1 \in 1..n /\ (j - 1) + 1 = j
      BY <1>2
    <2>2. \A j \in ((i + 1) + 1)..(n + 1) : q[j] \notin LinkRequests
      BY <1>2, <1>8, <2>1
    <2> QED
      BY <1>1, <1>3, <1>4, <2>2
  <1> QED
    BY <1>2, <1>4, <1>6, <1>7, <1>8 DEF Leads

\* Requests that are not about a link, at the end.
LEMMA LeadsQuietly ==
  ASSUME NEW x, NEW q, NEW y, NEW r, NEW k \in Nat,
         Len(q) \in Nat, Len(r) = Len(q) + k, \A i \in 1..Len(q) : r[i] = q[i],
         \A i \in 1..k : r[Len(q) + i] \notin LinkRequests, Leads(x, q, y)
  PROVE  Leads(x, r, y)
  <1> DEFINE n == Len(q)
  <1>1. PICK st \in [0..n -> LinkStates] :
          /\ st[0] = x /\ st[n] = y
          /\ \A i \in 1..n : Timely(q[i], st[i - 1]) /\ st[i] = Effect(q[i], st[i - 1])
          /\ \A i \in 0..n :
               (\A j \in (i + 1)..n : q[j] \notin LinkRequests) => st[i] = y
    BY DEF Leads
  <1>2. y \in LinkStates
    BY LeadsNowhere
  <1> DEFINE su == [i \in 0..(n + k) |-> IF i <= n THEN st[i] ELSE y]
  <1>3. \A i \in 0..(n + k) : i <= n => i \in 0..n
    OBVIOUS
  <1>4. /\ su \in [0..(n + k) -> LinkStates]
        /\ \A i \in 0..n : su[i] = st[i]
        /\ \A i \in n..(n + k) : su[i] = y
    <2>1. /\ \A i \in 0..n : i \in 0..(n + k) /\ i <= n
          /\ \A i \in n..(n + k) : i \in 0..(n + k) /\ (i <= n => i = n)
      OBVIOUS
    <2> QED
      BY <1>1, <1>2, <1>3, <2>1
  <1> HIDE DEF su
  <1>5. su[0] = x /\ su[n + k] = y
    <2>1. 0 \in 0..n /\ n + k \in n..(n + k)
      OBVIOUS
    <2> QED
      BY <1>1, <1>4, <2>1
  <1>6. \A i \in (n + 1)..(n + k) : r[i] \notin LinkRequests
    <2>1. \A i \in (n + 1)..(n + k) : i - n \in 1..k /\ n + (i - n) = i
      OBVIOUS
    <2> QED
      BY <2>1
  <1>7. ASSUME NEW i \in 1..(n + k)
        PROVE  Timely(r[i], su[i - 1]) /\ su[i] = Effect(r[i], su[i - 1])
    <2>1. CASE i <= n
      <3>1. i \in 1..n /\ i \in 0..n /\ i - 1 \in 0..n
        BY <2>1
      <3> QED
        BY <1>1, <1>4, <3>1
    <2>2. CASE i > n
      <3>1. i \in (n + 1)..(n + k) /\ i \in n..(n + k) /\ i - 1 \in n..(n + k)
        BY <2>2
      <3>2. r[i] \notin LinkRequests /\ su[i] = y /\ su[i - 1] = y
        BY <1>4, <1>6, <3>1
      <3> QED
        BY <1>2, <3>2, EffectOfRequest DEF Timely, LinkRequests
    <2> QED
      BY <2>1, <2>2
  <1>8. ASSUME NEW i \in 0..(n + k), \A j \in (i + 1)..(n + k) : r[j] \notin LinkRequests
        PROVE  su[i] = y
    <2>1. CASE i <= n
      <3>1. i \in 0..n /\ \A j \in (i + 1)..n : j \in (i + 1)..(n + k) /\ j \in 1..n
        BY <2>1
      <3>2. \A j \in (i + 1)..n : q[j] \notin LinkRequests
        BY <1>8, <3>1
      <3> QED
        BY <1>1, <1>4, <3>1, <3>2
    <2>2. CASE i > n
      <3>1. i \in n..(n + k)
        BY <2>2
      <3> QED
        BY <1>4, <3>1
    <2> QED
      BY <2>1, <2>2
  <1>9. Len(r) = n + k
    OBVIOUS
  <1> HIDE DEF n
  <1> QED
    BY <1>4, <1>5, <1>7, <1>8, <1>9 DEF Leads
\* The effects, one by one.
LEMMA EffectOn ==
  ASSUME NEW u \in BOOLEAN, NEW n \in Nat
  PROVE  /\ Effect("LINK_UP", LinkState(u, n)) = LinkState(TRUE, n)
         /\ Effect("LINK_DOWN", LinkState(u, n)) = LinkState(FALSE, n)
         /\ Effect("PORT_LINK_UP", LinkState(u, n)) = LinkState(u, n + 1)
         /\ Effect("PORT_LINK_DOWN", LinkState(u, n)) = LinkState(u, Less(n))
         /\ Timely("LINK_UP", LinkState(u, n)) /\ Timely("LINK_DOWN", LinkState(u, n))
         /\ Timely("PORT_LINK_DOWN", LinkState(u, n))
         /\ u => Timely("PORT_LINK_UP", LinkState(u, n))
         /\ LinkState(u, n) \in LinkStates
  <1>1. LinkState(u, n).up = u /\ LinkState(u, n).num = n
    BY DEF LinkState
  <1>2. LinkState(u, n) \in LinkStates
    BY DEF LinkState, LinkStates
  <1> QED
    BY <1>1, <1>2 DEF Effect, LinkState, Timely

\* The number of ports.
LEMMA PortsKnown ==
  ASSUME NEW s \in SUBSET Ports
  PROVE  /\ Cardinality(s) = (IF 1 \in s THEN 1 ELSE 0) + (IF 2 \in s THEN 1 ELSE 0)
         /\ s # {} <=> (1 \in s \/ 2 \in s)
         /\ Known(s) \in LinkStates
  <1>1. s = {} \/ s = {1} \/ s = {2} \/ s = {1, 2}
    BY DEF Ports
  <1>2. Cardinality({}) = 0 /\ Cardinality({1}) = 1 /\ Cardinality({2}) = 1
    BY FS_EmptySet, FS_Singleton
  <1>3. Cardinality({1, 2}) = 2
    <2>1. {1, 2} = {1} \cup {2} /\ 2 \notin {1} /\ IsFiniteSet({1})
      BY FS_Singleton
    <2> QED
      BY <1>2, <2>1, FS_AddElement
  <1>4. /\ Cardinality(s) = (IF 1 \in s THEN 1 ELSE 0) + (IF 2 \in s THEN 1 ELSE 0)
        /\ s # {} <=> (1 \in s \/ 2 \in s)
    BY <1>1, <1>2, <1>3
  <1>5. Cardinality(s) \in Nat /\ (s # {}) \in BOOLEAN
    BY <1>4
  <1> QED
    BY <1>4, <1>5, EffectOn DEF Known

\* One kind of edge: none, and nothing changes, or one request and its effect.
LEMMA EdgeLeads ==
  ASSUME NEW x, NEW q \in Seq(LinkRequests), NEW y, NEW z, NEW r, Leads(x, q, y),
         \/ r = <<>> /\ z = y
         \/ \E e \in LinkRequests : r = <<e>> /\ Timely(e, y) /\ z = Effect(e, y)
  PROVE  Leads(x, q \o r, z) /\ q \o r \in Seq(LinkRequests)
  <1>1. CASE r = <<>> /\ z = y
    <2>1. q \o <<>> = q
      OBVIOUS
    <2> QED
      BY <1>1, <2>1
  <1>2. ASSUME NEW e \in LinkRequests, r = <<e>>, Timely(e, y), z = Effect(e, y)
        PROVE  Leads(x, q \o r, z) /\ q \o r \in Seq(LinkRequests)
    <2> DEFINE a == q \o <<e>>
    <2>1. /\ Len(q) \in Nat /\ Len(a) = Len(q) + 1 /\ a[Len(q) + 1] = e
          /\ \A i \in 1..Len(q) : a[i] = q[i]
          /\ a \in Seq(LinkRequests)
      OBVIOUS
    <2> HIDE DEF a
    <2>2. Leads(x, a, Effect(e, y))
      BY <1>2, <2>1, LeadsOn
    <2> QED
      BY <1>2, <2>1, <2>2 DEF a
  <1> QED
    BY <1>1, <1>2

\* The edge of the interface, and that of one port that is among new ports, if at all.
LEMMA InterfaceEdgeLeads ==
  ASSUME NEW o \in BOOLEAN, NEW w \in BOOLEAN, NEW n \in Nat, NEW l,
         l = IF ~o /\ w THEN <<"LINK_UP">> ELSE IF o /\ ~w THEN <<"LINK_DOWN">> ELSE <<>>
  PROVE  Leads(LinkState(o, n), l, LinkState(w, n)) /\ l \in Seq(LinkRequests)
  <1>1. Leads(LinkState(o, n), <<>>, LinkState(o, n)) /\ <<>> \in Seq(LinkRequests)
    BY LeadsEmpty, EffectOn, EmptySeq
  <1>2. \/ l = <<>> /\ LinkState(w, n) = LinkState(o, n)
        \/ \E e \in LinkRequests :
             /\ l = <<e>> /\ Timely(e, LinkState(o, n))
             /\ LinkState(w, n) = Effect(e, LinkState(o, n))
    <2>1. CASE ~o /\ w
      <3>1. w = TRUE /\ "LINK_UP" \in LinkRequests
        BY <2>1 DEF LinkRequests
      <3> QED
        BY <2>1, <3>1, EffectOn
    <2>2. CASE o /\ ~w
      <3>1. w = FALSE /\ "LINK_DOWN" \in LinkRequests
        BY <2>2 DEF LinkRequests
      <3> QED
        BY <2>2, <3>1, EffectOn
    <2>3. CASE o <=> w
      <3>1. o = w
        BY <2>3
      <3> QED
        BY <2>3, <3>1
    <2> QED
      BY <2>1, <2>2, <2>3
  <1>3. l \in Seq(LinkRequests)
    <2>1. <<"LINK_UP">> \in Seq(LinkRequests) /\ <<"LINK_DOWN">> \in Seq(LinkRequests)
      BY OneRequest DEF LinkRequests
    <2> QED
      BY <1>1, <2>1
  <1>4. Leads(LinkState(o, n), <<>> \o l, LinkState(w, n))
    BY <1>1, <1>2, EdgeLeads
  <1>5. <<>> \o l = l
    BY <1>3
  <1> QED
    BY <1>3, <1>4, <1>5

LEMMA PortEdgeLeads ==
  ASSUME NEW u \in BOOLEAN, NEW a \in {0, 1}, NEW b \in {0, 1}, NEW n \in Nat, NEW p,
         p = IF b = 1 /\ a # 1 THEN <<"PORT_LINK_UP">>
             ELSE IF a = 1 /\ b # 1 THEN <<"PORT_LINK_DOWN">> ELSE <<>>,
         b = 1 => u,
         NEW x, NEW q \in Seq(LinkRequests), Leads(x, q, LinkState(u, n + a))
  PROVE  Leads(x, q \o p, LinkState(u, n + b)) /\ q \o p \in Seq(LinkRequests)
  <1>1. {"PORT_LINK_UP", "PORT_LINK_DOWN"} \subseteq LinkRequests
    BY DEF LinkRequests
  <1>2. \/ p = <<>> /\ LinkState(u, n + b) = LinkState(u, n + a)
        \/ \E e \in LinkRequests :
             /\ p = <<e>> /\ Timely(e, LinkState(u, n + a))
             /\ LinkState(u, n + b) = Effect(e, LinkState(u, n + a))
    <2>1. CASE b = 1 /\ a # 1
      <3>1. n + a = n /\ n + b = n + 1 /\ u
        BY <2>1
      <3>2. Timely("PORT_LINK_UP", LinkState(u, n))
            /\ Effect("PORT_LINK_UP", LinkState(u, n)) = LinkState(u, n + 1)
        BY <3>1, EffectOn
      <3> QED
        BY <1>1, <2>1, <3>1, <3>2
    <2>2. CASE a = 1 /\ b # 1
      <3>1. n + a = n + 1 /\ n + b = n /\ n + 1 \in Nat /\ Less(n + 1) = n
        BY <2>2 DEF Less
      <3>2. Timely("PORT_LINK_DOWN", LinkState(u, n + 1))
            /\ Effect("PORT_LINK_DOWN", LinkState(u, n + 1)) = LinkState(u, n)
        BY <3>1, EffectOn
      <3> QED
        BY <1>1, <2>2, <3>1, <3>2
    <2>3. CASE a = b
      BY <2>3
    <2> QED
      BY <2>1, <2>2, <2>3
  <1> QED
    BY <1>2, EdgeLeads

\* The edges between two sets of ports add up.
LEMMA EdgesLead ==
  ASSUME NEW old \in SUBSET Ports, NEW new \in SUBSET Ports
  PROVE  Leads(Known(old), EdgeRequests(old, new), Known(new))
  <1> DEFINE o == old # {}
             w == new # {}
             o1 == IF 1 \in old THEN 1 ELSE 0
             o2 == IF 2 \in old THEN 1 ELSE 0
             w1 == IF 1 \in new THEN 1 ELSE 0
             w2 == IF 2 \in new THEN 1 ELSE 0
             l == LinkEdge(old, new)
             p1 == PortEdge(1, old, new)
             p2 == PortEdge(2, old, new)
  <1>1. /\ o \in BOOLEAN /\ w \in BOOLEAN /\ {o1, o2, w1, w2} \subseteq {0, 1}
        /\ o <=> (o1 = 1 \/ o2 = 1)
        /\ w <=> (w1 = 1 \/ w2 = 1)
    BY PortsKnown
  <1>2. /\ 1 \in old <=> o1 = 1
        /\ 2 \in old <=> o2 = 1
        /\ 1 \in new <=> w1 = 1
        /\ 2 \in new <=> w2 = 1
        /\ old # {} <=> o
        /\ new # {} <=> w
    OBVIOUS
  <1>3. Known(old) = LinkState(o, o1 + o2) /\ Known(new) = LinkState(w, w1 + w2)
    BY PortsKnown DEF Known
  <1>4. /\ l = IF ~o /\ w THEN <<"LINK_UP">> ELSE IF o /\ ~w THEN <<"LINK_DOWN">> ELSE <<>>
        /\ p1 = IF w1 = 1 /\ o1 # 1 THEN <<"PORT_LINK_UP">>
                ELSE IF o1 = 1 /\ w1 # 1 THEN <<"PORT_LINK_DOWN">> ELSE <<>>
        /\ p2 = IF w2 = 1 /\ o2 # 1 THEN <<"PORT_LINK_UP">>
                ELSE IF o2 = 1 /\ w2 # 1 THEN <<"PORT_LINK_DOWN">> ELSE <<>>
    BY <1>2 DEF LinkEdge, PortEdge
  <1>5. EdgeRequests(old, new) = (l \o p1) \o p2
    BY DEF EdgeRequests
  <1> HIDE DEF o, w, o1, o2, w1, w2, l, p1, p2
  <1>6. Leads(LinkState(o, o1 + o2), l, LinkState(w, o1 + o2)) /\ l \in Seq(LinkRequests)
    <2>1. o1 + o2 \in Nat
      BY <1>1
    <2> QED
      BY <1>1, <1>4, <2>1, InterfaceEdgeLeads
  <1>7. Leads(Known(old), l \o p1, LinkState(w, o2 + w1)) /\ l \o p1 \in Seq(LinkRequests)
    <2>1. Leads(Known(old), l, LinkState(w, o2 + o1))
      <3>1. o1 + o2 = o2 + o1
        BY <1>1
      <3> QED
        BY <1>3, <1>6, <3>1
    <2>2. o2 \in Nat /\ o1 \in {0, 1} /\ w1 \in {0, 1} /\ w \in BOOLEAN /\ (w1 = 1 => w)
      BY <1>1
    <2> QED
      BY ONLY <1>4, <1>6, <2>1, <2>2, PortEdgeLeads
  <1>8. Leads(Known(old), (l \o p1) \o p2, LinkState(w, w1 + w2))
    <2>1. Leads(Known(old), l \o p1, LinkState(w, w1 + o2))
      <3>1. o2 + w1 = w1 + o2
        BY <1>1
      <3> QED
        BY <1>7, <3>1
    <2>2. w1 \in Nat /\ o2 \in {0, 1} /\ w2 \in {0, 1} /\ w \in BOOLEAN /\ (w2 = 1 => w)
      BY <1>1
    <2> QED
      BY ONLY <1>4, <1>7, <2>1, <2>2, PortEdgeLeads
  <1> QED
    BY <1>3, <1>5, <1>8
-----------------------------------------------------------------------------
(* The main thread's progress.                                              *)

LEMMA MainSteps ==
  ASSUME NEW s \in 1..Len(Steps)
  PROVE  /\ s = 1 <=> Steps[s] = "add"
         /\ s = 2 <=> Steps[s] = "clear"
         /\ (\E i \in 1..(s - 1) : Steps[i] = "add") <=> s >= 2
         /\ (\E i \in 1..(s - 1) : Steps[i] = "create") <=> s >= 6
         /\ (\E i \in 1..(s - 1) : Steps[i] = "start") <=> s >= 7
         /\ Steps[s] \in {"notify", "opener_notify"} => s >= 2
  <1>1. /\ Len(Steps) = 14 /\ Steps[1] = "add" /\ Steps[2] = "clear" /\ Steps[3] = "get"
        /\ Steps[4] = "notify" /\ Steps[5] = "create" /\ Steps[6] = "start"
        /\ Steps[7] = "opener_add" /\ Steps[8] = "opener_get" /\ Steps[9] = "opener_notify"
        /\ Steps[10] = "register" /\ Steps[11] = "wait" /\ Steps[12] = "state_get"
        /\ Steps[13] = "state_notify" /\ Steps[14] = "done"
    BY DEF Steps
  <1> HIDE DEF Steps
  <1>2. ASSUME NEW n \in Nat \ {0}, NEW name,
               \A i \in 1..14 : Steps[i] = name <=> i = n
        PROVE  (\E i \in 1..(s - 1) : Steps[i] = name) <=> s >= n + 1
    <2>1. s \in 1..14 /\ \A i \in 1..(s - 1) : i \in 1..14
      BY <1>1
    <2>2. s >= n + 1 => n \in 1..(s - 1)
      BY <2>1
    <2>3. \A i \in 1..(s - 1) : i = n => s >= n + 1
      BY <2>1
    <2> QED
      BY <1>2, <2>1, <2>2, <2>3
  <1>3. \A i \in 1..14 :
          /\ Steps[i] = "add" <=> i = 1
          /\ Steps[i] = "clear" <=> i = 2
          /\ Steps[i] = "create" <=> i = 5
          /\ Steps[i] = "start" <=> i = 6
          /\ Steps[i] \in {"notify", "opener_notify"} => i >= 2
    BY <1>1
  <1>4. (\E i \in 1..(s - 1) : Steps[i] = "add") <=> s >= 1 + 1
    BY <1>2, <1>3
  <1>5. (\E i \in 1..(s - 1) : Steps[i] = "create") <=> s >= 5 + 1
    BY <1>2, <1>3
  <1>6. (\E i \in 1..(s - 1) : Steps[i] = "start") <=> s >= 6 + 1
    BY <1>2, <1>3
  <1> QED
    BY <1>1, <1>3, <1>4, <1>5, <1>6

\* It only goes on, and past the client's entry only while nobody broadcasts.
LEMMA MainMoves ==
  ASSUME IInv, [Next]_vars
  PROVE  /\ \A s : Past(s) => Past(s)'
         /\ broadcast.by # "none" => (Past("add")' <=> Past("add"))
  <1>0. TypeOK /\ MainBroadcasts
    BY DEF IInv
  <1>1. main.step \in 1..Len(Steps) /\ main \in MainStates /\ main.step \in Nat
    BY <1>0 DEF TypeOK, MainStates
  <1>2. CASE main'.step = main.step
    BY <1>2 DEF Past
  <1>3. ASSUME main'.step = main.step + 1, At("add") => broadcast.by = "none"
        PROVE  /\ \A s : Past(s) => Past(s)'
               /\ broadcast.by # "none" => (Past("add")' <=> Past("add"))
    <2>1. \A i \in 1..(main.step - 1) : i \in 1..(main'.step - 1)
      BY <1>1, <1>3
    <2>2. \A s : Past(s) => Past(s)'
      BY <2>1 DEF Past
    <2>3. ~At("add") => Past("add")
      <3>1. ~At("add") => main.step >= 2
        BY <1>1, MainSteps DEF At
      <3> QED
        BY <1>1, <3>1, MainSteps DEF Past
    <2> QED
      BY <1>3, <2>2, <2>3
  <1>4. ASSUME LinkChanges \/ Monitor \/ BroadcastRequests \/ MonitorEnds \/ Lwip \/ Launcher
        PROVE  main' = main
    BY <1>4
    DEF LinkChanges, Monitor, MonitorPolls, MonitorUpdates, MonitorFindsNoChange,
        MonitorBroadcasts, BroadcastRequests, MonitorEnds, Lwip, ConflictDetected, AcdReports,
        Launcher, LauncherTakesLink, LauncherTakesIp, LauncherTakesAcd, LauncherCallsLwip,
        LauncherTells, LauncherTellsAcd
  <1>5. ASSUME MainNotifies \/ UNCHANGED vars
        PROVE  main' = main
    BY <1>5 DEF MainNotifies, vars
  <1>6. ASSUME MainEnds
        PROVE  main'.step = main.step + 1 /\ ~At("add")
    <2>1. main'.step = main.step + 1
      BY <1>1, <1>6 DEF MainEnds, MainStates
    <2>2. \E s \in {"notify", "opener_notify"} : At(s)
      BY <1>0, <1>6 DEF MainEnds, BroadcastEnds, MainBroadcasts
    <2> QED
      BY <2>1, <2>2 DEF At
  <1>7. ASSUME NEW s, MainGoes(s), s # "add"
        PROVE  main'.step = main.step + 1 /\ ~At("add")
    BY <1>1, <1>7 DEF MainGoes, At, MainStates
  <1>8. ASSUME MainOpens
        PROVE  main'.step = main.step + 1 /\ (At("add") => broadcast.by = "none")
    BY <1>1, <1>8 DEF MainOpens, MainGoes, At, MainStates
  <1>9. ASSUME MainClears \/ MainWaits PROVE main'.step = main.step + 1 /\ ~At("add")
    BY <1>7, <1>9 DEF MainClears, MainWaits
  <1>10. ASSUME MainGetsLinkStatus \/ MainGetsState \/ MainTellsState
         PROVE  main'.step = main.step + 1 /\ ~At("add")
    BY <1>1, <1>10 DEF MainGetsLinkStatus, MainGetsState, MainTellsState, At, MainStates
  <1> QED
    BY <1>2, <1>3, <1>4, <1>5, <1>6, <1>8, <1>9, <1>10 DEF Next, Broadcaster, Main
-----------------------------------------------------------------------------
(* The strengthened invariant.                                              *)

\* Nothing happens before its time: no request without a queue, no call of lwIP before the
\* launcher has been started, nothing to send while nobody broadcasts.
Early ==
  /\ ~Past("create") => queue = <<>>
  /\ ~Past("start") =>
       launcher \in {"wait", "tell", "acd"} /\ ~netif.up /\ acd_link_num = 0
  /\ broadcast.by = "none" => broadcast.todo = <<>>

\* The interface and its link differ only in the middle of bringing them up or down.
Stages ==
  /\ launcher \notin {"link_up", "down"} => netif.link = netif.up
  /\ launcher \in {"link_up", "start_acd"} => netif.up
  /\ launcher = "down" => ~netif.link

\* What lwIP knows of the links, once the request in the launcher's hands is handled.
Handled ==
  LinkState(\/ launcher \in {"up", "link_up", "start_acd"}
            \/ launcher \notin {"link_down", "down"} /\ netif.up,
            IF launcher = "port_up" THEN acd_link_num + 1
            ELSE IF launcher = "port_down" THEN Less(acd_link_num) ELSE acd_link_num)

\* What the lwIP port has recorded of the links, once its broadcast has ended.
Delivered ==
  Known(IF broadcast.by # "none" /\ Past("add") THEN broadcast.mask ELSE port_link_status)

\* The requests in the queue, and those still to send, lead from the one to the other.
LinksLead ==
  "link" \notin lost =>
    \E m \in LinkStates : Leads(Handled, queue, m) /\ Leads(m, broadcast.todo, Delivered)

\* ACD works while lwIP counts a link, and is there when a port comes up.
AcdCounts ==
  "link" \notin lost =>
    /\ acd_link_num = 0 => acd \in IF netif.addr THEN {"none", "off"} ELSE {"acquire"}
    /\ acd_link_num > 0 => acd = IF netif.addr THEN "active" ELSE "fault"
    /\ netif.up /\ launcher \notin {"link_up", "start_acd"} => acd # "none"
    /\ launcher = "port_up" => netif.up

LinkInv == IInv /\ Early /\ Stages /\ LinksLead /\ AcdCounts

LEMMA LostStays ==
  ASSUME [Next]_vars
  PROVE  lost \subseteq lost'
  <1>1. ASSUME NEW rs, Request(rs) PROVE lost \subseteq lost'
    BY <1>1 DEF Request
  <1>2. CASE UNCHANGED queueVars
    BY <1>2 DEF queueVars
  <1>3. ASSUME BroadcastRequests \/ Lwip PROVE lost \subseteq lost'
    BY <1>1, <1>3 DEF BroadcastRequests, Lwip, ConflictDetected, AcdReports
  <1>4. ASSUME LauncherTakesLink \/ LauncherTakesIp \/ LauncherTakesAcd
        PROVE  lost \subseteq lost'
    BY <1>4 DEF LauncherTakesLink, LauncherTakesIp, LauncherTakesAcd
  <1>5. ASSUME LauncherCallsLwip PROVE lost \subseteq lost'
    BY <1>1, <1>2, <1>5 DEF LauncherCallsLwip, SetUp, SetDown, SetLinkUp, SetLinkDown
  <1>6. ASSUME LinkChanges \/ Monitor \/ MonitorEnds \/ MainEnds \/ LauncherTells
               \/ LauncherTellsAcd \/ Main \/ UNCHANGED vars
        PROVE  UNCHANGED queueVars
    BY <1>6
    DEF LinkChanges, Monitor, MonitorPolls, MonitorUpdates, MonitorFindsNoChange,
        MonitorBroadcasts, MonitorEnds, MainEnds, LauncherTells, LauncherTellsAcd, Main,
        MainOpens, MainClears, MainGetsLinkStatus, MainNotifies, MainWaits, MainGetsState,
        MainTellsState, vars
  <1> QED
    BY <1>2, <1>3, <1>4, <1>5, <1>6 DEF Next, Broadcaster, Launcher

\* Without a queue a request stays out of it.
LEMMA NoQueue ==
  ASSUME ~Past("create"), queue = <<>>, NEW rs \in Seq(Requests), Request(rs)
  PROVE  queue' = <<>>
  <1>1. Room = 0 /\ Len(rs) \in Nat
    BY LenProperties DEF Room
  <1>2. queue' = <<>> \o SubSeq(rs, 1, 0)
    BY <1>1 DEF Request
  <1>3. SubSeq(rs, 1, 0) \in Seq(Requests) /\ Len(SubSeq(rs, 1, 0)) = 0
    BY SubSeqProperties
  <1>4. SubSeq(rs, 1, 0) = <<>>
    BY <1>3, EmptySeq
  <1> QED
    BY <1>2, <1>4

LEMMA EarlyQueue ==
  ASSUME IInv, Early, ~Past("create"), [Next]_vars
  PROVE  queue' = <<>>
  <1>1. TypeOK /\ queue = <<>>
    BY DEF IInv, Early
  <1>2. CASE UNCHANGED queueVars
    BY <1>1, <1>2 DEF queueVars
  <1>3. ASSUME NEW rs \in Seq(Requests), Request(rs) PROVE queue' = <<>>
    BY <1>1, <1>3, NoQueue
  <1>4. ASSUME NEW r PROVE ~Takes(r)
    BY <1>1 DEF Takes
  <1>5. CASE BroadcastRequests
    <2>1. broadcast.todo \in Seq(LinkRequests) /\ broadcast.todo # <<>>
      BY <1>1, <1>5 DEF BroadcastRequests, TypeOK, BroadcastStates
    <2>2. Head(broadcast.todo) \in Requests
      BY <2>1, HeadTailProperties DEF Requests
    <2> QED
      BY <1>3, <1>5, <2>2, OneRequest DEF BroadcastRequests
  <1>6. CASE Lwip
    BY <1>3, <1>6, StatusChangedType, AcdRequestType DEF Lwip, ConflictDetected, AcdReports
  <1>7. CASE LauncherTakesLink \/ LauncherTakesIp \/ LauncherTakesAcd
    BY <1>4, <1>7 DEF LauncherTakesLink, LauncherTakesIp, LauncherTakesAcd
  <1>8. CASE LauncherCallsLwip
    <2>1. CASE SetUp
      BY <1>2, <1>3, <2>1, StatusChangedType, AcdRequestType DEF SetUp
    <2>2. CASE SetDown
      BY <1>2, <1>3, <2>2, StatusChangedType DEF SetDown
    <2>3. CASE SetLinkUp
      BY <1>2, <1>3, <2>3, StatusChangedType, AcdRequestType DEF SetLinkUp
    <2>4. CASE SetLinkDown
      BY <1>2, <2>4 DEF SetLinkDown
    <2> QED
      BY <1>8, <2>1, <2>2, <2>3, <2>4 DEF LauncherCallsLwip
  <1>9. ASSUME LinkChanges \/ Monitor \/ MonitorEnds \/ MainEnds \/ LauncherTells
               \/ LauncherTellsAcd \/ Main \/ UNCHANGED vars
        PROVE  UNCHANGED queueVars
    BY <1>9
    DEF LinkChanges, Monitor, MonitorPolls, MonitorUpdates, MonitorFindsNoChange,
        MonitorBroadcasts, MonitorEnds, MainEnds, LauncherTells, LauncherTellsAcd, Main,
        MainOpens, MainClears, MainGetsLinkStatus, MainNotifies, MainWaits, MainGetsState,
        MainTellsState, vars
  <1> QED
    BY <1>2, <1>5, <1>6, <1>7, <1>8, <1>9 DEF Next, Broadcaster, Launcher

LEMMA EarlyStep ==
  ASSUME IInv, Early, [Next]_vars
  PROVE  Early'
  <1> USE DEF monitorVars, queueVars, portVars, lwipVars, stateVars, boundVars
  <1>0. TypeOK /\ \A s : Past(s) => Past(s)'
    BY MainMoves DEF IInv
  <1>1. ~Past("create")' => queue' = <<>>
    BY <1>0, EarlyQueue
  <1>2. ASSUME ~Past("start")
        PROVE  launcher' \in {"wait", "tell", "acd"} /\ ~netif'.up /\ acd_link_num' = 0
    <2>1. launcher \in {"wait", "tell", "acd"} /\ ~netif.up /\ acd_link_num = 0
      BY <1>2 DEF Early
    <2>2. CASE UNCHANGED <<launcher, netif, acd_link_num>>
      BY <2>1, <2>2
    <2>3. CASE Launcher
      <3>1. CASE LauncherTakesLink
        BY <1>2, <2>1, <3>1 DEF LauncherTakesLink
      <3>2. CASE LauncherTakesIp \/ LauncherTakesAcd
        BY <2>1, <3>2 DEF LauncherTakesIp, LauncherTakesAcd, SetNetifState
      <3>3. CASE LauncherCallsLwip
        BY <2>1, <3>3
        DEF LauncherCallsLwip, SetUp, SetDown, SetLinkUp, SetLinkDown, LauncherGoes
      <3>4. CASE LauncherTells \/ LauncherTellsAcd
        BY <2>1, <3>4 DEF LauncherTells, LauncherTellsAcd, LauncherGoes
      <3> QED
        BY <2>3, <3>1, <3>2, <3>3, <3>4 DEF Launcher
    <2>4. ~ConflictDetected
      BY <2>1 DEF ConflictDetected
    <2>5. ASSUME LinkChanges \/ Monitor \/ Broadcaster \/ AcdReports
          PROVE  UNCHANGED <<launcher, netif, acd_link_num>>
      BY <2>5
      DEF LinkChanges, Monitor, MonitorPolls, MonitorUpdates, MonitorFindsNoChange,
          MonitorBroadcasts, Broadcaster, BroadcastRequests, MonitorEnds, MainEnds, AcdReports
    <2>6. ASSUME Main \/ UNCHANGED vars
          PROVE  UNCHANGED <<launcher, netif, acd_link_num>>
      BY <2>6
      DEF Main, MainOpens, MainClears, MainGetsLinkStatus, MainNotifies, MainWaits,
          MainGetsState, MainTellsState, vars
    <2> QED
      BY <2>2, <2>3, <2>4, <2>5, <2>6 DEF Next, Lwip
  <1>3. ASSUME broadcast'.by = "none" PROVE broadcast'.todo = <<>>
    <2>1. broadcast \in BroadcastStates /\ (broadcast.by = "none" => broadcast.todo = <<>>)
      BY <1>0 DEF TypeOK, Early
    <2>2. ~BroadcastRequests
      BY <1>3, <2>1 DEF BroadcastRequests, BroadcastStates
    <2>3. CASE MonitorEnds \/ MainEnds
      BY <2>3 DEF MonitorEnds, MainEnds, BroadcastEnds, NoBroadcast
    <2>4. ~MonitorBroadcasts /\ ~MainNotifies
      BY <1>3 DEF MonitorBroadcasts, MainNotifies, BroadcastStarts
    <2>5. CASE UNCHANGED broadcast
      BY <1>3, <2>1, <2>5
    <2>6. ASSUME LinkChanges \/ (Monitor /\ ~MonitorBroadcasts) \/ Lwip \/ Launcher
          PROVE  UNCHANGED broadcast
      BY <2>6
      DEF LinkChanges, Monitor, MonitorPolls, MonitorUpdates, MonitorFindsNoChange, Lwip,
          ConflictDetected, AcdReports, Launcher, LauncherTakesLink, LauncherTakesIp,
          LauncherTakesAcd, LauncherCallsLwip, LauncherTells, LauncherTellsAcd
    <2>7. ASSUME (Main /\ ~MainNotifies) \/ UNCHANGED vars
          PROVE  UNCHANGED broadcast
      BY <2>7
      DEF Main, MainOpens, MainClears, MainGetsLinkStatus, MainWaits, MainGetsState,
          MainTellsState, vars
    <2> QED
      BY <2>2, <2>3, <2>4, <2>5, <2>6, <2>7 DEF Next, Broadcaster
  <1> QED
    BY <1>0, <1>1, <1>2, <1>3 DEF Early

LEMMA StagesStep ==
  ASSUME IInv, Early, Stages, [Next]_vars
  PROVE  Stages'
  <1> USE DEF monitorVars, queueVars, portVars, lwipVars, stateVars, boundVars
  <1>0. TypeOK /\ netif \in NetifStates
    BY DEF IInv, TypeOK
  <1>1. CASE UNCHANGED <<launcher, netif>>
    BY <1>1 DEF Stages
  <1>2. CASE ConflictDetected
    BY <1>0, <1>2 DEF ConflictDetected, Stages, NetifStates
  <1>3. CASE LauncherTakesLink
    BY <1>3 DEF LauncherTakesLink, Takes, Stages, LinkRequests
  <1>4. CASE LauncherTakesIp \/ LauncherTakesAcd
    BY <1>4 DEF LauncherTakesIp, LauncherTakesAcd, SetNetifState, Takes, Stages
  <1>5. CASE LauncherCallsLwip
    <2>1. CASE SetUp
      BY <1>0, <2>1 DEF SetUp, LauncherGoes, Stages, NetifStates
    <2>2. CASE SetDown
      BY <1>0, <2>2 DEF SetDown, LauncherGoes, Stages, NetifStates
    <2>3. CASE SetLinkUp
      BY <1>0, <2>3 DEF SetLinkUp, LauncherGoes, Stages, NetifStates
    <2>4. CASE SetLinkDown
      BY <1>0, <2>4 DEF SetLinkDown, LauncherGoes, Stages, NetifStates
    <2> QED
      BY <1>5, <2>1, <2>2, <2>3, <2>4 DEF LauncherCallsLwip
  <1>6. CASE LauncherTells \/ LauncherTellsAcd
    BY <1>6 DEF LauncherTells, LauncherTellsAcd, LauncherGoes, Stages
  <1>7. ASSUME LinkChanges \/ Monitor \/ Broadcaster \/ AcdReports
        PROVE  UNCHANGED <<launcher, netif>>
    BY <1>7
    DEF LinkChanges, Monitor, MonitorPolls, MonitorUpdates, MonitorFindsNoChange,
        MonitorBroadcasts, Broadcaster, BroadcastRequests, MonitorEnds, MainEnds, AcdReports
  <1>8. ASSUME Main \/ UNCHANGED vars
        PROVE  UNCHANGED <<launcher, netif>>
    BY <1>8
    DEF Main, MainOpens, MainClears, MainGetsLinkStatus, MainNotifies, MainWaits,
        MainGetsState, MainTellsState, vars
  <1> QED
    BY <1>1, <1>2, <1>3, <1>4, <1>5, <1>6, <1>7, <1>8 DEF Next, Lwip, Launcher
-----------------------------------------------------------------------------
(* The requests lead from what is handled to what is delivered.             *)

\* Steps that add nothing about a link to the queue, or nothing at all.
Quiet == \A x, y : Leads(x, queue, y) => Leads(x, queue', y)

LEMMA QuietRequest ==
  ASSUME TypeOK, NEW rs \in Seq(Requests), Request(rs),
         \A i \in 1..Len(rs) : rs[i] \notin LinkRequests
  PROVE  Quiet
  <1>1. PICK sent \in 0..Len(rs) :
          /\ Len(queue') = Len(queue) + sent
          /\ \A i \in 1..Len(queue) : queue'[i] = queue[i]
          /\ \A i \in 1..sent : queue'[Len(queue) + i] = rs[i]
    BY RequestQueue
  <1>2. sent \in Nat /\ Len(queue) \in Nat /\ \A i \in 1..sent : i \in 1..Len(rs)
    BY LenProperties DEF TypeOK
  <1>3. \A i \in 1..sent : queue'[Len(queue) + i] \notin LinkRequests
    BY <1>1, <1>2
  <1>4. ASSUME NEW x, NEW y, Leads(x, queue, y) PROVE Leads(x, queue', y)
    BY <1>1, <1>2, <1>3, <1>4, LeadsQuietly
  <1> QED
    BY <1>4 DEF Quiet

LEMMA QuietCalls ==
  ASSUME TypeOK, NEW n
  PROVE  /\ Request(StatusChanged(n)) => Quiet
         /\ Request(<<"ACD">>) => Quiet
         /\ Request(<<>>) => Quiet
         /\ Request(StatusChanged(n) \o <<"ACD">>) => Quiet
         /\ Request(<<"ACD">> \o StatusChanged(n) \o <<"ACD">>) => Quiet
  <1> DEFINE Q == Requests \ LinkRequests
  <1>1. "ACD" \in Q /\ IpRequest(n) \in Q /\ Q \subseteq Requests
    BY DEF Requests, LinkRequests, IpRequests, IpRequest
  <1>2. ASSUME NEW rs \in Seq(Q), Request(rs) PROVE Quiet
    <2>1. rs \in Seq(Requests) /\ \A i \in 1..Len(rs) : rs[i] \notin LinkRequests
      <3>1. Len(rs) \in Nat /\ \A i \in 1..Len(rs) : rs[i] \in Q
        BY LenProperties, ElementOfSeq
      <3>2. rs \in Seq(Requests)
        BY <1>1
      <3> QED
        BY <3>1, <3>2
    <2> QED
      BY <1>2, <2>1, QuietRequest
  <1> HIDE DEF Q
  <1>3. <<"ACD">> \in Seq(Q) /\ <<>> \in Seq(Q) /\ <<IpRequest(n)>> \in Seq(Q)
    BY <1>1, OneRequest, EmptySeq
  <1>4. StatusChanged(n) \in Seq(Q)
    BY <1>3 DEF StatusChanged
  <1>5. <<"ACD">> \o StatusChanged(n) \in Seq(Q)
    BY <1>3, <1>4, ConcatProperties
  <1>6. /\ StatusChanged(n) \o <<"ACD">> \in Seq(Q)
        /\ <<"ACD">> \o StatusChanged(n) \o <<"ACD">> \in Seq(Q)
    BY <1>3, <1>4, <1>5, ConcatProperties
  <1> QED
    BY <1>2, <1>3, <1>4, <1>6

LEMMA HandledType ==
  ASSUME TypeOK
  PROVE  Handled \in LinkStates
  <1>1. acd_link_num \in Nat /\ Less(acd_link_num) \in Nat /\ netif.up \in BOOLEAN
    BY DEF TypeOK, NetifStates, Less
  <1> DEFINE u == \/ launcher \in {"up", "link_up", "start_acd"}
                  \/ launcher \notin {"link_down", "down"} /\ netif.up
             n == IF launcher = "port_up" THEN acd_link_num + 1
                  ELSE IF launcher = "port_down" THEN Less(acd_link_num) ELSE acd_link_num
  <1>2. u \in BOOLEAN /\ n \in Nat
    BY <1>1
  <1> HIDE DEF u, n
  <1>3. LinkState(u, n) \in LinkStates
    BY <1>2, EffectOn
  <1> QED
    BY <1>3 DEF Handled, u, n

LEMMA DeliveredType ==
  ASSUME TypeOK
  PROVE  Delivered \in LinkStates
  <1>1. broadcast.mask \in SUBSET Ports /\ port_link_status \in SUBSET Ports
    BY DEF TypeOK, BroadcastStates
  <1> QED
    BY <1>1, PortsKnown DEF Delivered

\* A step that changes nothing of this.
LEMMA LinksStay ==
  ASSUME IInv, LinksLead, [Next]_vars, UNCHANGED <<broadcast, port_link_status>>,
         Handled' = Handled, Quiet
  PROVE  LinksLead'
  <1>1. Delivered' = Delivered
    BY MainMoves DEF Delivered
  <1>2. lost \subseteq lost'
    BY LostStays
  <1> QED
    BY <1>1, <1>2 DEF LinksLead, Quiet

\* Nobody broadcasts and nothing is in the queue: what is handled is what was delivered.
LEMMA AllHandled ==
  ASSUME TypeOK, Early, LinksLead, "link" \notin lost, broadcast.by = "none",
         \A i \in 1..Len(queue) : queue[i] \notin LinkRequests
  PROVE  Handled = Delivered
  <1>1. PICK m \in LinkStates : Leads(Handled, queue, m) /\ Leads(m, broadcast.todo, Delivered)
    BY DEF LinksLead
  <1>2. broadcast.todo = <<>> /\ Len(<<>>) = 0 /\ Len(queue) \in Nat
    BY LenProperties DEF Early, TypeOK
  <1>3. Handled = m
    BY <1>1, <1>2, LeadsNowhere
  <1>4. m = Delivered
    BY <1>1, <1>2, LeadsNowhere
  <1> QED
    BY <1>3, <1>4

\* A broadcast begins.
LEMMA StartsLead ==
  ASSUME IInv, Early, LinksLead, NEW by \in {"monitor", "main"}, NEW mask \in SUBSET Ports,
         BroadcastStarts(by, mask), UNCHANGED <<main, port_link_status, queue, lost>>,
         Handled' = Handled
  PROVE  LinksLead'
  <1> SUFFICES ASSUME "link" \notin lost
               PROVE  \E m \in LinkStates :
                        Leads(Handled, queue, m) /\ Leads(m, broadcast'.todo, Delivered')
    BY DEF LinksLead
  <1>0. TypeOK
    BY DEF IInv
  <1>1. PICK m \in LinkStates : Leads(Handled, queue, m) /\ Leads(m, broadcast.todo, Delivered)
    BY DEF LinksLead
  <1>2. /\ broadcast.by = "none" /\ broadcast.todo = <<>>
        /\ broadcast'.by = by /\ broadcast'.mask = mask
        /\ broadcast'.todo = IF Past("add") THEN EdgeRequests(port_link_status, mask) ELSE <<>>
    BY DEF BroadcastStarts, Early
  <1>3. m = Delivered /\ Delivered = Known(port_link_status)
    <2>1. Len(<<>>) = 0
      BY EmptySeq
    <2> QED
      BY <1>1, <1>2, <2>1, LeadsNowhere DEF Delivered
  <1>4. Past("add")' <=> Past("add")
    BY DEF Past
  <1>5. Leads(m, broadcast'.todo, Delivered')
    <2>1. CASE Past("add")
      <3>1. Delivered' = Known(mask)
        BY <1>2, <1>4, <2>1 DEF Delivered
      <3>2. port_link_status \in SUBSET Ports
        BY <1>0 DEF TypeOK
      <3> QED
        BY <1>2, <1>3, <2>1, <3>1, <3>2, EdgesLead
    <2>2. CASE ~Past("add")
      <3>1. Delivered' = Known(port_link_status)
        BY <1>4, <2>2 DEF Delivered
      <3> QED
        BY <1>2, <1>3, <2>2, <3>1, LeadsEmpty
    <2> QED
      BY <2>1, <2>2
  <1> QED
    BY <1>1, <1>5

\* Its next request moves to the queue, or is lost.
LEMMA RequestsLead ==
  ASSUME IInv, LinksLead, BroadcastRequests
  PROVE  LinksLead'
  <1> SUFFICES ASSUME "link" \notin lost'
               PROVE  \E m \in LinkStates :
                        Leads(Handled', queue', m) /\ Leads(m, broadcast'.todo, Delivered')
    BY DEF LinksLead
  <1> DEFINE todo == broadcast.todo
             r == Head(todo)
             rs == <<r>>
  <1>0. TypeOK
    BY DEF IInv
  <1>1. todo \in Seq(LinkRequests) /\ todo # <<>> /\ broadcast \in BroadcastStates
    BY <1>0 DEF BroadcastRequests, TypeOK, BroadcastStates
  <1>2. /\ broadcast'.todo = Tail(todo) /\ broadcast'.by = broadcast.by
        /\ broadcast'.mask = broadcast.mask
    BY <1>1 DEF BroadcastRequests, BroadcastStates
  <1>3. Request(rs)
    BY DEF BroadcastRequests
  <1> HIDE DEF todo
  <1>4. /\ Len(todo) \in Nat \ {0} /\ todo[1] = r /\ r \in LinkRequests
        /\ Len(Tail(todo)) = Len(todo) - 1
        /\ \A i \in 1..Len(Tail(todo)) : Tail(todo)[i] = todo[i + 1]
    BY <1>1, HeadTailProperties, EmptySeq
  <1>5. rs \in Seq(Requests) /\ Len(rs) = 1 /\ rs[1] = r
    BY <1>4, OneRequest DEF Requests
  <1> HIDE DEF r, rs
  <1>6. PICK sent \in 0..Len(rs) :
          /\ Len(queue') = Len(queue) + sent
          /\ \A i \in 1..Len(queue) : queue'[i] = queue[i]
          /\ \A i \in 1..sent : queue'[Len(queue) + i] = rs[i]
          /\ lost' = lost \cup Kinds({rs[i] : i \in (sent + 1)..Len(rs)})
    BY <1>0, <1>3, <1>5, RequestQueue
  <1>7. sent = 1 /\ "link" \notin lost
    <2>1. sent \in {0, 1}
      BY <1>5
    <2>2. ASSUME sent = 0 PROVE FALSE
      <3>1. 1 \in (sent + 1)..Len(rs)
        BY <1>5, <2>2
      <3>2. r \in {rs[i] : i \in (sent + 1)..Len(rs)} \cap LinkRequests
        BY <1>4, <1>5, <3>1
      <3>3. "link" \in Kinds({rs[i] : i \in (sent + 1)..Len(rs)})
        BY <3>2 DEF Kinds
      <3> QED
        BY <1>6, <3>3
    <2> QED
      BY <1>6, <2>1, <2>2
  <1>8. PICK m \in LinkStates : Leads(Handled, queue, m) /\ Leads(m, todo, Delivered)
    BY <1>7 DEF LinksLead, todo
  <1>9. Leads(Effect(r, m), Tail(todo), Delivered) /\ Timely(r, m)
    BY <1>4, <1>8, LeadsFrom
  <1>10. Leads(Handled, queue', Effect(r, m))
    <2>1. /\ Len(queue) \in Nat /\ Len(queue') = Len(queue) + 1
          /\ queue'[Len(queue) + 1] = r
      <3>1. Len(queue) \in Nat /\ 1 \in 1..1
        BY <1>0, LenProperties DEF TypeOK
      <3> QED
        BY <1>5, <1>6, <1>7, <3>1
    <2> QED
      BY <1>6, <1>8, <1>9, <2>1, LeadsOn
  <1>11. Handled' = Handled /\ Delivered' = Delivered
    <2>1. UNCHANGED <<launcher, netif, acd_link_num, main, port_link_status>>
      BY DEF BroadcastRequests, lwipVars, portVars
    <2> QED
      BY <1>2, <2>1 DEF Handled, Delivered, Past
  <1>12. Effect(r, m) \in LinkStates
    BY EffectOfRequest
  <1> QED
    BY <1>2, <1>9, <1>10, <1>11, <1>12

\* A broadcast ends: the lwIP port records the mask.
LEMMA EndsLead ==
  ASSUME IInv, LinksLead, NEW by \in {"monitor", "main"}, BroadcastEnds(by),
         UNCHANGED <<launcher, netif, acd_link_num, queue, lost>>
  PROVE  LinksLead'
  <1>1. /\ broadcast.by = by /\ broadcast.todo = <<>>
        /\ broadcast'.by = "none" /\ broadcast'.todo = <<>>
    BY DEF BroadcastEnds, NoBroadcast
  <1>2. Delivered' = Delivered
    BY <1>1 DEF BroadcastEnds, Delivered
  <1>3. Handled' = Handled
    BY DEF Handled
  <1> QED
    BY <1>1, <1>2, <1>3 DEF LinksLead

\* The main thread forgets what the lwIP port has recorded: nothing, by then.
LEMMA ClearsLead ==
  ASSUME IInv, Early, LinksLead, [Next]_vars, MainClears
  PROVE  LinksLead'
  <1> SUFFICES ASSUME "link" \notin lost
               PROVE  \E m \in LinkStates :
                        Leads(Handled, queue, m) /\ Leads(m, broadcast.todo, Delivered')
    <2>1. UNCHANGED <<launcher, netif, acd_link_num, broadcast, queue, lost>>
      BY DEF MainClears, lwipVars, queueVars
    <2>2. Handled' = Handled
      BY <2>1 DEF Handled
    <2> QED
      BY <2>1, <2>2 DEF LinksLead
  <1>1. PICK m \in LinkStates : Leads(Handled, queue, m) /\ Leads(m, broadcast.todo, Delivered)
    BY DEF LinksLead
  <1>2. TypeOK /\ main.step \in 1..Len(Steps)
    BY DEF IInv, TypeOK, MainStates
  <1>3. main.step = 2 /\ broadcast' = broadcast /\ port_link_status' = {}
    BY <1>2, MainSteps DEF MainClears, MainGoes, At
  <1>4. Past("add") /\ ~Past("start") /\ ~Past("create")
    BY <1>2, <1>3, MainSteps DEF Past
  <1>5. Past("add")'
    BY <1>4, MainMoves
  <1>6. CASE broadcast.by # "none"
    <2>1. Delivered' = Delivered
      BY <1>3, <1>4, <1>5, <1>6 DEF Delivered
    <2> QED
      BY <1>1, <2>1
  <1>7. CASE broadcast.by = "none"
    <2>1. queue = <<>> /\ Len(<<>>) = 0
      BY <1>4, EmptySeq DEF Early
    <2>2. Handled = Delivered
      BY <1>2, <1>7, <2>1, AllHandled
    <2>3. Handled.up = FALSE
      BY <1>4 DEF Early, Handled, LinkState
    <2>4. Delivered = Known(port_link_status) /\ Delivered' = Known({})
      BY <1>3, <1>7 DEF Delivered
    <2>5. port_link_status = {}
      BY <2>2, <2>3, <2>4 DEF Known, LinkState
    <2> QED
      BY <1>1, <2>4, <2>5
  <1> QED
    BY <1>6, <1>7

\* The launcher takes a link request.
LEMMA TakesLead ==
  ASSUME IInv, Early, LinksLead, [Next]_vars, LauncherTakesLink
  PROVE  LinksLead' /\ ("link" \notin lost' /\ launcher' = "port_up" => netif.up)
  <1>0. TypeOK /\ launcher = "wait"
    BY DEF IInv, LauncherTakesLink, Takes
  <1>1. PICK r \in LinkRequests :
          /\ Takes(r)
          /\ IF Past("start")
             THEN /\ launcher' = CASE r = "LINK_UP" -> "up"
                                   [] r = "LINK_DOWN" -> "link_down"
                                   [] r = "PORT_LINK_UP" -> "port_up"
                                   [] r = "PORT_LINK_DOWN" -> "port_down"
                  /\ lost' = lost
             ELSE /\ launcher' = "wait"
                  /\ lost' = lost \cup {"link"}
    BY DEF LauncherTakesLink
  <1>2. UNCHANGED <<netif, acd_link_num, broadcast, port_link_status, main>>
    BY DEF LauncherTakesLink, lwipVars, portVars
  <1>3. SUFFICES ASSUME "link" \notin lost'
                 PROVE  /\ \E m \in LinkStates :
                             /\ Leads(Handled', queue', m)
                             /\ Leads(m, broadcast.todo, Delivered')
                        /\ launcher' = "port_up" => netif.up
    BY <1>2 DEF LinksLead
  <1>4. Past("start") /\ "link" \notin lost
    BY <1>1, <1>3
  <1>5. PICK m \in LinkStates : Leads(Handled, queue, m) /\ Leads(m, broadcast.todo, Delivered)
    BY <1>4 DEF LinksLead
  <1>6. Leads(Effect(r, Handled), queue', m) /\ Timely(r, Handled)
    <2>1. /\ Len(queue) \in Nat \ {0} /\ queue[1] = r /\ Len(queue') = Len(queue) - 1
          /\ \A i \in 1..Len(queue') : queue'[i] = queue[i + 1]
      BY <1>0, <1>1, TakesQueue
    <2> QED
      BY <1>5, <2>1, LeadsFrom
  <1>7. Handled.up = netif.up /\ Handled.num = acd_link_num
    BY <1>0 DEF Handled, LinkState, TypeOK, NetifStates
  <1>8. Handled' = Effect(r, Handled)
    BY <1>1, <1>2, <1>4, <1>7 DEF Handled, Effect, LinkState, LinkRequests
  <1>9. Delivered' = Delivered
    BY <1>2 DEF Delivered, Past
  <1>10. launcher' = "port_up" => netif.up
    BY <1>1, <1>4, <1>6, <1>7 DEF Timely, LinkRequests
  <1> QED
    BY <1>5, <1>6, <1>8, <1>9, <1>10

\* It takes another one.
LEMMA QuietTakes ==
  ASSUME TypeOK, NEW r, r \notin LinkRequests, Takes(r), Handled \in LinkStates
  PROVE  \A y : Leads(Handled, queue, y) => Leads(Handled, queue', y)
  <1>1. /\ Len(queue) \in Nat \ {0} /\ queue[1] = r /\ Len(queue') = Len(queue) - 1
        /\ \A i \in 1..Len(queue') : queue'[i] = queue[i + 1]
    BY TakesQueue
  <1>2. Effect(r, Handled) = Handled
    BY EffectOfRequest
  <1> QED
    BY <1>1, <1>2, LeadsFrom

\* lwIP's functions do what the request says, step by step.
LEMMA CallsLead ==
  ASSUME IInv, Stages, LinksLead, [Next]_vars, LauncherCallsLwip
  PROVE  LinksLead'
  <1>0. TypeOK /\ netif \in NetifStates /\ acd_link_num \in Nat
    BY DEF IInv, TypeOK
  <1>1. UNCHANGED <<broadcast, port_link_status>>
    BY DEF LauncherCallsLwip, portVars
  <1>2. Handled' = Handled
    <2>1. CASE SetUp /\ UNCHANGED acd_link_num
      BY <1>0, <2>1 DEF SetUp, LauncherGoes, Handled, Stages, NetifStates
    <2>2. CASE SetDown /\ UNCHANGED acd_link_num
      BY <1>0, <2>2 DEF SetDown, LauncherGoes, Handled, Stages, NetifStates
    <2>3. CASE SetLinkUp
      BY <1>0, <2>3 DEF SetLinkUp, LauncherGoes, Handled, NetifStates
    <2>4. CASE SetLinkDown
      BY <1>0, <2>4 DEF SetLinkDown, LauncherGoes, Handled, Less
    <2> QED
      BY <2>1, <2>2, <2>3, <2>4 DEF LauncherCallsLwip
  <1>3. Quiet
    <2>0. UNCHANGED queueVars => Quiet
      BY DEF queueVars, Quiet
    <2>1. CASE SetUp
      BY <1>0, <2>0, <2>1, QuietCalls DEF SetUp
    <2>2. CASE SetDown
      BY <1>0, <2>0, <2>2, QuietCalls DEF SetDown
    <2>3. CASE SetLinkUp
      BY <1>0, <2>0, <2>3, QuietCalls DEF SetLinkUp
    <2>4. CASE SetLinkDown
      BY <2>0, <2>4 DEF SetLinkDown
    <2> QED
      BY <2>1, <2>2, <2>3, <2>4 DEF LauncherCallsLwip
  <1> QED
    BY <1>1, <1>2, <1>3, LinksStay

LEMMA LinksStep ==
  ASSUME IInv, Early, Stages, LinksLead, [Next]_vars
  PROVE  LinksLead'
  <1> USE DEF monitorVars, queueVars, portVars, lwipVars, stateVars, boundVars
  <1>0. TypeOK
    BY DEF IInv
  <1>1. ASSUME UNCHANGED <<launcher, netif, acd_link_num, broadcast, port_link_status, queue>>
        PROVE  LinksLead'
    <2>1. Handled' = Handled /\ Quiet
      BY <1>1 DEF Handled, Quiet
    <2> QED
      BY <1>1, <2>1, LinksStay
  <1>2. CASE MonitorBroadcasts
    <2>1. /\ BroadcastStarts("monitor", link_status) /\ link_status \in SUBSET Ports
          /\ UNCHANGED <<main, port_link_status, queue, lost>> /\ Handled' = Handled
      BY <1>0, <1>2 DEF MonitorBroadcasts, Handled, TypeOK
    <2> QED
      BY <2>1, StartsLead
  <1>3. CASE MainNotifies
    <2>1. /\ BroadcastStarts("main", main.mask) /\ main.mask \in SUBSET Ports
          /\ UNCHANGED <<main, port_link_status, queue, lost>> /\ Handled' = Handled
      BY <1>0, <1>3 DEF MainNotifies, Handled, TypeOK, MainStates
    <2> QED
      BY <2>1, StartsLead
  <1>4. CASE BroadcastRequests
    BY <1>4, RequestsLead
  <1>5. CASE MonitorEnds
    BY <1>5, EndsLead DEF MonitorEnds
  <1>6. CASE MainEnds
    BY <1>6, EndsLead DEF MainEnds
  <1>7. CASE Lwip
    <2>1. Handled' = Handled /\ UNCHANGED <<broadcast, port_link_status>>
      BY <1>0, <1>7 DEF Lwip, ConflictDetected, AcdReports, Handled, TypeOK, NetifStates
    <2>2. Quiet
      BY <1>0, <1>7, QuietCalls DEF Lwip, ConflictDetected, AcdReports
    <2> QED
      BY <2>1, <2>2, LinksStay
  <1>8. CASE LauncherTakesLink
    BY <1>8, TakesLead
  <1>9. CASE LauncherTakesIp \/ LauncherTakesAcd
    <2>1. PICK r : Takes(r) /\ r \notin LinkRequests
      BY <1>9 DEF LauncherTakesIp, LauncherTakesAcd, LinkRequests
    <2>2. /\ UNCHANGED <<netif, acd_link_num, broadcast, port_link_status>>
          /\ launcher = "wait" /\ launcher' \in {"wait", "tell", "acd"}
      BY <1>9 DEF LauncherTakesIp, LauncherTakesAcd, Takes, SetNetifState
    <2>3. Handled' = Handled
      BY <2>2 DEF Handled
    <2>4. Delivered' = Delivered
      BY <2>2, MainMoves DEF Delivered
    <2>5. \A y : Leads(Handled, queue, y) => Leads(Handled, queue', y)
      BY <1>0, <2>1, QuietTakes, HandledType
    <2>6. lost \subseteq lost'
      BY LostStays
    <2> QED
      BY <2>2, <2>3, <2>4, <2>5, <2>6 DEF LinksLead
  <1>10. CASE LauncherCallsLwip
    BY <1>10, CallsLead
  <1>11. CASE LauncherTells \/ LauncherTellsAcd
    <2>1. /\ UNCHANGED <<netif, acd_link_num, broadcast, port_link_status, queue>>
          /\ launcher \in {"tell", "acd"} /\ launcher' = "wait"
      BY <1>11 DEF LauncherTells, LauncherTellsAcd, LauncherGoes
    <2>2. Handled' = Handled /\ Quiet
      BY <2>1 DEF Handled, Quiet
    <2> QED
      BY <2>1, <2>2, LinksStay
  <1>12. CASE MainClears
    BY <1>12, ClearsLead
  <1>13. ASSUME LinkChanges \/ MonitorPolls \/ MonitorUpdates \/ MonitorFindsNoChange
         PROVE  LinksLead'
    BY <1>1, <1>13
    DEF LinkChanges, MonitorPolls, MonitorUpdates, MonitorFindsNoChange
  <1>14. ASSUME MainOpens \/ MainGetsLinkStatus \/ MainWaits \/ MainGetsState
                \/ MainTellsState \/ UNCHANGED vars
         PROVE  LinksLead'
    BY <1>1, <1>14
    DEF MainOpens, MainGetsLinkStatus, MainWaits, MainGetsState, MainTellsState, vars
  <1> QED
    BY <1>2, <1>3, <1>4, <1>5, <1>6, <1>7, <1>8, <1>9, <1>10, <1>11, <1>12, <1>13, <1>14
    DEF Next, Monitor, Broadcaster, Launcher, Main
-----------------------------------------------------------------------------
(* ACD follows the links that lwIP counts.                                  *)

LEMMA AcdStep ==
  ASSUME LinkInv, [Next]_vars
  PROVE  AcdCounts'
  <1> USE DEF monitorVars, queueVars, portVars, lwipVars, stateVars, boundVars
  <1>0. IInv /\ Early /\ LinksLead /\ AcdCounts /\ TypeOK /\ lost \subseteq lost'
    BY LostStays DEF LinkInv, IInv
  <1> SUFFICES ASSUME "link" \notin lost'
               PROVE  /\ acd_link_num' = 0 =>
                           acd' \in IF netif'.addr THEN {"none", "off"} ELSE {"acquire"}
                      /\ acd_link_num' > 0 =>
                           acd' = IF netif'.addr THEN "active" ELSE "fault"
                      /\ netif'.up /\ launcher' \notin {"link_up", "start_acd"} =>
                           acd' # "none"
                      /\ launcher' = "port_up" => netif'.up
    BY DEF AcdCounts
  <1>1. /\ netif \in NetifStates /\ netif.addr \in BOOLEAN /\ netif.up \in BOOLEAN
        /\ acd_link_num \in Nat
    BY <1>0 DEF TypeOK, NetifStates
  <1>2. /\ acd_link_num = 0 => acd \in IF netif.addr THEN {"none", "off"} ELSE {"acquire"}
        /\ acd_link_num > 0 => acd = IF netif.addr THEN "active" ELSE "fault"
        /\ netif.up /\ launcher \notin {"link_up", "start_acd"} => acd # "none"
        /\ launcher = "port_up" => netif.up
    BY <1>0 DEF AcdCounts
  <1>3. CASE UNCHANGED <<launcher, netif, acd, acd_link_num>>
    BY <1>2, <1>3
  <1>4. CASE ConflictDetected
    <2>1. /\ acd = "active" /\ acd' = "fault" /\ netif'.addr = FALSE /\ netif'.up = netif.up
          /\ UNCHANGED <<launcher, acd_link_num>>
      BY <1>1, <1>4 DEF ConflictDetected, NetifStates
    <2> QED
      BY <1>1, <1>2, <2>1
  <1>5. CASE LauncherTakesLink
    <2>1. launcher' = "port_up" => netif.up
      BY <1>0, <1>5, TakesLead
    <2>2. /\ UNCHANGED <<netif, acd, acd_link_num>> /\ launcher = "wait"
      BY <1>5 DEF LauncherTakesLink, Takes
    <2> QED
      BY <1>2, <2>1, <2>2
  <1>6. CASE LauncherTakesIp \/ LauncherTakesAcd
    BY <1>2, <1>6 DEF LauncherTakesIp, LauncherTakesAcd, SetNetifState, Takes
  <1>7. CASE LauncherTells \/ LauncherTellsAcd
    BY <1>2, <1>7 DEF LauncherTells, LauncherTellsAcd, LauncherGoes
  <1>8. CASE SetUp /\ UNCHANGED acd_link_num
    BY <1>1, <1>2, <1>8 DEF SetUp, LauncherGoes, NetifStates
  <1>9. CASE SetDown /\ UNCHANGED acd_link_num
    BY <1>1, <1>2, <1>9 DEF SetDown, LauncherGoes, NetifStates
  <1>10. CASE SetLinkUp
    <2>1. /\ launcher = "port_up" /\ launcher' = "wait" /\ netif.up /\ acd # "none"
          /\ acd_link_num' = acd_link_num + 1
      BY <1>2, <1>10 DEF SetLinkUp, LauncherGoes
    <2> QED
      BY <1>1, <1>2, <1>10, <2>1 DEF SetLinkUp, NetifStates
  <1>11. CASE SetLinkDown
    BY <1>1, <1>2, <1>11 DEF SetLinkDown, LauncherGoes
  <1>12. ASSUME LinkChanges \/ Monitor \/ Broadcaster \/ AcdReports
         PROVE  UNCHANGED <<launcher, netif, acd, acd_link_num>>
    BY <1>12
    DEF LinkChanges, Monitor, MonitorPolls, MonitorUpdates, MonitorFindsNoChange,
        MonitorBroadcasts, Broadcaster, BroadcastRequests, MonitorEnds, MainEnds, AcdReports
  <1>13. ASSUME Main \/ UNCHANGED vars
         PROVE  UNCHANGED <<launcher, netif, acd, acd_link_num>>
    BY <1>13
    DEF Main, MainOpens, MainClears, MainGetsLinkStatus, MainNotifies, MainWaits,
        MainGetsState, MainTellsState, vars
  <1> QED
    BY <1>3, <1>4, <1>5, <1>6, <1>7, <1>8, <1>9, <1>10, <1>11, <1>12, <1>13
    DEF Next, Lwip, Launcher, LauncherCallsLwip

LEMMA InitLinkInv == Init => LinkInv
  <1> SUFFICES ASSUME Init PROVE LinkInv
    OBVIOUS
  <1>1. IInv /\ TypeOK
    BY InitType DEF Init, NoBroadcast, MainBroadcasts, IInv
  <1>2. Early
    BY DEF Init, NoBroadcast, Early
  <1>3. Stages
    BY DEF Init, Stages
  <1>4. AcdCounts
    BY DEF Init, AcdCounts
  <1>5. LinksLead
    <2>1. Cardinality({}) = 0
      BY FS_EmptySet
    <2>2. Handled = LinkState(FALSE, 0)
      BY DEF Init, Handled, LinkState
    <2>3. Delivered = LinkState(FALSE, 0)
      BY <2>1 DEF Init, NoBroadcast, Delivered, Known, LinkState
    <2>4. Leads(LinkState(FALSE, 0), <<>>, LinkState(FALSE, 0))
          /\ LinkState(FALSE, 0) \in LinkStates
      BY EffectOn, LeadsEmpty
    <2> QED
      BY <2>2, <2>3, <2>4 DEF Init, NoBroadcast, LinksLead
  <1> QED
    BY <1>1, <1>2, <1>3, <1>4, <1>5 DEF LinkInv

LEMMA LinkInvStep ==
  ASSUME LinkInv, [Next]_vars
  PROVE  LinkInv'
  <1>1. IInv /\ Early /\ Stages /\ LinksLead
    BY DEF LinkInv
  <1>2. IInv'
    BY <1>1, TypeStep, MainBroadcastsStep DEF IInv
  <1> QED
    BY <1>1, <1>2, EarlyStep, StagesStep, LinksStep, AcdStep DEF LinkInv

LEMMA SettledLinks ==
  ASSUME LinkInv, LinkSettled, "link" \notin lost
  PROVE  /\ netif.up = (port_link_status # {})
         /\ netif.link = netif.up
         /\ acd_link_num = Cardinality(port_link_status)
  <1>1. TypeOK /\ Early /\ Stages /\ LinksLead
    BY DEF LinkInv, IInv
  <1>2. Handled = Delivered
    BY <1>1, AllHandled DEF LinkSettled
  <1>3. Delivered = LinkState(port_link_status # {}, Cardinality(port_link_status))
    BY DEF LinkSettled, Delivered, Known
  <1>4. Handled.up = netif.up /\ Handled.num = acd_link_num
    BY <1>1 DEF LinkSettled, Handled, LinkState, TypeOK, NetifStates
  <1>5. Delivered.up = (port_link_status # {}) /\ Delivered.num = Cardinality(port_link_status)
    BY <1>3 DEF LinkState
  <1>6. netif.link = netif.up
    BY <1>1 DEF LinkSettled, Stages
  <1> QED
    BY <1>2, <1>4, <1>5, <1>6

\* lwIP's interface and its count of links follow the mask that the lwIP port recorded, for
\* every length of the launcher's queue and any number of links that change, unless a link
\* request was lost: the edges still to send and those still in the queue always lead from
\* what the launcher has handled to the mask of the broadcast, whoever broadcasts, so that
\* with none of them left the two are the same.
THEOREM NetifFollows == Spec => []NetifFollowsPorts
  <1>1. LinkInv => NetifFollowsPorts
    BY SettledLinks DEF NetifFollowsPorts
  <1> QED
    BY <1>1, InitLinkInv, LinkInvStep, PTL DEF Spec

\* ACD follows the same mask, for any number of conflicts too: it defends the address, or
\* is in fault without one, exactly while some port has a link.
THEOREM AcdFollows == Spec => []AcdFollowsPorts
  <1>1. ASSUME LinkInv, LinkSettled, "link" \notin lost
        PROVE  /\ port_link_status # {} => acd = IF netif.addr THEN "active" ELSE "fault"
               /\ port_link_status = {} =>
                    acd \in IF netif.addr THEN {"none", "off"} ELSE {"acquire"}
    <2>1. acd_link_num = Cardinality(port_link_status) /\ port_link_status \in SUBSET Ports
      BY <1>1, SettledLinks DEF LinkInv, IInv, TypeOK
    <2>2. /\ port_link_status # {} => acd_link_num > 0
          /\ port_link_status = {} => acd_link_num = 0
      BY <2>1, PortsKnown
    <2> QED
      BY <1>1, <2>2 DEF LinkInv, AcdCounts
  <1>2. LinkInv => AcdFollowsPorts
    BY <1>1 DEF AcdFollowsPorts
  <1> QED
    BY <1>2, InitLinkInv, LinkInvStep, PTL DEF Spec
-----------------------------------------------------------------------------
(* From the monitor to OpENer.                                              *)

\* The monitor broadcasts the mask as it is, and remembers it when it is done.
MonitorTells ==
  /\ broadcast.by = "monitor" <=> monitor.pc = "broadcast"
  /\ broadcast.by = "monitor" => broadcast.mask = link_status
  /\ monitor.pc = "delay" => link_status = monitor.prev

\* What it broadcast last is what the lwIP port and OpENer have recorded, if nobody has
\* broadcast since.
PortsTold ==
  Past("opener_notify") /\ source.ports = "monitor" =>
    port_link_status = monitor.prev /\ opener_ports = monitor.prev

\* What OpENer was told last is the published state, unless that has changed since and the
\* launcher is about to tell it.
StateTold ==
  At("done") /\ source.state = "current" /\ launcher # "tell" =>
    configured = (netif_state = Up)

RestInv == LinkInv /\ StateFollowsNetif /\ MonitorTells /\ PortsTold /\ StateTold

\* OpENer has started, nothing is on its way, nothing was lost, and the last word on the
\* ports and on the state was not an outdated one of the main thread.
AtRest ==
  /\ At("done") /\ monitor.pc = "delay" /\ launcher = "wait" /\ queue = <<>>
  /\ lost = {} /\ source = [ports |-> "monitor", state |-> "current"]

\* Then all that has to do with the link says what the monitor found last.
InterfaceAtRest ==
  AtRest =>
    /\ port_link_status = link_status /\ opener_ports = link_status
    /\ netif.link = (link_status # {})
    /\ configured = (link_status # {} /\ netif.addr)

LEMMA LaterSteps ==
  ASSUME NEW s \in 1..Len(Steps)
  PROVE  /\ Steps[s] = "clear" <=> s = 2
         /\ Steps[s] = "opener_notify" <=> s = 9
         /\ Steps[s] = "notify" <=> s = 4
         /\ Steps[s] = "state_notify" <=> s = 13
         /\ Steps[s] = "done" <=> s = 14
         /\ (\E i \in 1..(s - 1) : Steps[i] = "opener_notify") <=> s >= 10
         /\ (\E i \in 1..(s - 1) : Steps[i] = "opener_add") <=> s >= 8
         /\ (\E i \in 1..(s - 1) : Steps[i] = "register") <=> s >= 11
  <1>1. /\ Len(Steps) = 14 /\ Steps[1] = "add" /\ Steps[2] = "clear" /\ Steps[3] = "get"
        /\ Steps[4] = "notify" /\ Steps[5] = "create" /\ Steps[6] = "start"
        /\ Steps[7] = "opener_add" /\ Steps[8] = "opener_get" /\ Steps[9] = "opener_notify"
        /\ Steps[10] = "register" /\ Steps[11] = "wait" /\ Steps[12] = "state_get"
        /\ Steps[13] = "state_notify" /\ Steps[14] = "done"
    BY DEF Steps
  <1> HIDE DEF Steps
  <1>2. ASSUME NEW n \in Nat \ {0}, NEW name,
               \A i \in 1..14 : Steps[i] = name <=> i = n
        PROVE  (\E i \in 1..(s - 1) : Steps[i] = name) <=> s >= n + 1
    <2>1. s \in 1..14 /\ \A i \in 1..(s - 1) : i \in 1..14
      BY <1>1
    <2>2. s >= n + 1 => n \in 1..(s - 1)
      BY <2>1
    <2>3. \A i \in 1..(s - 1) : i = n => s >= n + 1
      BY <2>1
    <2> QED
      BY <1>2, <2>1, <2>2, <2>3
  <1>3. \A i \in 1..14 :
          /\ Steps[i] = "clear" <=> i = 2
          /\ Steps[i] = "notify" <=> i = 4
          /\ Steps[i] = "opener_add" <=> i = 7
          /\ Steps[i] = "opener_notify" <=> i = 9
          /\ Steps[i] = "register" <=> i = 10
          /\ Steps[i] = "state_notify" <=> i = 13
          /\ Steps[i] = "done" <=> i = 14
    BY <1>1
  <1>4. (\E i \in 1..(s - 1) : Steps[i] = "opener_notify") <=> s >= 9 + 1
    <2>1. \A i \in 1..14 : Steps[i] = "opener_notify" <=> i = 9
      BY <1>3
    <2> QED
      BY <1>2, <2>1
  <1>5. (\E i \in 1..(s - 1) : Steps[i] = "opener_add") <=> s >= 7 + 1
    <2>1. \A i \in 1..14 : Steps[i] = "opener_add" <=> i = 7
      BY <1>3
    <2> QED
      BY <1>2, <2>1
  <1>6. (\E i \in 1..(s - 1) : Steps[i] = "register") <=> s >= 10 + 1
    <2>1. \A i \in 1..14 : Steps[i] = "register" <=> i = 10
      BY <1>3
    <2> QED
      BY <1>2, <2>1
  <1> QED
    BY <1>1, <1>3, <1>4, <1>5, <1>6

\* How far the main thread is, in numbers.
LEMMA Progress ==
  ASSUME TypeOK
  PROVE  /\ main.step \in 1..14
         /\ At("clear") <=> main.step = 2
         /\ At("notify") <=> main.step = 4
         /\ At("opener_notify") <=> main.step = 9
         /\ At("state_notify") <=> main.step = 13
         /\ At("done") <=> main.step = 14
         /\ Past("add") <=> main.step >= 2
         /\ Past("opener_add") <=> main.step >= 8
         /\ Past("opener_notify") <=> main.step >= 10
         /\ Past("register") <=> main.step >= 11
  <1>1. main.step \in 1..Len(Steps) /\ Len(Steps) = 14
    BY DEF TypeOK, MainStates, Steps
  <1> QED
    BY <1>1, MainSteps, LaterSteps DEF At, Past

\* The same after a step.
LEMMA ProgressNext ==
  ASSUME TypeOK'
  PROVE  /\ main'.step \in 1..14
         /\ At("done")' <=> main'.step = 14
         /\ Past("opener_notify")' <=> main'.step >= 10
  <1>1. main'.step \in 1..Len(Steps) /\ Len(Steps) = 14
    BY DEF TypeOK, MainStates, Steps
  <1>2. /\ Steps[main'.step] = "done" <=> main'.step = 14
        /\ (\E i \in 1..(main'.step - 1) : Steps[i] = "opener_notify") <=> main'.step >= 10
    BY <1>1, LaterSteps
  <1> QED
    BY <1>1, <1>2 DEF At, Past

\* The main thread's own steps bring it to the next one.
LEMMA MainSteps1 ==
  ASSUME TypeOK, Main, ~MainNotifies
  PROVE  /\ main'.step = main.step + 1
         /\ main.step \notin {4, 9, 14}
         /\ MainClears => main.step = 2
         /\ main.step = 13 <=> MainTellsState
  <1>1. /\ main \in MainStates /\ main.step \in 1..14 /\ Len(Steps) = 14
    BY Progress DEF TypeOK, Steps
  <1>2. \A i \in 1..14 :
          /\ Steps[i] = "clear" <=> i = 2
          /\ Steps[i] = "notify" <=> i = 4
          /\ Steps[i] = "opener_notify" <=> i = 9
          /\ Steps[i] = "state_notify" <=> i = 13
          /\ Steps[i] = "done" <=> i = 14
    BY <1>1, LaterSteps
  <1>3. ASSUME NEW s, At(s), s \notin {"notify", "opener_notify", "state_notify", "done"}
        PROVE  main.step \notin {4, 9, 13, 14}
    BY <1>1, <1>2, <1>3 DEF At
  <1>4. CASE MainOpens
    <2>1. \E s \in {"create", "start", "register", "add", "opener_add"} : MainGoes(s)
      BY <1>4 DEF MainOpens
    <2>2. main'.step = main.step + 1 /\ main.step \notin {4, 9, 13, 14}
      BY <1>1, <1>3, <2>1 DEF MainGoes, MainStates
    <2>3. ~MainClears /\ ~MainTellsState
      BY <1>4, <2>1 DEF MainOpens, MainGoes, At, MainClears, MainTellsState
    <2> QED
      BY <2>2, <2>3
  <1>5. CASE MainClears \/ MainWaits
    <2>1. \E s \in {"clear", "wait"} : MainGoes(s)
      BY <1>5 DEF MainClears, MainWaits
    <2>2. main'.step = main.step + 1 /\ main.step \notin {4, 9, 13, 14}
      BY <1>1, <1>3, <2>1 DEF MainGoes, MainStates
    <2>3. ~MainTellsState
      BY <2>1 DEF MainGoes, At, MainTellsState
    <2>4. MainClears => main.step = 2
      BY <1>1, <1>2 DEF MainClears, MainGoes, At
    <2> QED
      BY <2>2, <2>3, <2>4
  <1>6. CASE MainGetsLinkStatus \/ MainGetsState
    <2>1. \E s \in {"get", "opener_get", "state_get"} : At(s)
      BY <1>6 DEF MainGetsLinkStatus, MainGetsState
    <2>2. main'.step = main.step + 1
      BY <1>1, <1>6 DEF MainGetsLinkStatus, MainGetsState, MainStates
    <2>3. main.step \notin {4, 9, 13, 14}
      BY <1>3, <2>1
    <2>4. ~MainTellsState /\ ~MainClears
      BY <2>1 DEF At, MainTellsState, MainClears, MainGoes
    <2> QED
      BY <2>2, <2>3, <2>4
  <1>7. CASE MainTellsState
    <2>1. main.step = 13 /\ main'.step = main.step + 1
      BY <1>1, <1>2, <1>7 DEF MainTellsState, At, MainStates
    <2>2. ~MainClears
      BY <1>7 DEF MainTellsState, MainClears, MainGoes, At
    <2> QED
      BY <1>7, <2>1, <2>2
  <1> QED
    BY <1>4, <1>5, <1>6, <1>7 DEF Main

LEMMA MonitorTellsStep ==
  ASSUME TypeOK, MonitorTells, [Next]_vars
  PROVE  MonitorTells'
  <1>0. /\ monitor \in MonitorStates /\ broadcast \in BroadcastStates
        /\ link_status \in SUBSET Ports
    BY DEF TypeOK
  <1>1. CASE UNCHANGED <<broadcast, monitorVars>>
    BY <1>1 DEF MonitorTells, monitorVars
  <1>2. CASE MonitorPolls \/ MonitorUpdates
    BY <1>0, <1>2
    DEF MonitorPolls, MonitorUpdates, MonitorGoes, MonitorTells, MonitorStates
  <1>3. CASE MonitorFindsNoChange
    BY <1>0, <1>3 DEF MonitorFindsNoChange, MonitorGoes, MonitorTells, MonitorStates
  <1>4. CASE MonitorBroadcasts
    BY <1>0, <1>4
    DEF MonitorBroadcasts, BroadcastStarts, MonitorGoes, MonitorTells, MonitorStates
  <1>5. CASE BroadcastRequests
    BY <1>0, <1>5 DEF BroadcastRequests, MonitorTells, BroadcastStates, monitorVars
  <1>6. CASE MonitorEnds
    BY <1>0, <1>6
    DEF MonitorEnds, BroadcastEnds, NoBroadcast, MonitorTells, MonitorStates
  <1>7. CASE MainEnds
    BY <1>7 DEF MainEnds, BroadcastEnds, NoBroadcast, MonitorTells, monitorVars
  <1>8. CASE MainNotifies
    BY <1>8 DEF MainNotifies, BroadcastStarts, MonitorTells, monitorVars
  <1>9. ASSUME LinkChanges \/ Lwip \/ Launcher \/ (Main /\ ~MainNotifies) \/ UNCHANGED vars
        PROVE  UNCHANGED <<broadcast, monitorVars>>
    BY <1>9
    DEF LinkChanges, Lwip, ConflictDetected, AcdReports, Launcher, LauncherTakesLink,
        LauncherTakesIp, LauncherTakesAcd, LauncherCallsLwip, LauncherTells,
        LauncherTellsAcd, Main, MainOpens, MainClears, MainGetsLinkStatus, MainWaits,
        MainGetsState, MainTellsState, vars
  <1> QED
    BY <1>1, <1>2, <1>3, <1>4, <1>5, <1>6, <1>7, <1>8, <1>9 DEF Next, Monitor, Broadcaster

\* Steps that leave the main thread where it is, apart from its own.
LEMMA MainStays ==
  ASSUME [Next]_vars, ~(Main /\ ~MainNotifies), ~MainEnds
  PROVE  UNCHANGED main
  <1>1. ASSUME LinkChanges \/ Monitor \/ BroadcastRequests \/ MonitorEnds \/ Lwip \/ Launcher
        PROVE  UNCHANGED main
    BY <1>1
    DEF LinkChanges, Monitor, MonitorPolls, MonitorUpdates, MonitorFindsNoChange,
        MonitorBroadcasts, BroadcastRequests, MonitorEnds, Lwip, ConflictDetected, AcdReports,
        Launcher, LauncherTakesLink, LauncherTakesIp, LauncherTakesAcd, LauncherCallsLwip,
        LauncherTells, LauncherTellsAcd
  <1>2. ASSUME MainNotifies \/ UNCHANGED vars PROVE UNCHANGED main
    BY <1>2 DEF MainNotifies, vars
  <1> QED
    BY <1>1, <1>2 DEF Next, Broadcaster

LEMMA PortsToldStep ==
  ASSUME IInv, MonitorTells, PortsTold, [Next]_vars
  PROVE  PortsTold'
  <1> USE DEF portVars, monitorVars
  <1>0. TypeOK /\ TypeOK' /\ source \in Sources /\ monitor \in MonitorStates
    BY TypeStep DEF IInv, TypeOK
  <1>1. SUFFICES ASSUME Past("opener_notify")', source'.ports = "monitor"
                 PROVE  port_link_status' = monitor'.prev /\ opener_ports' = monitor'.prev
    BY DEF PortsTold
  <1>2. main'.step >= 10 /\ main.step \in 1..14
    <2>1. Past("opener_notify")' <=> main'.step >= 10
      BY <1>0, ProgressNext
    <2> QED
      BY <1>0, <1>1, <2>1, Progress
  <1>3. CASE MonitorEnds
    <2>1. main.step >= 10 /\ Past("add") /\ Past("opener_add")
      <3>1. main' = main
        BY <1>3 DEF MonitorEnds
      <3> QED
        BY <1>0, <1>2, <3>1, Progress
    <2>2. broadcast.mask = link_status
      BY <1>3 DEF MonitorEnds, BroadcastEnds, MonitorTells
    <2> QED
      BY <1>0, <1>3, <2>1, <2>2 DEF MonitorEnds, BroadcastEnds, MonitorStates
  <1>4. ~MainEnds
    BY <1>0, <1>1 DEF MainEnds, BroadcastEnds, Sources
  <1>5. ASSUME UNCHANGED <<portVars, monitor>>, source'.ports = source.ports, main.step >= 10
        PROVE  port_link_status' = monitor'.prev /\ opener_ports' = monitor'.prev
    BY <1>0, <1>1, <1>5, Progress DEF PortsTold
  <1>6. CASE Main /\ ~MainNotifies
    <2>1. main.step >= 10 /\ ~MainClears
      BY <1>0, <1>2, <1>6, MainSteps1
    <2>2. UNCHANGED <<portVars, monitor>> /\ source'.ports = source.ports
      BY <1>0, <1>6, <2>1
      DEF Main, MainOpens, MainGetsLinkStatus, MainWaits, MainGetsState, MainTellsState,
          Callback, Sources
    <2> QED
      BY <1>5, <2>1, <2>2
  <1>7. CASE ~(Main /\ ~MainNotifies)
    <2>1. main.step >= 10
      BY <1>2, <1>4, <1>7, MainStays
    <2>2. ASSUME LinkChanges \/ BroadcastRequests \/ Lwip \/ Launcher \/ MainNotifies
                 \/ UNCHANGED vars
          PROVE  UNCHANGED <<portVars, monitor>> /\ source'.ports = source.ports
      BY <1>0, <2>2
      DEF LinkChanges, BroadcastRequests, Lwip, ConflictDetected, AcdReports, Launcher,
          LauncherTakesLink, LauncherTakesIp, LauncherTakesAcd, LauncherCallsLwip,
          LauncherTells, LauncherTellsAcd, Callback, Sources, MainNotifies, vars
    <2>3. ASSUME Monitor
          PROVE  /\ UNCHANGED portVars /\ source' = source
                 /\ monitor'.prev = monitor.prev
      BY <1>0, <2>3
      DEF Monitor, MonitorPolls, MonitorUpdates, MonitorFindsNoChange, MonitorBroadcasts,
          MonitorGoes, MonitorStates
    <2>4. CASE Monitor
      BY <1>0, <1>1, <2>1, <2>3, <2>4, Progress DEF PortsTold
    <2> QED
      BY <1>3, <1>4, <1>5, <1>7, <2>1, <2>2, <2>4 DEF Next, Broadcaster
  <1> QED
    BY <1>6, <1>7

LEMMA StateToldStep ==
  ASSUME IInv, StateTold, [Next]_vars
  PROVE  StateTold'
  <1>0. TypeOK /\ TypeOK' /\ source \in Sources /\ MainBroadcasts
    BY TypeStep DEF IInv, TypeOK
  <1>1. SUFFICES ASSUME At("done")', source'.state = "current", launcher' # "tell"
                 PROVE  configured' = (netif_state' = Up)
    BY DEF StateTold
  <1>2. main'.step = 14 /\ main.step \in 1..14
    <2>1. At("done")' <=> main'.step = 14
      BY <1>0, ProgressNext
    <2> QED
      BY <1>0, <1>1, <2>1, Progress
  <1>3. ~MainEnds
    <2>1. ASSUME MainEnds PROVE FALSE
      <3>1. main'.step = main.step + 1 /\ broadcast.by = "main"
        BY <1>0, <2>1 DEF MainEnds, BroadcastEnds, TypeOK, MainStates
      <3>2. main.step \in {4, 9}
        BY <1>0, <3>1, Progress DEF MainBroadcasts
      <3> QED
        BY <1>2, <3>1, <3>2
    <2> QED
      BY <2>1
  <1>4. CASE Main /\ ~MainNotifies
    <2>1. MainTellsState /\ main.step = 13
      BY <1>0, <1>2, <1>4, MainSteps1
    <2>2. Past("register")
      BY <1>0, <2>1, Progress
    <2> QED
      BY <1>0, <1>1, <2>1, <2>2 DEF MainTellsState, Callback, Sources
  <1>5. CASE ~(Main /\ ~MainNotifies)
    <2>1. At("done") /\ Past("register")
      BY <1>0, <1>2, <1>3, <1>5, MainStays, Progress
    <2>2. CASE LauncherTells
      BY <1>0, <2>1, <2>2 DEF LauncherTells, Callback, Sources
    <2>3. CASE LauncherTakesIp
      <3>1. launcher = "wait" /\ UNCHANGED <<configured, source>> /\ netif_state' = netif_state
        BY <1>1, <2>3 DEF LauncherTakesIp, Takes, SetNetifState
      <3> QED
        BY <1>1, <2>1, <3>1 DEF StateTold
    <2>4. ASSUME UNCHANGED <<configured, netif_state>>, source'.state = source.state,
                 launcher # "tell"
          PROVE  configured' = (netif_state' = Up)
      BY <1>1, <2>1, <2>4 DEF StateTold
    <2>5. CASE LauncherTakesLink \/ LauncherTakesAcd \/ LauncherCallsLwip \/ LauncherTellsAcd
      <3>1. UNCHANGED <<configured, netif_state, source>>
        BY <2>5
        DEF LauncherTakesLink, LauncherTakesAcd, LauncherCallsLwip, LauncherTellsAcd, stateVars
      <3>2. launcher # "tell"
        BY <2>5
        DEF LauncherTakesLink, LauncherTakesAcd, LauncherCallsLwip, LauncherTellsAcd, Takes,
            LauncherGoes, SetUp, SetDown, SetLinkUp, SetLinkDown
      <3> QED
        BY <2>4, <3>1, <3>2
    <2>6. ASSUME LinkChanges \/ Monitor \/ BroadcastRequests \/ MonitorEnds \/ Lwip
                 \/ MainNotifies \/ UNCHANGED vars
          PROVE  /\ UNCHANGED <<configured, netif_state, launcher>>
                 /\ source'.state = source.state
      BY <1>0, <2>6
      DEF LinkChanges, Monitor, MonitorPolls, MonitorUpdates, MonitorFindsNoChange,
          MonitorBroadcasts, BroadcastRequests, MonitorEnds, BroadcastEnds, Lwip,
          ConflictDetected, AcdReports, MainNotifies, stateVars, Sources, vars
    <2> QED
      BY <1>1, <1>3, <1>5, <2>2, <2>3, <2>4, <2>5, <2>6 DEF Next, Broadcaster, Launcher
  <1> QED
    BY <1>4, <1>5

\* End to end: once OpENer has started and nothing is on its way between the monitor, lwIP
\* and OpENer, the CIP interface is configured exactly when some port has a link and lwIP
\* an address, and both records of the ports are the monitor's; for every length of the
\* queue, any number of changes and conflicts, unless a request was lost or the main thread
\* had the last word with something it had read before.
THEOREM InterfaceRests == Spec => []InterfaceAtRest
  <1>1. Init => RestInv
    <2> SUFFICES ASSUME Init PROVE RestInv
      OBVIOUS
    <2>1. StateFollowsNetif
      <3>1. queue = <<>> /\ Len(queue) = 0 /\ netif_state = Down
        BY EmptySeq DEF Init
      <3>2. IpRequest(netif) = "IP_DOWN"
        BY DEF Init, IpRequest
      <3> QED
        BY <3>1, <3>2 DEF StateFollowsNetif
    <2>2. TypeOK /\ main.step = 1
      BY InitType DEF Init
    <2>3. PortsTold /\ StateTold
      BY <2>2, Progress DEF PortsTold, StateTold
    <2>4. MonitorTells
      BY DEF Init, NoBroadcast, MonitorTells
    <2> QED
      BY <2>1, <2>3, <2>4, InitLinkInv DEF RestInv
  <1>2. RestInv /\ [Next]_vars => RestInv'
    BY LinkInvStep, FollowsStep, MonitorTellsStep, PortsToldStep, StateToldStep
    DEF RestInv, LinkInv, IInv
  <1>3. ASSUME RestInv, AtRest PROVE /\ port_link_status = link_status
                                     /\ opener_ports = link_status
                                     /\ netif.link = (link_status # {})
                                     /\ configured = (link_status # {} /\ netif.addr)
    <2>1. TypeOK /\ netif \in NetifStates /\ MainBroadcasts
      BY <1>3 DEF RestInv, LinkInv, IInv, TypeOK
    <2>2. main.step = 14 /\ Past("opener_notify")
      BY <1>3, <2>1, Progress DEF AtRest
    <2>3. port_link_status = link_status /\ opener_ports = link_status
      BY <1>3, <2>2 DEF AtRest, RestInv, PortsTold, MonitorTells
    <2>4. broadcast.by = "none"
      <3>1. broadcast.by # "monitor"
        BY <1>3 DEF AtRest, RestInv, MonitorTells
      <3>2. broadcast.by # "main"
        BY <2>1, <2>2, Progress DEF MainBroadcasts
      <3> QED
        BY <2>1, <3>1, <3>2 DEF TypeOK, BroadcastStates
    <2>5. LinkSettled /\ "link" \notin lost /\ "ip" \notin lost /\ Len(queue) = 0
      BY <1>3, <2>4, EmptySeq DEF AtRest, LinkSettled
    <2>6. netif.up = (link_status # {}) /\ netif.link = netif.up
      BY <1>3, <2>3, <2>5, SettledLinks DEF RestInv
    <2>7. netif_state = IF IpRequest(netif) = "IP_UP" THEN Up ELSE Down
      BY <1>3, <2>5 DEF RestInv, StateFollowsNetif
    <2>8. configured = (netif_state = Up)
      BY <1>3 DEF AtRest, RestInv, StateTold
    <2>9. configured = (netif.up /\ netif.addr)
      BY <2>1, <2>7, <2>8 DEF IpRequest, Up, Down, NetifStates
    <2> QED
      BY <2>3, <2>6, <2>9
  <1>4. RestInv => InterfaceAtRest
    BY <1>3 DEF InterfaceAtRest
  <1> QED
    BY <1>1, <1>2, <1>4, PTL DEF Spec
-----------------------------------------------------------------------------
(* How the work between the monitor and OpENer comes to an end.            *)

\* Where link requests are queued.
LinkPositions == {i \in 1..Len(queue) : queue[i] \in LinkRequests}

\* The steps that are left at most before all is told, if the monitor finds no change and
\* no conflict occurs: of the main thread, of a broadcast, for what is queued (a link
\* request may send three more), and of the launcher.
MainLeft ==
  30 * (Len(Steps) + 1 - main.step) - (IF broadcast.by = "main" THEN 29 ELSE 0)
BroadcastLeft == IF broadcast.by = "none" THEN 0 ELSE 1 + 9 * Len(broadcast.todo)
QueueLeft == 2 * Len(queue) + 6 * Cardinality(LinkPositions)
LauncherLeft ==
  IF launcher = "wait" THEN 0
  ELSE IF launcher \in {"tell", "acd", "port_down"} THEN 1
  ELSE IF launcher \in {"start_acd", "down"} THEN 3
  ELSE IF launcher \in {"link_up", "link_down"} THEN 4
  ELSE 7
Total(m, b, q, l) == m + b + q + l
LinkWork == Total(MainLeft, BroadcastLeft, QueueLeft, LauncherLeft)

\* Every step of a broadcast, of the launcher and of the main thread leaves less work, and
\* none is added until the monitor finds a change or lwIP a conflict, or lwIP reports.
LinkWorkEnds ==
  /\ LinkWork \in Nat
  /\ Broadcaster \/ Launcher \/ Main => LinkWork' < LinkWork
  /\ LinkWork' # LinkWork /\ ~(Broadcaster \/ Launcher \/ Main) => MonitorBroadcasts \/ Lwip

\* All of these count something.
Lefts ==
  /\ MainLeft \in Nat /\ BroadcastLeft \in Nat /\ QueueLeft \in Nat /\ LauncherLeft \in Nat
  /\ Len(queue) \in Nat
  /\ IsFiniteSet(LinkPositions) /\ Cardinality(LinkPositions) \in Nat

\* The ways in which a step makes the total smaller.
LEMMA TotalFalls ==
  ASSUME NEW m \in Nat, NEW b \in Nat, NEW q \in Nat, NEW l \in Nat,
         NEW mn \in Nat, NEW bn \in Nat, NEW qn \in Nat, NEW ln \in Nat,
         \/ mn <= m /\ ln <= l /\ qn <= q + 8 /\ bn + 9 = b
         \/ mn <= m /\ ln <= l /\ qn <= q /\ bn + 1 = b
         \/ mn <= m /\ bn <= b /\ qn + ln < q + l
         \/ bn + mn < b + m /\ qn <= q /\ ln <= l
  PROVE  Total(mn, bn, qn, ln) < Total(m, b, q, l)
  BY DEF Total

\* The same for a step, of which Lefts says that all are numbers.
LEMMA WorkFalls ==
  ASSUME Lefts, Lefts',
         \/ /\ MainLeft' <= MainLeft /\ LauncherLeft' <= LauncherLeft
            /\ QueueLeft' <= QueueLeft + 8 /\ BroadcastLeft' + 9 = BroadcastLeft
         \/ /\ MainLeft' <= MainLeft /\ LauncherLeft' <= LauncherLeft
            /\ QueueLeft' <= QueueLeft /\ BroadcastLeft' + 1 = BroadcastLeft
         \/ /\ MainLeft' <= MainLeft /\ BroadcastLeft' <= BroadcastLeft
            /\ QueueLeft' + LauncherLeft' < QueueLeft + LauncherLeft
         \/ /\ BroadcastLeft' + MainLeft' < BroadcastLeft + MainLeft
            /\ QueueLeft' <= QueueLeft /\ LauncherLeft' <= LauncherLeft
  PROVE  LinkWork' < LinkWork
  <1>1. /\ MainLeft \in Nat /\ BroadcastLeft \in Nat /\ QueueLeft \in Nat /\ LauncherLeft \in Nat
        /\ MainLeft' \in Nat /\ BroadcastLeft' \in Nat /\ QueueLeft' \in Nat
        /\ LauncherLeft' \in Nat
    BY DEF Lefts
  <1>2. Total(MainLeft', BroadcastLeft', QueueLeft', LauncherLeft')
          < Total(MainLeft, BroadcastLeft, QueueLeft, LauncherLeft)
    BY <1>1, TotalFalls
  <1>3. LinkWork' = Total(MainLeft', BroadcastLeft', QueueLeft', LauncherLeft')
    BY DEF LinkWork, Total
  <1>4. LinkWork = Total(MainLeft, BroadcastLeft, QueueLeft, LauncherLeft)
    BY DEF LinkWork
  <1> QED
    BY <1>2, <1>3, <1>4

LEMMA LeftsType == TypeOK => Lefts
  <1> SUFFICES ASSUME TypeOK PROVE Lefts
    OBVIOUS
  <1>1. MainLeft \in Nat
    <2>1. main.step \in 1..14 /\ Len(Steps) = 14
      BY DEF TypeOK, MainStates, Steps
    <2> DEFINE n == Len(Steps) + 1 - main.step
    <2>2. n \in 1..14
      BY <2>1
    <2> HIDE DEF n
    <2>3. 30 * n - 29 \in Nat /\ 30 * n - 0 \in Nat
      BY <2>2
    <2> QED
      BY <2>3 DEF MainLeft, n
  <1>2. BroadcastLeft \in Nat
    <2>1. Len(broadcast.todo) \in Nat
      BY LenProperties DEF TypeOK, BroadcastStates
    <2> QED
      BY <2>1 DEF BroadcastLeft
  <1>3. Len(queue) \in Nat
    BY LenProperties DEF TypeOK
  <1>4. IsFiniteSet(LinkPositions) /\ Cardinality(LinkPositions) \in Nat
    <2>1. IsFiniteSet(1..Len(queue))
      BY <1>3, FS_Interval, 1 \in Int
    <2>2. LinkPositions \in SUBSET (1..Len(queue))
      BY DEF LinkPositions
    <2>3. IsFiniteSet(LinkPositions)
      BY <2>1, <2>2, FS_Subset
    <2> QED
      BY <2>3, FS_CardinalityType
  <1>5. QueueLeft \in Nat
    BY <1>3, <1>4 DEF QueueLeft
  <1>6. LauncherLeft \in Nat
    BY DEF LauncherLeft
  <1> QED
    BY <1>1, <1>2, <1>3, <1>4, <1>5, <1>6 DEF Lefts

LEMMA LeftsNext == TypeOK' => Lefts'
  BY LeftsType, PTL

\* Requests that are not about a link cost two each.
LEMMA QuietCost ==
  ASSUME TypeOK, Lefts, NEW rs \in Seq(Requests), Request(rs),
         \A i \in 1..Len(rs) : rs[i] \notin LinkRequests
  PROVE  QueueLeft' <= QueueLeft + 2 * Len(rs)
  <1>1. PICK sent \in 0..Len(rs) :
           /\ Len(queue') = Len(queue) + sent
           /\ \A i \in 1..Len(queue) : queue'[i] = queue[i]
           /\ \A i \in 1..sent : queue'[Len(queue) + i] = rs[i]
    BY RequestQueue
  <1>2. Len(rs) \in Nat /\ Len(queue) \in Nat
    BY LenProperties DEF Lefts
  <1>3. ASSUME NEW i \in 1..Len(queue')
        PROVE  \/ i \in 1..Len(queue) /\ queue'[i] = queue[i]
               \/ ~(i \in 1..Len(queue)) /\ queue'[i] \notin LinkRequests
    <2>1. CASE i <= Len(queue)
      BY <1>1, <1>2, <2>1
    <2>2. CASE i > Len(queue)
      <3>1. i - Len(queue) \in 1..sent /\ i = Len(queue) + (i - Len(queue))
        BY <1>1, <1>2, <2>2
      <3>2. i - Len(queue) \in 1..Len(rs)
        BY <1>1, <1>2, <3>1
      <3>3. queue'[i] = rs[i - Len(queue)]
        BY <1>1, <3>1
      <3> QED
        BY <2>2, <3>2, <3>3
    <2> QED
      BY <1>1, <1>2, <2>1, <2>2
  <1>4. 1..Len(queue) \subseteq 1..Len(queue')
    BY <1>1, <1>2
  <1>5. LinkPositions' = LinkPositions
    BY <1>1, <1>3, <1>4 DEF LinkPositions
  <1>6. Cardinality(LinkPositions)' = Cardinality(LinkPositions)
    BY <1>5
  <1> DEFINE c == Cardinality(LinkPositions)
  <1>7. c \in Nat /\ QueueLeft = 2 * Len(queue) + 6 * c
        /\ QueueLeft' = 2 * Len(queue') + 6 * c
    BY <1>6 DEF Lefts, QueueLeft
  <1> HIDE DEF c
  <1> QED
    BY <1>1, <1>2, <1>7

\* A request costs at most eight.
LEMMA RequestCost ==
  ASSUME TypeOK, Lefts, NEW r \in Requests, Request(<<r>>)
  PROVE  QueueLeft' <= QueueLeft + 8
  <1> DEFINE c == Cardinality(LinkPositions)
             n == Len(queue)
  <1>1. <<r>> \in Seq(Requests) /\ Len(<<r>>) = 1
    BY OneRequest
  <1>2. PICK sent \in 0..1 :
           Len(queue') = n + sent /\ \A i \in 1..n : queue'[i] = queue[i]
    BY <1>1, RequestQueue
  <1>3. n \in Nat /\ c \in Nat /\ IsFiniteSet(LinkPositions)
    BY DEF Lefts
  <1>4. LinkPositions' \subseteq LinkPositions \cup {n + 1}
    <2>1. \A i \in 1..Len(queue') : i \in 1..n \/ i = n + 1
      BY <1>2, <1>3
    <2> QED
      BY <1>2, <2>1 DEF LinkPositions
  <1>5. n + 1 \notin LinkPositions
    BY <1>3 DEF LinkPositions
  <1>6. /\ IsFiniteSet(LinkPositions \cup {n + 1})
        /\ Cardinality(LinkPositions \cup {n + 1}) = c + 1
    BY <1>3, <1>5, FS_AddElement
  <1>7. Cardinality(LinkPositions') <= c + 1 /\ Cardinality(LinkPositions') \in Nat
    BY <1>4, <1>6, FS_Subset, FS_CardinalityType
  <1> DEFINE cn == Cardinality(LinkPositions')
  <1>8. QueueLeft = 2 * n + 6 * c /\ QueueLeft' = 2 * Len(queue') + 6 * cn
    BY DEF QueueLeft
  <1>9. cn <= c + 1 /\ cn \in Nat
    BY <1>7
  <1> HIDE DEF c, n, cn
  <1> QED
    BY <1>2, <1>3, <1>8, <1>9

\* A request that is taken is worth as much.
LEMMA TakesPays ==
  ASSUME TypeOK, Lefts, Lefts', NEW r \in Requests, Takes(r)
  PROVE  QueueLeft = QueueLeft' + (IF r \in LinkRequests THEN 8 ELSE 2)
  <1> DEFINE X == LinkPositions'
             Y == {i \in 2..Len(queue) : queue[i] \in LinkRequests}
             f == [i \in X |-> i + 1]
             c == Cardinality(LinkPositions)
             cn == Cardinality(LinkPositions')
  <1>1. /\ Len(queue) \in Nat \ {0} /\ queue[1] = r /\ Len(queue') = Len(queue) - 1
        /\ \A i \in 1..Len(queue') : queue'[i] = queue[i + 1]
    BY TakesQueue
  <1>2. IsFiniteSet(LinkPositions) /\ c \in Nat
    BY DEF Lefts
  <1>3. LinkPositions = IF r \in LinkRequests THEN Y \cup {1} ELSE Y
    <2>1. \A i : i \in 1..Len(queue) <=> i = 1 \/ i \in 2..Len(queue)
      BY <1>1
    <2> QED
      BY <1>1, <2>1 DEF LinkPositions
  <1>4. 1 \notin Y
    OBVIOUS
  <1>5. IsFiniteSet(Y)
    BY <1>2, <1>3, FS_Subset
  <1>6. f \in [X -> Y] /\ (\A a, b \in X : f[a] = f[b] => a = b)
        /\ \A j \in Y : \E i \in X : f[i] = j
    <2>1. X = {i \in 1..Len(queue') : queue'[i] \in LinkRequests}
      BY DEF LinkPositions
    <2>2. \A i \in X : i \in Nat /\ i + 1 \in Y
      <3>1. \A i \in 1..Len(queue') : i \in Nat /\ i + 1 \in 2..Len(queue)
        BY <1>1
      <3> QED
        BY <1>1, <2>1, <3>1
    <2>3. \A j \in Y : j \in Nat /\ j - 1 \in X /\ (j - 1) + 1 = j
      <3>1. \A j \in 2..Len(queue) : j \in Nat /\ j - 1 \in 1..Len(queue') /\ (j - 1) + 1 = j
        BY <1>1
      <3> QED
        BY <1>1, <2>1, <3>1
    <2> HIDE DEF X, Y
    <2>4. \A a, b \in X : f[a] = f[b] => a = b
      BY <2>2
    <2>5. \A j \in Y : \E i \in X : f[i] = j
      BY <2>3
    <2> QED
      BY <2>2, <2>4, <2>5
  <1>7. ExistsBijection(X, Y)
    <2>1. DOMAIN f = X
      OBVIOUS
    <2> HIDE DEF X, Y, f
    <2>2. f \in Bijection(X, Y)
      BY <1>6, <2>1 DEF Bijection, Injection, Surjection, IsInjective
    <2> QED
      BY <2>2 DEF ExistsBijection
  <1>8. IsFiniteSet(X) /\ Cardinality(X) = Cardinality(Y)
    <2>1. IsFiniteSet(X)
      BY DEF Lefts
    <2> HIDE DEF X, Y
    <2> QED
      BY <1>7, <2>1, FS_Bijection
  <1>9. c = cn + (IF r \in LinkRequests THEN 1 ELSE 0) /\ cn \in Nat
    <2>1. cn = Cardinality(Y) /\ cn \in Nat
      BY <1>8, FS_CardinalityType
    <2>2. Cardinality(Y \cup {1}) = Cardinality(Y) + 1
      BY <1>4, <1>5, FS_AddElement
    <2> QED
      BY <1>3, <2>1, <2>2
  <1> HIDE DEF X, Y, f
  <1>10. QueueLeft = 2 * Len(queue) + 6 * c /\ QueueLeft' = 2 * Len(queue') + 6 * cn
    BY DEF QueueLeft
  <1> HIDE DEF c, cn
  <1>11. /\ Len(queue') = Len(queue) - 1 /\ Len(queue) \in Nat
        /\ cn \in Nat /\ (c = cn + 1 <=> r \in LinkRequests) /\ (c = cn <=> r \notin LinkRequests)
    BY <1>1, <1>9
  <1>12. CASE r \in LinkRequests
    BY <1>10, <1>11, <1>12
  <1>13. CASE r \notin LinkRequests
    BY <1>10, <1>11, <1>13
  <1> QED
    BY <1>12, <1>13

LEMMA BroadcasterWork ==
  ASSUME TypeOK, TypeOK', Lefts, Lefts', Broadcaster
  PROVE  LinkWork' < LinkWork
  <1>1. /\ MainLeft \in Nat /\ BroadcastLeft \in Nat /\ QueueLeft \in Nat /\ LauncherLeft \in Nat
    BY DEF Lefts
  <1>2. /\ MainLeft' \in Nat /\ BroadcastLeft' \in Nat /\ QueueLeft' \in Nat
        /\ LauncherLeft' \in Nat
    BY DEF Lefts
  <1>3. launcher' = launcher /\ LauncherLeft' = LauncherLeft
    BY DEF Broadcaster, BroadcastRequests, MonitorEnds, MainEnds, LauncherLeft
  <1>4. CASE BroadcastRequests
    <2>1. /\ broadcast \in BroadcastStates /\ broadcast.todo \in Seq(LinkRequests)
          /\ broadcast.by # "none" /\ broadcast.todo # <<>> /\ main' = main
          /\ broadcast'.by = broadcast.by /\ broadcast'.todo = Tail(broadcast.todo)
      BY <1>4 DEF BroadcastRequests, TypeOK, BroadcastStates
    <2>2. Head(broadcast.todo) \in Requests
      BY <2>1 DEF Requests
    <2>3. QueueLeft' <= QueueLeft + 8
      BY <1>4, <2>2, RequestCost DEF BroadcastRequests
    <2>4. BroadcastLeft' + 9 = BroadcastLeft
      <3>1. Len(Tail(broadcast.todo)) = Len(broadcast.todo) - 1 /\ Len(broadcast.todo) \in Nat
        BY <2>1
      <3> QED
        BY <2>1, <3>1 DEF BroadcastLeft
    <2>5. MainLeft' = MainLeft
      BY <2>1 DEF MainLeft
    <2>6. MainLeft' <= MainLeft /\ LauncherLeft' <= LauncherLeft
      BY <1>1, <1>3, <2>5
    <2> QED
      BY <2>3, <2>4, <2>6, WorkFalls
  <1>5. CASE MonitorEnds \/ MainEnds
    <2>1. /\ UNCHANGED queue /\ broadcast.todo = <<>> /\ broadcast' = NoBroadcast
          /\ broadcast.by \in {"monitor", "main"}
      BY <1>5 DEF MonitorEnds, MainEnds, BroadcastEnds, queueVars
    <2>2. BroadcastLeft' + 1 = BroadcastLeft
      BY <2>1, EmptySeq DEF BroadcastLeft, NoBroadcast
    <2>3. QueueLeft' = QueueLeft
      BY <2>1 DEF QueueLeft, LinkPositions
    <2>4. MainLeft' <= MainLeft
      <3>1. main.step \in 1..14 /\ Len(Steps) = 14 /\ main \in MainStates
        BY DEF TypeOK, MainStates, Steps
      <3>2. CASE MonitorEnds
        <4>1. main' = main /\ broadcast.by = "monitor" /\ broadcast'.by = "none"
          BY <3>2 DEF MonitorEnds, BroadcastEnds, NoBroadcast
        <4>2. MainLeft' = MainLeft
          BY <4>1 DEF MainLeft
        <4> QED
          BY <1>1, <4>2
      <3>3. CASE MainEnds
        <4>1. main'.step = main.step + 1 /\ broadcast.by = "main" /\ broadcast'.by = "none"
          BY <3>1, <3>3 DEF MainEnds, BroadcastEnds, NoBroadcast, MainStates
        <4> QED
          BY <3>1, <4>1 DEF MainLeft
      <3> QED
        BY <1>5, <3>2, <3>3
    <2>5. QueueLeft' <= QueueLeft /\ LauncherLeft' <= LauncherLeft
      BY <1>1, <1>3, <2>3
    <2> QED
      BY <2>2, <2>4, <2>5, WorkFalls
  <1> QED
    BY <1>4, <1>5 DEF Broadcaster

\* At most so many requests, none of which is about a link: what lwIP sends of itself.
Minor(rs, most) ==
  /\ rs \in Seq(Requests) /\ Len(rs) <= most
  /\ \A i \in 1..Len(rs) : rs[i] \notin LinkRequests

LEMMA MinorTogether ==
  ASSUME NEW a, NEW b, NEW m \in Nat, NEW n \in Nat, Minor(a, m), Minor(b, n)
  PROVE  Minor(a \o b, m + n)
  <1>1. /\ a \in Seq(Requests) /\ b \in Seq(Requests) /\ Len(a) <= m /\ Len(b) <= n
        /\ Len(a) \in Nat /\ Len(b) \in Nat
    BY LenProperties DEF Minor
  <1>2. /\ a \o b \in Seq(Requests) /\ Len(a \o b) = Len(a) + Len(b)
        /\ \A i \in 1..Len(a \o b) :
             (a \o b)[i] = IF i <= Len(a) THEN a[i] ELSE b[i - Len(a)]
    BY <1>1, ConcatProperties
  <1>3. ASSUME NEW i \in 1..Len(a \o b) PROVE (a \o b)[i] \notin LinkRequests
    <2>1. CASE i <= Len(a)
      BY <1>1, <1>2, <2>1 DEF Minor
    <2>2. CASE i > Len(a)
      <3>1. i - Len(a) \in 1..Len(b)
        BY <1>1, <1>2, <2>2
      <3> QED
        BY <1>1, <1>2, <2>2, <3>1 DEF Minor
    <2> QED
      BY <1>1, <1>2, <2>1, <2>2
  <1> QED
    BY <1>1, <1>2, <1>3 DEF Minor

LEMMA MinorRequests ==
  ASSUME NEW n
  PROVE  /\ Minor(<<>>, 1) /\ Minor(<<"ACD">>, 1) /\ Minor(StatusChanged(n), 1)
         /\ Minor(<<"ACD">> \o StatusChanged(n) \o <<"ACD">>, 3)
  <1> DEFINE Others == Requests \ LinkRequests
  <1>1. /\ "ACD" \in Others /\ "IP_UP" \in Others /\ "IP_DOWN" \in Others
        /\ \A r \in Others : r \in Requests /\ r \notin LinkRequests
    BY DEF Requests, IpRequests, LinkRequests
  <1>2. StatusChanged(n) = <<>> \/ \E r \in Others : StatusChanged(n) = <<r>>
    BY <1>1 DEF StatusChanged, IpRequest
  <1> HIDE DEF Others
  <1>3. ASSUME NEW r \in Others PROVE Minor(<<r>>, 1)
    <2>1. <<r>> \in Seq(Requests) /\ Len(<<r>>) = 1 /\ <<r>>[1] = r
      BY <1>1, OneRequest
    <2> QED
      BY <1>1, <2>1 DEF Minor
  <1>4. Minor(<<>>, 1)
    BY EmptySeq DEF Minor
  <1>5. Minor(StatusChanged(n), 1) /\ Minor(<<"ACD">>, 1)
    BY <1>1, <1>2, <1>3, <1>4
  <1>6. Minor(<<"ACD">> \o StatusChanged(n), 1 + 1)
    BY <1>5, MinorTogether
  <1>7. Minor(<<"ACD">> \o StatusChanged(n) \o <<"ACD">>, (1 + 1) + 1)
    BY <1>5, <1>6, MinorTogether
  <1> QED
    BY <1>4, <1>5, <1>7

\* They cost two each.
LEMMA MinorCalls ==
  ASSUME TypeOK, Lefts, Lefts', NEW rs, NEW most \in Nat, Minor(rs, most), Request(rs)
  PROVE  QueueLeft' <= QueueLeft + 2 * most
  <1>1. Len(rs) \in Nat /\ Len(rs) <= most
    BY LenProperties DEF Minor
  <1>2. QueueLeft' <= QueueLeft + 2 * Len(rs)
    BY QuietCost DEF Minor
  <1>3. QueueLeft \in Nat /\ QueueLeft' \in Nat
    BY DEF Lefts
  <1> QED
    BY <1>1, <1>2, <1>3

LEMMA PairFalls ==
  ASSUME NEW q \in Nat, NEW l \in Nat, NEW qn \in Nat, NEW ln \in Nat, NEW cost \in Nat,
         qn <= q + cost, ln + cost < l
  PROVE  qn + ln < q + l
  OBVIOUS

\* Each call of lwIP by the launcher pays for what lwIP sends in it.
LEMMA CallsPay ==
  ASSUME TypeOK, Lefts, Lefts', LauncherCallsLwip
  PROVE  QueueLeft' + LauncherLeft' < QueueLeft + LauncherLeft
  <1>1. /\ QueueLeft \in Nat /\ QueueLeft' \in Nat
        /\ LauncherLeft \in Nat /\ LauncherLeft' \in Nat
    BY DEF Lefts
  <1>2. UNCHANGED queueVars => QueueLeft' <= QueueLeft + 0
    BY <1>1 DEF queueVars, QueueLeft, LinkPositions
  <1>3. ASSUME NEW rs, Minor(rs, 1), Request(rs) PROVE QueueLeft' <= QueueLeft + 2
    BY <1>3, MinorCalls
  <1>4. CASE SetUp
    <2>1. CASE launcher = "up" /\ launcher' = "link_up" /\ Request(StatusChanged(netif'))
      <3>1. QueueLeft' <= QueueLeft + 2
        BY <1>3, <2>1, MinorRequests
      <3>2. LauncherLeft' + 2 < LauncherLeft
        BY <2>1 DEF LauncherLeft
      <3> QED
        BY <1>1, <3>1, <3>2, PairFalls
    <2>2. CASE launcher = "link_up" /\ launcher' = "start_acd" /\ UNCHANGED queueVars
      <3>1. LauncherLeft' + 0 < LauncherLeft
        BY <2>2 DEF LauncherLeft
      <3> QED
        BY <1>1, <1>2, <2>2, <3>1, PairFalls
    <2>3. CASE /\ launcher = "start_acd" /\ launcher' = "wait"
               /\ Request(<<"ACD">>) \/ Request(<<>>) \/ UNCHANGED queueVars
      <3>1. QueueLeft' <= QueueLeft + 2
        BY <1>1, <1>2, <1>3, <2>3, MinorRequests
      <3>2. LauncherLeft' + 2 < LauncherLeft
        BY <2>3 DEF LauncherLeft
      <3> QED
        BY <1>1, <3>1, <3>2, PairFalls
    <2> QED
      BY <1>4, <2>1, <2>2, <2>3 DEF SetUp, LauncherGoes
  <1>5. CASE SetDown
    <2>1. CASE launcher = "link_down" /\ launcher' = "down" /\ UNCHANGED queueVars
      <3>1. LauncherLeft' + 0 < LauncherLeft
        BY <2>1 DEF LauncherLeft
      <3> QED
        BY <1>1, <1>2, <2>1, <3>1, PairFalls
    <2>2. CASE launcher = "down" /\ launcher' = "wait" /\ Request(StatusChanged(netif'))
      <3>1. QueueLeft' <= QueueLeft + 2
        BY <1>3, <2>2, MinorRequests
      <3>2. LauncherLeft' + 2 < LauncherLeft
        BY <2>2 DEF LauncherLeft
      <3> QED
        BY <1>1, <3>1, <3>2, PairFalls
    <2> QED
      BY <1>5, <2>1, <2>2 DEF SetDown, LauncherGoes
  <1>6. CASE SetLinkUp
    <2>1. LauncherLeft' + 6 < LauncherLeft
      BY <1>6 DEF SetLinkUp, LauncherGoes, LauncherLeft
    <2>2. QueueLeft' <= QueueLeft + 6
      <3>1. CASE Request(<<"ACD">> \o StatusChanged(netif') \o <<"ACD">>)
        BY <3>1, MinorCalls, MinorRequests
      <3>2. CASE Request(<<"ACD">>) \/ UNCHANGED queueVars
        BY <1>1, <1>2, <1>3, <3>2, MinorRequests
      <3> QED
        BY <1>6, <3>1, <3>2 DEF SetLinkUp
    <2> QED
      BY <1>1, <2>1, <2>2, PairFalls
  <1>7. CASE SetLinkDown
    <2>1. LauncherLeft' + 0 < LauncherLeft /\ UNCHANGED queueVars
      BY <1>7 DEF SetLinkDown, LauncherGoes, LauncherLeft
    <2> QED
      BY <1>1, <1>2, <2>1, PairFalls
  <1> QED
    BY <1>4, <1>5, <1>6, <1>7 DEF LauncherCallsLwip

LEMMA LauncherWork ==
  ASSUME TypeOK, TypeOK', Lefts, Lefts', Launcher
  PROVE  LinkWork' < LinkWork
  <1>1. /\ MainLeft \in Nat /\ BroadcastLeft \in Nat /\ QueueLeft \in Nat /\ LauncherLeft \in Nat
    BY DEF Lefts
  <1>2. QueueLeft' \in Nat /\ LauncherLeft' \in Nat
    BY DEF Lefts
  <1>3. broadcast' = broadcast /\ main' = main
    BY DEF Launcher, LauncherTakesLink, LauncherTakesIp, LauncherTakesAcd,
       LauncherCallsLwip, LauncherTells, LauncherTellsAcd
  <1>4. MainLeft' = MainLeft /\ BroadcastLeft' = BroadcastLeft
    BY <1>3 DEF MainLeft, BroadcastLeft
  <1>5. ASSUME QueueLeft' + LauncherLeft' < QueueLeft + LauncherLeft
        PROVE  LinkWork' < LinkWork
    <2>1. /\ MainLeft' <= MainLeft /\ BroadcastLeft' <= BroadcastLeft
          /\ MainLeft' \in Nat /\ BroadcastLeft' \in Nat
      BY <1>1, <1>4
    <2> QED
      BY <1>5, <2>1, WorkFalls
  <1>6. CASE LauncherTakesLink
    <2>1. PICK r \in LinkRequests : Takes(r)
      BY <1>6 DEF LauncherTakesLink
    <2>2. QueueLeft' + 8 = QueueLeft
      BY <2>1, TakesPays DEF Requests
    <2>3. 0 = LauncherLeft
      BY <2>1 DEF Takes, LauncherLeft
    <2>4. LauncherLeft' <= 7
      BY DEF LauncherLeft
    <2>5. QueueLeft' + LauncherLeft' < QueueLeft + LauncherLeft
      BY <1>2, <2>2, <2>3, <2>4
    <2> QED
      BY <1>5, <2>5
  <1>7. CASE LauncherTakesIp \/ LauncherTakesAcd
    <2>1. PICK r \in {"IP_UP", "IP_DOWN", "ACD"} : Takes(r)
      BY <1>7 DEF LauncherTakesIp, LauncherTakesAcd
    <2>2. r \in Requests /\ r \notin LinkRequests
      BY DEF Requests, LinkRequests, IpRequests
    <2>3. QueueLeft' + 2 = QueueLeft
      BY <2>1, <2>2, TakesPays
    <2>4. 0 = LauncherLeft
      BY <2>1 DEF Takes, LauncherLeft
    <2>5. LauncherLeft' <= 1
      BY <1>7 DEF LauncherTakesIp, LauncherTakesAcd, SetNetifState, LauncherLeft
    <2>6. QueueLeft' + LauncherLeft' < QueueLeft + LauncherLeft
      BY <1>2, <2>3, <2>4, <2>5
    <2> QED
      BY <1>5, <2>6
  <1>8. CASE LauncherTells \/ LauncherTellsAcd
    <2>1. /\ UNCHANGED queue /\ launcher \in {"tell", "acd"} /\ launcher' = "wait"
      BY <1>8 DEF LauncherTells, LauncherTellsAcd, LauncherGoes, queueVars
    <2>2. QueueLeft' = QueueLeft
      BY <2>1 DEF QueueLeft, LinkPositions
    <2>3. LauncherLeft = 1 /\ LauncherLeft' = 0
      BY <2>1 DEF LauncherLeft
    <2> QED
      BY <1>1, <1>2, <1>5, <2>2, <2>3
  <1> QED
    BY <1>5, <1>6, <1>7, <1>8, CallsPay DEF Launcher

\* At most three requests for a mask.
LEMMA EdgeRequestsAreFew ==
  ASSUME NEW old, NEW new
  PROVE  Len(EdgeRequests(old, new)) \in 0..3
  <1> DEFINE a == LinkEdge(old, new)
             b == PortEdge(1, old, new)
             c == PortEdge(2, old, new)
  <1>1. \A r \in LinkRequests : <<r>> \in Seq(LinkRequests) /\ Len(<<r>>) = 1
    BY OneRequest
  <1>2. <<>> \in Seq(LinkRequests) /\ Len(<<>>) = 0
    BY EmptySeq
  <1> DEFINE Short(s) == s = <<>> \/ \E r \in LinkRequests : s = <<r>>
  <1>3. Short(a) /\ Short(b) /\ Short(c)
    <2>1. /\ "LINK_UP" \in LinkRequests /\ "LINK_DOWN" \in LinkRequests
          /\ "PORT_LINK_UP" \in LinkRequests /\ "PORT_LINK_DOWN" \in LinkRequests
      BY DEF LinkRequests
    <2> QED
      BY <2>1, Zenon DEF LinkEdge, PortEdge
  <1>4. ASSUME NEW s, Short(s)
        PROVE  s \in Seq(LinkRequests) /\ (Len(s) = 0 \/ Len(s) = 1)
    BY <1>1, <1>2, <1>4
  <1> HIDE DEF a, b, c, Short
  <1>5. /\ a \in Seq(LinkRequests) /\ b \in Seq(LinkRequests) /\ c \in Seq(LinkRequests)
        /\ Len(a) = 0 \/ Len(a) = 1
        /\ Len(b) = 0 \/ Len(b) = 1
        /\ Len(c) = 0 \/ Len(c) = 1
    BY <1>3, <1>4
  <1>6. a \o b \in Seq(LinkRequests) /\ Len(a \o b) = Len(a) + Len(b)
    BY <1>5, ConcatProperties
  <1>7. Len(a \o b \o c) = Len(a \o b) + Len(c)
    BY <1>5, <1>6, ConcatProperties
  <1> DEFINE i == Len(a)
             j == Len(b)
             k == Len(c)
  <1>8. i \in 0..1 /\ j \in 0..1 /\ k \in 0..1 /\ Len(a \o b \o c) = i + j + k
    BY <1>5, <1>6, <1>7
  <1> HIDE DEF i, j, k
  <1>9. i + j + k \in 0..3
    BY <1>8
  <1> QED
    BY <1>8, <1>9 DEF EdgeRequests, a, b, c

LEMMA MainWork ==
  ASSUME TypeOK, TypeOK', Lefts, Lefts', Main
  PROVE  LinkWork' < LinkWork
  <1>1. /\ MainLeft \in Nat /\ BroadcastLeft \in Nat /\ QueueLeft \in Nat /\ LauncherLeft \in Nat
    BY DEF Lefts
  <1>2. /\ MainLeft' \in Nat /\ BroadcastLeft' \in Nat
    BY DEF Lefts
  <1>3. queue' = queue /\ launcher' = launcher
    BY DEF Main, MainOpens, MainClears, MainGetsLinkStatus, MainNotifies, MainWaits,
       MainGetsState, MainTellsState, queueVars
  <1>4. QueueLeft' = QueueLeft /\ LauncherLeft' = LauncherLeft
    BY <1>3 DEF QueueLeft, LinkPositions, LauncherLeft
  <1>5. QueueLeft' <= QueueLeft /\ LauncherLeft' <= LauncherLeft
    BY <1>1, <1>4
  <1>6. main.step \in 1..14 /\ Len(Steps) = 14 /\ main \in MainStates
    BY DEF TypeOK, MainStates, Steps
  <1>7. CASE MainNotifies
    <2>1. /\ main' = main /\ broadcast.by = "none" /\ broadcast'.by = "main"
          /\ broadcast'.todo = <<>> \/ broadcast'.todo = EdgeRequests(port_link_status, main.mask)
      BY <1>7 DEF MainNotifies, BroadcastStarts
    <2>2. Len(broadcast'.todo) \in 0..3
      BY <2>1, EdgeRequestsAreFew, EmptySeq
    <2>3. MainLeft' + 28 < MainLeft
      <3> DEFINE n == 30 * (Len(Steps) + 1 - main.step)
      <3>1. n \in Int
        BY <1>6
      <3>2. n - 0 = MainLeft /\ n - 29 = MainLeft'
        BY <2>1 DEF MainLeft
      <3> HIDE DEF n
      <3> QED
        BY <3>1, <3>2
    <2>4. BroadcastLeft' <= BroadcastLeft + 28
      <3> DEFINE n == Len(broadcast'.todo)
      <3>1. 0 = BroadcastLeft /\ 1 + 9 * n = BroadcastLeft'
        BY <2>1 DEF BroadcastLeft
      <3>2. n \in 0..3
        BY <2>2
      <3> HIDE DEF n
      <3>3. 1 + 9 * n <= 28
        BY <3>2
      <3> QED
        BY <3>1, <3>3
    <2>5. BroadcastLeft' + MainLeft' < BroadcastLeft + MainLeft
      BY <1>1, <1>2, <2>3, <2>4, PairFalls
    <2> QED
      BY <1>5, <2>5, WorkFalls
  <1>8. CASE MainOpens \/ MainClears \/ MainGetsLinkStatus \/ MainWaits \/ MainGetsState
            \/ MainTellsState
    <2>1. broadcast' = broadcast /\ main'.step = main.step + 1
      BY <1>6, <1>8 DEF MainOpens, MainClears, MainGetsLinkStatus, MainWaits,
         MainGetsState, MainTellsState, MainGoes, MainStates
    <2>2. BroadcastLeft' <= BroadcastLeft + 0
      BY <1>1, <2>1 DEF BroadcastLeft
    <2>3. MainLeft' + 0 < MainLeft
      BY <1>6, <2>1 DEF MainLeft
    <2>4. BroadcastLeft' + MainLeft' < BroadcastLeft + MainLeft
      BY <1>1, <1>2, <2>2, <2>3, PairFalls
    <2> QED
      BY <1>5, <2>4, WorkFalls
  <1> QED
    BY <1>7, <1>8 DEF Main

\* The interface follows the ports because its work ends: every step of a broadcast, of
\* the launcher and of the main thread leaves less of it, though one request to the
\* launcher has lwIP send others, and though the monitor's task and lwIP put requests into
\* the queue in any order.  With the fairness of the tasks this is why InterfaceCatchesUp
\* holds: only another change of the mask, a conflict or a report of ACD makes more work.
THEOREM LinkWorkComesToAnEnd == Spec => [][LinkWorkEnds]_vars
  <1>1. TypeOK /\ TypeOK' /\ [Next]_vars => [LinkWorkEnds]_vars
    <2> SUFFICES ASSUME TypeOK, TypeOK', Next PROVE LinkWorkEnds
      OBVIOUS
    <2>1. Lefts /\ Lefts'
      BY LeftsType, LeftsNext
    <2>2. LinkWork \in Nat
      BY <2>1 DEF Lefts, LinkWork, Total
    <2>3. Broadcaster => LinkWork' < LinkWork
      BY <2>1, BroadcasterWork
    <2>4. Launcher => LinkWork' < LinkWork
      BY <2>1, LauncherWork
    <2>5. Main => LinkWork' < LinkWork
      BY <2>1, MainWork
    <2>6. LinkChanges \/ MonitorPolls \/ MonitorUpdates \/ MonitorFindsNoChange
            => LinkWork' = LinkWork
      <3>1. LinkChanges \/ MonitorPolls \/ MonitorUpdates \/ MonitorFindsNoChange
              => UNCHANGED <<main, broadcast, queue, launcher>>
        BY DEF LinkChanges, MonitorPolls, MonitorUpdates, MonitorFindsNoChange, queueVars
      <3>2. UNCHANGED <<main, broadcast, queue, launcher>> => LinkWork' = LinkWork
        BY DEF LinkWork, Total, MainLeft, BroadcastLeft, QueueLeft, LauncherLeft,
           LinkPositions
      <3> QED
        BY <3>1, <3>2
    <2> QED
      BY <2>2, <2>3, <2>4, <2>5, <2>6 DEF LinkWorkEnds, Next, Monitor
  <1>2. Spec => []TypeOK
    BY TypeCorrect
  <1> QED
    BY <1>1, <1>2, PTL DEF Spec

=============================================================================
