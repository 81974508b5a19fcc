------------------------------ MODULE LwipLink ------------------------------
(***************************************************************************)
(* From the link of the ports to the state of the network interface that   *)
(* OpENer sees.  Modelled: the link monitor of                             *)
(* src/common/renesas/module/ether_netif, which polls the PHYs and         *)
(* broadcasts changes; the edge detection of lwip_port and its launcher    *)
(* task, which brings the lwIP interface up and down; the requests that    *)
(* lwIP's own callbacks put into the launcher's queue; the link and        *)
(* interface callbacks of opener_port; and the main thread, which opens    *)
(* these modules one after the other while they already run.               *)
(*                                                                         *)
(* The address is static, as in the sample's configuration (the DHCP       *)
(* branches are left out), and the requests for port 1 and port 2, which   *)
(* the launcher handles alike, are one.  Address conflict detection (ACD)  *)
(* is lwIP's: its client is off, active, in fault after a conflict, or     *)
(* waiting to acquire the address again once the ports have been down.     *)
(***************************************************************************)
EXTENDS Integers, Sequences, FiniteSets

CONSTANTS
  QueueLength,     \* of the launcher's queue
  MaxLinkChanges,  \* bound: how often the link of a port changes
  MaxAcdEvents     \* bound: conflicts and reports of ACD

ASSUME BoundAssumption ==
  QueueLength \in Nat \ {0} /\ MaxLinkChanges \in Nat /\ MaxAcdEvents \in Nat

Ports == {1, 2}
IpRequests == {"IP_UP", "IP_DOWN"}
LinkRequests == {"LINK_UP", "LINK_DOWN", "PORT_LINK_UP", "PORT_LINK_DOWN"}
Requests == LinkRequests \cup IpRequests \cup {"ACD"}

\* What is lost with a set of requests.
Kinds(requests) ==
  (IF requests \cap LinkRequests # {} THEN {"link"} ELSE {})
    \cup (IF requests \cap IpRequests # {} THEN {"ip"} ELSE {})

\* The steps of the main thread, in the order in which it takes them: UM_LWIP_PORT_Open
\* and _Start, then UM_OPENER_PORT_Open.  "start" is all that happens while the launcher
\* is suspended, from vTaskSuspend through the interface's entry in the list to
\* vTaskResume: to the launcher it is one moment.  "register" selects ACD, too.
Steps == <<"add", "clear", "get", "notify", "create", "start", "opener_add",
           "opener_get", "opener_notify", "register", "wait", "state_get",
           "state_notify", "done">>

VARIABLES
  link,         \* the ports whose PHY has a link
  link_status,  \* the monitor's mask, shared with UM_ETHER_NETIF_LinkStatusGet
  monitor,      \* where the monitor is, what it polled, prev_link_status
  broadcast,    \* who holds the callback mutex, the mask, lwIP's requests still to send
  port_link_status,  \* what the lwIP port believes
  opener_ports, \* the link status flags of the CIP Ethernet link objects
  queue,        \* the launcher's queue
  lost,         \* history: the kinds of requests, on link or IP state, that were lost
  launcher,     \* where the launcher is
  netif,        \* lwIP's interface: up, link up, with an address
  acd,          \* lwIP's ACD client of the static address
  acd_link_num, \* the links lwIP counts for it
  netif_state,  \* the state of the interface as the lwIP port publishes it
  configured,   \* the CIP TCP/IP interface's status is "configured"
  main,         \* where the main thread is, the mask and the state it has read
  notified,     \* the main thread has been notified
  source,       \* history: who told lwIP the ports last, and whether the state that
                \* OpENer was told last was the published one then
  link_changes, acd_events  \* counters for the bounds

monitorVars == <<link_status, monitor>>
portVars == <<port_link_status, opener_ports>>
queueVars == <<queue, lost>>
lwipVars == <<netif, acd, acd_link_num>>
stateVars == <<netif_state, configured, notified>>
boundVars == <<link_changes, acd_events>>
vars == <<link, monitorVars, broadcast, portVars, queueVars, launcher, lwipVars,
          stateVars, main, source, boundVars>>

Up == "UP"
Down == "DOWN"
NoBroadcast == [by |-> "none", mask |-> {}, todo |-> <<>>]

MonitorStates ==
  [pc : {"delay", "clear", "port1", "port2", "compare", "broadcast"},
   polled : SUBSET Ports, prev : SUBSET Ports]
BroadcastStates ==
  [by : {"none", "monitor", "main"}, mask : SUBSET Ports, todo : Seq(LinkRequests)]
LauncherSteps ==
  {"wait", "up", "link_up", "start_acd", "link_down", "down", "port_up", "port_down",
   "tell", "acd"}
NetifStates == [up : BOOLEAN, link : BOOLEAN, addr : BOOLEAN]
AcdStates == {"none", "off", "active", "fault", "acquire"}
MainStates == [step : 1..Len(Steps), mask : SUBSET Ports, state : {Up, Down}]
Sources == [ports : {"monitor", "main"}, state : {"current", "stale"}]

TypeOK ==
  /\ link \in SUBSET Ports
  /\ link_status \in SUBSET Ports
  /\ monitor \in MonitorStates
  /\ broadcast \in BroadcastStates
  /\ port_link_status \in SUBSET Ports
  /\ opener_ports \in SUBSET Ports
  /\ queue \in Seq(Requests) /\ Len(queue) <= QueueLength
  /\ lost \in SUBSET {"link", "ip"}
  /\ launcher \in LauncherSteps
  /\ netif \in NetifStates
  /\ acd \in AcdStates
  /\ acd_link_num \in Nat
  /\ netif_state \in {Up, Down}
  /\ configured \in BOOLEAN
  /\ main \in MainStates
  /\ notified \in BOOLEAN
  /\ source \in Sources
  /\ link_changes \in 0..MaxLinkChanges
  /\ acd_events \in 0..MaxAcdEvents

\* ether_netif and DLR have been started, the lwIP port is about to be opened.
Init ==
  /\ link = {}
  /\ link_status = {}
  /\ monitor = [pc |-> "delay", polled |-> {}, prev |-> {}]
  /\ broadcast = NoBroadcast
  /\ port_link_status = {}
  /\ opener_ports = {}
  /\ queue = <<>>
  /\ lost = {}
  /\ launcher = "wait"
  /\ netif = [up |-> FALSE, link |-> FALSE, addr |-> TRUE]
  /\ acd = "none"
  /\ acd_link_num = 0
  /\ netif_state = Down
  /\ configured = FALSE
  /\ main = [step |-> 1, mask |-> {}, state |-> Down]
  /\ notified = FALSE
  /\ source = [ports |-> "main", state |-> "current"]
  /\ link_changes = 0
  /\ acd_events = 0
-----------------------------------------------------------------------------
(* The main thread's progress, the launcher's queue.                       *)

At(s) == Steps[main.step] = s
Past(s) == \E i \in 1..(main.step - 1) : Steps[i] = s

\* Mutant: a full queue takes one more.
RoomOffByOne == IF Past("create") THEN QueueLength + 1 - Len(queue) ELSE 0

\* um_lwip_port_task_launcher_request, for each request in turn: nobody else runs in
\* between, or there is only one.  Without a queue, or without room in it, a request is
\* lost.
Room == IF Past("create") THEN QueueLength - Len(queue) ELSE 0

Request(requests) ==
  LET sent == IF Len(requests) <= Room THEN Len(requests) ELSE Room
  IN  /\ queue' = queue \o SubSeq(requests, 1, sent)
      /\ lost' = lost \cup Kinds({requests[i] : i \in (sent + 1)..Len(requests)})
-----------------------------------------------------------------------------
(* The ports, the monitor and the callbacks on a change of the link.       *)

LinkChanges ==
  /\ link_changes < MaxLinkChanges
  /\ \E p \in SUBSET Ports \ {link} : link' = p
  /\ link_changes' = link_changes + 1
  /\ UNCHANGED <<monitorVars, broadcast, portVars, queueVars, launcher, lwipVars,
                 stateVars, main, source, acd_events>>

MonitorGoes(from, to) ==
  /\ monitor.pc = from
  /\ monitor' = [monitor EXCEPT !.pc = to]

\* linkProcess: the driver polls the PHYs and remembers what it found.
MonitorPolls ==
  /\ monitor.pc = "delay"
  /\ monitor' = [monitor EXCEPT !.pc = "clear", !.polled = link]
  /\ UNCHANGED <<link, link_status, broadcast, portVars, queueVars, launcher, lwipVars,
                 stateVars, main, source, boundVars>>

\* The mask is cleared, then the bit of each port is set or cleared.
MonitorUpdates ==
  /\ \/ MonitorGoes("clear", "port1") /\ link_status' = {}
     \/ MonitorGoes("port1", "port2") /\ link_status' = monitor.polled \cap {1}
     \/ /\ monitor.pc = "port2"
        /\ monitor' = [monitor EXCEPT !.pc = "compare", !.polled = {}]
        /\ link_status' = link_status \cup (monitor.polled \cap {2})
  /\ UNCHANGED <<link, broadcast, portVars, queueVars, launcher, lwipVars, stateVars,
                 main, source, boundVars>>

\* Mutant: an interface with a link on one port is brought up and down with the other.
LinkEdgeOfEachPort(old, new) ==
  IF new \ old # {} THEN <<"LINK_UP">>
  ELSE IF old \ new # {} THEN <<"LINK_DOWN">>
  ELSE <<>>

LinkEdge(old, new) ==
  IF old = {} /\ new # {} THEN <<"LINK_UP">>
  ELSE IF old # {} /\ new = {} THEN <<"LINK_DOWN">>
  ELSE <<>>

\* Mutant: a port that goes down is not reported.
PortEdgeUpOnly(p, old, new) ==
  IF p \in new \ old THEN <<"PORT_LINK_UP">> ELSE <<>>

PortEdge(p, old, new) ==
  IF p \in new \ old THEN <<"PORT_LINK_UP">>
  ELSE IF p \in old \ new THEN <<"PORT_LINK_DOWN">>
  ELSE <<>>

EdgeRequests(old, new) ==
  LinkEdge(old, new) \o PortEdge(1, old, new) \o PortEdge(2, old, new)

\* um_ether_netif_callback_request takes the mutex and calls the clients.  DLR ignores
\* changes of the link, lwIP's callback sends its requests one by one.
BroadcastStarts(by, mask) ==
  /\ broadcast.by = "none"
  /\ broadcast' = [by |-> by, mask |-> mask,
                   todo |-> IF Past("add") THEN EdgeRequests(port_link_status, mask)
                            ELSE <<>>]

BroadcastRequests ==
  /\ broadcast.by # "none" /\ broadcast.todo # <<>>
  /\ Request(<<Head(broadcast.todo)>>)
  /\ broadcast' = [broadcast EXCEPT !.todo = Tail(@)]
  /\ UNCHANGED <<link, monitorVars, portVars, launcher, lwipVars, stateVars, main,
                 source, boundVars>>

\* The end of lwIP's callback, OpENer's callback, and the mutex is given back.
BroadcastEnds(by) ==
  /\ broadcast.by = by /\ broadcast.todo = <<>>
  /\ port_link_status' = IF Past("add") THEN broadcast.mask ELSE port_link_status
  /\ opener_ports' = IF Past("opener_add") THEN broadcast.mask ELSE opener_ports
  /\ source' = [source EXCEPT !.ports = by]
  /\ broadcast' = NoBroadcast

MonitorFindsNoChange ==
  /\ link_status = monitor.prev
  /\ MonitorGoes("compare", "delay")
  /\ UNCHANGED <<link, link_status, broadcast, portVars, queueVars, launcher, lwipVars,
                 stateVars, main, source, boundVars>>

MonitorBroadcasts ==
  /\ link_status # monitor.prev
  /\ MonitorGoes("compare", "broadcast")
  /\ BroadcastStarts("monitor", link_status)
  /\ UNCHANGED <<link, link_status, portVars, queueVars, launcher, lwipVars, stateVars,
                 main, source, boundVars>>

\* Mutant: the monitor forgets to remember what it has broadcast.
MonitorEndsWithoutPrev ==
  /\ BroadcastEnds("monitor")
  /\ monitor' = [monitor EXCEPT !.pc = "delay"]
  /\ UNCHANGED <<link, link_status, queueVars, launcher, lwipVars, stateVars, main,
                 boundVars>>

MonitorEnds ==
  /\ BroadcastEnds("monitor")
  /\ monitor' = [monitor EXCEPT !.pc = "delay", !.prev = link_status]
  /\ UNCHANGED <<link, link_status, queueVars, launcher, lwipVars, stateVars, main,
                 boundVars>>
-----------------------------------------------------------------------------
(* lwIP, whose thread runs each of these without interruption.             *)

\* _status_changed, called by lwIP after each change of up or addr.
IpRequest(n) == IF n.up /\ n.addr THEN "IP_UP" ELSE "IP_DOWN"

StatusChanged(n) ==
  IF n.up = netif.up /\ n.addr = netif.addr THEN <<>> ELSE <<IpRequest(n)>>

\* An address conflict: DECLINE takes the address away.  A conflict counts only once
\* ACD has been selected, and only on an interface that is up.
ConflictDetected ==
  /\ acd_events < MaxAcdEvents
  /\ acd = "active" /\ netif.up /\ Past("register")
  /\ acd' = "fault"
  /\ netif' = [netif EXCEPT !.addr = FALSE]
  /\ Request(StatusChanged(netif') \o <<"ACD">>)
  /\ acd_events' = acd_events + 1
  /\ UNCHANGED <<link, monitorVars, broadcast, portVars, launcher, acd_link_num,
                 stateVars, main, source, link_changes>>

\* The address is announced, or defended: _acd_changed.
AcdReports ==
  /\ acd_events < MaxAcdEvents
  /\ acd = "active"
  /\ Request(<<"ACD">>)
  /\ acd_events' = acd_events + 1
  /\ UNCHANGED <<link, monitorVars, broadcast, portVars, launcher, lwipVars, stateVars,
                 main, source, link_changes>>
-----------------------------------------------------------------------------
(* The launcher task.                                                      *)

LauncherGoes(from, to) ==
  /\ launcher = from
  /\ launcher' = to

Takes(request) ==
  /\ launcher = "wait"
  /\ queue # <<>> /\ Head(queue) = request
  /\ queue' = Tail(queue)

\* A link request is for each interface in the list: for none if the launcher handles it
\* before it is suspended, as the list is empty until then.
LauncherTakesLink ==
  /\ \E request \in LinkRequests :
       /\ Takes(request)
       /\ IF Past("start")
          THEN /\ launcher' = CASE request = "LINK_UP" -> "up"
                                [] request = "LINK_DOWN" -> "link_down"
                                [] request = "PORT_LINK_UP" -> "port_up"
                                [] request = "PORT_LINK_DOWN" -> "port_down"
               /\ lost' = lost
          ELSE /\ launcher' = "wait"
               /\ lost' = lost \cup {"link"}
  /\ UNCHANGED <<link, monitorVars, broadcast, portVars, lwipVars, stateVars, main,
                 source, boundVars>>

\* Mutant: an interface once up stays up.
SetNetifStateUpOnly(state) ==
  /\ netif_state' = Up
  /\ launcher' = IF netif_state = state THEN "wait" ELSE "tell"

\* Mutant: the callback is called when the state has not changed.
SetNetifStateTellsSame(state) ==
  /\ netif_state' = state
  /\ launcher' = IF netif_state = state THEN "tell" ELSE "wait"

\* um_lwip_port_netif_set_netif_state, up to the callback.
SetNetifState(state) ==
  /\ netif_state' = state
  /\ launcher' = IF netif_state = state THEN "wait" ELSE "tell"

LauncherTakesIp ==
  /\ \/ Takes("IP_UP") /\ SetNetifState(Up)
     \/ Takes("IP_DOWN") /\ SetNetifState(Down)
  /\ UNCHANGED <<link, monitorVars, broadcast, portVars, lost, lwipVars, configured,
                 notified, main, source, boundVars>>

LauncherTakesAcd ==
  /\ Takes("ACD")
  /\ launcher' = "acd"
  /\ UNCHANGED <<link, monitorVars, broadcast, portVars, lost, lwipVars, stateVars, main,
                 source, boundVars>>

\* um_lwip_port_netif_set_up, one call of lwIP at a time: the interface, its link, and
\* the ACD client.
SetUp ==
  \/ /\ LauncherGoes("up", "link_up")
     /\ netif' = [netif EXCEPT !.up = TRUE]
     /\ Request(StatusChanged(netif'))
     /\ UNCHANGED acd
  \/ /\ LauncherGoes("link_up", "start_acd")
     /\ netif' = [netif EXCEPT !.link = TRUE]
     /\ UNCHANGED <<acd, queueVars>>
  \/ /\ LauncherGoes("start_acd", "wait")
     /\ IF acd \in {"none", "off"}
        THEN /\ acd' = IF acd_link_num > 0 THEN "active" ELSE "off"
             /\ Request(IF acd_link_num > 0 THEN <<"ACD">> ELSE <<>>)
        ELSE UNCHANGED <<acd, queueVars>>
     /\ UNCHANGED netif

\* um_lwip_port_netif_set_down: the link, then the interface.
SetDown ==
  \/ /\ LauncherGoes("link_down", "down")
     /\ netif' = [netif EXCEPT !.link = FALSE]
     /\ UNCHANGED <<acd, queueVars>>
  \/ /\ LauncherGoes("down", "wait")
     /\ netif' = [netif EXCEPT !.up = FALSE]
     /\ Request(StatusChanged(netif'))
     /\ UNCHANGED acd

\* acd_link_up: probing starts, or starts again with the address it had before a fault.
SetLinkUp ==
  /\ LauncherGoes("port_up", "wait")
  /\ acd_link_num' = acd_link_num + 1
  /\ \/ /\ acd = "acquire"
        /\ netif' = [netif EXCEPT !.addr = TRUE]
        /\ acd' = "active"
        /\ Request(<<"ACD">> \o StatusChanged(netif') \o <<"ACD">>)
     \/ /\ acd = "off" /\ netif.addr
        /\ acd' = "active"
        /\ Request(<<"ACD">>)
        /\ UNCHANGED netif
     \/ /\ acd = "active"
        /\ \/ Request(<<"ACD">>)
           \/ UNCHANGED queueVars
        /\ UNCHANGED <<netif, acd>>
     \/ /\ acd \in {"none", "fault"} \/ (acd = "off" /\ ~netif.addr)
        /\ UNCHANGED <<netif, acd, queueVars>>

\* acd_link_down: with the last link ACD is off, and a fault is forgotten.
SetLinkDown ==
  /\ LauncherGoes("port_down", "wait")
  /\ acd_link_num' = IF acd_link_num = 0 THEN 0 ELSE acd_link_num - 1
  /\ acd' = IF acd_link_num # 1 THEN acd
            ELSE IF acd = "active" THEN "off"
            ELSE IF acd = "fault" THEN "acquire"
            ELSE acd
  /\ UNCHANGED <<netif, queueVars>>

LauncherCallsLwip ==
  /\ \/ (SetUp \/ SetDown) /\ UNCHANGED acd_link_num
     \/ SetLinkUp
     \/ SetLinkDown
  /\ UNCHANGED <<link, monitorVars, broadcast, portVars, stateVars, main, source,
                 boundVars>>

\* OpENer's callback, once it is registered: it sets the status and notifies the main
\* thread.
Callback(state) ==
  IF Past("register")
  THEN /\ configured' = (state = Up)
       /\ notified' = TRUE
       /\ source' = [source EXCEPT !.state = IF state = netif_state THEN "current"
                                                                ELSE "stale"]
  ELSE UNCHANGED <<configured, notified, source>>

LauncherTells ==
  /\ LauncherGoes("tell", "wait")
  /\ Callback(netif_state)
  /\ UNCHANGED <<link, monitorVars, broadcast, portVars, queueVars, lwipVars,
                 netif_state, main, boundVars>>

LauncherTellsAcd ==
  /\ LauncherGoes("acd", "wait")
  /\ notified' = (notified \/ Past("register"))
  /\ UNCHANGED <<link, monitorVars, broadcast, portVars, queueVars, lwipVars,
                 netif_state, configured, main, source, boundVars>>
-----------------------------------------------------------------------------
(* The main thread.                                                        *)

MainGoes(s) ==
  /\ At(s)
  /\ main' = [main EXCEPT !.step = @ + 1]

\* Steps that only bring the thread to the next one; what they open, add or start is
\* there once the thread is past them.  Adding a client takes the callback mutex.
MainOpens ==
  /\ \/ \E s \in {"create", "start", "register"} : MainGoes(s)
     \/ \E s \in {"add", "opener_add"} : MainGoes(s) /\ broadcast.by = "none"
  /\ UNCHANGED <<link, monitorVars, broadcast, portVars, queueVars, launcher, lwipVars,
                 stateVars, source, boundVars>>

\* um_lwip_port_ether_netif_open, after it has added the callback.
MainClears ==
  /\ MainGoes("clear")
  /\ port_link_status' = {}
  /\ UNCHANGED <<link, monitorVars, broadcast, opener_ports, queueVars, launcher,
                 lwipVars, stateVars, source, boundVars>>

\* UM_ETHER_NETIF_LinkStatusGet: reads the mask without a lock.
MainGetsLinkStatus ==
  /\ \E s \in {"get", "opener_get"} : At(s)
  /\ main' = [main EXCEPT !.step = @ + 1, !.mask = link_status]
  /\ UNCHANGED <<link, monitorVars, broadcast, portVars, queueVars, launcher, lwipVars,
                 stateVars, source, boundVars>>

\* Its notification: the mask that was read is broadcast.
MainNotifies ==
  /\ \E s \in {"notify", "opener_notify"} : At(s)
  /\ BroadcastStarts("main", main.mask)
  /\ UNCHANGED <<link, monitorVars, portVars, queueVars, launcher, lwipVars, stateVars,
                 main, source, boundVars>>

MainEnds ==
  /\ BroadcastEnds("main")
  /\ main' = [main EXCEPT !.step = @ + 1, !.mask = {}]
  /\ UNCHANGED <<link, monitorVars, queueVars, launcher, lwipVars, stateVars,
                 boundVars>>

\* um_opener_port_ether_netif_start waits for a callback of the lwIP port.
MainWaits ==
  /\ notified
  /\ MainGoes("wait")
  /\ notified' = FALSE
  /\ UNCHANGED <<link, monitorVars, broadcast, portVars, queueVars, launcher, lwipVars,
                 netif_state, configured, source, boundVars>>

\* um_opener_port_lwip_port_wait_netif_up: its loop is never entered, so the state is
\* read once, and OpENer's callback is called with it.
MainGetsState ==
  /\ At("state_get")
  /\ main' = [main EXCEPT !.step = @ + 1, !.state = netif_state]
  /\ UNCHANGED <<link, monitorVars, broadcast, portVars, queueVars, launcher, lwipVars,
                 stateVars, source, boundVars>>

MainTellsState ==
  /\ At("state_notify")
  /\ main' = [main EXCEPT !.step = @ + 1, !.state = Down]
  /\ Callback(main.state)
  /\ UNCHANGED <<link, monitorVars, broadcast, portVars, queueVars, launcher, lwipVars,
                 netif_state, boundVars>>
-----------------------------------------------------------------------------
Monitor == MonitorPolls \/ MonitorUpdates \/ MonitorFindsNoChange \/ MonitorBroadcasts
Broadcaster == BroadcastRequests \/ MonitorEnds \/ MainEnds
Launcher == \/ LauncherTakesLink \/ LauncherTakesIp \/ LauncherTakesAcd
            \/ LauncherCallsLwip \/ LauncherTells \/ LauncherTellsAcd
Main == \/ MainOpens \/ MainClears \/ MainGetsLinkStatus \/ MainNotifies \/ MainWaits
        \/ MainGetsState \/ MainTellsState
Lwip == ConflictDetected \/ AcdReports

Next == LinkChanges \/ Monitor \/ Broadcaster \/ Lwip \/ Launcher \/ Main

Spec == Init /\ [][Next]_vars

\* Every task blocks when it has nothing to do and is resumed by the scheduler when it
\* has; the monitor's delay ends.
FairSpec ==
  Spec /\ WF_vars(Monitor) /\ WF_vars(Broadcaster) /\ WF_vars(Launcher) /\ WF_vars(Main)
-----------------------------------------------------------------------------
(* Properties.                                                             *)

\* No link request is on its way from the lwIP port to lwIP.
LinkSettled ==
  /\ broadcast.by = "none"
  /\ launcher \notin {"up", "link_up", "start_acd", "link_down", "down", "port_up",
                      "port_down"}
  /\ \A i \in 1..Len(queue) : queue[i] \notin LinkRequests

\* Unless a link request was lost, what lwIP knows of the links is what the lwIP port
\* recorded as delivered: the edges add up, whatever the order in which masks were
\* broadcast and however late the launcher comes to handle them.
NetifFollowsPorts ==
  LinkSettled /\ "link" \notin lost =>
    /\ netif.up = (port_link_status # {})
    /\ netif.link = netif.up
    /\ acd_link_num = Cardinality(port_link_status)

\* Unless a link request was lost, ACD works exactly while some port has a link: then it
\* probes or defends the address, or is in fault and the interface has none; without a
\* link it is off, and an address that was declined is ready to be acquired again.
AcdFollowsPorts ==
  LinkSettled /\ "link" \notin lost =>
    /\ port_link_status # {} => acd = IF netif.addr THEN "active" ELSE "fault"
    /\ port_link_status = {} => acd \in IF netif.addr THEN {"none", "off"} ELSE {"acquire"}

\* The position of the last request of lwIP about its state.
IsLastIpRequest(i) ==
  /\ queue[i] \in IpRequests
  /\ \A j \in (i + 1)..Len(queue) : queue[j] \notin IpRequests

\* Unless such a request was lost, the last one that lwIP sent, or with none in the queue
\* the published state, says what lwIP's interface is now: _status_changed is called in
\* lwIP's thread, while the launcher changes the interface and handles earlier requests.
StateFollowsNetif ==
  "ip" \notin lost =>
    /\ \A i \in 1..Len(queue) : IsLastIpRequest(i) => queue[i] = IpRequest(netif)
    /\ (\A i \in 1..Len(queue) : queue[i] \notin IpRequests) =>
         netif_state = IF IpRequest(netif) = "IP_UP" THEN Up ELSE Down

\* Once the monitor, and not LinkStatusGet with its unlocked mask, was the last to
\* broadcast, the lwIP port and the CIP Ethernet link objects end up with the ports that
\* have a link.
PortsCatchUp ==
  <>[](source.ports = "monitor" /\ Past("opener_add") =>
         port_link_status = link /\ opener_ports = link)

\* From the PHY to OpENer's TCP/IP object, once it has started: unless a request was lost,
\* or the last word was the main thread's with a value it had read before, the interface
\* ends up configured exactly when some port has a link and lwIP has an address.
InterfaceCatchesUp ==
  <>[](At("done") /\ lost = {} /\ source = [ports |-> "monitor", state |-> "current"] =>
         configured = (link # {} /\ netif.addr))
=============================================================================
