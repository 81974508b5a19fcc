# A TLA+ verification of the RZ/N2L EtherNet/IP sample

The repository is an EtherNet/IP adapter for the Renesas RZ/N2L RSK board: OpENer
on lwIP on FreeRTOS, with a Device Level Ring (DLR) node, LLDP and a UDP echo demo.
This directory models the parts of it where tasks, interrupt handlers, timers and
the switch hardware meet. TLC checks the models on small instances; TLAPS proves
the most important properties for every instance.

Everything runs on one core under FreeRTOS with preemption and time slicing: tasks
interleave at any point, an interrupt handler interrupts any task and is interrupted
by none. Paths below are under `src/common/renesas/module/` unless they say otherwise.

## The system

| Component | State | Operations | Talks to |
|---|---|---|---|
| DLR state machine (`dlr/um_dlr_fsm*.c`) | ring state, last beacon, masks of active links and neighbors, sequence id, CIP attributes | one handler for each event in IDLE, FAULT and NORMAL | switch (flush, port state), neighbor timers, frame port |
| DLR tasks (`dlr/um_dlr_task_*.c`, `um_dlr_timer_*.c`, `um_dlr_ether_switch.c`) | event queue (16), frame queue (16), two one-shot timers with timeout counters, request ids | interrupt callback, receiver, executor, timer callback | r_ethsw interrupt, FreeRTOS timer daemon |
| Ethernet network interface (`ether_netif/`) | list of clients, writer queue (32), link mask | reader, writer, link monitor, callback list | r_gmac driver, and DLR, lwIP port and OpENer port as clients |
| lwIP port (`lwip_port/`) | interface state, frame queue (16), launcher queue (16), list of interfaces | frame receiver, launcher task, status callbacks of lwIP | ether_netif, lwIP's TCP/IP thread, OpENer port |
| OpENer port (`opener_port/`) | netif state, CIP objects of link and TCP/IP, indicator state, encapsulation loop | netif task, indicator task, network handler loop, callbacks | lwIP port, ether_netif, DLR, OpENer |
| LLDP agents (`lwip_lldp/`) | one agent a port: tx and rx state machines, timers, remote MIB; one packet buffer for all | timer, receive, get-MIB and set-MIB task per port | lwIP port (input), r_gmac (output), SNMP |
| CIP connections (`src/common/oss/OpENer/source/src/cip/`) | 13 connection objects, the list of those in use and its 9 nodes, watchdogs, UDP sockets, transmission timers | Forward Open (null, matching, new), Forward Close, 10 ms tick, I/O data | encapsulation, sockets, application |
| Encapsulation (`.../enet_encap/`, `ports/generic_networkhandler.c`) | 64 sessions, delayed messages, sockets | Register/UnregisterSession, inactivity, socket close | CIP, lwIP sockets |
| UDP echo (`udp_thread_entry.c` of the project) | one buffer, the last client | receive, echo, delay | lwIP netconn |
| Application, NV data, serial console, CIP safety link, CIP attribute tables | | start-up, attribute access, pure I/O | |

Third-party code (lwIP, FreeRTOS, FSP drivers, OpENer's other ports) is not modelled
for its own sake; where a module depends on it, it appears by its effect and is marked
external in `PROJECT.json`. The one driver function that belongs to the DLR protocol,
the interrupt handler `ethsw_isr_dlr`, is modelled from its source.

### What is hard here, and what correct means

* **DLR.** Ring state lives in the switch and is copied to the software by events. The
  interrupt handler appends events, the receiver task puts frames at the *front* of the
  same queue, the handler drops what finds no room, and the timer daemon shares counters
  with the executor without a lock. Correct: the software's state and its CIP attributes
  converge to the switch's; stale MAC entries are flushed; every neighbor check ends,
  with a bounded number of requests, and only a neighbor's own answer counts.
* **Frames.** A frame is a heap block that changes hands by pointer through four queues,
  eight tasks and a list of callbacks, with different rules about who frees it when a
  queue is full. Correct: one owner for each block, no wakeup lost, no circular wait for
  memory or room.
* **Link and address state.** The link mask is read unlocked in the middle of an update,
  edges are recorded as delivered even when a full queue dropped them, and lwIP's own
  callbacks post to the queue whose reader they are called by. Correct: what lwIP knows of
  the ports is what was delivered, and the interface the application sees ends up like the
  link, as long as no request is lost.
* **LLDP.** The timer task, the receive task and two tasks that serve SNMP share one agent
  under a mutex; SNMP works on a copy of the whole agent and stores the whole copy back,
  and both it and CIP switch transmission and reception on and off. Correct: a port that
  stops transmitting says so, one that goes on is never forgotten by its neighbors, nothing
  is remembered of neighbors that fell silent, and SNMP gets the answer to its own request.
* **CIP connections and sessions.** Connections time out, are closed, taken over and end
  with their session, in any order, and from inside the walk over the list that holds them;
  the socket of a multicast assembly goes from one connection to another. Correct: the list
  holds exactly the connections in use, at most one established connection has a triad, a
  multicast assembly has one holder of its socket, ownership does not change hands
  unasked, and every walk comes to its end.

`PROJECT.json` lists the hazards with their lines and, for those modelled, the properties
that cover them.

## Modules

| Module | Models |
|---|---|
| `DlrFsm` | the event handlers of the DLR state machine, as operators over its state |
| `DlrNode` | EXTENDS `DlrFsm`: the switch hardware, its interrupt handler, the receiver, the executor and the timer daemon around it |
| `MCDlrNode` | supervisors, precedences and MAC addresses for TLC |
| `DlrNodeProofs`, `DlrRingProofs`, `DlrCheckProofs` | theorems about `DlrNode` |
| `EtherNetif` | ownership of frames from the GMAC through ether_netif, DLR, lwIP port and OpENer port |
| `MCEtherNetif` | list of clients and queue lengths for TLC |
| `EtherNetifProofs` | theorems about `EtherNetif` |
| `LwipLink` | from the PHYs through the link monitor, the launcher and lwIP's callbacks to the TCP/IP object; the start of these modules |
| `LwipLinkProofs` | theorems about `LwipLink` |
| `ActiveList` | abstract: the list of the connections in use as the connection manager relies on it: an order, entries at its head, one walk |
| `CipConnections` | the connection manager over that list: Forward Open and Close, data, sessions, reset, the tick |
| `MCCipConnections` | connection objects and connection points for TLC |
| `CipList` | the list as it is stored: nodes of a static array, linked in both directions, with ManageConnections' pointer into it |
| `CipConnectionsProofs`, `CipListProofs` | theorems about them; both modules implement `ActiveList` |
| `LldpAgent` | the LLDP agent of one port: both state machines, its four tasks, CIP and SNMP |
| `LldpAgentProofs` | theorems about `LldpAgent` |

### DlrFsm and DlrNode

`DlrFsm` has one operator for each handler in `_event_function_table`; `ExecuteWithEvent`
dispatches on the event as `um_dlr_fsm_execute_with_event` does. A handler is one action
of the executor, except the timer commands it posts: `xTimerStart` and `xTimerStop` may
block, so they are left in `timer_cmds` and posted one at a time by `ExecutorPostCommand`.

`DlrNode` adds:

* *the switch* (`Hw...` actions): state, link mask, active supervisor and the ports that
  see beacons, changing as the numbered events of the DLR standard say, each with the
  interrupt bits it raises. It is external; what it may do is taken from the events the
  source names and from how the source reads the registers. A beacon timeout or a lost
  link that ends a state raises its own bit *and* the status bit, and the handler serves
  bits in ascending order, so reports come out in the order of the bits, not of the causes;
* *the interrupt handler*: `IsrLatch` reads and acknowledges, `IsrCallback` serves one
  bit, reading state, link and beacon registers as they are then. The hardware may move
  between two bits; tasks may not run (`TaskLevel`);
* *the receiver*: takes a frame, filters responses by the id last sent on that port,
  waits for room and puts the event in front. The receive queue is not a variable: frames
  arrive in any order and at any time, which includes everything a queue could do;
* *the timer daemon*: commands in order, one-shot timers, and the callback cut at its load,
  its store, the second load of the counter (or not: the build may keep the value in a
  register), and the blocking send.

Abstractions: a supervisor stands for its MAC and IP address; VLAN id and the ring state
byte are left out as no handler reads them; `sequence_id` does not wrap (2^32 requests);
`mac_stale`, `wire`, `round` and `lost` are history that no handler of the code reads. Sends that the
Ethernet writer refuses are left to `EtherNetif`. Bounds: `MaxHw` changes of the hardware
and `MaxFrames` received frames; the code bounds neither. Queue lengths are 16 and 10 in
the code, and 1 to 4 in the runs, so that full queues are reached with few events.

Three things the handlers do differ from what one would expect and are modelled as they
are. A status frame goes to the supervisor of the last change of state, so after a
takeover in FAULT to the old one (`um_dlr_fsm_frame.c:92`). Losing one link marks the
other one active whatever it is, so neighbors may be checked through a port without a
link (`um_dlr_fsm.c:262`). The receiver compares a response with the id last sent on its
port when it takes the frame, not when the executor handles it, so the answer to one
round may end the next one (`um_dlr_task_receiver.c:311`).

### EtherNetif

Contents of frames do not matter to ownership, and neither does which block is which, as
queues are first in, first out and every holder treats its block alike. So blocks are
counted: `heap` is the number of blocks allocated, `queue[q]` the number of frames in a
queue, `held[t]` what the pointer of task `t` points to: null, a block of its own, or a
block that is freed. The reader has its program counter and its place in the callback
list; the executor its program counter and how many frames the handler still sends. The
actions follow the task loops: `ReaderWakes`, `ReaderAllocates`, `ReaderReads`,
`ReaderPrepares` (copy or original), `ReaderCalls` (the client's callback), and so on.

The three clients differ in what they do with a frame: DLR waits for room in its queue,
lwIP frees the frame when there is none, OpENer frees every frame. Room comes and goes,
allocation waits for as long as it takes, a frame may be refused by the driver, by DLR's
receiver, or by `um_dlr_ether_netif_send` when there is no active port. There is no bound
on the number of frames; the only bound is `MaxNotified`, on notifications that the
reader has not taken. It holds back `EtherIsr` and loses nothing, because the code's
counter is 32 bits wide.

Abstractions: events that carry no frame are a number, and the frames stand before them
in the executor's queue, as the receiver puts them in front. The clients are registered
and their queues exist in the initial state, since the first frame needs the link, which
the monitor task brings up a second after the start. A frame that is freed twice stops
the model (`bad_free`): heap_4 asserts, and where another task has allocated the block
in between, that task's block is lost, so that nothing can be said of what follows.

### LwipLink

One variable for each thing that remembers the link: the PHYs (`link`), the monitor's mask
(`link_status`) and what it broadcast last (`monitor.prev`), the masks that the lwIP port
and OpENer recorded (`port_link_status`, `opener_ports`), lwIP's interface (`netif`) and
its count for ACD (`acd_link_num`), the state the lwIP port publishes (`netif_state`) and
the status OpENer has of it (`configured`). The actions are the tasks that carry the link
from one to the next:

* *the monitor* polls the PHYs, clears the mask and sets the ports one after the other,
  and broadcasts a change under the callback mutex (`broadcast`). lwIP's callback turns
  the mask into requests, one by one, by comparing it with the mask it recorded;
* *the launcher* takes requests and calls lwIP, one call at a time; *lwIP* itself may
  find an address conflict or report on ACD in between. Each change of the interface puts
  IP_UP or IP_DOWN into the very queue the launcher reads;
* *the main thread* opens the modules in the order of `Steps`, while all the others run:
  callbacks that are not yet added are not called, requests before the queue exists are
  lost, and `MainGetsLinkStatus` reads the mask without a lock and broadcasts it later.

lwIP's calls run in the TCP/IP thread, whose priority is the highest, so each is one step.
The other tasks interleave freely, which includes more than their priorities (5 for the
main thread, 3 for the monitor and the launcher) allow. `lost` is history: the kinds of
requests that found no queue, no room or no interface in the list. The properties ask
nothing once a request they depend on is in it, as nothing in the code repeats one.
`source` is history, too: whether the main thread, with a mask it may have read in the
middle of an update, was the last to broadcast one, and whether OpENer was told a state
that was no longer the published one. The code never corrects either before the next
change, so the liveness properties except these cases by name.

Abstractions: the address is static, as in the sample's configuration, so DHCP is left
out; ACD's own states are "active" or not; requests for port 1 and 2 are one kind; the
handlers of ACD events only notify. What lwIP does when the launcher calls it is taken
from the vendored `acd.c` and `netif.c`.

### ActiveList, CipConnections and CipList

The netif task runs everything in OpENer, one after the other, so an action of
`CipConnections` is a whole handler. It is built from connection objects (`conn`, in the
order of their arrays), the list of those in use and the connection `ManageConnections`
stands on (`list`, `ahead`, `node`: the variables of `ActiveList`), the sessions, and the
number of UDP sockets.

* `ForwardOpenIo` is the whole request: the search for the triad, the choice of an object
  (`Candidate`: a timed out one of the same originator is closed and used again), the
  sockets (`Establish`, or `NoSocket` when one cannot be created: those created before it
  stay open), and the entry at the head of the list. An exclusive owner takes the socket
  of an existing multicast producer over, the others share it.
* `ForwardClose`, `EndSession` and `ResetDevice` close connections; closing a holder of a
  multicast socket hands it to the next one (`Heirs`) or ends the listeners (`ClosedWith`).
* A tick is `StartTick` and one action for each connection visited: `PassOver`, `CountDown`,
  `TimeOutExplicit`, `TimeOutIo`. That no handler runs between them is `node = None` in the
  guards of the others. `Leave` goes to the next connection, or to the end when the
  current one was closed, because its node is zero by then: a tick ends early whenever the
  connection it stands on is removed, and those behind it wait for the next one.

The same happens to the other walks: when a session ends, only the first of its explicit
connections is closed (`Class3Of`), and the others live until their watchdog ends them. A
timed out connection keeps its socket, and GetExistingProducerIoConnection
(`appcontype.c:353-355`) still finds it, so that a new multicast connection gets a holder
that sends nothing more; `MasterKept` asks for a holder, not for an established one. The end
of a point-to-point owner does not end its listeners, and a listen-only connection that
opened a socket of its own does not hand it on: `MasterKept` speaks of owners and
input-only connections. For the same reason it needs the listen-only connections to listen
to another assembly than the input-only ones (`PointAssumption`), as the sample configures
them (`opener_port_main.c:544-570`): otherwise a listener may be the one that created the
socket of an input-only connection, and TLC finds that nobody inherits it.

Abstractions: the O->T side is always point-to-point; null, matching and configuration-only
requests change no state of the model; whether data are accepted (sequence numbers, the
originator's address) is a choice; a session's peer is its originator; which check refuses
a request after a timed out connection has been closed is a choice. OPENER_CIP_SAFETY is
not defined, so the safety branches are left out. Nodes of the list are a bound here
(`NumNodes` holds opens back), as the overflow is the subject of `CipList`.

`CipList` has the nodes themselves: `nodes` is the static array, `Allocator` takes the first
one that is all zero, `RemoveNode` unlinks a node and zeroes it, and `Advance` reads the
`next` of whatever node the walk stands on. `fault` is set when the allocator finds no node
and DoublyLinkedListNodeCreate writes through the null pointer; the model stops there. Any
connection may enter outside a walk and leave at any time, which is more than
`CipConnections` does.

### LldpAgent

The variables are the fields of LWIP_LLDP_AGENT_VARIABLES that the state machines read
(`agent`), the states the last tick left (`old_tx_state`, `old_rx_state`), the settings CIP
shares (`g_adminStatus`, `interval`) and the queues and events between SNMP and the two MIB
tasks. `Tick` is one round of the timer task: it takes the window or a change by SNMP
(`Synchronized`), counts down, takes one transition of each machine and, if the state
differs from the one the last tick left, its entry actions. INFO_FRAME and DELETE_INFO are
left at once, in the same call. `Receive` is LWIP_LLDP_receive for a frame that passes the validation,
`ReceiveBad` for one that does not. `SnmpAsks` to `SnmpGivesUp` are the four functions
SNMP calls and what it does with the copy. `sent` and `heard` (the ticks for which the
neighbors still hold on to the agent) and `timedOut` are history.

A copy in a queue is the agent as it is, with the field SNMP changes, for as long as the
agent does not move; then it is `Unknown`, an old one (`Aged`). Storing an old copy back, or one
of zeros after a wait that timed out, makes the agent `Unknown` and the model
follows it no further: the state machine then jumps back by some ticks, so that entries
may stay for ever, a shutdown frame may be skipped, or a frame may announce TTL 0, and no property
holds of it. What the properties say is what the agent does until then, with copies of the
current state stored at every point. What a task takes before the mutex counts as waiting
until it has the mutex; this differs only when SNMP's 100 ms end in between.

What the model shows besides: after one wait that timed out, every later get is answered by
the copy made for the one before (`SnmpGetsNothing`, `GetMib`; hence `timedOut` in
`AnswersMatch`). SetMib compares a setting with itself, as the copy points to the same
variables (`lwip_lldp.c:596`), so that a new msgTxInterval does not change txTTL: the first
frame after a longer interval announces the old time to live, and the neighbors may drop the
agent before the next one (hence `sent.ttl = agent.txTTL` in `NeighborsKeepUs`).
Initializing the transmit machine of one port resets the settings of all (`IntervalAfter`).
A write of g_adminStatus through CIP between a change by SNMP and the next tick is lost. One time to
live serves all neighbors, and a frame with TTL 0 deletes all of them.

Left out: the contents of frames and their validation (a choice), portEnabled (always true),
msgTxHold (a constant), the timer and counters of too many neighbors, notifications, the
receive queue (frames arrive at any time), errors of the driver, and the second port, with the packet
buffer the two share.

## Runs

| Run | Module | Shows |
|---|---|---|
| `DlrRing` | `MCDlrNode` | With two supervisors, queues of 2, 5 hardware changes and a Flush_Tables frame: `NodeStateFollowsHardware`, `SettledNodeShowsTheRing`, `StaleTableIsFlushed`. |
| `DlrCheck` | `MCDlrNode` | Two rounds of neighbor checks with retries and late, duplicated and crossing responses: `CheckNeverStalls`, `RequestsBounded`, `RequestIdsAreUnique`, `TypeOK`. |
| `DlrLive` | `MCDlrNode` | `NodeCatchesUp` and `RoundsEnd` under `FairSpec`. |
| `EtherNetif` | `MCEtherNetif` | `OneOwner`, `NoFrameLeftBehind`, `TasksNeverStall`, `ReadyTasksStep`, `WorkEnds`, `TypeOK` (3.5 million states). |
| `LwipLink` | `LwipLink` | `NetifFollowsPorts`, `AcdFollowsPorts`, `StateFollowsNetif`, `TypeOK` (4 million states). |
| `LwipLive` | `LwipLink` | `PortsCatchUp` and `InterfaceCatchesUp` under `FairSpec`. |
| `CipIo` | `MCCipConnections` | `ListExact`, `TriadUnique`, `SocketsHeld`, `MasterUnique`, `MasterKept`, `OwnershipKept`, `TypeOK`, and the refinement `ListRefined` (950 000 states). |
| `CipList` | `CipList` | `Linked`, `PoolSuffices`, the refinement `Implements`, and `WalkEnds` under fairness (200 000 states). |
| `LldpAgent` | `LldpAgent` | `ShutdownAnnounced`, `NeighborsKeepUs`, `RemoteIsAlive`, `AnswersMatch`, `TypeOK`, and under fairness `NeighborsFollow` and `SilentAreForgotten` (750 000 states). |
| `DlrCircularWait` | `MCDlrNode` | violated: a timer callback does not block |
| `EtherNetifFullQueue` | `MCEtherNetif` | violated: freed blocks are allocated |
| `CipPool` | `CipList` | violated: a path has as many connections as it is configured for |

The last three check what a comment or an assertion of the code says, and TLC finds an
execution of the code that contradicts it; `findings` in `PROJECT.json` has the details.

`StaleTableIsFlushed` holds in `DlrRing` because its two supervisors have different
precedences. With `MCTiedPrecedence` in place of `MCPrecedence` TLC finds it violated:
`_is_new_supervisor_precedence_higher` compares the new supervisor's *precedence* with the
bytes of the old one's MAC address when the precedences are equal (`um_dlr_fsm.c:902`).
That this is the only obstacle is a theorem (`StaleTableFlushed`, below).

`CipList` gives every connection object a node; `CipPool` has two objects on the input-only
and the listen-only path, as the sample has three, and nodes for one each, as the code has.

### Bounds, and why they are enough

* `DlrRing`: five changes reach every state of the switch, with both supervisors, a
  takeover in FAULT and in NORMAL, a loss and a recovery of the ring; the queue of 2 makes
  the overflow case happen, and `FLUSHTABLES` is there because it jumps the queue.
* `DlrCheck`: two Locate_Fault frames, or one and a response, with queues of 4: the second
  round starts while timeouts of the first are anywhere on their way.
* `DlrCircularWait` scales both queues to one entry. With 16 and 10 it takes a burst of
  Locate_Fault frames, each of which posts two timer commands, while the daemon is in a
  callback.
* `EtherNetif`: one entry in each queue, a receive ring of two, seven blocks. Queues of one
  are full as soon as they hold anything, which is when ownership is hard; two descriptors
  make a notification stand for more than one frame. Seven is the smallest heap with
  which `TasksNeverStall` holds: a block for each entry of the queues to DLR and to its
  executor, one each for the receiver and the executor, one for the answer, and two for
  the reader, which holds an original while it allocates a copy. With six, TLC finds the
  deadlock; with `QueueLength["dlr"] + QueueLength["executor"] + 5` there is none, for any
  queue lengths (`TasksGoOn`, below). The real heap has room for some 240 frames and the two
  queues for 32, so the same sum, 37, is well within it, as long as the rest of the program
  leaves it.

* `LwipLink`: two changes of the link take both ports up, one down, or all of them up and
  down again, at any point of the start; with a queue of 3 requests are lost as well as
  delivered in full (the code's queue has 16). One conflict, after which ACD is in fault,
  and with the ports down and up again acquires the address anew. `LwipLive` leaves
  conflicts out, so there the address is always set and `InterfaceCatchesUp` is about
  links.

* `CipIo`: two originators and two serial numbers make a triad that comes back, two
  originators that compete for the owner, and a listener that outlives either. Owner and
  listen-only connection share an assembly and two input-only connections another, as in
  the sample, so that sockets are handed on, taken over and given up. One session is
  registered, ended and registered again by the other originator; three nodes for six objects and six sockets
  for three connections are used up; a watchdog of two ticks is reloaded and runs
  out. Originators and serial numbers are symmetric; the run has no liveness property.
* `CipList`: five nodes are enough for a first, a last and three in the middle, two of which
  are removed next to each other and next to the walk.
* `LldpAgent`: one tick of delay, intervals of one and two ticks, times to live up to two and
  a table of one for two neighbors, so that each countdown both runs out and is set anew, the interval
  changes both ways, and the table is full. The theorems hold for all values.

### Fairness

`FairSpec` of `DlrNode` asks weak fairness of the interrupt handler, of each task's step
and of a running timer's expiry. The scheduler is preemptive with time slicing, each of these tasks
blocks when it has nothing to do, and hardware changes and frames (which get no fairness)
are bounded, so that no task of higher priority can run for ever. `FairSpec` of
`LwipLink` asks weak fairness of the monitor, of who broadcasts, of the launcher and of
the main thread, for the same reasons; links change and conflicts occur as they like.
`CipList` asks weak fairness of `Advance`: the loop of ManageConnections runs to its
end, and what other code removes under it is finite. `LldpAgent` asks weak fairness of
`Tick`: the timer task sleeps for a second and runs, and nothing holds the mutex for ever.
Frames, CIP and SNMP get no fairness there. `EtherNetif` has no liveness property:
`TasksNeverStall` says that some task that needs no input can go on whenever there is work
to do. It spells out what each task waits for (`SomeTaskReady`), and `ReadyTasksStep` that
this is what has a step of `Work`, no more and no less. `WorkEnds` says that each step of
`Work` leaves less of it (`WorkLeft`, a number), so that the two together take the place of
liveness: as long as no input comes, some task goes on until all is done, and that after at
most `WorkLeft` steps. An error ends the handler (`SendsLeft`); one that tried again could go
on for ever.

## Proofs

All theorems hold for every value of the constants that satisfies the assumptions
its module names (`SupervisorAssumption`, `QueueAssumption`, `BoundAssumption`, `PointAssumption`,
`SlotAssumption`, `ListAssumption`, `ParameterAssumption`), which TLC evaluates in each run.
They ask little: queue lengths are positive, the supervisors' precedences and addresses are
bytes, connection objects are numbered and finitely many, listen-only and input-only
connections are of different assemblies, an interval is at least one tick and not shorter
than txDelay. Five theorems have a hypothesis of their own, which the program and the runs
meet (for the precedences: which the ring has to meet), and which the property needs:
`DistinctPrecedences`, `CounterSuffices` (two), `BlocksSuffice` and `NumSlots <= NodesAmount`.

| Theorem | Module | Inductive invariant |
|---|---|---|
| `TypeCorrect` (`TypeOK`) | `DlrNodeProofs` | `TypeOK` itself. What makes it more than bookkeeping is the queues: both stay within their lengths, and the timeout counter in its byte. |
| `StateFollowsHardware` (`NodeStateFollowsHardware`) and `SettledShowsTheRing` (`SettledNodeShowsTheRing`) | `DlrRingProofs` | `RingInv`: types; `NodeAgrees`, that the last report of state in the queue, or else the node, shows the state of the switch and a supervisor that does not outrank the active one; that the receiver never holds a report (so nothing that jumps the queue is one); that a switch in a ring has a supervisor; and that the attributes are those of `node_state`. |
| `StaleTableFlushed` (`StaleTableIsFlushed`) | `DlrRingProofs` | for `DistinctPrecedences`: `RingInv`, and that with stale entries in the table the event that flushes it is on its way (`FlushComes`): a report, which flushes in any state of the node, or a take-over the node is going to notice, since it is in FAULT by then and the new supervisor outranks the one whose beacon the node has copied. A frame that jumps the queue can bring neither forward nor remove it. |
| `RequestIdsUnique` (`RequestIdsAreUnique`) | `DlrCheckProofs` | the property with the types of the ids: the two ports' ids are disjoint and below the next one. |
| `ChecksNeverStall` (`CheckNeverStalls`) | `DlrCheckProofs` | the property, port by port (`Watched`), and that a node waits for neighbors only in FAULT (`WaitsInFault`), without which a timeout could be spent on a state that ignores it. |
| `RequestsAreBounded` (`RequestsBounded`) | `DlrCheckProofs` | for `CounterSuffices`: what a round has sent on a port, the timeouts in the queue that make it send again, and the tries the timer daemon may still make of its counter, together never exceed three and what the round inherited (`Budget`); and each timeout is of one port. The counter is a byte that the daemon loads, stores and loads again; `Future`, how often it will still be raised, is at most 253, so that it does not come round within a round. That takes queues of at most 249 entries together; the program's have 26. |
| `WorkComesToAnEnd` | `DlrCheckProofs` | for `CounterSuffices`, from `Budgeted`, the invariant of `RequestsAreBounded`: every step of the interrupt handler, the tasks and the timers makes a natural number (`NodeWork`) smaller. It counts interrupts, events and commands by the steps they still cause, and each expiry to come (`Future`, which the invariant keeps from going below the timers that are started) by nine. A Locate_Fault frame in a queue pays for the round it may begin: three expiries on each port, and one for each timeout inherited, of which the queue holds at most its length (`RoundWork`). |
| `NothingIsLeftOver` | `DlrCheckProofs` | from the types and `CheckNeverStalls`: where nothing can run (`TaskReady` spells out what each waits for) and the executor and the daemon do not wait for each other, all queues are empty, so a port that still waited for its neighbor would have nothing to end the wait. With `WorkComesToAnEnd` this is what `RoundsEnd` says, without its fairness. |
| `TypeCorrect` (`TypeOK`) | `EtherNetifProofs` | `IInv`, below: `heap` cannot become negative, since who releases a block owns one. |
| `FramesHaveOneOwner` (`OneOwner`) | `EtherNetifProofs` | `IInv`: the property, the types, and what each pointer is where: in its loop the reader's own pointer, and in a callback the packet, are set exactly at the program counters that use them (`ReaderPointers`), so is the executor's response (`ExecutorPointers`), and no other task ever holds a freed block (`NoOtherDangles`). Without these an action could release a block that the sum does not count. |
| `NothingLeftBehind` (`NoFrameLeftBehind`) | `EtherNetifProofs` | the property and types: the reader waits only after a read that found the ring empty or the link lost, and a restored link empties the ring. |
| `TasksGoOn` (`TasksNeverStall`) | `EtherNetifProofs` | for `BlocksSuffice`, from `IInv`: tasks that cannot go on hold at most four blocks, and two when the executor and the receiver have none (`StalledHold`), and none are queued but to DLR and its executor. So there is a block left, and nobody waits for one; then the executor has nothing to do, hence room, so has the receiver, and so the reader. |
| `WorkComesToAnEnd` (`WorkEnds`) | `EtherNetifProofs` | `WorkLeft` counts each frame by what the place it is in can still cause: at most 12 steps in DLR's queue, as its event may send two frames, and 14 for each client still to be called. `IInv` says that a task that sends or frees a frame had one to be counted. |
| `TypeCorrect` (`TypeOK`) | `LwipLinkProofs` | `IInv`: `TypeOK`, and that the main thread broadcasts only at a step that notifies, without which the end of a broadcast could take it beyond its last step. |
| `StateFollows` (`StateFollowsNetif`) | `LwipLinkProofs` | `IInv` with the property, which is inductive relative to types. The argument is `Announces`: whatever is sent on a step that changes the interface says what the interface is afterwards, and something is sent if that has changed; `RequestFollows` and `TakesFollows` carry this over the queue's two ends. |
| `NetifFollows` (`NetifFollowsPorts`), `AcdFollows` (`AcdFollowsPorts`) | `LwipLinkProofs` | `LinkInv`: the link requests in the queue, handled one after the other, lead from what lwIP knows of the links to a state from which those still to be broadcast lead to what the lwIP port records (`Leads`, `LinksLead`), unless one was lost. A request is lost only from the end of what is sent, so this survives a full queue until `lost` says so. Besides: nothing is queued or called before its time (`Early`), interface and link differ only in the middle of bringing them up or down (`Stages`), ACD is there before a port comes up on it (`AcdCounts`). |
| `InterfaceRests` | `LwipLinkProofs` | `RestInv`: `LinkInv` and the property of `StateFollows` with what each stage on the way still has to pass on: the monitor's last finding is told or about to be (`MonitorTells`), the port records are its last word unless the main thread has spoken since (`PortsTold`), and the CIP interface is what the state last broadcast says (`StateTold`). So once OpENer has started and nothing is on its way or lost, the interface is configured exactly when a port has a link and lwIP an address: what `PortsCatchUp` and `InterfaceCatchesUp` say, without their fairness. |
| `LinkWorkComesToAnEnd` | `LwipLinkProofs` | from the types: `LinkWork` counts the steps that the main thread, a broadcast, the queue and the launcher have left. A queued link request counts eight, since the launcher's calls for it may make lwIP send three more requests of two steps each (`CallsPay`). With `InterfaceRests` this is what `InterfaceCatchesUp` says, without its fairness. |
| `ListLinked` (`Linked`), `ListImplements` (`Implements`) | `CipListProofs` | `ListInv`: `Linked` with types and with `ahead` a strict order. Each step of the stored list is a step of `ActiveList`; the hard case is the walk, whose `next` is read after its own node, or the one behind it, has gone. |
| `WalkVisitsEachOnce` | `CipListProofs` | from `ListInv`, with `Unvisited` the connection a walk stands on and those behind it: a walk starts with the whole list, each step along it takes off exactly the connection it leaves, and removing another connection takes off only that one. Removing the one it stands on empties the rest: its node is zeroed, so the connections behind it wait for the next tick. |
| `PoolSufficesPerSlot` (`PoolSuffices`) | `CipListProofs` | for `NumSlots <= NodesAmount`, from `ListInv`: two nodes never hold the same connection, so a full pool would hold more connections than there are (the pigeonhole principle). |
| `ListIsExact`, `TriadsUnique`, `SocketsAreHeld`, `MasterIsUnique`, `TypeCorrect` (the invariants of these names) | `CipConnectionsProofs` | `IInv`: `Core`, what objects and list have to do with each other (a closed object is empty, so that it counts for no socket; triads and masters are unique), `Held`, the sockets over all objects, and `OrderedList`, the order of `ActiveList`, by which a search finds one connection, the first. |
| `MasterIsKept` (`MasterKept`) | `CipConnectionsProofs` | `IInv` and `Kept`: there is one exclusive owner, which holds its multicast socket itself, and every multicast input-only connection finds a holder among its like. When a holder is closed its heir is one of those that are left, also when several are closed at once (`KeptAfter`). |
| `OwnershipIsKept` (`OwnershipKept`), `ListRefines` (`ListRefined`) | `CipConnectionsProofs` | from `IInv`: an owner's object that stays in use is not the one a Forward Open fills, unless the originator is the same. |
| `TypeCorrect`, `ShutdownIsAnnounced`, `NeighborsHoldOn`, `RemoteAlive`, `AnswersAreMatched` | `LldpAgentProofs` | `IInv`: types; `MachinesInv`: the properties with what the timers were when the last frame was sent (`heard` against `txTTR`, and that the states the last tick left are the machines'); and that a copy in a queue that is not `Unknown` is the agent with the one field changed (`Current`), without which `SetMib` could store anything. |
| `SilenceForgets` | `LldpAgentProofs` | from `IInv`, an action property: as long as no neighbor sends, a tick takes one off the time to live or empties the table, and no other step changes either, the copy that SNMP stores back included. It is what `SilentAreForgotten` says, without its fairness, and with the number of ticks. |

The proofs are hierarchical: one step for each action, and under it one for each conjunct
that the action can disturb; what a helper (`Send`, `Receive`, `Release`, `SendFromIsr`,
...) does to the invariant is a lemma, cited wherever an action calls it.

Every safety property the passing runs check is thus a theorem, with one exception:
`ReadyTasksStep` compares a state predicate with ENABLED, which the provers cannot reason
about. That and liveness under fairness are only model-checked: `NodeCatchesUp`,
`RoundsEnd`, `PortsCatchUp`, `InterfaceCatchesUp`, `WalkEnds`, `NeighborsFollow` and
`SilentAreForgotten`. What these rest on is proved where it takes no fairness: that the steps
cannot go on for ever (`WorkComesToAnEnd` of DLR and of the Ethernet tasks,
`LinkWorkComesToAnEnd`, `WalkVisitsEachOnce`, `SilenceForgets`) and that where they end all
is as it should be (`SettledShowsTheRing`, `NothingIsLeftOver`, `InterfaceRests`, `NeighborsHoldOn`).

## Plan

The order was the one in which the rest of the program depends on the parts: `DlrNode`,
`EtherNetif`, `LwipLink`, then `CipConnections` with `CipList`, then `LldpAgent`. Their safety properties (but
`ReadyTasksStep`) are theorems, and so is what their liveness rests on, as far as it takes no
fairness. What is left:

1. `EncapSession`: the select loop, delayed answers and sockets around the sessions that
   `CipConnections` has. Three things in `um_opener_port_task_netif.c` call for it: a message
   on a socket without a session timer ends the round before the later sockets and
   `ManageConnections` are served (line 460); accepted sockets get no receive time-out, so
   that the only task waits inside `recv` for the rest of a message; and an oversized message
   keeps its buffer (line 660 returns before the release at line 690).
   `OpenerPort`: the netif and indicator tasks.
2. Both ports of LLDP with the packet buffer they share.

## Not modelled, and why

Attribute tables and encodings of CIP objects, NV data files, the serial console and board
start-up are sequential or pure I/O. The CIP safety link is compiled out
(`DISABLE_OPENER_CIP_SAFETY`). lwIP, FreeRTOS and the FSP drivers are third-party. The
UDP echo is one sequential loop. Start, stop and close of the modules are modelled where
other tasks run meanwhile (`LwipLink`); nothing calls the stop of DLR. What the modelled
components leave out is named in their sections above, and `PROJECT.json` has every component
with its status.
