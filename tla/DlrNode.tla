------------------------------- MODULE DlrNode -------------------------------
(***************************************************************************)
(* A Device Level Ring node at run time: the DLR engine of the Ethernet    *)
(* switch and its interrupt handler, the receiver and executor tasks       *)
(* (um_dlr_task_receiver.c, um_dlr_task_executor.c), the FreeRTOS timer    *)
(* daemon with the two neighbor check timers                               *)
(* (um_dlr_timer_neighbor_checker.c), and the two queues between them.     *)
(*                                                                         *)
(* The executor, the receiver and the daemon have the same priority (3)    *)
(* and are time-sliced, so they interleave at any point; the interrupt     *)
(* handler preempts them, and the hardware runs all the time.              *)
(*                                                                         *)
(* The handlers and the state of the node's software are in DlrFsm.        *)
(***************************************************************************)
EXTENDS DlrFsm

CONSTANTS
  ExecQueueLength,   \* UM_DLR_CFG_EXECUTOR_QUEUE_LENGTH
  TimerQueueLength,  \* configTIMER_QUEUE_LENGTH
  HwKinds,           \* the kinds of hardware change that may happen
  FrameKinds,        \* the kinds of DLR frame that may arrive
  MaxHw,             \* bound: hardware changes
  MaxFrames          \* bound: DLR frames received

ASSUME QueueAssumption ==
  /\ ExecQueueLength \in Nat \ {0}
  /\ TimerQueueLength \in Nat \ {0}
  /\ FrameKinds \subseteq FrameEvents

VARIABLES
  hw,         \* the switch: its ring state, supervisor, beacon ports and links
  irq,        \* DLR_IRQ_STAT_ACK: the interrupt bits set
  scan,       \* the bits ethsw_isr_dlr acknowledged and has not scanned yet
  exec_queue, \* the executor's event queue
  held,       \* <<event>> while the receiver sends it to the executor, else <<>>
  timer_queue,\* the command queue of the timer daemon
  timer,      \* the neighbor check timers that are running
  daemon,     \* where the daemon is in _timer_timeout_code
  lost,       \* history: an event of the ISR met a full queue
  spent       \* bound: hardware changes and frames so far

taskVars == <<exec_queue, held, timer_queue, timer, daemon, lost>>
hwVars   == <<hw, irq, scan>>
vars     == <<fsmVars, hwVars, taskVars, spent>>

\* The bits of DLR_IRQ_STAT_ACK that ethsw_isr_dlr knows.
NEWSTATUS == 0
BEACONTMO(p) == 4 + p
SUVICHNG == 6
LNKCHNG(p) == 7 + p
LOCALLOOP(p) == 14 + p
IrqBits == {NEWSTATUS, SUVICHNG} \cup
           UNION {{BEACONTMO(p), LNKCHNG(p), LOCALLOOP(p)} : p \in Ports}

Hardware == [state : NodeStates, source : AnySupervisor,
             last_port : SUBSET Ports, link : SUBSET Ports]

\* The daemon is idle, or runs the callback of a port's timer: it has loaded
\* the counter, then stored it, then frozen it in the event it sends.
Daemon == [pc : {"idle", "store", "freeze", "send"}, port : Ports, value : 0..255]
IdleDaemon == [pc |-> "idle", port |-> 0, value |-> 0]

TypeOK ==
  /\ FsmTypeOK
  /\ hw \in Hardware
  /\ irq \in SUBSET IrqBits
  /\ scan \in SUBSET IrqBits
  /\ exec_queue \in Seq(DlrEvent)
  /\ Len(exec_queue) <= ExecQueueLength
  /\ held \in Seq(DlrEvent)
  /\ Len(held) <= 1
  /\ timer_queue \in Seq(TimerCommand)
  /\ Len(timer_queue) <= TimerQueueLength
  /\ timer \in SUBSET Ports
  /\ daemon \in Daemon
  /\ lost \in BOOLEAN
  /\ spent \in [hw : Nat, frames : Nat]

\* The links come up after UM_DLR_Open has enabled the engine.
Init ==
  /\ FsmInit
  /\ hw = [state |-> "IDLE", source |-> NoSupervisor, last_port |-> {}, link |-> {}]
  /\ irq = {}
  /\ scan = {}
  /\ exec_queue = <<>>
  /\ held = <<>>
  /\ timer_queue = <<>>
  /\ timer = {}
  /\ daemon = IdleDaemon
  /\ lost = FALSE
  /\ spent = [hw |-> 0, frames |-> 0]

\* Mutant: a full queue takes one event more.
RoomForEventOffByOne == Len(exec_queue) <= ExecQueueLength

RoomForEvent == Len(exec_queue) < ExecQueueLength

EventOf(name, ports) ==
  [event |-> name, port |-> ports, state |-> "IDLE", count |-> 0, id |-> 0, learn |-> FALSE,
   beacon |-> [source |-> NoSupervisor, last_port |-> DLR_PORT_NONE]]
-----------------------------------------------------------------------------
(* The DLR engine of the switch, as the handlers of um_dlr_fsm.c describe   *)
(* it ("should be already done on hardware").                              *)

\* The precedence rule that the engine follows.
Outranks(new, old) ==
  \/ PrecedenceOf(new) > PrecedenceOf(old)
  \/ /\ PrecedenceOf(new) = PrecedenceOf(old)
     /\ \E i \in 1..MAC_LENGTH :
          /\ MacByte(new, i) > MacByte(old, i)
          /\ \A j \in 1..(i - 1) : MacByte(new, j) = MacByte(old, j)

\* One change of the hardware.  The MAC entries it has learnt are out of date
\* when the ring state or the supervisor moves.
HwChange(kind, new, bits) ==
  /\ kind \in HwKinds
  /\ spent.hw < MaxHw
  /\ spent' = [spent EXCEPT !.hw = @ + 1]
  /\ hw' = new
  /\ irq' = irq \cup bits
  /\ mac_stale' = (mac_stale \/ new.state # hw.state \/ new.source # hw.source)
  /\ UNCHANGED <<nodeVars, portVars, checkVars, timer_cmds, scan, taskVars>>

\* Events 2 and 3: the first beacon.
HwFirstBeacon(p, s) ==
  /\ hw.state = "IDLE"
  /\ p \in hw.link
  /\ \E more \in SUBSET {SUVICHNG} :
       HwChange("beacon",
                [hw EXCEPT !.state = "FAULT", !.source = s, !.last_port = {p}],
                {NEWSTATUS} \cup more)

\* Events 14 and 15: beacons of the active supervisor on both ports.
HwRingClosed(p) ==
  /\ hw.state = "FAULT"
  /\ hw.link = Ports
  /\ hw.last_port \in {Ports \ {p}, Ports}
  /\ HwChange("beacon", [hw EXCEPT !.state = "NORMAL", !.last_port = Ports], {NEWSTATUS})

\* Events 16, 17, 40 and 41: a supervisor that outranks the active one.
HwNewSupervisor(p, s) ==
  /\ hw.state # "IDLE"
  /\ p \in hw.link
  /\ s # hw.source
  /\ Outranks(s, hw.source)
  /\ HwChange("supervisor",
              [hw EXCEPT !.state = "FAULT", !.source = s, !.last_port = {p}],
              {SUVICHNG} \cup (IF hw.state = "NORMAL" THEN {NEWSTATUS} ELSE {}))

\* Events 38 and 39: a beacon that announces a ring fault.
HwRingFault ==
  /\ hw.state = "NORMAL"
  /\ HwChange("ringFault", [hw EXCEPT !.state = "FAULT"], {NEWSTATUS})

\* What remains when port p sees no beacon any more.
WithoutBeacon(p, h) ==
  [h EXCEPT !.last_port = @ \ {p},
            !.state = IF h.last_port \subseteq {p} THEN "IDLE"
                      ELSE IF h.state = "NORMAL" THEN "FAULT" ELSE h.state]

StatusBit(new) == IF new.state # hw.state THEN {NEWSTATUS} ELSE {}

\* Events 12, 13, 36 and 37.
HwBeaconTimeout(p) ==
  LET new == WithoutBeacon(p, hw)
  IN  /\ p \in hw.last_port
      /\ HwChange("beaconTimeout", new, {BEACONTMO(p)} \cup StatusBit(new))

\* Events 4, 5, 18 to 21, 32 and 33.
HwLinkLost(p) ==
  LET new == [WithoutBeacon(p, hw) EXCEPT !.link = @ \ {p}]
  IN  /\ p \in hw.link
      /\ HwChange("linkLost", new, {LNKCHNG(p)} \cup StatusBit(new))

\* Events 6, 7, 22 and 23.
HwLinkRestored(p) ==
  /\ p \notin hw.link
  /\ HwChange("linkRestored", [hw EXCEPT !.link = @ \cup {p}], {LNKCHNG(p)})

\* Event 8.
HwOwnFrame(p) ==
  /\ p \in hw.link
  /\ HwChange("ownFrame", hw, {LOCALLOOP(p)})

HwNext ==
  \/ \E p \in Ports :
       \/ \E s \in Supervisors : HwFirstBeacon(p, s) \/ HwNewSupervisor(p, s)
       \/ HwRingClosed(p) \/ HwBeaconTimeout(p) \/ HwLinkLost(p) \/ HwLinkRestored(p)
       \/ HwOwnFrame(p)
  \/ HwRingFault
-----------------------------------------------------------------------------
(* ethsw_isr_dlr and the callback um_dlr gives it.                         *)

\* The event of an interrupt bit; whether a link was lost or restored is read
\* when the bit is scanned.
IsrEvent(bit) ==
  LET port == {p \in Ports : bit \in {BEACONTMO(p), LNKCHNG(p), LOCALLOOP(p)}}
      name == CASE bit = NEWSTATUS -> "NEWSTATE"
                [] bit = SUVICHNG -> "NEWSUPERVISOR"
                [] bit \in {BEACONTMO(p) : p \in Ports} -> "BEACONTIMEOUT"
                [] bit \in {LNKCHNG(p) : p \in Ports} ->
                     IF port \subseteq hw.link THEN "LINKRESTORED" ELSE "LINKLOST"
                [] OTHER -> "OWNFRAME"
  IN  [EventOf(name, IF bit = SUVICHNG THEN {0} ELSE port) EXCEPT
         !.state = hw.state,
         !.beacon = [source |-> hw.source, last_port |-> hw.last_port]]

\* Read the status register and acknowledge what it holds.
IsrLatch ==
  /\ scan = {} /\ irq # {}
  /\ scan' = irq
  /\ irq' = {}
  /\ UNCHANGED <<fsmVars, hw, taskVars, spent>>

\* Mutant: DLR_ENQUEUE_FRONT where the callback passes DLR_ENQUEUE_BACK.
SendFromIsrFront(e) ==
  IF RoomForEvent
  THEN exec_queue' = <<e>> \o exec_queue /\ UNCHANGED lost
  ELSE lost' = TRUE /\ UNCHANGED exec_queue

\* To the back of the queue; with no room the event is dropped.
SendFromIsr(e) ==
  IF RoomForEvent
  THEN exec_queue' = Append(exec_queue, e) /\ UNCHANGED lost
  ELSE lost' = TRUE /\ UNCHANGED exec_queue

\* The lowest bit left: freeze the state of the hardware and send the event.
IsrCallback(bit) ==
  /\ bit \in scan
  /\ \A other \in scan : bit <= other
  /\ scan' = scan \ {bit}
  /\ SendFromIsr(IsrEvent(bit))
  /\ UNCHANGED <<fsmVars, hw, irq, held, timer_queue, timer, daemon, spent>>

Isr == IsrLatch \/ \E bit \in IrqBits : IsrCallback(bit)

\* No task runs while the interrupt handler does.
TaskLevel == scan = {}
-----------------------------------------------------------------------------
(* The receiver task.                                                      *)

\* _interpret_dlr_frame: a response is dropped unless it carries the id of the
\* last request sent on its port.
Interpreted(name, p, id, learn) ==
  LET e == [EventOf(name, {p}) EXCEPT !.id = id, !.learn = learn]
  IN  IF name = "NEIGHBORCHECKRES" /\ id # last_request_id[p] THEN <<>> ELSE <<e>>

\* A frame is taken from the receive queue.  A neighbor answers a request it
\* got, perhaps late, perhaps twice.
ReceiverTakeFrame(name, p, id, learn) ==
  /\ TaskLevel
  /\ held = <<>>
  /\ name \in FrameKinds
  /\ spent.frames < MaxFrames
  /\ IF name = "NEIGHBORCHECKRES" THEN id \in wire[p] ELSE id = 0
  /\ learn => name = "FLUSHTABLES"
  /\ held' = Interpreted(name, p, id, learn)
  /\ spent' = [spent EXCEPT !.frames = @ + 1]
  /\ UNCHANGED <<fsmVars, hwVars, exec_queue, timer_queue, timer, daemon, lost>>

\* It goes to the front of the executor's queue; the receiver waits for room.
ReceiverSendEvent ==
  /\ TaskLevel
  /\ held # <<>>
  /\ RoomForEvent
  /\ exec_queue' = held \o exec_queue
  /\ held' = <<>>
  /\ UNCHANGED <<fsmVars, hwVars, timer_queue, timer, daemon, lost, spent>>

ReceiverNext ==
  \/ \E name \in FrameKinds, p \in Ports, learn \in BOOLEAN :
       \E id \in wire[p] \cup {0} : ReceiverTakeFrame(name, p, id, learn)
  \/ ReceiverSendEvent
-----------------------------------------------------------------------------
(* The executor task.                                                      *)

\* The timeouts of a port that the executor has not handled: queued behind the
\* event it is taking, or still in the daemon's callback.
TimeoutsQueued(p) ==
  {i \in 2..Len(exec_queue) : /\ exec_queue[i].event = "NEIGHBORTIMEOUT"
                              /\ exec_queue[i].port = {p}}
InFlight ==
  [p \in Ports |-> Cardinality(TimeoutsQueued(p)) +
                   (IF daemon.pc # "idle" /\ daemon.port = p THEN 1 ELSE 0)]

ExecutorTakeEvent ==
  /\ TaskLevel
  /\ timer_cmds = <<>>
  /\ exec_queue # <<>>
  /\ ExecuteWithEvent(Head(exec_queue), InFlight)
  /\ exec_queue' = Tail(exec_queue)
  /\ UNCHANGED <<hwVars, held, timer_queue, timer, daemon, lost, spent>>

\* xTimerStart and xTimerStop wait for room in the command queue.
ExecutorPostCommand ==
  /\ TaskLevel
  /\ timer_cmds # <<>>
  /\ Len(timer_queue) < TimerQueueLength
  /\ timer_queue' = Append(timer_queue, Head(timer_cmds))
  /\ timer_cmds' = Tail(timer_cmds)
  /\ UNCHANGED <<nodeVars, portVars, mac_stale, checkVars, hwVars, exec_queue, held,
                 timer, daemon, lost, spent>>

ExecutorNext == ExecutorTakeEvent \/ ExecutorPostCommand
-----------------------------------------------------------------------------
(* The timer daemon.  The timers are one-shot.                             *)

DaemonTakeCommand ==
  /\ TaskLevel
  /\ daemon.pc = "idle"
  /\ timer_queue # <<>>
  /\ timer' = IF Head(timer_queue).op = "start"
              THEN timer \cup {Head(timer_queue).port}
              ELSE timer \ {Head(timer_queue).port}
  /\ timer_queue' = Tail(timer_queue)
  /\ UNCHANGED <<fsmVars, hwVars, exec_queue, held, daemon, lost, spent>>

\* A timer expires; its callback _timer_timeout_code loads the counter.
TimerExpires(p) ==
  /\ TaskLevel
  /\ daemon.pc = "idle"
  /\ p \in timer
  /\ timer' = timer \ {p}
  /\ daemon' = [pc |-> "store", port |-> p, value |-> timeout_count[p]]
  /\ UNCHANGED <<fsmVars, hwVars, exec_queue, held, timer_queue, lost, spent>>

\* timeout_count++ stores what it loaded plus one, in a uint8_t.
CallbackStore ==
  /\ TaskLevel
  /\ daemon.pc = "store"
  /\ timeout_count' = [timeout_count EXCEPT ![daemon.port] = (daemon.value + 1) % 256]
  /\ daemon' = [daemon EXCEPT !.pc = "freeze", !.value = (@ + 1) % 256]
  /\ UNCHANGED <<nodeVars, portVars, mac_stale, neighbor_active_port, sequence_id,
                 last_request_id, wire, round, timer_cmds, hwVars, exec_queue, held,
                 timer_queue, timer, lost, spent>>

\* freezed_timeout_count: the build may keep the stored value in a register or
\* read the counter again.
CallbackFreeze ==
  /\ TaskLevel
  /\ daemon.pc = "freeze"
  /\ \E v \in {daemon.value, timeout_count[daemon.port]} :
       daemon' = [daemon EXCEPT !.pc = "send", !.value = v]
  /\ UNCHANGED <<fsmVars, hwVars, exec_queue, held, timer_queue, timer, lost, spent>>

\* The callback waits for room in the executor's queue.
CallbackSendEvent ==
  /\ TaskLevel
  /\ daemon.pc = "send"
  /\ RoomForEvent
  /\ exec_queue' = Append(exec_queue,
       [EventOf("NEIGHBORTIMEOUT", {daemon.port}) EXCEPT !.count = daemon.value])
  /\ daemon' = IdleDaemon
  /\ UNCHANGED <<fsmVars, hwVars, held, timer_queue, timer, lost, spent>>

DaemonNext ==
  \/ DaemonTakeCommand
  \/ \E p \in Ports : TimerExpires(p)
  \/ CallbackStore \/ CallbackFreeze \/ CallbackSendEvent
-----------------------------------------------------------------------------
\* Every task waits for input and no timer runs.
Quiet ==
  /\ irq = {} /\ scan = {}
  /\ exec_queue = <<>> /\ held = <<>> /\ timer_cmds = <<>>
  /\ timer_queue = <<>> /\ timer = {} /\ daemon.pc = "idle"

\* A quiet node waits in xQueueReceive; a node that is stuck is not quiet.
Idle == Quiet /\ UNCHANGED vars

Next == HwNext \/ Isr \/ ReceiverNext \/ ExecutorNext \/ DaemonNext \/ Idle

Spec == Init /\ [][Next]_vars

\* The scheduler runs every ready task, and a running timer expires.
Fairness ==
  /\ WF_vars(Isr)
  /\ WF_vars(ReceiverSendEvent)
  /\ WF_vars(ExecutorNext)
  /\ WF_vars(DaemonTakeCommand)
  /\ \A p \in Ports : WF_vars(TimerExpires(p))
  /\ WF_vars(CallbackStore) /\ WF_vars(CallbackFreeze) /\ WF_vars(CallbackSendEvent)

FairSpec == Spec /\ Fairness
-----------------------------------------------------------------------------
(* Safety.                                                                 *)

Pending == irq \cup scan
Queued(names) == {i \in 1..Len(exec_queue) : exec_queue[i].event \in names}

\* The last report of the switch's ring state that the executor will handle.
LastReport(i) ==
  i \in Queued({"NEWSTATE"}) /\ \A j \in Queued({"NEWSTATE"}) : j <= i

\* The software's ring state follows the switch's: whatever the order in which
\* tasks and the interrupt handler run, the last state reported is the state of
\* the hardware unless an interrupt is still to be served.  Only an event that
\* met a full queue (um_dlr_ether_switch.c:435 ignores the error) can break it.
NodeStateFollowsHardware ==
  \/ lost
  \/ NEWSTATUS \in Pending
  \/ /\ Queued({"NEWSTATE"}) = {} => node_state = hw.state
     /\ \A i \in 1..Len(exec_queue) : LastReport(i) => exec_queue[i].state = hw.state

\* A node at rest shows the ring it is in: state and CIP attributes 1 and 2
\* agree with the switch (_event_new_state).
SettledNodeShowsTheRing ==
  Quiet /\ ~lost =>
    /\ node_state = hw.state
    /\ attributes.topology = (IF hw.state = "IDLE" THEN "LINEAR" ELSE "RING")
    /\ attributes.status = (IF hw.state = "FAULT" THEN "RING_FAULT" ELSE "NORMAL")

\* MAC entries of an old topology do not survive: after a change of ring state
\* or of supervisor the table is flushed, or an event that may flush it is on
\* its way (_event_new_state, _event_new_supervisor).
StaleTableIsFlushed ==
  mac_stale => \/ lost
               \/ Pending \cap {NEWSTATUS, SUVICHNG} # {}
               \/ Queued({"NEWSTATE", "NEWSUPERVISOR"}) # {}

\* The commands still to reach the daemon, in order.
CommandsAhead == timer_queue \o timer_cmds
Ahead(op, p) == {i \in 1..Len(CommandsAhead) : CommandsAhead[i] = [op |-> op, port |-> p]}

TimeoutAhead(p) ==
  \/ daemon.pc # "idle" /\ daemon.port = p
  \/ \E i \in Queued({"NEIGHBORTIMEOUT"}) : exec_queue[i].port = {p}

\* A neighbor check never stalls: while the node waits for a neighbor, the
\* timer of that port runs, or is about to be started by a command that no
\* later command undoes, or its timeout is on its way to the executor.
CheckNeverStalls ==
  \A p \in round.waiting :
    \/ p \in timer /\ Ahead("stop", p) = {}
    \/ \E i \in Ahead("start", p) : \A j \in Ahead("stop", p) : j < i
    \/ TimeoutAhead(p)

\* Requests of one round on one port: the tries, and one more for each timeout
\* of an earlier round that was still in flight when the round began.
RequestsBounded ==
  \A p \in Ports :
    round.requests[p] <= DLR_NEIGHBOR_CHECK_TRIES + round.inherited[p]

\* No request carries the id of another, on either port, nor will a later one:
\* a response on the wrong port is never accepted.
RequestIdsAreUnique ==
  /\ wire[0] \cap wire[1] = {}
  /\ \A p \in Ports : \A id \in wire[p] : id < sequence_id
-----------------------------------------------------------------------------
(* Liveness, for a bounded number of hardware changes and frames.          *)

\* The software catches up with the switch and stays there.
NodeCatchesUp == <>[](lost \/ node_state = hw.state)

\* Every neighbor check ends: answered, given up or abandoned.
RoundsEnd == \A p \in Ports : p \in round.waiting ~> p \notin round.waiting
-----------------------------------------------------------------------------
(* What a comment of FreeRTOS asks of it.                                  *)

\* timers.h:321: a timer callback must not block.
NoCircularWait ==
  ~ /\ daemon.pc = "send" /\ ~RoomForEvent
    /\ timer_cmds # <<>> /\ Len(timer_queue) = TimerQueueLength
=============================================================================
