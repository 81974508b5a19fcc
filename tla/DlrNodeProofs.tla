--------------------------- MODULE DlrNodeProofs ---------------------------
(***************************************************************************)
(* Theorems about DlrNode, for every set of supervisors, every queue       *)
(* length and every number of hardware changes and frames.                 *)
(***************************************************************************)
EXTENDS DlrNode, FiniteSetTheorems, TLAPS

-----------------------------------------------------------------------------
(* Types.                                                                  *)

\* An event made by EventOf is an event of the executor.
LEMMA EventOfType ==
  ASSUME NEW name \in SwitchEvents \cup FrameEvents \cup TimerEvents,
         NEW ports \in SUBSET Ports
  PROVE  EventOf(name, ports) \in DlrEvent
BY DEF EventOf, DlrEvent, BeaconInfo, AnySupervisor, NodeStates, DLR_PORT_NONE, Ports

\* The commands of a handler are timer commands.
LEMMA TimerCommandsType ==
  ASSUME NEW op \in {"start", "stop"}, NEW ports \in SUBSET Ports
  PROVE  TimerCommands(op, ports) \in Seq(TimerCommand)
<1>1. ASSUME NEW p \in Ports
      PROVE  TimerCommand1(op, ports, p) \in Seq(TimerCommand)
  <2>1. [op |-> op, port |-> p] \in TimerCommand
    BY DEF TimerCommand
  <2>2. <<[op |-> op, port |-> p]>> \in Seq(TimerCommand)
    BY <2>1
  <2>3. <<>> \in Seq(TimerCommand)
    OBVIOUS
  <2>4. QED
    BY <2>2, <2>3 DEF TimerCommand1
<1>2. QED
  BY <1>1 DEF TimerCommands, Ports

\* The ids of new requests are natural numbers below the next sequence id.
LEMMA SendNeighborCheckRequestType ==
  ASSUME sequence_id \in Nat, last_request_id \in [Ports -> Nat],
         wire \in [Ports -> SUBSET Nat],
         NEW ports \in SUBSET Ports, SendNeighborCheckRequest(ports)
  PROVE  /\ sequence_id' \in Nat
         /\ last_request_id' \in [Ports -> Nat]
         /\ wire' \in [Ports -> SUBSET Nat]
<1>1. IsFiniteSet(Ports)
  <2>1. Ports = 0..1
    BY DEF Ports
  <2>2. IsFiniteSet(0..1)
    BY FS_Interval, 0 \in Int, 1 \in Int
  <2>3. QED
    BY <2>1, <2>2
<1>2. Cardinality(ports) \in Nat
  BY <1>1, FS_Subset, FS_CardinalityType
<1>3. \A p \in Ports : RequestId(p, ports) \in Nat
  BY DEF RequestId
<1>4. QED
  BY <1>2, <1>3 DEF SendNeighborCheckRequest

\* Every handler keeps the types of the node's software.
LEMMA HandlerType ==
  ASSUME FsmTypeOK, NEW e \in DlrEvent, NEW f \in [Ports -> Nat],
         ExecuteWithEvent(e, f)
  PROVE  FsmTypeOK'
<1> USE DEF FsmTypeOK
<1>e. /\ e.port \in SUBSET Ports /\ e.state \in NodeStates
      /\ e.beacon \in BeaconInfo /\ e.beacon.source \in AnySupervisor /\ e.id \in Nat
  BY DEF DlrEvent, BeaconInfo
<1>1. CASE EventNewState(e)
  BY <1>1, <1>e DEF EventNewState, NetworkTopology, NetworkStatus, RoundType,
     portVars, answerVars
<1>2. CASE EventLinkLost(e)
  <2>1. sequence_id' \in Nat
    BY <1>2 DEF EventLinkLost, SendLinkNeighborStatus
  <2>2. timer_cmds' \in Seq(TimerCommand)
    BY <1>2, TimerCommandsType DEF EventLinkLost, DLR_PORT_BOTH
  <2>3. round' \in RoundType
    BY <1>2 DEF EventLinkLost, RoundType
  <2>4. link_active_port' \in SUBSET Ports /\ forwarding' \in SUBSET Ports
    BY <1>2 DEF EventLinkLost, DLR_PORT_NONE
  <2>5. QED
    BY <1>2, <2>1, <2>2, <2>3, <2>4 DEF EventLinkLost, nodeVars, answerVars
<1>3. CASE EventLinkRestore(e)
  BY <1>3, <1>e DEF EventLinkRestore, nodeVars, checkVars, answerVars
<1>4. CASE EventBeaconTimeout(e)
  <2>1. timer_cmds' \in Seq(TimerCommand)
    BY <1>4, TimerCommandsType DEF EventBeaconTimeout, DLR_PORT_BOTH
  <2>2. round' \in RoundType
    BY <1>4 DEF EventBeaconTimeout, RoundType
  <2>3. QED
    BY <1>4, <2>1, <2>2 DEF EventBeaconTimeout, nodeVars, portVars, answerVars
<1>5. CASE EventNewSupervisor(e)
  BY <1>5, <1>e DEF EventNewSupervisor, portVars, checkVars, answerVars
<1>6. CASE EventFlushTable(e)
  <2>1. mac_stale' \in BOOLEAN
    BY <1>6 DEF EventFlushTable
  <2>2. sequence_id' \in Nat
    BY <1>6 DEF EventFlushTable
  <2>3. QED
    BY <1>6, <2>1, <2>2 DEF EventFlushTable, nodeVars, portVars, answerVars
<1>7. CASE EventLocateFault(e, f)
  <2>1. CASE StartNeighborCheck(f)
    <3>1. /\ sequence_id' \in Nat
          /\ last_request_id' \in [Ports -> Nat]
          /\ wire' \in [Ports -> SUBSET Nat]
      BY <2>1, SendNeighborCheckRequestType DEF StartNeighborCheck, DLR_PORT_BOTH
    <3>2. timer_cmds' \in Seq(TimerCommand)
      BY <2>1, TimerCommandsType DEF StartNeighborCheck, DLR_PORT_BOTH
    <3>3. round' \in RoundType
      BY <2>1 DEF StartNeighborCheck, RoundType
    <3>4. QED
      BY <2>1, <3>1, <3>2, <3>3 DEF StartNeighborCheck, DLR_PORT_NONE, nodeVars, portVars
  <2>2. CASE SendLinkNeighborStatus
             /\ UNCHANGED <<nodeVars, portVars, mac_stale, neighbor_active_port,
                            answerVars, round, timer_cmds>>
    BY <2>2 DEF SendLinkNeighborStatus, nodeVars, portVars, answerVars
  <2>3. CASE UNCHANGED fsmVars
    BY <2>3 DEF fsmVars, nodeVars, portVars, checkVars, answerVars
  <2>4. QED
    BY <1>7, <2>1, <2>2, <2>3 DEF EventLocateFault
<1>8. CASE EventNeighborCheckResponse(e)
  <2>1. CASE node_state = "FAULT"
    <3>1. timer_cmds' \in Seq(TimerCommand)
      BY <1>8, <1>e, <2>1, TimerCommandsType DEF EventNeighborCheckResponse
    <3>2. round' \in RoundType
      <4> DEFINE w == round.waiting \ e.port
      <4>1. round' = [round EXCEPT !.waiting = w]
        BY <1>8, <2>1 DEF EventNeighborCheckResponse
      <4>2. w \in SUBSET Ports
        BY <1>e DEF RoundType
      <4> HIDE DEF w
      <4>3. QED
        BY <4>1, <4>2 DEF RoundType
    <3>3. QED
      BY <1>8, <1>e, <2>1, <3>1, <3>2
      DEF EventNeighborCheckResponse, nodeVars, portVars, answerVars
  <2>2. CASE node_state # "FAULT"
    BY <1>8, <2>2 DEF EventNeighborCheckResponse, fsmVars, nodeVars, portVars,
       checkVars, answerVars
  <2>3. QED
    BY <2>1, <2>2
<1>9. CASE EventNeighborTimeout(e)
  <2>1. CASE SendNeighborCheckRequest(e.port) /\ node_state = "FAULT" /\ TriesLeft(e)
    <3>1. /\ sequence_id' \in Nat
          /\ last_request_id' \in [Ports -> Nat]
          /\ wire' \in [Ports -> SUBSET Nat]
      BY <1>e, <2>1, SendNeighborCheckRequestType
    <3>2. timer_cmds' \in Seq(TimerCommand)
      BY <1>9, <1>e, <2>1, TimerCommandsType DEF EventNeighborTimeout
    <3>3. round' \in RoundType
      <4> DEFINE r == [p \in Ports |-> IF p \in e.port THEN round.requests[p] + 1
                                                       ELSE round.requests[p]]
                 w == round.waiting \cup (e.port \ neighbor_active_port)
      <4>1. round' = [round EXCEPT !.requests = r, !.waiting = w]
        BY <1>9, <2>1 DEF EventNeighborTimeout
      <4>2. r \in [Ports -> Nat] /\ w \in SUBSET Ports
        BY <1>e DEF RoundType
      <4> HIDE DEF r, w
      <4>3. QED
        BY <4>1, <4>2 DEF RoundType
    <3>4. QED
      BY <1>9, <2>1, <3>1, <3>2, <3>3 DEF EventNeighborTimeout, nodeVars, portVars
  <2>2. CASE SendLinkNeighborStatus /\ node_state = "FAULT" /\ ~TriesLeft(e)
    <3>1. round' \in RoundType
      <4>1. round' = [round EXCEPT !.waiting = @ \ e.port]
        BY <1>9, <2>2 DEF EventNeighborTimeout
      <4>2. QED
        BY <4>1 DEF RoundType
    <3>2. QED
      BY <1>9, <2>2, <3>1
      DEF EventNeighborTimeout, SendLinkNeighborStatus, nodeVars, portVars, answerVars
  <2>3. CASE UNCHANGED fsmVars
    BY <2>3 DEF fsmVars, nodeVars, portVars, checkVars, answerVars
  <2>4. QED
    BY <1>9, <2>1, <2>2, <2>3 DEF EventNeighborTimeout
<1>10. CASE EventAnswered(e)
  BY <1>10 DEF EventAnswered, fsmVars, nodeVars, portVars, checkVars, answerVars
<1>11. QED
  BY <1>1, <1>2, <1>3, <1>4, <1>5, <1>6, <1>7, <1>8, <1>9, <1>10 DEF ExecuteWithEvent

\* The timeouts counted by InFlight are finitely many.
LEMMA InFlightType ==
  ASSUME TypeOK
  PROVE  InFlight \in [Ports -> Nat]
<1>1. ASSUME NEW p \in Ports
      PROVE  Cardinality(TimeoutsQueued(p)) \in Nat
  <2>1. Len(exec_queue) \in Int /\ 2 \in Int
    BY DEF TypeOK
  <2>2. IsFiniteSet(2..Len(exec_queue))
    BY <2>1, FS_Interval
  <2>3. TimeoutsQueued(p) \subseteq 2..Len(exec_queue)
    BY DEF TimeoutsQueued
  <2>4. QED
    BY <2>2, <2>3, FS_Subset, FS_CardinalityType
<1>2. QED
  BY <1>1 DEF InFlight

\* A change of the hardware keeps the types if the new hardware is well typed.
LEMMA HwChangeType ==
  ASSUME TypeOK, NEW kind, NEW new \in Hardware, NEW bits \in SUBSET IrqBits,
         HwChange(kind, new, bits)
  PROVE  TypeOK'
<1>1. mac_stale' \in BOOLEAN
  BY DEF HwChange, TypeOK, FsmTypeOK
<1>2. spent' \in [hw : Nat, frames : Nat]
  BY DEF HwChange, TypeOK
<1>3. hw' \in Hardware /\ irq' \in SUBSET IrqBits
  BY DEF HwChange, TypeOK
<1>4. FsmTypeOK'
  BY <1>1 DEF HwChange, TypeOK, FsmTypeOK, nodeVars, portVars, checkVars, answerVars
<1>5. QED
  BY <1>2, <1>3, <1>4 DEF HwChange, TypeOK, taskVars

\* A change of the ring state raises the NEWSTATUS interrupt.
Announced(new, bits) == new.state # hw.state => NEWSTATUS \in bits

\* What the engine does is a well-typed change of the hardware, and announced.
LEMMA HwNextIsHwChange ==
  ASSUME TypeOK, HwNext
  PROVE  \E kind : \E new \in Hardware, bits \in SUBSET IrqBits :
                 HwChange(kind, new, bits) /\ Announced(new, bits)
<1> USE DEF Hardware, NodeStates, AnySupervisor
<1>b. /\ NEWSTATUS \in IrqBits /\ SUVICHNG \in IrqBits
      /\ \A p \in Ports : BEACONTMO(p) \in IrqBits /\ LNKCHNG(p) \in IrqBits
                          /\ LOCALLOOP(p) \in IrqBits
  BY DEF IrqBits
<1>h. hw \in Hardware
  BY DEF TypeOK
<1>w. ASSUME NEW p \in Ports
      PROVE  WithoutBeacon(p, hw) \in Hardware
  BY <1>h DEF WithoutBeacon
<1>s. ASSUME NEW new
      PROVE  StatusBit(new) \in SUBSET IrqBits
  BY <1>b DEF StatusBit
<1>1. ASSUME NEW p \in Ports, NEW s \in Supervisors, HwFirstBeacon(p, s)
      PROVE  \E kind : \E new \in Hardware, bits \in SUBSET IrqBits :
                 HwChange(kind, new, bits) /\ Announced(new, bits)
  <2> DEFINE new == [hw EXCEPT !.state = "FAULT", !.source = s, !.last_port = {p}]
  <2>1. PICK more \in SUBSET {SUVICHNG} : HwChange("beacon", new, {NEWSTATUS} \cup more)
    BY <1>1 DEF HwFirstBeacon
  <2>2. new \in Hardware
    BY <1>h
  <2>3. {NEWSTATUS} \cup more \in SUBSET IrqBits
    BY <1>b
  <2>4. Announced(new, {NEWSTATUS} \cup more)
    BY DEF Announced
  <2> HIDE DEF new
  <2>5. QED
    BY <2>1, <2>2, <2>3, <2>4
<1>2. ASSUME NEW p \in Ports, NEW s \in Supervisors, HwNewSupervisor(p, s)
      PROVE  \E kind : \E new \in Hardware, bits \in SUBSET IrqBits :
                 HwChange(kind, new, bits) /\ Announced(new, bits)
  <2> DEFINE new == [hw EXCEPT !.state = "FAULT", !.source = s, !.last_port = {p}]
             bits == {SUVICHNG} \cup (IF hw.state = "NORMAL" THEN {NEWSTATUS} ELSE {})
  <2>1. new \in Hardware
    BY <1>h
  <2>2. bits \in SUBSET IrqBits
    BY <1>b
  <2>3. Announced(new, bits)
    BY <1>2, <1>h DEF HwNewSupervisor, Announced
  <2>4. HwChange("supervisor", new, bits)
    BY <1>2 DEF HwNewSupervisor
  <2> HIDE DEF new, bits
  <2>5. QED
    BY <2>1, <2>2, <2>3, <2>4
<1>3. ASSUME NEW p \in Ports, HwRingClosed(p)
      PROVE  \E kind : \E new \in Hardware, bits \in SUBSET IrqBits :
                 HwChange(kind, new, bits) /\ Announced(new, bits)
  <2> DEFINE new == [hw EXCEPT !.state = "NORMAL", !.last_port = Ports]
  <2>1. new \in Hardware
    BY <1>h
  <2>2. {NEWSTATUS} \in SUBSET IrqBits /\ Announced(new, {NEWSTATUS})
    BY <1>b DEF Announced
  <2>3. HwChange("beacon", new, {NEWSTATUS})
    BY <1>3 DEF HwRingClosed
  <2> HIDE DEF new
  <2>4. QED
    BY <2>1, <2>2, <2>3
<1>4. ASSUME NEW p \in Ports, HwBeaconTimeout(p)
      PROVE  \E kind : \E new \in Hardware, bits \in SUBSET IrqBits :
                 HwChange(kind, new, bits) /\ Announced(new, bits)
  <2> DEFINE new == WithoutBeacon(p, hw)
             bits == {BEACONTMO(p)} \cup StatusBit(new)
  <2>1. new \in Hardware
    BY <1>w
  <2>2. bits \in SUBSET IrqBits
    BY <1>b, <1>s
  <2>3. Announced(new, bits)
    BY DEF Announced, StatusBit
  <2>4. HwChange("beaconTimeout", new, bits)
    BY <1>4 DEF HwBeaconTimeout
  <2> HIDE DEF new, bits
  <2>5. QED
    BY <2>1, <2>2, <2>3, <2>4
<1>5. ASSUME NEW p \in Ports, HwLinkLost(p)
      PROVE  \E kind : \E new \in Hardware, bits \in SUBSET IrqBits :
                 HwChange(kind, new, bits) /\ Announced(new, bits)
  <2> DEFINE new == [WithoutBeacon(p, hw) EXCEPT !.link = @ \ {p}]
             bits == {LNKCHNG(p)} \cup StatusBit(new)
  <2>1. new \in Hardware
    BY <1>w
  <2>2. bits \in SUBSET IrqBits
    BY <1>b, <1>s
  <2>3. Announced(new, bits)
    BY DEF Announced, StatusBit
  <2>4. HwChange("linkLost", new, bits)
    BY <1>5 DEF HwLinkLost
  <2> HIDE DEF new, bits
  <2>5. QED
    BY <2>1, <2>2, <2>3, <2>4
<1>6. ASSUME NEW p \in Ports, HwLinkRestored(p)
      PROVE  \E kind : \E new \in Hardware, bits \in SUBSET IrqBits :
                 HwChange(kind, new, bits) /\ Announced(new, bits)
  <2> DEFINE new == [hw EXCEPT !.link = @ \cup {p}]
  <2>1. new \in Hardware /\ Announced(new, {LNKCHNG(p)})
    BY <1>h DEF Announced
  <2>2. HwChange("linkRestored", new, {LNKCHNG(p)})
    BY <1>6 DEF HwLinkRestored
  <2> HIDE DEF new
  <2>3. QED
    BY <1>b, <2>1, <2>2
<1>7. ASSUME NEW p \in Ports, HwOwnFrame(p)
      PROVE  \E kind : \E new \in Hardware, bits \in SUBSET IrqBits :
                 HwChange(kind, new, bits) /\ Announced(new, bits)
  <2>1. Announced(hw, {LOCALLOOP(p)})
    BY DEF Announced
  <2>2. QED
    BY <1>7, <1>b, <1>h, <2>1 DEF HwOwnFrame
<1>8. ASSUME HwRingFault
      PROVE  \E kind : \E new \in Hardware, bits \in SUBSET IrqBits :
                 HwChange(kind, new, bits) /\ Announced(new, bits)
  <2> DEFINE new == [hw EXCEPT !.state = "FAULT"]
  <2>1. new \in Hardware /\ Announced(new, {NEWSTATUS})
    BY <1>h DEF Announced
  <2>2. HwChange("ringFault", new, {NEWSTATUS})
    BY <1>8 DEF HwRingFault
  <2> HIDE DEF new
  <2>3. QED
    BY <1>b, <2>1, <2>2
<1>9. QED
  BY <1>1, <1>2, <1>3, <1>4, <1>5, <1>6, <1>7, <1>8 DEF HwNext

\* The interrupt handler sends events of the executor.
LEMMA IsrEventType ==
  ASSUME TypeOK, NEW bit \in IrqBits
  PROVE  IsrEvent(bit) \in DlrEvent
<1> DEFINE port == {p \in Ports : bit \in {BEACONTMO(p), LNKCHNG(p), LOCALLOOP(p)}}
           name == CASE bit = NEWSTATUS -> "NEWSTATE"
                     [] bit = SUVICHNG -> "NEWSUPERVISOR"
                     [] bit \in {BEACONTMO(p) : p \in Ports} -> "BEACONTIMEOUT"
                     [] bit \in {LNKCHNG(p) : p \in Ports} ->
                          IF port \subseteq hw.link THEN "LINKRESTORED" ELSE "LINKLOST"
                     [] OTHER -> "OWNFRAME"
           ports == IF bit = SUVICHNG THEN {0} ELSE port
<1>1. name \in SwitchEvents
  BY DEF SwitchEvents
<1>2. ports \in SUBSET Ports
  BY DEF Ports
<1> HIDE DEF name, ports
<1>3. EventOf(name, ports) \in DlrEvent
  BY <1>1, <1>2, EventOfType
<1>4. /\ hw.state \in NodeStates
      /\ [source |-> hw.source, last_port |-> hw.last_port] \in BeaconInfo
  BY DEF TypeOK, Hardware, BeaconInfo
<1>5. [EventOf(name, ports) EXCEPT
         !.state = hw.state,
         !.beacon = [source |-> hw.source, last_port |-> hw.last_port]] \in DlrEvent
  BY <1>3, <1>4 DEF DlrEvent
<1>6. QED
  BY <1>5 DEF IsrEvent, name, ports

\* The executor takes an event: the handler keeps the types of the software, and
\* the queue gets shorter.
LEMMA ExecutorTakeEventType ==
  ASSUME TypeOK, ExecutorTakeEvent
  PROVE  TypeOK'
<1>1. /\ Head(exec_queue) \in DlrEvent
      /\ Tail(exec_queue) \in Seq(DlrEvent)
      /\ Len(Tail(exec_queue)) <= ExecQueueLength
  BY QueueAssumption DEF ExecutorTakeEvent, TypeOK
<1>2. FsmTypeOK'
  BY <1>1, InFlightType, HandlerType DEF ExecutorTakeEvent, TypeOK
<1>3. QED
  BY <1>1, <1>2 DEF ExecutorTakeEvent, TypeOK, hwVars

\* Every step keeps the types.
LEMMA NextType ==
  ASSUME TypeOK, [Next]_vars
  PROVE  TypeOK'
<1> USE QueueAssumption DEF TypeOK
<1>f. ASSUME UNCHANGED fsmVars
      PROVE  FsmTypeOK'
  BY <1>f DEF FsmTypeOK, fsmVars, nodeVars, portVars, checkVars, answerVars
<1>1. CASE HwNext
  BY <1>1, HwNextIsHwChange, HwChangeType
<1>2. CASE IsrLatch
  BY <1>2, <1>f DEF IsrLatch, taskVars
<1>3. ASSUME NEW bit \in IrqBits, IsrCallback(bit)
      PROVE  TypeOK'
  <2>1. IsrEvent(bit) \in DlrEvent
    BY <1>3, IsrEventType
  <2>2. exec_queue' \in Seq(DlrEvent) /\ Len(exec_queue') <= ExecQueueLength /\ lost' \in BOOLEAN
    <3>1. CASE RoomForEvent
      <4>1. exec_queue' = Append(exec_queue, IsrEvent(bit)) /\ lost' = lost
        BY <1>3, <3>1 DEF IsrCallback, SendFromIsr
      <4>2. Len(exec_queue) < ExecQueueLength
        BY <3>1 DEF RoomForEvent
      <4>3. QED
        BY <2>1, <4>1, <4>2
    <3>2. CASE ~RoomForEvent
      BY <1>3, <3>2 DEF IsrCallback, SendFromIsr
    <3>3. QED
      BY <3>1, <3>2
  <2>3. QED
    BY <1>3, <1>f, <2>2 DEF IsrCallback
<1>4. ASSUME NEW name \in FrameKinds, NEW p \in Ports, NEW learn \in BOOLEAN,
             NEW id \in wire[p] \cup {0}, ReceiverTakeFrame(name, p, id, learn)
      PROVE  TypeOK'
  <2>1. id \in Nat /\ name \in FrameEvents
    BY DEF FsmTypeOK
  <2>2. EventOf(name, {p}) \in DlrEvent
    BY <2>1, EventOfType
  <2>3. [EventOf(name, {p}) EXCEPT !.id = id, !.learn = learn] \in DlrEvent
    BY <2>1, <2>2 DEF DlrEvent
  <2>4. held' \in Seq(DlrEvent) /\ Len(held') <= 1
    BY <1>4, <2>3 DEF ReceiverTakeFrame, Interpreted
  <2>5. QED
    BY <1>4, <1>f, <2>4 DEF ReceiverTakeFrame, hwVars
<1>5. CASE ReceiverSendEvent
  <2>1. exec_queue' \in Seq(DlrEvent) /\ Len(exec_queue') = Len(held) + Len(exec_queue)
    BY <1>5 DEF ReceiverSendEvent
  <2>2. Len(exec_queue') <= ExecQueueLength
    BY <1>5, <2>1 DEF ReceiverSendEvent, RoomForEvent
  <2>3. QED
    BY <1>5, <1>f, <2>1, <2>2 DEF ReceiverSendEvent, hwVars
<1>6. CASE ExecutorTakeEvent
  BY <1>6, ExecutorTakeEventType
<1>7. CASE ExecutorPostCommand
  <2>1. timer_cmds' \in Seq(TimerCommand)
    BY <1>7 DEF ExecutorPostCommand, FsmTypeOK
  <2>2. FsmTypeOK'
    BY <1>7, <2>1 DEF ExecutorPostCommand, FsmTypeOK, nodeVars, portVars, checkVars, answerVars
  <2>3. Head(timer_cmds) \in TimerCommand
    BY <1>7 DEF ExecutorPostCommand, FsmTypeOK
  <2>4. timer_queue' \in Seq(TimerCommand) /\ Len(timer_queue') <= TimerQueueLength
    BY <1>7, <2>3 DEF ExecutorPostCommand
  <2>5. QED
    BY <1>7, <2>2, <2>4 DEF ExecutorPostCommand, hwVars
<1>8. CASE DaemonTakeCommand
  <2>1. Head(timer_queue).port \in Ports
    <3>1. Head(timer_queue) \in TimerCommand
      BY <1>8 DEF DaemonTakeCommand
    <3>2. QED
      BY <3>1 DEF TimerCommand
  <2>2. timer_queue' \in Seq(TimerCommand) /\ Len(timer_queue') <= TimerQueueLength
    BY <1>8 DEF DaemonTakeCommand
  <2>3. QED
    BY <1>8, <1>f, <2>1, <2>2 DEF DaemonTakeCommand, hwVars
<1>9. ASSUME NEW p \in Ports, TimerExpires(p)
      PROVE  TypeOK'
  <2>1. daemon' \in Daemon
    BY <1>9 DEF TimerExpires, Daemon, FsmTypeOK
  <2>2. QED
    BY <1>9, <1>f, <2>1 DEF TimerExpires, hwVars
<1>10. CASE CallbackStore
  <2>1. daemon.port \in Ports /\ (daemon.value + 1) % 256 \in 0..255
    <3>1. daemon.port \in Ports /\ daemon.value \in 0..255
      BY DEF Daemon
    <3>2. \A v \in 0..255 : (v + 1) % 256 \in 0..255
      OBVIOUS
    <3>3. QED
      BY <3>1, <3>2
  <2>2. daemon' \in Daemon /\ timeout_count' \in [Ports -> 0..255]
    BY <1>10, <2>1 DEF CallbackStore, Daemon, FsmTypeOK
  <2>3. FsmTypeOK'
    BY <1>10, <2>2 DEF CallbackStore, FsmTypeOK, nodeVars, portVars
  <2>4. QED
    BY <1>10, <2>2, <2>3 DEF CallbackStore, hwVars
<1>11. CASE CallbackFreeze
  <2>1. daemon \in Daemon /\ timeout_count \in [Ports -> 0..255]
    BY DEF FsmTypeOK
  <2>2. PICK v \in {daemon.value, timeout_count[daemon.port]} :
               daemon' = [daemon EXCEPT !.pc = "send", !.value = v]
    BY <1>11 DEF CallbackFreeze
  <2>3. v \in 0..255
    BY ONLY <2>1, <2>2 DEF Daemon
  <2>4. daemon' \in Daemon
    BY ONLY <2>1, <2>2, <2>3 DEF Daemon
  <2>5. QED
    BY <1>11, <1>f, <2>4 DEF CallbackFreeze, hwVars
<1>12. CASE CallbackSendEvent
  <2>1. daemon.port \in Ports /\ daemon.value \in 0..255
    BY DEF Daemon
  <2>2. EventOf("NEIGHBORTIMEOUT", {daemon.port}) \in DlrEvent
    BY <2>1, EventOfType DEF TimerEvents
  <2>3. [EventOf("NEIGHBORTIMEOUT", {daemon.port}) EXCEPT !.count = daemon.value] \in DlrEvent
    BY <2>1, <2>2 DEF DlrEvent
  <2>4. exec_queue' \in Seq(DlrEvent) /\ Len(exec_queue') <= ExecQueueLength
    BY <1>12, <2>3 DEF CallbackSendEvent, RoomForEvent
  <2>5. daemon' \in Daemon
    BY <1>12 DEF CallbackSendEvent, IdleDaemon, Daemon, Ports
  <2>6. QED
    BY <1>12, <1>f, <2>4, <2>5 DEF CallbackSendEvent, hwVars
<1>13. CASE UNCHANGED vars
  BY <1>13, <1>f DEF vars, hwVars, taskVars
<1>14. QED
  BY <1>1, <1>2, <1>3, <1>4, <1>5, <1>6, <1>7, <1>8, <1>9, <1>10, <1>11, <1>12, <1>13
  DEF Next, Isr, ReceiverNext, ExecutorNext, DaemonNext, Idle

\* The node starts well typed.
LEMMA InitType == Init => TypeOK
<1> SUFFICES ASSUME Init PROVE TypeOK
  OBVIOUS
<1>1. FsmTypeOK
  <2>1. round \in RoundType
    BY DEF Init, FsmInit, RoundType
  <2>2. rx_beacon_info \in BeaconInfo
    BY DEF Init, FsmInit, BeaconInfo, AnySupervisor, DLR_PORT_NONE
  <2>3. attributes \in [topology : {"LINEAR", "RING"}, status : {"NORMAL", "RING_FAULT"},
                        supervisor : AnySupervisor]
    BY DEF Init, FsmInit, AnySupervisor
  <2>4. /\ last_request_id \in [Ports -> Nat] /\ timeout_count \in [Ports -> 0..255]
        /\ wire \in [Ports -> SUBSET Nat]
    BY DEF Init, FsmInit
  <2>5. timer_cmds \in Seq(TimerCommand)
    BY DEF Init, FsmInit
  <2>6. mac_stale \in BOOLEAN
    BY DEF Init, FsmInit
  <2>7. QED
    BY <2>1, <2>2, <2>3, <2>4, <2>5, <2>6
    DEF Init, FsmInit, FsmTypeOK, NodeStates, DLR_PORT_NONE, DLR_PORT_BOTH
<1>2. hw \in Hardware
  BY DEF Init, Hardware, NodeStates, AnySupervisor
<1>3. daemon \in Daemon
  BY DEF Init, IdleDaemon, Daemon, Ports
<1>4. /\ exec_queue \in Seq(DlrEvent) /\ Len(exec_queue) <= ExecQueueLength
      /\ held \in Seq(DlrEvent) /\ Len(held) <= 1
      /\ timer_queue \in Seq(TimerCommand) /\ Len(timer_queue) <= TimerQueueLength
  BY QueueAssumption DEF Init
<1>5. QED
  BY <1>1, <1>2, <1>3, <1>4 DEF Init, TypeOK

\* Type correctness: in every reachable state the queues hold events and
\* commands within their lengths, and counters stay in their width.
THEOREM TypeCorrect == Spec => []TypeOK
<1>1. QED
  BY InitType, NextType, PTL DEF Spec
=============================================================================
