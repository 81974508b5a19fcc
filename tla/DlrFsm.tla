------------------------------- MODULE DlrFsm -------------------------------
(***************************************************************************)
(* The software half of a Device Level Ring node: the event handlers of    *)
(* src/common/renesas/module/dlr/um_dlr_fsm.c, with the frames they send   *)
(* (um_dlr_fsm_frame.c), the timeout counters they clear                   *)
(* (um_dlr_timer_neighbor_checker.c) and the switch tables they write      *)
(* (um_dlr_ether_switch.c).                                                *)
(*                                                                         *)
(* A handler runs on the executor task.  Everything it does at once is one *)
(* action here; the timer commands it posts to the FreeRTOS timer daemon   *)
(* are left in timer_cmds, and DlrNode posts them one at a time, because   *)
(* each post may block.                                                    *)
(*                                                                         *)
(* A port bit mask is the set of its ports.  A supervisor stands for its   *)
(* MAC and IP address; the VLAN id and ring state of a beacon only fill    *)
(* header fields and are left out.  sequence_id is a uint32_t whose wrap   *)
(* is out of reach here.                                                   *)
(*                                                                         *)
(* Frames are allocated in a loop that ends when there is memory, and they *)
(* are accepted by the Ethernet writer: a send that meets its full queue   *)
(* frees the frame twice, and nothing can be said after that (EtherNetif   *)
(* models it).                                                             *)
(***************************************************************************)
EXTENDS Integers, Sequences, FiniteSets

CONSTANTS
  Supervisors,      \* the ring supervisors that may send beacons
  NoSupervisor,     \* the zeroed address a node starts with
  Precedence,       \* Supervisors -> 0..255, the precedence in a beacon
  Mac,              \* Supervisors -> MAC address, a sequence of bytes
  MAC_LENGTH        \* DLR_MAC_ADDRESS_LENGTH

ASSUME SupervisorAssumption ==
  /\ NoSupervisor \notin Supervisors
  /\ MAC_LENGTH \in Nat
  /\ Precedence \in [Supervisors -> 0..255]
  /\ Mac \in [Supervisors -> [1..MAC_LENGTH -> 0..255]]

Ports == {0, 1}                          \* DLR_PORT0_BIT, DLR_PORT1_BIT
DLR_PORT_NONE == {}
DLR_PORT_BOTH == Ports
DLR_NEIGHBOR_CHECK_TRIES == 3
NodeStates == {"IDLE", "FAULT", "NORMAL"}
AnySupervisor == Supervisors \cup {NoSupervisor}

\* What the switch reports of the supervisor's beacons: dlr_rx_beacon_t.
BeaconInfo == [source : AnySupervisor, last_port : SUBSET Ports]

SwitchEvents == {"NEWSTATE", "NEWSUPERVISOR", "BEACONTIMEOUT", "LINKLOST",
                 "LINKRESTORED", "OWNFRAME"}
FrameEvents == {"LOCATEFAULT", "NEIGHBORCHECKREQ", "NEIGHBORCHECKRES",
                "FLUSHTABLES", "SIGNON"}
TimerEvents == {"NEIGHBORTIMEOUT"}

\* dlr_event_arg_t.  The fields an event does not use hold fixed values; id
\* is the sequence id of the frame the event carries, and learn the Learning
\* Update Enable field of a Flush_Tables frame.
DlrEvent == [event  : SwitchEvents \cup FrameEvents \cup TimerEvents,
             port   : SUBSET Ports,
             state  : NodeStates,
             beacon : BeaconInfo,
             count  : 0..255,
             id     : Nat,
             learn  : BOOLEAN]

TimerCommand == [op : {"start", "stop"}, port : Ports]

VARIABLES
  node_state,            \* p_ctrl->node_state
  rx_beacon_info,        \* p_ctrl->rx_beacon_info
  link_active_port,      \* p_ctrl->link_active_port
  neighbor_active_port,  \* p_ctrl->neighbor_active_port
  sequence_id,           \* p_ctrl->sequence_id
  attributes,            \* g_dlr: topology, status and active supervisor
  last_request_id,       \* the receiver's last_neighbor_check_request_sequence_id0/1
  timeout_count,         \* timeout_count0/1 of the neighbor checker, uint8_t
  timer_cmds,            \* timer commands the executor has still to post
  forwarding,            \* ports the switch forwards on
  mac_stale,             \* the switch still holds MAC entries of the old topology
  wire,                  \* port -> ids of the requests sent on it
  round                  \* history of the neighbor check, see RoundType

\* History only, read by no handler: the requests sent on each port since the
\* last Locate_Fault, the timeouts of earlier rounds still in flight when it
\* began, and the ports whose neighbor has not answered yet.
RoundType == [requests  : [Ports -> Nat],
              inherited : [Ports -> Nat],
              waiting   : SUBSET Ports]

nodeVars   == <<node_state, rx_beacon_info, attributes>>
portVars   == <<link_active_port, forwarding>>
answerVars == <<last_request_id, timeout_count, wire>>
checkVars  == <<neighbor_active_port, sequence_id, answerVars, round>>
fsmVars    == <<nodeVars, portVars, mac_stale, checkVars, timer_cmds>>

FsmTypeOK ==
  /\ node_state \in NodeStates
  /\ rx_beacon_info \in BeaconInfo
  /\ link_active_port \in SUBSET Ports
  /\ neighbor_active_port \in SUBSET Ports
  /\ sequence_id \in Nat
  /\ attributes \in [topology : {"LINEAR", "RING"},
                     status : {"NORMAL", "RING_FAULT"},
                     supervisor : AnySupervisor]
  /\ last_request_id \in [Ports -> Nat]
  /\ timeout_count \in [Ports -> 0..255]
  /\ timer_cmds \in Seq(TimerCommand)
  /\ forwarding \in SUBSET Ports
  /\ mac_stale \in BOOLEAN
  /\ wire \in [Ports -> SUBSET Nat]
  /\ round \in RoundType

\* um_dlr_fsm_open and um_dlr_timer_neighbor_checker_open.
FsmInit ==
  /\ node_state = "IDLE"
  /\ rx_beacon_info = [source |-> NoSupervisor, last_port |-> DLR_PORT_NONE]
  /\ link_active_port = DLR_PORT_NONE
  /\ neighbor_active_port = DLR_PORT_BOTH
  /\ sequence_id = 0
  /\ attributes = [topology |-> "LINEAR", status |-> "NORMAL",
                   supervisor |-> NoSupervisor]
  /\ last_request_id = [p \in Ports |-> 0]
  /\ timeout_count = [p \in Ports |-> 0]
  /\ timer_cmds = <<>>
  /\ forwarding = Ports
  /\ mac_stale = FALSE
  /\ wire = [p \in Ports |-> {}]
  /\ round = [requests |-> [p \in Ports |-> 0],
              inherited |-> [p \in Ports |-> 0],
              waiting |-> {}]
-----------------------------------------------------------------------------
(* Helpers of the handlers.                                                *)

\* xTimerStart or xTimerStop of each port of the mask, port 0 first.
TimerCommand1(op, ports, p) == IF p \in ports THEN <<[op |-> op, port |-> p]>> ELSE <<>>

\* Mutant: the mask DLR_PORT_BOTH is taken for port 0 only.
TimerCommandsFirstPort(op, ports) ==
  IF 0 \in ports THEN TimerCommand1(op, ports, 0) ELSE TimerCommand1(op, ports, 1)

TimerCommands(op, ports) == TimerCommand1(op, ports, 0) \o TimerCommand1(op, ports, 1)

\* The attributes a ring state stands for.
NetworkTopology(s) == IF s = "IDLE" THEN "LINEAR" ELSE "RING"

\* Mutant: the ring fault outlives the FAULT state.
NetworkStatusSticky(s) == IF s = "NORMAL" THEN attributes.status
                          ELSE IF s = "FAULT" THEN "RING_FAULT" ELSE "NORMAL"

NetworkStatus(s) == IF s = "FAULT" THEN "RING_FAULT" ELSE "NORMAL"

PrecedenceOf(s) == IF s = NoSupervisor THEN 0 ELSE Precedence[s]
MacByte(s, i) == IF s = NoSupervisor THEN 0 ELSE Mac[s][i]

\* Mutant: only a lower precedence flushes.
IsNewSupervisorPrecedenceLower(new) ==
  PrecedenceOf(new) < PrecedenceOf(rx_beacon_info.source)

\* _is_new_supervisor_precedence_higher: on a tie the loop compares the new
\* supervisor's precedence, not its MAC, with the bytes of the old MAC.
IsNewSupervisorPrecedenceHigher(new) ==
  LET old == rx_beacon_info.source
      differs(i) == PrecedenceOf(new) # MacByte(old, i)
  IN  \/ PrecedenceOf(new) > PrecedenceOf(old)
      \/ /\ PrecedenceOf(new) = PrecedenceOf(old)
         /\ \E i \in 1..MAC_LENGTH :
              /\ PrecedenceOf(new) > MacByte(old, i)
              /\ \A j \in 1..(i - 1) : ~differs(j)

\* um_dlr_fsm_send_link_neighbor_status: only the sequence id is state, and it
\* moves even when there is no active port to send from.
SendLinkNeighborStatus == sequence_id' = sequence_id + 1

\* um_dlr_fsm_send_neighbor_check_request on each port of the mask, port 0
\* first, each with an id of its own: the id port p takes.
\* Mutant: the sequence id moves once for both ports.
RequestIdShared(p, ports) == sequence_id

RequestId(p, ports) == IF p = 1 /\ 0 \in ports THEN sequence_id + 1 ELSE sequence_id

SendNeighborCheckRequest(ports) ==
  /\ sequence_id' = sequence_id + Cardinality(ports)
  /\ last_request_id' = [p \in Ports |->
       IF p \in ports THEN RequestId(p, ports) ELSE last_request_id[p]]
  /\ wire' = [p \in Ports |->
       IF p \in ports THEN wire[p] \cup {RequestId(p, ports)} ELSE wire[p]]
-----------------------------------------------------------------------------
(* The handlers: _event_function_table[event](e), by the state of the node. *)

\* _event_new_state.  A round ends when the node leaves FAULT.
EventNewState(e) ==
  /\ rx_beacon_info' = e.beacon
  /\ node_state' = e.state
  /\ attributes' = [attributes EXCEPT
       !.topology = NetworkTopology(e.state),
       !.status = NetworkStatus(e.state)]
  /\ mac_stale' = FALSE
  /\ round' = IF e.state = "FAULT" THEN round ELSE [round EXCEPT !.waiting = {}]
  /\ UNCHANGED <<portVars, neighbor_active_port, sequence_id, answerVars, timer_cmds>>

\* _event_link_lost.  The handler assumes that the other port is up.
EventLinkLost(e) ==
  LET lastPortLost == node_state = "FAULT" /\ e.port = rx_beacon_info.last_port
  IN  /\ link_active_port' = IF lastPortLost THEN DLR_PORT_NONE ELSE Ports \ e.port
      /\ forwarding' = IF node_state = "IDLE" THEN forwarding \ e.port ELSE forwarding
      /\ IF lastPortLost
         THEN /\ timer_cmds' = TimerCommands("stop", DLR_PORT_BOTH)
              /\ round' = [round EXCEPT !.waiting = {}]
         ELSE UNCHANGED <<timer_cmds, round>>
      /\ IF node_state = "IDLE" \/ lastPortLost
         THEN UNCHANGED sequence_id
         ELSE SendLinkNeighborStatus
      /\ UNCHANGED <<nodeVars, mac_stale, neighbor_active_port, answerVars>>

\* _event_link_restore.  In NORMAL it is aborted after the first assignment.
EventLinkRestore(e) ==
  /\ link_active_port' = link_active_port \cup e.port
  /\ forwarding' = IF node_state = "NORMAL" THEN forwarding ELSE forwarding \cup e.port
  /\ UNCHANGED <<nodeVars, mac_stale, checkVars, timer_cmds>>

\* _event_beacon_timeout: only the timeout on the last port that saw a beacon
\* does something, in FAULT.
EventBeaconTimeout(e) ==
  /\ IF node_state = "FAULT" /\ e.port = rx_beacon_info.last_port
     THEN /\ timer_cmds' = TimerCommands("stop", DLR_PORT_BOTH)
          /\ round' = [round EXCEPT !.waiting = {}]
     ELSE UNCHANGED <<timer_cmds, round>>
  /\ UNCHANGED <<nodeVars, portVars, mac_stale, neighbor_active_port, sequence_id,
                 answerVars>>

\* _event_new_supervisor.  rx_beacon_info keeps the old supervisor.
EventNewSupervisor(e) ==
  /\ attributes' = [attributes EXCEPT !.supervisor = e.beacon.source]
  /\ mac_stale' = IF node_state = "FAULT"
                     /\ IsNewSupervisorPrecedenceHigher(e.beacon.source)
                  THEN FALSE ELSE mac_stale
  /\ UNCHANGED <<node_state, rx_beacon_info, portVars, checkVars, timer_cmds>>

\* _event_flush_table, with the Learning_Update frame when it is asked for.
EventFlushTable(e) ==
  /\ mac_stale' = IF node_state = "IDLE" THEN mac_stale ELSE FALSE
  /\ sequence_id' = IF node_state # "IDLE" /\ e.learn THEN sequence_id + 1 ELSE sequence_id
  /\ UNCHANGED <<nodeVars, portVars, neighbor_active_port, answerVars, round, timer_cmds>>

\* _event_locate_fault when both links look active: a new round of neighbor
\* checks.  inFlight[p] counts the timeouts of port p not handled yet.
StartNeighborCheck(inFlight) ==
  /\ neighbor_active_port' = DLR_PORT_NONE
  /\ timeout_count' = [p \in Ports |-> 0]
  /\ SendNeighborCheckRequest(DLR_PORT_BOTH)
  /\ timer_cmds' = TimerCommands("start", DLR_PORT_BOTH)
  /\ round' = [requests |-> [p \in Ports |-> 1],
               inherited |-> inFlight,
               waiting |-> Ports]
  /\ UNCHANGED <<nodeVars, portVars, mac_stale>>

EventLocateFault(e, inFlight) ==
  \/ /\ node_state = "FAULT"
     /\ link_active_port = DLR_PORT_BOTH
     /\ StartNeighborCheck(inFlight)
  \/ /\ node_state = "FAULT"
     /\ link_active_port # DLR_PORT_BOTH
     /\ SendLinkNeighborStatus
     /\ UNCHANGED <<nodeVars, portVars, mac_stale, neighbor_active_port, answerVars,
                    round, timer_cmds>>
  \/ /\ node_state # "FAULT"
     /\ UNCHANGED fsmVars

\* _event_neighbor_check_response.
EventNeighborCheckResponse(e) ==
  IF node_state = "FAULT"
  THEN /\ timer_cmds' = TimerCommands("stop", e.port)
       /\ neighbor_active_port' = neighbor_active_port \cup e.port
       /\ round' = [round EXCEPT !.waiting = @ \ e.port]
       /\ UNCHANGED <<nodeVars, portVars, mac_stale, sequence_id, answerVars>>
  ELSE UNCHANGED fsmVars

\* Mutant: one try too many.
TriesLeftInclusive(e) == e.count <= DLR_NEIGHBOR_CHECK_TRIES

TriesLeft(e) == e.count < DLR_NEIGHBOR_CHECK_TRIES

\* _event_neighbor_timeout: another request while tries are left, then a
\* Neighbor_Status frame.
EventNeighborTimeout(e) ==
  \/ /\ node_state = "FAULT"
     /\ TriesLeft(e)
     /\ SendNeighborCheckRequest(e.port)
     /\ timer_cmds' = TimerCommands("start", e.port)
     /\ round' = [round EXCEPT
          !.requests = [p \in Ports |-> IF p \in e.port THEN @[p] + 1 ELSE @[p]],
          !.waiting = @ \cup (e.port \ neighbor_active_port)]
     /\ UNCHANGED <<nodeVars, portVars, mac_stale, neighbor_active_port, timeout_count>>
  \/ /\ node_state = "FAULT"
     /\ ~TriesLeft(e)
     /\ SendLinkNeighborStatus
     /\ round' = [round EXCEPT !.waiting = @ \ e.port]
     /\ UNCHANGED <<nodeVars, portVars, mac_stale, neighbor_active_port, answerVars,
                    timer_cmds>>
  \/ /\ node_state # "FAULT"
     /\ UNCHANGED fsmVars

\* _event_own_frame, _event_neighbor_check_request and _event_sign_on change no
\* state: they are ignored, aborted, or answered with a frame that inherits the
\* sequence id of the one received.
EventAnswered(e) == UNCHANGED fsmVars

\* um_dlr_fsm_execute_with_event.
ExecuteWithEvent(e, inFlight) ==
  \/ e.event = "NEWSTATE" /\ EventNewState(e)
  \/ e.event = "LINKLOST" /\ EventLinkLost(e)
  \/ e.event = "LINKRESTORED" /\ EventLinkRestore(e)
  \/ e.event = "BEACONTIMEOUT" /\ EventBeaconTimeout(e)
  \/ e.event = "NEWSUPERVISOR" /\ EventNewSupervisor(e)
  \/ e.event = "FLUSHTABLES" /\ EventFlushTable(e)
  \/ e.event = "LOCATEFAULT" /\ EventLocateFault(e, inFlight)
  \/ e.event = "NEIGHBORCHECKRES" /\ EventNeighborCheckResponse(e)
  \/ e.event = "NEIGHBORTIMEOUT" /\ EventNeighborTimeout(e)
  \/ e.event \in {"OWNFRAME", "NEIGHBORCHECKREQ", "SIGNON"} /\ EventAnswered(e)
=============================================================================
