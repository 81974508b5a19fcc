----------------------------- MODULE LldpAgent -----------------------------
(***************************************************************************)
(* The LLDP agent of one switch port: its transmit and receive state       *)
(* machines, and the four tasks that share it under one mutex.  The timer  *)
(* task steps both machines once a second, the receive task takes the      *)
(* frames of the neighbors, and two tasks serve the SNMP agent: one copies *)
(* the whole agent into a queue of one, the other stores a whole copy      *)
(* back.  The transmit and receive switches can also be set through CIP.   *)
(*                                                                         *)
(* An action is what a task does while it holds the mutex; what it takes   *)
(* before, an event or a copy, counts as waiting until then.  An agent     *)
(* that is overwritten by a copy it has moved on from, or by one whose     *)
(* pointers are null, is not followed any further: it becomes Unknown.     *)
(***************************************************************************)
EXTENDS Naturals, Sequences, FiniteSets

CONSTANTS
  Neighbors,
  MaxNeighbors,  \* LWIP_LLDP_SUPPORT_RX_MAX_NEIGHBORS
  MaxTtl,        \* the longest time to live a neighbor announces
  Intervals,     \* the values of msgTxInterval, in ticks
  DefaultInterval,
  Hold,          \* msgTxHold
  TxDelay,       \* txDelay, in ticks
  ReinitDelay,   \* reinitDelay, in ticks
  Unknown

VARIABLES
  g_adminStatus, \* the window through which CIP reads and sets adminStatus
  interval,      \* msgTxInterval, shared with CIP
  agent,         \* LWIP_LLDP_AGENT_VARIABLES
  old_tx_state, old_rx_state, \* the states the last tick left
  sent,          \* the last frame sent
  heard,         \* for how many ticks the neighbors still hold on to it
  snmp,          \* what the SNMP agent waits for
  getEvent, getQueue, setQueue, setEvent,
  timedOut       \* the SNMP agent has once stopped waiting for an answer

tickVars == <<old_tx_state, old_rx_state, sent, heard>>
mibVars == <<snmp, getEvent, setEvent, timedOut>>
queues == <<getQueue, setQueue>>
vars == <<g_adminStatus, interval, agent, tickVars, mibVars, queues>>

ParameterAssumption ==
  /\ {MaxNeighbors, TxDelay, ReinitDelay} \subseteq Nat
  /\ {MaxTtl, Hold} \subseteq Nat \ {0}
  /\ Intervals \subseteq Nat \ {0}
  /\ \A i \in Intervals : TxDelay <= i
  /\ DefaultInterval \in Intervals
ASSUME ParameterAssumption

TxOnStates == {"enabledTxOnly", "enabledRxTx"}
RxOnStates == {"enabledRxOnly", "enabledRxTx"}
AdminStates == TxOnStates \cup RxOnStates \cup {"disabled"}
TxStates == {"INITIALIZE", "IDLE", "SHUTDOWN_FRAME"}
RxStates == {"WAIT_PORT_OPERATIONAL", "INITIALIZE", "WAIT_FOR_FRAME"}

Agent == [adminStatus : AdminStates,
          snmpChangeStatus : BOOLEAN,
          tx_state : TxStates,
          txShutdownWhile : 0..ReinitDelay,
          txDelayWhile : 0..TxDelay,
          txTTR : Nat,
          txTTL : Nat,
          somethingChangedLocal : BOOLEAN,
          rx_state : RxStates,
          rxInfoTTL : 0..MaxTtl,
          rxInfoAge : BOOLEAN,
          remote : SUBSET Neighbors]

Copies == Seq({Unknown} \cup Agent)
Frame == [kind : {"none", "info", "shutdown"}, ttl : Nat]
NoFrame == [kind |-> "none", ttl |-> 0]

Init ==
  /\ g_adminStatus = "enabledRxTx"
  /\ interval = DefaultInterval
  /\ agent = [adminStatus |-> "enabledRxTx", snmpChangeStatus |-> FALSE,
              tx_state |-> "INITIALIZE", txShutdownWhile |-> 0,
              txDelayWhile |-> 0, txTTR |-> 0, txTTL |-> 0,
              somethingChangedLocal |-> FALSE,
              rx_state |-> "WAIT_PORT_OPERATIONAL", rxInfoTTL |-> 0,
              rxInfoAge |-> FALSE, remote |-> {}]
  /\ old_tx_state = "none" /\ old_rx_state = "none"
  /\ sent = NoFrame /\ heard = 0
  /\ snmp = "idle" /\ getEvent = FALSE /\ setEvent = FALSE
  /\ getQueue = <<>> /\ setQueue = <<>>
  /\ timedOut = FALSE

\* The queue once the agent has moved to a: a copy in it is now an old one.
Aged(queue, a) == IF a = agent \/ queue = <<>> THEN queue ELSE <<Unknown>>

Becomes(a) == /\ agent' = a
              /\ getQueue' = Aged(getQueue, a)
              /\ setQueue' = Aged(setQueue, a)

-----------------------------------------------------------------------------
(* The transmit state machine. *)

\* (mutant) Counts on below zero.
CountDownBlind(n) == n - 1

CountDown(n) == IF n = 0 THEN 0 ELSE n - 1

TxEnabled(a) == a.adminStatus \in TxOnStates

TxCounted(a, mibChanged) ==
  [a EXCEPT !.txShutdownWhile = CountDown(@),
            !.txDelayWhile = CountDown(@),
            !.txTTR = CountDown(@),
            !.somethingChangedLocal = @ \/ (mibChanged /\ a.tx_state = "IDLE")]

\* (mutant) Switching transmission off skips the shutdown frame.
TxNextAtOnce(a) ==
  CASE a.tx_state = "INITIALIZE" /\ TxEnabled(a) -> "IDLE"
    [] a.tx_state = "IDLE" /\ ~TxEnabled(a) -> "INITIALIZE"
    [] a.tx_state = "IDLE" /\ TxEnabled(a) /\ a.txDelayWhile = 0
         /\ (a.txTTR = 0 \/ a.somethingChangedLocal) -> "INFO_FRAME"
    [] OTHER -> a.tx_state

\* (mutant) Transmits only what has changed, not when the interval ends.
TxNextOnChange(a) ==
  CASE a.tx_state = "INITIALIZE" /\ TxEnabled(a) -> "IDLE"
    [] a.tx_state = "IDLE" /\ ~TxEnabled(a) -> "SHUTDOWN_FRAME"
    [] a.tx_state = "IDLE" /\ TxEnabled(a) /\ a.txDelayWhile = 0
         /\ a.somethingChangedLocal -> "INFO_FRAME"
    [] a.tx_state = "SHUTDOWN_FRAME" /\ a.txShutdownWhile = 0 -> "INITIALIZE"
    [] OTHER -> a.tx_state

TxNext(a) ==
  CASE a.tx_state = "INITIALIZE" /\ TxEnabled(a) -> "IDLE"
    [] a.tx_state = "IDLE" /\ ~TxEnabled(a) -> "SHUTDOWN_FRAME"
    [] a.tx_state = "IDLE" /\ TxEnabled(a) /\ a.txDelayWhile = 0
         /\ (a.txTTR = 0 \/ a.somethingChangedLocal) -> "INFO_FRAME"
    [] a.tx_state = "SHUTDOWN_FRAME" /\ a.txShutdownWhile = 0 -> "INITIALIZE"
    [] OTHER -> a.tx_state

\* (mutant) The time to live is not computed.
RearmedWithoutTtl(a) == [a EXCEPT !.tx_state = "IDLE", !.txTTR = interval,
                                  !.txDelayWhile = TxDelay,
                                  !.somethingChangedLocal = FALSE]

Rearmed(a) == [a EXCEPT !.tx_state = "IDLE",
                        !.txTTL = interval * Hold,
                        !.txTTR = interval,
                        !.txDelayWhile = TxDelay,
                        !.somethingChangedLocal = FALSE]

\* Entering INFO_FRAME sends the frame and goes on to IDLE at once.
TxEntered(a, state) ==
  CASE state = "INITIALIZE" ->
         [a EXCEPT !.tx_state = state, !.txShutdownWhile = 0,
                   !.txDelayWhile = 0, !.txTTR = 0, !.txTTL = 0,
                   !.somethingChangedLocal = FALSE]
    [] state \in {"IDLE", "INFO_FRAME"} -> Rearmed(a)
    [] state = "SHUTDOWN_FRAME" ->
         [a EXCEPT !.tx_state = state, !.txShutdownWhile = ReinitDelay]

\* Only a state other than the one the last tick left is entered.
TxStep(a) == IF TxNext(a) = old_tx_state THEN [a EXCEPT !.tx_state = TxNext(a)]
             ELSE TxEntered(a, TxNext(a))

TxFrame(a) ==
  IF TxNext(a) = old_tx_state THEN NoFrame
  ELSE CASE TxNext(a) = "INFO_FRAME" -> [kind |-> "info", ttl |-> a.txTTL]
         [] TxNext(a) = "SHUTDOWN_FRAME" -> [kind |-> "shutdown", ttl |-> 0]
         [] OTHER -> NoFrame

\* Initializing the transmit machine of one port resets the setting of all.
IntervalAfter(a) == IF TxNext(a) = "INITIALIZE" /\ old_tx_state # "INITIALIZE"
                    THEN DefaultInterval ELSE interval

-----------------------------------------------------------------------------
(* The receive state machine; the port counts as enabled from the start. *)

RxEnabled(a) == a.adminStatus \in RxOnStates

\* (mutant) The end of the countdown raises no flag.
RxCountedSilently(a) == [a EXCEPT !.rxInfoTTL = CountDown(@)]

RxCounted(a) == [a EXCEPT !.rxInfoTTL = CountDown(@),
                          !.rxInfoAge = @ \/ a.rxInfoTTL = 1]

RxNext(a) ==
  CASE a.rx_state = "WAIT_PORT_OPERATIONAL" -> "INITIALIZE"
    [] a.rx_state = "INITIALIZE" /\ RxEnabled(a) -> "WAIT_FOR_FRAME"
    [] a.rx_state = "WAIT_FOR_FRAME" /\ a.rxInfoAge -> "DELETE_INFO"
    [] a.rx_state = "WAIT_FOR_FRAME" /\ ~a.rxInfoAge /\ ~RxEnabled(a) -> "INITIALIZE"
    [] OTHER -> a.rx_state

\* (mutant) An agent that stops listening keeps what it knows.
RxEnteredKeeping(a, state) ==
  CASE state \in {"INITIALIZE", "WAIT_FOR_FRAME"} ->
         [a EXCEPT !.rx_state = state, !.rxInfoAge = FALSE]
    [] state = "DELETE_INFO" ->
         [a EXCEPT !.rx_state = "WAIT_FOR_FRAME", !.rxInfoAge = FALSE, !.remote = {}]

RxEntered(a, state) ==
  CASE state = "INITIALIZE" -> [a EXCEPT !.rx_state = state, !.remote = {}]
    [] state = "WAIT_FOR_FRAME" -> [a EXCEPT !.rx_state = state, !.rxInfoAge = FALSE]
    [] state = "DELETE_INFO" ->
         [a EXCEPT !.rx_state = "WAIT_FOR_FRAME", !.rxInfoAge = FALSE, !.remote = {}]

RxStep(a) == IF RxNext(a) = old_rx_state THEN [a EXCEPT !.rx_state = RxNext(a)]
             ELSE RxEntered(a, RxNext(a))

-----------------------------------------------------------------------------
(* The timer task and the receive task. *)

\* A change made through SNMP goes to the window, any other comes from it.
Synchronized == IF agent.snmpChangeStatus
                THEN [agent EXCEPT !.snmpChangeStatus = FALSE]
                ELSE [agent EXCEPT !.adminStatus = g_adminStatus]

Tick ==
  /\ agent # Unknown
  /\ \E mibChanged \in BOOLEAN :
     \E counted \in {TxCounted(Synchronized, mibChanged)} :
     \E rx \in {RxCounted(TxStep(counted))} :
     \E stepped \in {RxStep(rx)}, frame \in {TxFrame(counted)} :
       /\ g_adminStatus' = counted.adminStatus
       /\ interval' = IntervalAfter(counted)
       /\ IF frame = NoFrame THEN UNCHANGED sent /\ heard' = CountDown(heard)
          ELSE sent' = frame /\ heard' = frame.ttl
       /\ old_tx_state' = stepped.tx_state
       /\ old_rx_state' = stepped.rx_state
       /\ Becomes(stepped)
  /\ UNCHANGED mibVars

\* The neighbor's entry is new or updated; all entries share one countdown.
Updated(a, n, ttl) == [a EXCEPT !.remote = @ \cup {n}, !.rxInfoTTL = ttl]

Receive(n, ttl) ==
  /\ agent # Unknown
  /\ agent.rx_state = "WAIT_FOR_FRAME"
  /\ LET reset == [agent EXCEPT !.rxInfoAge = FALSE]
     IN \/ ttl = 0 /\ Becomes([reset EXCEPT !.remote = {}])
        \/ /\ ttl > 0
           /\ n \in agent.remote \/ Cardinality(agent.remote) < MaxNeighbors
           /\ Becomes(Updated(reset, n, ttl))
        \/ /\ ttl > 0 /\ n \notin agent.remote
           /\ Cardinality(agent.remote) >= MaxNeighbors
           /\ Becomes(reset)
  /\ UNCHANGED <<g_adminStatus, interval, tickVars, mibVars>>

\* A frame that fails the validation only resets the flags.
ReceiveBad ==
  /\ agent # Unknown
  /\ agent.rx_state = "WAIT_FOR_FRAME"
  /\ Becomes([agent EXCEPT !.rxInfoAge = FALSE])
  /\ UNCHANGED <<g_adminStatus, interval, tickVars, mibVars>>

-----------------------------------------------------------------------------
(* CIP and SNMP. *)

\* LLDP_Enable: all ports off, or this port's transmit bit on or off.
WithTx(status) == IF status \in RxOnStates THEN "enabledRxTx" ELSE "enabledTxOnly"
WithoutTx(status) == IF status \in RxOnStates THEN "enabledRxOnly" ELSE "disabled"

CipSet ==
  /\ \/ /\ \E status \in {"disabled", WithTx(g_adminStatus), WithoutTx(g_adminStatus)} :
             g_adminStatus' = status
        /\ UNCHANGED interval
     \/ interval' \in Intervals /\ UNCHANGED g_adminStatus
  /\ UNCHANGED <<agent, tickVars, mibVars, queues>>

SnmpAsks ==
  /\ snmp = "idle"
  /\ snmp' = "get" /\ getEvent' = TRUE
  /\ UNCHANGED <<g_adminStatus, interval, agent, tickVars, queues, setEvent, timedOut>>

\* (mutant) Waits for the event without clearing it.
GetMibUncleared ==
  /\ getEvent /\ getQueue = <<>>
  /\ getQueue' = <<agent>>
  /\ UNCHANGED <<g_adminStatus, interval, agent, tickVars, setQueue, mibVars>>

\* The get task: the copy is lost when an earlier one still lies in the queue.
GetMib ==
  /\ getEvent
  /\ getEvent' = FALSE
  /\ getQueue' = IF getQueue = <<>> THEN <<agent>> ELSE getQueue
  /\ UNCHANGED <<g_adminStatus, interval, agent, tickVars, setQueue, snmp, setEvent, timedOut>>

\* A copy with adminStatus set, or another field, which no state machine reads.
Edited(copy) ==
  {copy} \cup
  IF copy = Unknown THEN {}
  ELSE {[copy EXCEPT !.adminStatus = status, !.snmpChangeStatus = TRUE] :
          status \in AdminStates}

Posts(copy) == /\ snmp' = "set"
               /\ setQueue' = IF setQueue = <<>> THEN <<copy>> ELSE setQueue

\* The SNMP agent only reads the copy, or posts it again with a field changed,
\* or changes msgTxInterval, to which the copy points, and posts it as it is.
Uses(copy) ==
  \/ snmp' = "idle" /\ UNCHANGED <<interval, setQueue>>
  \/ \E edited \in Edited(copy) : Posts(edited) /\ UNCHANGED interval
  \/ interval' \in Intervals /\ Posts(copy)

SnmpGets ==
  /\ snmp = "get" /\ getQueue # <<>>
  /\ Uses(Head(getQueue))
  /\ getQueue' = <<>>
  /\ UNCHANGED <<g_adminStatus, agent, tickVars, getEvent, setEvent, timedOut>>

\* No answer in 100 ms: the SNMP agent goes on with the zeros it started from.
SnmpGetsNothing ==
  /\ snmp = "get" /\ getQueue = <<>>
  /\ \/ snmp' = "idle" /\ UNCHANGED setQueue
     \/ Posts(Unknown)
  /\ timedOut' = TRUE
  /\ UNCHANGED <<g_adminStatus, interval, agent, tickVars, getQueue, getEvent, setEvent>>

\* The set task stores the whole copy; one taken later becomes an old one.
SetMib ==
  /\ setQueue # <<>>
  /\ agent' = Head(setQueue)
  /\ getQueue' = Aged(getQueue, Head(setQueue))
  /\ setQueue' = <<>>
  /\ setEvent' = TRUE
  /\ UNCHANGED <<g_adminStatus, interval, tickVars, snmp, getEvent, timedOut>>

SnmpIsAnswered ==
  /\ snmp = "set" /\ setEvent
  /\ snmp' = "idle" /\ setEvent' = FALSE
  /\ UNCHANGED <<g_adminStatus, interval, agent, tickVars, queues, getEvent, timedOut>>

SnmpGivesUp ==
  /\ snmp = "set" /\ ~setEvent
  /\ snmp' = "idle" /\ timedOut' = TRUE
  /\ UNCHANGED <<g_adminStatus, interval, agent, tickVars, queues, getEvent, setEvent>>

AnyFrame == \E n \in Neighbors, ttl \in 0..MaxTtl : Receive(n, ttl)

Next == \/ Tick \/ AnyFrame \/ ReceiveBad \/ CipSet
        \/ SnmpAsks \/ GetMib \/ SnmpGets \/ SnmpGetsNothing
        \/ SetMib \/ SnmpIsAnswered \/ SnmpGivesUp

\* The timer task sleeps for a second and runs; nothing holds the mutex for ever.
Spec == Init /\ [][Next]_vars /\ WF_vars(Tick)

-----------------------------------------------------------------------------

\* Type correctness.
TypeOK ==
  /\ g_adminStatus \in AdminStates
  /\ interval \in Intervals
  /\ agent \in {Unknown} \cup Agent
  /\ old_tx_state \in TxStates \cup {"none"}
  /\ old_rx_state \in RxStates \cup {"none"}
  /\ sent \in Frame /\ heard \in Nat
  /\ snmp \in {"idle", "get", "set"}
  /\ getEvent \in BOOLEAN /\ setEvent \in BOOLEAN /\ timedOut \in BOOLEAN
  /\ getQueue \in Copies /\ Len(getQueue) <= 1
  /\ setQueue \in Copies /\ Len(setQueue) <= 1

\* An agent that has stopped transmitting has told its neighbors so: the last
\* frame it sent is not an information frame (LWIP_LLDP_tx_state_machine).
ShutdownAnnounced ==
  agent # Unknown /\ agent.tx_state = "INITIALIZE" => sent.kind # "info"

\* The neighbors never lose an agent that transmits: its next frame comes before
\* the time to live of the last one ends, if that was the interval's (a frame sent
\* right after the interval was changed still announces the old one).
NeighborsKeepUs ==
  agent # Unknown /\ agent.tx_state = "IDLE" /\ sent.kind = "info" =>
    sent.ttl > 0 /\ (sent.ttl = agent.txTTL => heard > 0)

\* What is known of neighbors is known by an agent that listens and while their
\* time to live runs (LWIP_LLDP_rx_state_machine, rxInitializeLLDP).
RemoteIsAlive ==
  agent # Unknown /\ agent.remote # {} =>
    agent.rx_state = "WAIT_FOR_FRAME" /\ agent.rxInfoTTL > 0

\* As long as no wait timed out, an answer belongs to the request it is taken for:
\* nothing is left between two requests, and a set is reported once it is stored.
AnswersMatch ==
  ~timedOut =>
    /\ snmp = "idle" => ~getEvent /\ ~setEvent /\ getQueue = <<>> /\ setQueue = <<>>
    /\ snmp = "get" => ~setEvent /\ setQueue = <<>> /\ (getEvent <=> getQueue = <<>>)
    /\ snmp = "set" => ~getEvent /\ getQueue = <<>> /\ (setEvent <=> setQueue = <<>>)

\* The neighbors end up with what the switches say: a port that transmits for good
\* announces itself, one that does not has last sent a shutdown frame, or nothing.
NeighborsFollow ==
  LET TxOn == g_adminStatus \in TxOnStates
      Known == agent # Unknown
  IN /\ <>[](TxOn /\ Known) => <>[](sent.kind = "info")
     /\ <>[](~TxOn /\ Known) => <>[](sent.kind # "info")

\* A table whose neighbors have all fallen silent is emptied.
SilentAreForgotten ==
  \/ []<>(agent = Unknown \/ agent.remote = {})
  \/ []<><<AnyFrame>>_vars
=============================================================================
