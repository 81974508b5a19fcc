-------------------------- MODULE LldpAgentProofs --------------------------
(***************************************************************************)
(* Proofs about LldpAgent: the invariants of its run, for every number of  *)
(* neighbors, every interval and hold, and every delay up to the interval; *)
(* and how what is known of silent neighbors ages.                         *)
(***************************************************************************)
EXTENDS LldpAgent, TLAPS

\* What the transmit machine keeps: the state the last tick left is its state,
\* no information frame is the last word of a machine that is not idle, and an
\* idle one sends its next frame while the neighbors still hold on to the last.
TxKept(a, old, frame, ticks) ==
  /\ old = a.tx_state \/ (old = "none" /\ a.tx_state = "INITIALIZE")
  /\ a.tx_state # "IDLE" => frame.kind # "info"
  /\ a.tx_state = "IDLE" => a.txTTL > 0
  /\ a.tx_state = "IDLE" /\ frame.kind = "info" =>
       /\ frame.ttl > 0
       /\ frame.ttl = a.txTTL =>
            ticks > 0 /\ ticks >= a.txTTR /\ ticks >= a.txDelayWhile

\* What the receive machine keeps.
RxKept(a, old) ==
  /\ old = a.rx_state \/ (old = "none" /\ a.rx_state = "WAIT_PORT_OPERATIONAL")
  /\ a.remote # {} => a.rx_state = "WAIT_FOR_FRAME" /\ a.rxInfoTTL > 0

\* Two agents that differ at most in what SNMP sets.
SameMachines(a, b) ==
  /\ a.tx_state = b.tx_state
  /\ a.txShutdownWhile = b.txShutdownWhile
  /\ a.txDelayWhile = b.txDelayWhile
  /\ a.txTTR = b.txTTR
  /\ a.txTTL = b.txTTL
  /\ a.rx_state = b.rx_state
  /\ a.rxInfoTTL = b.rxInfoTTL
  /\ a.remote = b.remote

MachinesInv == agent # Unknown => /\ TxKept(agent, old_tx_state, sent, heard)
                                  /\ RxKept(agent, old_rx_state)

\* A copy under way that is not Unknown is a copy of the agent as it is.
Current(queue) == queue # <<>> /\ queue[1] # Unknown =>
                    agent # Unknown /\ SameMachines(queue[1], agent)

CopiesInv == Current(getQueue) /\ Current(setQueue)

IInv == TypeOK /\ MachinesInv /\ CopiesInv

-----------------------------------------------------------------------------
(* Arithmetic and queues. *)

LEMMA CountDownType == ASSUME NEW n \in Nat
                       PROVE  /\ CountDown(n) \in Nat
                              /\ CountDown(n) <= n
                              /\ n > 0 => CountDown(n) = n - 1
BY DEF CountDown

LEMMA Product == ASSUME NEW i \in Nat \ {0}, NEW h \in Nat \ {0}
                 PROVE  i * h \in Nat /\ i * h >= i
<1>1. PICK k \in Nat : h = k + 1
  <2>1. h - 1 \in Nat /\ h = (h - 1) + 1
    OBVIOUS
  <2> QED
    BY <2>1
<1>2. i * k \in Nat
  OBVIOUS
<1>3. i * h = i * k + i
  BY <1>1
<1> QED
  BY <1>2, <1>3

LEMMA IntervalFacts == ASSUME TypeOK
                       PROVE  /\ interval \in Nat \ {0}
                              /\ TxDelay \in Nat /\ TxDelay <= interval
                              /\ interval * Hold \in Nat
                              /\ interval * Hold >= interval
<1>1. interval \in Nat \ {0} /\ TxDelay <= interval
  BY ParameterAssumption DEF TypeOK, ParameterAssumption
<1>2. Hold \in Nat \ {0} /\ TxDelay \in Nat
  BY ParameterAssumption DEF ParameterAssumption
<1> QED
  BY <1>1, <1>2, Product

-----------------------------------------------------------------------------
(* One step of the transmit machine. *)

\* Where it can go.
LEMMA TxNextCases ==
  ASSUME NEW a \in Agent
  PROVE  \/ /\ a.tx_state = "INITIALIZE"
            /\ TxNext(a) \in {"INITIALIZE", "IDLE"}
         \/ /\ a.tx_state = "IDLE"
            /\ TxNext(a) \in {"SHUTDOWN_FRAME", "INFO_FRAME"}
         \/ /\ a.tx_state = "IDLE" /\ TxNext(a) = "IDLE"
            /\ a.txDelayWhile # 0 \/ a.txTTR # 0
         \/ /\ a.tx_state = "SHUTDOWN_FRAME"
            /\ TxNext(a) \in {"INITIALIZE", "SHUTDOWN_FRAME"}
<1>1. a.tx_state \in {"INITIALIZE", "IDLE", "SHUTDOWN_FRAME"}
  BY DEF Agent, TxStates
<1>2. CASE a.tx_state = "INITIALIZE"
  <2>1. CASE TxEnabled(a)
    BY <1>2, <2>1 DEF TxNext
  <2>2. CASE ~TxEnabled(a)
    BY <1>2, <2>2 DEF TxNext
  <2> QED
    BY <1>2, <2>1, <2>2
<1>3. CASE a.tx_state = "IDLE"
  <2>1. CASE ~TxEnabled(a)
    BY <1>3, <2>1 DEF TxNext
  <2>2. CASE TxEnabled(a) /\ a.txDelayWhile = 0 /\ (a.txTTR = 0 \/ a.somethingChangedLocal)
    BY <1>3, <2>2 DEF TxNext
  <2>3. CASE TxEnabled(a) /\ ~(a.txDelayWhile = 0 /\ (a.txTTR = 0 \/ a.somethingChangedLocal))
    BY <1>3, <2>3 DEF TxNext
  <2> QED
    BY <2>1, <2>2, <2>3
<1>4. CASE a.tx_state = "SHUTDOWN_FRAME"
  <2>1. CASE a.txShutdownWhile = 0
    BY <1>4, <2>1 DEF TxNext
  <2>2. CASE a.txShutdownWhile # 0
    BY <1>4, <2>2 DEF TxNext
  <2> QED
    BY <1>4, <2>1, <2>2
<1> QED
  BY <1>1, <1>2, <1>3, <1>4

\* The agent as the machine finds it, its timers counted down.
LEMMA CountedFacts ==
  ASSUME TypeOK, agent # Unknown, NEW m \in BOOLEAN, NEW a,
         a = TxCounted(Synchronized, m)
  PROVE  /\ a \in Agent
         /\ a.tx_state = agent.tx_state /\ a.txTTL = agent.txTTL
         /\ a.txTTR = CountDown(agent.txTTR)
         /\ a.txDelayWhile = CountDown(agent.txDelayWhile)
         /\ a.rx_state = agent.rx_state /\ a.rxInfoTTL = agent.rxInfoTTL
         /\ a.remote = agent.remote
<1> DEFINE s == Synchronized
<1>1. agent \in Agent /\ g_adminStatus \in AdminStates
  BY DEF TypeOK
<1>2. /\ s \in Agent
      /\ s.tx_state = agent.tx_state /\ s.txTTL = agent.txTTL
      /\ s.txTTR = agent.txTTR /\ s.txDelayWhile = agent.txDelayWhile
      /\ s.rx_state = agent.rx_state /\ s.rxInfoTTL = agent.rxInfoTTL
      /\ s.remote = agent.remote
  <2>1. CASE agent.snmpChangeStatus
    BY <1>1, <2>1 DEF Synchronized, Agent
  <2>2. CASE ~agent.snmpChangeStatus
    BY <1>1, <2>2 DEF Synchronized, Agent
  <2> QED
    BY <2>1, <2>2
<1>3. /\ s.txShutdownWhile \in 0..ReinitDelay /\ s.txDelayWhile \in 0..TxDelay
      /\ s.txTTR \in Nat
  BY <1>2 DEF Agent
<1>4. /\ CountDown(s.txShutdownWhile) \in 0..ReinitDelay
      /\ CountDown(s.txDelayWhile) \in 0..TxDelay
      /\ CountDown(s.txTTR) \in Nat
  BY <1>3, ParameterAssumption DEF CountDown, ParameterAssumption
<1>5. (s.somethingChangedLocal \/ (m /\ s.tx_state = "IDLE")) \in BOOLEAN
  OBVIOUS
<1> HIDE DEF s
<1>6. a = [s EXCEPT !.txShutdownWhile = CountDown(s.txShutdownWhile),
                    !.txDelayWhile = CountDown(s.txDelayWhile),
                    !.txTTR = CountDown(s.txTTR),
                    !.somethingChangedLocal =
                        s.somethingChangedLocal \/ (m /\ s.tx_state = "IDLE")]
  BY DEF TxCounted, s
<1>7. a \in Agent
  BY <1>2, <1>4, <1>5, <1>6 DEF Agent
<1> QED
  BY <1>2, <1>6, <1>7 DEF Agent

LEMMA ResetType == ASSUME NEW c \in Agent, NEW t \in Nat, NEW u \in Nat, NEW f \in BOOLEAN
                   PROVE  [c EXCEPT !.txTTR = t, !.txTTL = u,
                                    !.somethingChangedLocal = f] \in Agent
BY DEF Agent

\* Entering a state.
LEMMA EnteredFacts ==
  ASSUME TypeOK, NEW a \in Agent,
         NEW state \in TxStates \cup {"INFO_FRAME"}, NEW b, b = TxEntered(a, state)
  PROVE  /\ b \in Agent
         /\ b.rx_state = a.rx_state /\ b.rxInfoTTL = a.rxInfoTTL
         /\ b.remote = a.remote
         /\ state \in {"INITIALIZE", "SHUTDOWN_FRAME"} => b.tx_state = state
         /\ state \in {"IDLE", "INFO_FRAME"} =>
              /\ b.tx_state = "IDLE" /\ b.txTTL = interval * Hold
              /\ b.txTTR = interval /\ b.txDelayWhile = TxDelay
<1>1. /\ interval \in Nat /\ interval * Hold \in Nat
      /\ TxDelay \in Nat /\ ReinitDelay \in Nat
  BY IntervalFacts, ParameterAssumption DEF ParameterAssumption
<1>2. /\ "INITIALIZE" \in TxStates /\ "IDLE" \in TxStates
      /\ "SHUTDOWN_FRAME" \in TxStates
      /\ 0 \in 0..ReinitDelay /\ ReinitDelay \in 0..ReinitDelay
      /\ 0 \in 0..TxDelay /\ TxDelay \in 0..TxDelay
  BY <1>1 DEF TxStates
<1>3. CASE state = "INITIALIZE"
  <2>1. b = [a EXCEPT !.tx_state = "INITIALIZE", !.txShutdownWhile = 0,
                      !.txDelayWhile = 0, !.txTTR = 0, !.txTTL = 0,
                      !.somethingChangedLocal = FALSE]
    BY <1>3 DEF TxEntered
  <2> DEFINE c == [a EXCEPT !.tx_state = "INITIALIZE", !.txShutdownWhile = 0,
                            !.txDelayWhile = 0]
  <2>4. c \in Agent
    BY <1>2 DEF Agent
  <2>5. b = [c EXCEPT !.txTTR = 0, !.txTTL = 0, !.somethingChangedLocal = FALSE]
    BY <2>1 DEF Agent
  <2>2. b \in Agent
    <3> HIDE DEF c
    <3>1. 0 \in Nat /\ FALSE \in BOOLEAN
      OBVIOUS
    <3>2. [c EXCEPT !.txTTR = 0, !.txTTL = 0, !.somethingChangedLocal = FALSE] \in Agent
      BY <2>4, <3>1, ResetType, Zenon
    <3> QED
      BY <2>5, <3>2, Zenon
  <2>3. /\ b.rx_state = a.rx_state /\ b.rxInfoTTL = a.rxInfoTTL
        /\ b.remote = a.remote /\ b.tx_state = "INITIALIZE"
    BY <2>1 DEF Agent
  <2> QED
    BY <1>3, <2>2, <2>3
<1>4. CASE state \in {"IDLE", "INFO_FRAME"}
  <2>1. b = [a EXCEPT !.tx_state = "IDLE", !.txTTL = interval * Hold,
                      !.txTTR = interval, !.txDelayWhile = TxDelay,
                      !.somethingChangedLocal = FALSE]
    BY <1>4 DEF TxEntered, Rearmed
  <2> DEFINE ttl == interval * Hold
  <2>2. ttl \in Nat /\ b = [a EXCEPT !.tx_state = "IDLE", !.txTTL = ttl,
                      !.txTTR = interval, !.txDelayWhile = TxDelay,
                      !.somethingChangedLocal = FALSE]
    BY <1>1, <2>1
  <2>3. SUFFICES /\ b \in Agent
                 /\ b.rx_state = a.rx_state /\ b.rxInfoTTL = a.rxInfoTTL
                 /\ b.remote = a.remote /\ b.tx_state = "IDLE" /\ b.txTTL = ttl
                 /\ b.txTTR = interval /\ b.txDelayWhile = TxDelay
    BY <1>4
  <2> HIDE DEF ttl
  <2>4. b \in Agent
    BY <1>1, <1>2, <2>2 DEF Agent
  <2>5. /\ b.rx_state = a.rx_state /\ b.rxInfoTTL = a.rxInfoTTL
        /\ b.remote = a.remote /\ b.tx_state = "IDLE" /\ b.txTTL = ttl
        /\ b.txTTR = interval /\ b.txDelayWhile = TxDelay
    BY <2>2 DEF Agent
  <2> QED
    BY <2>4, <2>5
<1>5. CASE state = "SHUTDOWN_FRAME"
  <2>1. b = [a EXCEPT !.tx_state = "SHUTDOWN_FRAME", !.txShutdownWhile = ReinitDelay]
    BY <1>5 DEF TxEntered
  <2>2. b \in Agent
    BY <1>2, <2>1 DEF Agent
  <2>3. /\ b.rx_state = a.rx_state /\ b.rxInfoTTL = a.rxInfoTTL
        /\ b.remote = a.remote /\ b.tx_state = "SHUTDOWN_FRAME"
    BY <2>1 DEF Agent
  <2> QED
    BY <1>5, <2>2, <2>3
<1> QED
  BY <1>3, <1>4, <1>5 DEF TxStates

\* The frame of a step.
LEMMA FrameFacts ==
  ASSUME NEW a \in Agent
  PROVE  /\ TxFrame(a) \in Frame
         /\ TxNext(a) = old_tx_state => TxFrame(a) = NoFrame
         /\ TxNext(a) # old_tx_state =>
              /\ TxNext(a) = "INFO_FRAME" =>
                   TxFrame(a) = [kind |-> "info", ttl |-> a.txTTL]
              /\ TxNext(a) = "SHUTDOWN_FRAME" =>
                   TxFrame(a) = [kind |-> "shutdown", ttl |-> 0]
              /\ TxNext(a) \in {"INITIALIZE", "IDLE"} => TxFrame(a) = NoFrame
<1>1. a.txTTL \in Nat
  BY DEF Agent
<1>2. NoFrame \in Frame
  BY DEF NoFrame, Frame
<1>3. /\ [kind |-> "info", ttl |-> a.txTTL] \in Frame
      /\ [kind |-> "shutdown", ttl |-> 0] \in Frame
  BY <1>1 DEF Frame
<1>4. CASE TxNext(a) = old_tx_state
  <2>1. TxFrame(a) = NoFrame
    BY <1>4 DEF TxFrame
  <2> QED
    BY <1>2, <1>4, <2>1, Zenon
<1>5. CASE TxNext(a) # old_tx_state /\ TxNext(a) = "INFO_FRAME"
  <2>1. TxFrame(a) = [kind |-> "info", ttl |-> a.txTTL]
    BY <1>5 DEF TxFrame
  <2> QED
    BY <1>3, <1>5, <2>1
<1>6. CASE TxNext(a) # old_tx_state /\ TxNext(a) = "SHUTDOWN_FRAME"
  <2>1. TxFrame(a) = [kind |-> "shutdown", ttl |-> 0]
    BY <1>6 DEF TxFrame
  <2> QED
    BY <1>3, <1>6, <2>1
<1>7. CASE TxNext(a) \notin {old_tx_state, "INFO_FRAME", "SHUTDOWN_FRAME"}
  <2>1. TxFrame(a) = NoFrame
    BY <1>7 DEF TxFrame
  <2> QED
    BY <1>2, <1>7, <2>1
<1> QED
  BY <1>4, <1>5, <1>6, <1>7

\* A whole step of the transmit machine keeps what it has to keep.
LEMMA TxStepFacts ==
  ASSUME TypeOK, agent # Unknown, TxKept(agent, old_tx_state, sent, heard),
         NEW a \in Agent,
         a.tx_state = agent.tx_state, a.txTTL = agent.txTTL,
         a.txTTR = CountDown(agent.txTTR),
         a.txDelayWhile = CountDown(agent.txDelayWhile),
         NEW b, b = TxStep(a)
  PROVE  /\ b \in Agent
         /\ b.rx_state = a.rx_state /\ b.rxInfoTTL = a.rxInfoTTL
         /\ b.remote = a.remote
         /\ IF TxFrame(a) = NoFrame
            THEN TxKept(b, b.tx_state, sent, CountDown(heard))
            ELSE TxKept(b, b.tx_state, TxFrame(a), TxFrame(a).ttl)
<1>1. /\ agent \in Agent /\ sent \in Frame /\ heard \in Nat
      /\ a.txTTR \in Nat /\ a.txDelayWhile \in Nat /\ a.txTTL \in Nat
      /\ agent.txTTR \in Nat /\ agent.txDelayWhile \in Nat
  <2>1. TxDelay \in Nat
    BY ParameterAssumption DEF ParameterAssumption
  <2>2. /\ a.txTTR \in Nat /\ a.txDelayWhile \in Nat /\ a.txTTL \in Nat
    BY <2>1 DEF Agent
  <2>3. agent \in Agent /\ sent \in Frame /\ heard \in Nat
    BY DEF TypeOK
  <2>4. agent.txTTR \in Nat /\ agent.txDelayWhile \in Nat
    BY <2>1, <2>3 DEF Agent
  <2> QED
    BY <2>2, <2>3, <2>4
<1>2. TxNext(a) \in TxStates \cup {"INFO_FRAME"}
  BY TxNextCases DEF TxStates
<1>3. CASE TxNext(a) = old_tx_state
  <2>1. TxNext(a) = a.tx_state
    BY <1>2, <1>3, TxNextCases DEF TxKept, TxStates
  <2>2. b = [a EXCEPT !.tx_state = a.tx_state] /\ TxFrame(a) = NoFrame
    BY <1>3, <2>1, FrameFacts DEF TxStep
  <2>3. b = a
    BY <2>2 DEF Agent
  <2>4. ASSUME a.tx_state = "IDLE", sent.kind = "info"
        PROVE  /\ sent.ttl > 0
               /\ sent.ttl = a.txTTL =>
                    /\ CountDown(heard) > 0
                    /\ CountDown(heard) >= a.txTTR
                    /\ CountDown(heard) >= a.txDelayWhile
    <3>1. sent.ttl > 0
      BY <2>4 DEF TxKept
    <3>2. ASSUME sent.ttl = a.txTTL
          PROVE  heard > 0 /\ heard >= agent.txTTR /\ heard >= agent.txDelayWhile
      BY <2>4, <3>2 DEF TxKept
    <3>3. a.txDelayWhile # 0 \/ a.txTTR # 0
      BY <2>1, <2>4, TxNextCases
    <3> QED
      BY <1>1, <3>1, <3>2, <3>3 DEF CountDown
  <2>5. a.tx_state # "IDLE" => sent.kind # "info"
    BY DEF TxKept
  <2>6. a.tx_state = "IDLE" => a.txTTL > 0
    BY DEF TxKept
  <2> QED
    BY <2>2, <2>3, <2>4, <2>5, <2>6 DEF TxKept
<1>4. CASE TxNext(a) # old_tx_state
  <2>1. b = TxEntered(a, TxNext(a))
    BY <1>4 DEF TxStep
  <2>2. /\ b \in Agent
        /\ b.rx_state = a.rx_state /\ b.rxInfoTTL = a.rxInfoTTL
        /\ b.remote = a.remote
    BY <1>2, <2>1, EnteredFacts
  <2>3. CASE TxNext(a) = "INITIALIZE"
    <3>1. b.tx_state = "INITIALIZE" /\ TxFrame(a) = NoFrame
      BY <1>2, <1>4, <2>1, <2>3, EnteredFacts, FrameFacts
    <3>2. agent.tx_state # "IDLE"
      BY <2>3, TxNextCases
    <3>3. sent.kind # "info"
      BY <3>2 DEF TxKept
    <3> QED
      BY <2>2, <3>1, <3>3 DEF TxKept
  <2>4. CASE TxNext(a) = "IDLE"
    <3>1. b.tx_state = "IDLE" /\ b.txTTL = interval * Hold /\ TxFrame(a) = NoFrame
      BY <1>2, <1>4, <2>1, <2>4, EnteredFacts, FrameFacts
    <3>2. agent.tx_state # "IDLE"
      BY <1>4, <2>4, TxNextCases DEF TxKept
    <3>3. sent.kind # "info"
      BY <3>2 DEF TxKept
    <3>4. interval * Hold > 0
      BY IntervalFacts
    <3> QED
      BY <2>2, <3>1, <3>3, <3>4 DEF TxKept
  <2>5. CASE TxNext(a) = "SHUTDOWN_FRAME"
    <3>1. /\ b.tx_state = "SHUTDOWN_FRAME"
          /\ TxFrame(a) = [kind |-> "shutdown", ttl |-> 0]
      BY <1>2, <1>4, <2>1, <2>5, EnteredFacts, FrameFacts
    <3>2. TxFrame(a) # NoFrame
      BY <3>1 DEF NoFrame
    <3> QED
      BY <2>2, <3>1, <3>2 DEF TxKept
  <2>6. CASE TxNext(a) = "INFO_FRAME"
    <3>1. /\ b.tx_state = "IDLE" /\ b.txTTL = interval * Hold
          /\ b.txTTR = interval /\ b.txDelayWhile = TxDelay
          /\ TxFrame(a) = [kind |-> "info", ttl |-> a.txTTL]
      BY <1>2, <1>4, <2>1, <2>6, EnteredFacts, FrameFacts
    <3>2. TxFrame(a) # NoFrame /\ TxFrame(a).ttl = a.txTTL
      BY <3>1 DEF NoFrame
    <3>3. a.txTTL > 0
      BY <2>6, TxNextCases DEF TxKept
    <3>4. /\ interval * Hold > 0 /\ interval * Hold >= interval
          /\ interval * Hold >= TxDelay
      BY IntervalFacts
    <3> QED
      BY <2>2, <3>1, <3>2, <3>3, <3>4 DEF TxKept
  <2> QED
    BY <1>2, <2>2, <2>3, <2>4, <2>5, <2>6 DEF TxStates
<1> QED
  BY <1>3, <1>4

-----------------------------------------------------------------------------
(* One step of the receive machine. *)

LEMMA RxNextCases ==
  ASSUME NEW a \in Agent
  PROVE  \/ /\ a.rx_state = "WAIT_PORT_OPERATIONAL" /\ RxNext(a) = "INITIALIZE"
         \/ /\ a.rx_state = "INITIALIZE"
            /\ RxNext(a) \in {"INITIALIZE", "WAIT_FOR_FRAME"}
         \/ /\ a.rx_state = "WAIT_FOR_FRAME" /\ a.rxInfoAge
            /\ RxNext(a) = "DELETE_INFO"
         \/ /\ a.rx_state = "WAIT_FOR_FRAME" /\ ~a.rxInfoAge
            /\ RxNext(a) \in {"INITIALIZE", "WAIT_FOR_FRAME"}
<1>1. /\ a.rx_state \in {"WAIT_PORT_OPERATIONAL", "INITIALIZE", "WAIT_FOR_FRAME"}
      /\ a.rxInfoAge \in BOOLEAN
  BY DEF Agent, RxStates
<1>2. CASE a.rx_state = "WAIT_PORT_OPERATIONAL"
  BY <1>2 DEF RxNext
<1>3. CASE a.rx_state = "INITIALIZE" /\ RxEnabled(a)
  BY <1>3 DEF RxNext
<1>4. CASE a.rx_state = "INITIALIZE" /\ ~RxEnabled(a)
  BY <1>4 DEF RxNext
<1>5. CASE a.rx_state = "WAIT_FOR_FRAME" /\ a.rxInfoAge
  BY <1>5 DEF RxNext
<1>6. CASE a.rx_state = "WAIT_FOR_FRAME" /\ ~a.rxInfoAge /\ ~RxEnabled(a)
  BY <1>6 DEF RxNext
<1>7. CASE a.rx_state = "WAIT_FOR_FRAME" /\ ~a.rxInfoAge /\ RxEnabled(a)
  BY <1>7 DEF RxNext
<1> QED
  BY <1>1, <1>2, <1>3, <1>4, <1>5, <1>6, <1>7

LEMMA RxStepFacts ==
  ASSUME NEW b \in Agent, RxKept(b, old_rx_state), NEW c, c = RxStep(RxCounted(b))
  PROVE  /\ c \in Agent
         /\ c.tx_state = b.tx_state /\ c.txTTL = b.txTTL
         /\ c.txTTR = b.txTTR /\ c.txDelayWhile = b.txDelayWhile
         /\ RxKept(c, c.rx_state)
         /\ c.remote # {} => c.remote = b.remote /\ c.rxInfoTTL = CountDown(b.rxInfoTTL)
<1> DEFINE a == RxCounted(b)
<1>1. b.rxInfoTTL \in 0..MaxTtl /\ b.rxInfoAge \in BOOLEAN /\ MaxTtl \in Nat
  BY ParameterAssumption DEF Agent, ParameterAssumption
<1>2. CountDown(b.rxInfoTTL) \in 0..MaxTtl
  BY <1>1 DEF CountDown
<1>3. a = [b EXCEPT !.rxInfoTTL = CountDown(b.rxInfoTTL),
                    !.rxInfoAge = (b.rxInfoAge \/ b.rxInfoTTL = 1)]
  BY DEF RxCounted
<1>4. /\ a \in Agent
      /\ a.tx_state = b.tx_state /\ a.txTTL = b.txTTL
      /\ a.txTTR = b.txTTR /\ a.txDelayWhile = b.txDelayWhile
      /\ a.rx_state = b.rx_state /\ a.remote = b.remote
      /\ a.rxInfoTTL = CountDown(b.rxInfoTTL)
      /\ a.rxInfoAge = (b.rxInfoAge \/ b.rxInfoTTL = 1)
  BY <1>1, <1>2, <1>3 DEF Agent
<1> HIDE DEF a
<1>5. c = RxStep(a)
  BY DEF a
<1>6. CASE RxNext(a) = old_rx_state
  <2>1. RxNext(a) = a.rx_state
    BY <1>4, <1>6, RxNextCases DEF RxKept
  <2>2. c = a
    BY <1>4, <1>5, <1>6, <2>1 DEF RxStep, Agent
  <2>3. ASSUME a.remote # {}
        PROVE  a.rx_state = "WAIT_FOR_FRAME" /\ a.rxInfoTTL > 0
    <3>1. b.rx_state = "WAIT_FOR_FRAME" /\ b.rxInfoTTL > 0
      BY <1>4, <2>3 DEF RxKept
    <3>2. ~a.rxInfoAge
      BY <1>4, <2>1, <3>1, RxNextCases
    <3>3. b.rxInfoTTL # 1
      BY <1>1, <1>4, <3>2
    <3> QED
      BY <1>1, <1>4, <3>1, <3>3 DEF CountDown
  <2> QED
    BY <1>4, <2>2, <2>3 DEF RxKept
<1>7. CASE RxNext(a) # old_rx_state
  <2>1. c = RxEntered(a, RxNext(a))
    BY <1>5, <1>7 DEF RxStep
  <2>2. RxNext(a) \in {"INITIALIZE", "WAIT_FOR_FRAME", "DELETE_INFO"}
    BY <1>4, RxNextCases
  <2>3. CASE RxNext(a) = "INITIALIZE"
    <3>1. c = [a EXCEPT !.rx_state = "INITIALIZE", !.remote = {}]
      BY <2>1, <2>3 DEF RxEntered
    <3> QED
      BY <1>4, <3>1 DEF RxKept, Agent, RxStates
  <2>4. CASE RxNext(a) = "WAIT_FOR_FRAME"
    <3>1. c = [a EXCEPT !.rx_state = "WAIT_FOR_FRAME", !.rxInfoAge = FALSE]
      BY <2>1, <2>4 DEF RxEntered
    <3>2. a.remote = {}
      BY <1>4, <1>7, <2>4, RxNextCases DEF RxKept
    <3> QED
      BY <1>4, <3>1, <3>2 DEF RxKept, Agent, RxStates
  <2>5. CASE RxNext(a) = "DELETE_INFO"
    <3>1. c = [a EXCEPT !.rx_state = "WAIT_FOR_FRAME", !.rxInfoAge = FALSE, !.remote = {}]
      BY <2>1, <2>5 DEF RxEntered
    <3> QED
      BY <1>4, <3>1 DEF RxKept, Agent, RxStates
  <2> QED
    BY <2>2, <2>3, <2>4, <2>5
<1> QED
  BY <1>6, <1>7
-----------------------------------------------------------------------------
(* The copies under way. *)

LEMMA Single == ASSUME NEW x \in {Unknown} \cup Agent
                PROVE  /\ <<x>> \in Copies /\ Len(<<x>>) = 1
                       /\ <<x>> # <<>> /\ (<<x>>)[1] = x /\ Head(<<x>>) = x
BY DEF Copies

LEMMA Empty == <<>> \in Copies /\ Len(<<>>) = 0
BY DEF Copies

\* A queue of copies after the agent became a.
LEMMA AgedFacts ==
  ASSUME NEW queue \in Copies, Len(queue) <= 1, Current(queue),
         NEW a, NEW q, q = Aged(queue, a)
  PROVE  /\ q \in Copies /\ Len(q) <= 1
         /\ q # <<>> /\ q[1] # Unknown => a # Unknown /\ SameMachines(q[1], a)
<1>1. CASE a = agent \/ queue = <<>>
  <2>1. q = queue
    BY <1>1 DEF Aged
  <2> QED
    BY <1>1, <2>1 DEF Current
<1>2. CASE ~(a = agent \/ queue = <<>>)
  <2>1. q = <<Unknown>>
    BY <1>2 DEF Aged
  <2> QED
    BY <2>1, Single
<1> QED
  BY <1>1, <1>2

\* A step of the agent leaves the copies what they have to be.
LEMMA BecomesFacts ==
  ASSUME TypeOK, CopiesInv, NEW a, Becomes(a)
  PROVE  /\ agent' = a
         /\ getQueue' \in Copies /\ Len(getQueue') <= 1
         /\ setQueue' \in Copies /\ Len(setQueue') <= 1
         /\ CopiesInv'
<1>1. /\ getQueue \in Copies /\ Len(getQueue) <= 1 /\ Current(getQueue)
      /\ setQueue \in Copies /\ Len(setQueue) <= 1 /\ Current(setQueue)
  BY DEF TypeOK, CopiesInv
<1>2. /\ agent' = a
      /\ getQueue' = Aged(getQueue, a) /\ setQueue' = Aged(setQueue, a)
  BY DEF Becomes
<1>3. /\ getQueue' \in Copies /\ Len(getQueue') <= 1
      /\ getQueue' # <<>> /\ getQueue'[1] # Unknown =>
           a # Unknown /\ SameMachines(getQueue'[1], a)
  BY <1>1, <1>2, AgedFacts
<1>4. /\ setQueue' \in Copies /\ Len(setQueue') <= 1
      /\ setQueue' # <<>> /\ setQueue'[1] # Unknown =>
           a # Unknown /\ SameMachines(setQueue'[1], a)
  BY <1>1, <1>2, AgedFacts
<1>5. CopiesInv'
  BY <1>2, <1>3, <1>4 DEF CopiesInv, Current
<1> QED
  BY <1>2, <1>3, <1>4, <1>5

\* What the machines keep depends on their own fields only.
LEMMA TxKeptSame ==
  ASSUME NEW a, NEW b, NEW old, NEW frame, NEW ticks, TxKept(a, old, frame, ticks),
         b.tx_state = a.tx_state, b.txTTL = a.txTTL,
         b.txTTR = a.txTTR, b.txDelayWhile = a.txDelayWhile
  PROVE  TxKept(b, old, frame, ticks)
BY DEF TxKept

LEMMA RxKeptSame ==
  ASSUME NEW a, NEW b, NEW old, RxKept(a, old),
         b.rx_state = a.rx_state, b.rxInfoTTL = a.rxInfoTTL, b.remote = a.remote
  PROVE  RxKept(b, old)
BY DEF RxKept

-----------------------------------------------------------------------------
(* The tasks. *)

LEMMA TickKeeps == ASSUME IInv, Tick PROVE IInv'
<1>1. /\ TypeOK /\ CopiesInv /\ agent # Unknown
      /\ TxKept(agent, old_tx_state, sent, heard)
      /\ RxKept(agent, old_rx_state)
  BY DEF IInv, MachinesInv, Tick
<1>2. PICK m \in BOOLEAN :
        \E counted \in {TxCounted(Synchronized, m)} :
        \E rx \in {RxCounted(TxStep(counted))} :
        \E stepped \in {RxStep(rx)}, frame \in {TxFrame(counted)} :
          /\ g_adminStatus' = counted.adminStatus
          /\ interval' = IntervalAfter(counted)
          /\ IF frame = NoFrame THEN UNCHANGED sent /\ heard' = CountDown(heard)
             ELSE sent' = frame /\ heard' = frame.ttl
          /\ old_tx_state' = stepped.tx_state
          /\ old_rx_state' = stepped.rx_state
          /\ Becomes(stepped)
  BY DEF Tick
<1> DEFINE a == TxCounted(Synchronized, m)
           b == TxStep(a)
           c == RxStep(RxCounted(b))
<1>3. /\ g_adminStatus' = a.adminStatus
      /\ interval' = IntervalAfter(a)
      /\ IF TxFrame(a) = NoFrame THEN sent' = sent /\ heard' = CountDown(heard)
         ELSE sent' = TxFrame(a) /\ heard' = TxFrame(a).ttl
      /\ old_tx_state' = c.tx_state
      /\ old_rx_state' = c.rx_state
      /\ Becomes(c)
  BY <1>2
<1>4. UNCHANGED <<snmp, getEvent, setEvent, timedOut>>
  BY DEF Tick, mibVars
<1>5. /\ a \in Agent
      /\ a.tx_state = agent.tx_state /\ a.txTTL = agent.txTTL
      /\ a.txTTR = CountDown(agent.txTTR)
      /\ a.txDelayWhile = CountDown(agent.txDelayWhile)
      /\ a.rx_state = agent.rx_state /\ a.rxInfoTTL = agent.rxInfoTTL
      /\ a.remote = agent.remote
  BY <1>1, CountedFacts
<1> HIDE DEF a
<1>6. /\ b \in Agent
      /\ b.rx_state = a.rx_state /\ b.rxInfoTTL = a.rxInfoTTL
      /\ b.remote = a.remote
      /\ IF TxFrame(a) = NoFrame
         THEN TxKept(b, b.tx_state, sent, CountDown(heard))
         ELSE TxKept(b, b.tx_state, TxFrame(a), TxFrame(a).ttl)
  BY <1>1, <1>5, TxStepFacts
<1> HIDE DEF b
<1>7. RxKept(b, old_rx_state)
  BY <1>1, <1>5, <1>6, RxKeptSame
<1>8. /\ c \in Agent
      /\ c.tx_state = b.tx_state /\ c.txTTL = b.txTTL
      /\ c.txTTR = b.txTTR /\ c.txDelayWhile = b.txDelayWhile
      /\ RxKept(c, c.rx_state)
  BY <1>6, <1>7, RxStepFacts
<1> HIDE DEF c
<1>9. /\ agent' = c
      /\ getQueue' \in Copies /\ Len(getQueue') <= 1
      /\ setQueue' \in Copies /\ Len(setQueue') <= 1
      /\ CopiesInv'
  BY <1>1, <1>3, BecomesFacts
<1>10. TxKept(c, c.tx_state, sent', heard')
  <2>1. TxKept(b, b.tx_state, sent', heard')
    BY <1>3, <1>6
  <2> QED
    BY <1>8, <2>1, TxKeptSame
<1>11. MachinesInv'
  BY <1>3, <1>8, <1>9, <1>10 DEF MachinesInv
<1>12. sent' \in Frame /\ heard' \in Nat
  <2>1. sent \in Frame /\ heard \in Nat /\ TxFrame(a) \in Frame
    BY <1>1, <1>5, FrameFacts DEF TypeOK
  <2>2. CountDown(heard) \in Nat /\ TxFrame(a).ttl \in Nat
    BY <2>1, CountDownType DEF Frame
  <2> QED
    BY <1>3, <2>1, <2>2
<1>13. /\ a.adminStatus \in AdminStates
       /\ c.tx_state \in TxStates /\ c.rx_state \in RxStates
  BY <1>5, <1>8 DEF Agent
<1>14. interval' \in Intervals
  BY <1>1, <1>3, ParameterAssumption DEF IntervalAfter, TypeOK, ParameterAssumption
<1>15. TypeOK'
  BY <1>1, <1>3, <1>4, <1>8, <1>9, <1>12, <1>13, <1>14 DEF TypeOK
<1> QED
  BY <1>9, <1>11, <1>15 DEF IInv

\* The receive task changes what is known of the neighbors, and nothing else.
LEMMA ReceptionKeeps ==
  ASSUME IInv, agent # Unknown, agent.rx_state = "WAIT_FOR_FRAME",
         NEW remote \in SUBSET Neighbors, NEW ttl \in 0..MaxTtl,
         remote # {} => ttl > 0,
         Becomes([agent EXCEPT !.rxInfoAge = FALSE, !.remote = remote, !.rxInfoTTL = ttl]),
         UNCHANGED <<g_adminStatus, interval, tickVars, mibVars>>
  PROVE  IInv'
<1> DEFINE a == [agent EXCEPT !.rxInfoAge = FALSE, !.remote = remote, !.rxInfoTTL = ttl]
<1>1. /\ TypeOK /\ CopiesInv /\ agent \in Agent
      /\ TxKept(agent, old_tx_state, sent, heard)
      /\ RxKept(agent, old_rx_state)
  BY DEF IInv, MachinesInv, TypeOK
<1>2. /\ a \in Agent
      /\ a.tx_state = agent.tx_state /\ a.txTTL = agent.txTTL
      /\ a.txTTR = agent.txTTR /\ a.txDelayWhile = agent.txDelayWhile
      /\ a.rx_state = "WAIT_FOR_FRAME" /\ a.rxInfoTTL = ttl /\ a.remote = remote
  BY <1>1 DEF Agent
<1> HIDE DEF a
<1>3. /\ agent' = a
      /\ getQueue' \in Copies /\ Len(getQueue') <= 1
      /\ setQueue' \in Copies /\ Len(setQueue') <= 1
      /\ CopiesInv'
  BY <1>1, BecomesFacts DEF a
<1>4. UNCHANGED <<g_adminStatus, interval, old_tx_state, old_rx_state, sent, heard,
                  snmp, getEvent, setEvent, timedOut>>
  BY DEF tickVars, mibVars
<1>5. TxKept(a, old_tx_state, sent, heard) /\ RxKept(a, old_rx_state)
  BY <1>1, <1>2, TxKeptSame DEF RxKept
<1>6. MachinesInv'
  BY <1>3, <1>4, <1>5 DEF MachinesInv
<1>7. TypeOK'
  BY <1>1, <1>2, <1>3, <1>4 DEF TypeOK
<1> QED
  BY <1>3, <1>6, <1>7 DEF IInv

LEMMA ReceiveKeeps ==
  ASSUME IInv, NEW n \in Neighbors, NEW ttl \in 0..MaxTtl, Receive(n, ttl)
  PROVE  IInv'
<1>1. /\ agent # Unknown /\ agent.rx_state = "WAIT_FOR_FRAME"
      /\ agent \in Agent /\ RxKept(agent, old_rx_state)
      /\ UNCHANGED <<g_adminStatus, interval, tickVars, mibVars>>
  BY DEF Receive, IInv, MachinesInv, TypeOK
<1>2. /\ agent.remote \in SUBSET Neighbors /\ agent.rxInfoTTL \in 0..MaxTtl
      /\ agent.remote # {} => agent.rxInfoTTL > 0
  BY <1>1 DEF Agent, RxKept
<1> DEFINE Changed(remote, left) ==
             [agent EXCEPT !.rxInfoAge = FALSE, !.remote = remote, !.rxInfoTTL = left]
<1>3. \/ Becomes(Changed({}, agent.rxInfoTTL))
      \/ ttl > 0 /\ Becomes(Changed(agent.remote \cup {n}, ttl))
      \/ Becomes(Changed(agent.remote, agent.rxInfoTTL))
  <2> DEFINE reset == [agent EXCEPT !.rxInfoAge = FALSE]
  <2>1. /\ [reset EXCEPT !.remote = {}] = Changed({}, agent.rxInfoTTL)
        /\ Updated(reset, n, ttl) = Changed(agent.remote \cup {n}, ttl)
        /\ reset = Changed(agent.remote, agent.rxInfoTTL)
    BY <1>1 DEF Agent, Updated
  <2>2. \/ Becomes([reset EXCEPT !.remote = {}])
        \/ ttl > 0 /\ Becomes(Updated(reset, n, ttl))
        \/ Becomes(reset)
    BY DEF Receive
  <2> QED
    BY <2>1, <2>2
<1>4. CASE Becomes(Changed({}, agent.rxInfoTTL))
  BY <1>1, <1>2, <1>4, ReceptionKeeps
<1>5. CASE ttl > 0 /\ Becomes(Changed(agent.remote \cup {n}, ttl))
  <2>1. agent.remote \cup {n} \in SUBSET Neighbors
    BY <1>2
  <2> QED
    BY <1>1, <1>5, <2>1, ReceptionKeeps
<1>6. CASE Becomes(Changed(agent.remote, agent.rxInfoTTL))
  BY <1>1, <1>2, <1>6, ReceptionKeeps
<1> QED
  BY <1>3, <1>4, <1>5, <1>6

LEMMA ReceiveBadKeeps == ASSUME IInv, ReceiveBad PROVE IInv'
<1>1. /\ agent # Unknown /\ agent.rx_state = "WAIT_FOR_FRAME"
      /\ agent \in Agent /\ RxKept(agent, old_rx_state)
      /\ UNCHANGED <<g_adminStatus, interval, tickVars, mibVars>>
      /\ Becomes([agent EXCEPT !.rxInfoAge = FALSE])
  BY DEF ReceiveBad, IInv, MachinesInv, TypeOK
<1>2. /\ agent.remote \in SUBSET Neighbors /\ agent.rxInfoTTL \in 0..MaxTtl
      /\ agent.remote # {} => agent.rxInfoTTL > 0
  BY <1>1 DEF Agent, RxKept
<1>3. [agent EXCEPT !.rxInfoAge = FALSE] =
        [agent EXCEPT !.rxInfoAge = FALSE, !.remote = agent.remote,
                      !.rxInfoTTL = agent.rxInfoTTL]
  BY <1>1 DEF Agent
<1>4. Becomes([agent EXCEPT !.rxInfoAge = FALSE, !.remote = agent.remote,
                            !.rxInfoTTL = agent.rxInfoTTL])
  BY <1>1, <1>3
<1> QED
  BY <1>1, <1>2, <1>4, ReceptionKeeps
-----------------------------------------------------------------------------
(* CIP and SNMP. *)

\* Whatever leaves the agent and the machines alone has to care for copies only.
LEMMA AgentStays ==
  ASSUME IInv, UNCHANGED <<agent, tickVars>>,
         g_adminStatus' \in AdminStates, interval' \in Intervals,
         snmp' \in {"idle", "get", "set"},
         getEvent' \in BOOLEAN, setEvent' \in BOOLEAN, timedOut' \in BOOLEAN,
         getQueue' \in Copies, Len(getQueue') <= 1, Current(getQueue)',
         setQueue' \in Copies, Len(setQueue') <= 1, Current(setQueue)'
  PROVE  IInv'
<1>1. UNCHANGED <<agent, old_tx_state, old_rx_state, sent, heard>>
  BY DEF tickVars
<1>2. TypeOK'
  BY <1>1 DEF IInv, TypeOK
<1>3. MachinesInv'
  BY <1>1 DEF IInv, MachinesInv
<1> QED
  BY <1>2, <1>3 DEF IInv, CopiesInv

LEMMA CurrentStays ==
  ASSUME NEW queue \in Copies, NEW q, q = queue, agent' = agent, Current(queue)
  PROVE  q # <<>> /\ q[1] # Unknown => agent' # Unknown /\ SameMachines(q[1], agent')
BY DEF Current

LEMMA IsCurrent == ASSUME TypeOK
                   PROVE  /\ <<agent>> \in Copies /\ Len(<<agent>>) <= 1
                          /\ agent' = agent /\ getQueue' = <<agent>> => Current(getQueue)'
<1>1. agent \in {Unknown} \cup Agent
  BY DEF TypeOK
<1>2. <<agent>> \in Copies /\ Len(<<agent>>) = 1 /\ (<<agent>>)[1] = agent
  BY <1>1, Single
<1> QED
  BY <1>2 DEF Current, SameMachines

LEMMA CipSetKeeps == ASSUME IInv, CipSet PROVE IInv'
<1>1. /\ UNCHANGED <<agent, tickVars, getQueue, setQueue, snmp, getEvent, setEvent, timedOut>>
      /\ TypeOK /\ Current(getQueue) /\ Current(setQueue)
  BY DEF CipSet, mibVars, queues, IInv, CopiesInv
<1>2. Current(getQueue)' /\ Current(setQueue)'
  BY <1>1 DEF Current
<1>3. g_adminStatus' \in AdminStates
  <2>1. {"disabled", WithTx(g_adminStatus), WithoutTx(g_adminStatus)} \subseteq AdminStates
    BY DEF WithTx, WithoutTx, AdminStates, TxOnStates, RxOnStates
  <2>2. g_adminStatus' = g_adminStatus
          \/ g_adminStatus' \in {"disabled", WithTx(g_adminStatus), WithoutTx(g_adminStatus)}
    BY DEF CipSet
  <2> QED
    BY <1>1, <2>1, <2>2 DEF TypeOK
<1>4. interval' \in Intervals
  BY <1>1 DEF CipSet, TypeOK
<1> QED
  BY <1>1, <1>2, <1>3, <1>4, AgentStays DEF TypeOK

LEMMA GetMibKeeps == ASSUME IInv, GetMib PROVE IInv'
<1>1. /\ UNCHANGED <<g_adminStatus, interval, agent, tickVars, setQueue, snmp, setEvent, timedOut>>
      /\ getEvent' = FALSE
      /\ getQueue' = getQueue \/ getQueue' = <<agent>>
      /\ TypeOK /\ Current(getQueue) /\ Current(setQueue)
  BY DEF GetMib, IInv, CopiesInv
<1>2. Current(setQueue)'
  BY <1>1 DEF Current
<1>3. getQueue' \in Copies /\ Len(getQueue') <= 1 /\ Current(getQueue)'
  <2>1. CASE getQueue' = getQueue
    BY <1>1, <2>1 DEF Current, TypeOK
  <2>2. CASE getQueue' = <<agent>>
    BY <1>1, <2>2, IsCurrent
  <2> QED
    BY <1>1, <2>1, <2>2
<1> QED
  BY <1>1, <1>2, <1>3, AgentStays DEF TypeOK

\* What the SNMP agent posts: a copy of the agent as it is, or Unknown.
LEMMA PostsFacts ==
  ASSUME TypeOK, Current(setQueue), agent' = agent, NEW copy \in {Unknown} \cup Agent,
         copy # Unknown => agent # Unknown /\ SameMachines(copy, agent),
         Posts(copy)
  PROVE  /\ snmp' = "set"
         /\ setQueue' \in Copies /\ Len(setQueue') <= 1 /\ Current(setQueue)'
<1>1. /\ snmp' = "set"
      /\ setQueue' = setQueue \/ setQueue' = <<copy>>
  BY DEF Posts
<1>2. CASE setQueue' = setQueue
  BY <1>1, <1>2 DEF Current, TypeOK
<1>3. CASE setQueue' = <<copy>>
  <2>1. /\ <<copy>> \in Copies /\ Len(<<copy>>) = 1 /\ (<<copy>>)[1] = copy
    BY Single
  <2> QED
    BY <1>1, <1>3, <2>1 DEF Current
<1> QED
  BY <1>1, <1>2, <1>3

LEMMA EditedFacts ==
  ASSUME NEW copy \in {Unknown} \cup Agent,
         copy # Unknown => agent # Unknown /\ SameMachines(copy, agent),
         NEW edited \in Edited(copy)
  PROVE  /\ edited \in {Unknown} \cup Agent
         /\ edited # Unknown => agent # Unknown /\ SameMachines(edited, agent)
<1>1. CASE edited = copy
  BY <1>1
<1>2. CASE edited # copy
  <2>1. /\ copy # Unknown /\ copy \in Agent
        /\ agent # Unknown /\ SameMachines(copy, agent)
    BY <1>2 DEF Edited
  <2>2. PICK status \in AdminStates :
          edited = [copy EXCEPT !.adminStatus = status, !.snmpChangeStatus = TRUE]
    BY <1>2, <2>1 DEF Edited
  <2>3. edited \in Agent
    BY <2>1, <2>2 DEF Agent
  <2>4. SameMachines(edited, agent)
    BY <2>1, <2>2 DEF Agent, SameMachines
  <2> QED
    BY <2>1, <2>3, <2>4
<1> QED
  BY <1>1, <1>2

LEMMA SnmpGetsKeeps == ASSUME IInv, SnmpGets PROVE IInv'
<1> DEFINE copy == Head(getQueue)
<1>1. /\ UNCHANGED <<g_adminStatus, agent, tickVars, getEvent, setEvent, timedOut>>
      /\ getQueue # <<>> /\ getQueue' = <<>> /\ Uses(copy)
      /\ TypeOK /\ Current(getQueue) /\ Current(setQueue)
      /\ getQueue \in Copies /\ agent' = agent
  BY DEF SnmpGets, IInv, CopiesInv, TypeOK
<1>2. /\ copy = getQueue[1] /\ copy \in {Unknown} \cup Agent
  BY <1>1 DEF Copies
<1>3. copy # Unknown => agent # Unknown /\ SameMachines(copy, agent)
  BY <1>1, <1>2 DEF Current
<1> HIDE DEF copy
<1>4. /\ snmp' \in {"idle", "get", "set"} /\ interval' \in Intervals
      /\ setQueue' \in Copies /\ Len(setQueue') <= 1 /\ Current(setQueue)'
  <2>1. CASE snmp' = "idle" /\ UNCHANGED <<interval, setQueue>>
    BY <1>1, <2>1 DEF Current, TypeOK
  <2>2. ASSUME NEW edited \in Edited(copy), Posts(edited), UNCHANGED interval
        PROVE  /\ snmp' \in {"idle", "get", "set"} /\ interval' \in Intervals
               /\ setQueue' \in Copies /\ Len(setQueue') <= 1 /\ Current(setQueue)'
    <3>1. /\ edited \in {Unknown} \cup Agent
          /\ edited # Unknown => agent # Unknown /\ SameMachines(edited, agent)
      BY <1>2, <1>3, <2>2, EditedFacts
    <3> QED
      BY <1>1, <2>2, <3>1, PostsFacts DEF TypeOK
  <2>3. CASE interval' \in Intervals /\ Posts(copy)
    BY <1>1, <1>2, <1>3, <2>3, PostsFacts
  <2> QED
    BY <1>1, <2>1, <2>2, <2>3 DEF Uses
<1>5. getQueue' \in Copies /\ Len(getQueue') <= 1 /\ Current(getQueue)'
  BY <1>1, Empty DEF Current
<1> QED
  BY <1>1, <1>4, <1>5, AgentStays DEF TypeOK

LEMMA SnmpGetsNothingKeeps == ASSUME IInv, SnmpGetsNothing PROVE IInv'
<1>1. /\ UNCHANGED <<g_adminStatus, interval, agent, tickVars, getQueue, getEvent, setEvent>>
      /\ timedOut' = TRUE /\ agent' = agent
      /\ (snmp' = "idle" /\ UNCHANGED setQueue) \/ Posts(Unknown)
      /\ TypeOK /\ Current(getQueue) /\ Current(setQueue)
  BY DEF SnmpGetsNothing, IInv, CopiesInv
<1>2. Current(getQueue)'
  BY <1>1 DEF Current
<1>3. /\ snmp' \in {"idle", "get", "set"}
      /\ setQueue' \in Copies /\ Len(setQueue') <= 1 /\ Current(setQueue)'
  <2>1. CASE snmp' = "idle" /\ UNCHANGED setQueue
    BY <1>1, <2>1 DEF Current, TypeOK
  <2>2. CASE Posts(Unknown)
    BY <1>1, <2>2, PostsFacts
  <2> QED
    BY <1>1, <2>1, <2>2
<1> QED
  BY <1>1, <1>2, <1>3, AgentStays DEF TypeOK

\* A stored copy is the agent as it is in all that the machines keep.
LEMMA SetMibKeeps == ASSUME IInv, SetMib PROVE IInv'
<1> DEFINE copy == Head(setQueue)
<1>1. /\ UNCHANGED <<g_adminStatus, interval, tickVars, snmp, getEvent, timedOut>>
      /\ setQueue # <<>> /\ setQueue' = <<>> /\ setEvent' = TRUE
      /\ agent' = copy /\ getQueue' = Aged(getQueue, copy)
      /\ TypeOK /\ MachinesInv /\ Current(getQueue) /\ Current(setQueue)
      /\ getQueue \in Copies /\ Len(getQueue) <= 1 /\ setQueue \in Copies
  BY DEF SetMib, IInv, CopiesInv, TypeOK
<1>2. copy = setQueue[1] /\ copy \in {Unknown} \cup Agent
  BY <1>1 DEF Copies
<1>3. copy # Unknown => agent # Unknown /\ SameMachines(copy, agent)
  BY <1>1, <1>2 DEF Current
<1> HIDE DEF copy
<1>4. /\ getQueue' \in Copies /\ Len(getQueue') <= 1
      /\ getQueue' # <<>> /\ getQueue'[1] # Unknown =>
           copy # Unknown /\ SameMachines(getQueue'[1], copy)
  BY <1>1, AgedFacts
<1>5. UNCHANGED <<old_tx_state, old_rx_state, sent, heard>>
  BY <1>1 DEF tickVars
<1>6. MachinesInv'
  <2> SUFFICES ASSUME copy # Unknown
               PROVE  TxKept(copy, old_tx_state, sent, heard) /\ RxKept(copy, old_rx_state)
    BY <1>1, <1>5 DEF MachinesInv
  <2>1. /\ SameMachines(copy, agent)
        /\ TxKept(agent, old_tx_state, sent, heard) /\ RxKept(agent, old_rx_state)
    BY <1>1, <1>3 DEF MachinesInv
  <2>2. /\ copy.tx_state = agent.tx_state /\ copy.txTTL = agent.txTTL
        /\ copy.txTTR = agent.txTTR /\ copy.txDelayWhile = agent.txDelayWhile
        /\ copy.rx_state = agent.rx_state /\ copy.rxInfoTTL = agent.rxInfoTTL
        /\ copy.remote = agent.remote
    BY <2>1 DEF SameMachines
  <2> QED
    BY <2>1, <2>2, TxKeptSame, RxKeptSame
<1>7. CopiesInv'
  BY <1>1, <1>4 DEF CopiesInv, Current
<1>8. TypeOK'
  BY <1>1, <1>2, <1>4, <1>5, Empty DEF TypeOK
<1> QED
  BY <1>6, <1>7, <1>8 DEF IInv

\* The steps of the SNMP agent that touch no copy.
LEMMA SnmpStepKeeps ==
  ASSUME IInv, SnmpAsks \/ SnmpIsAnswered \/ SnmpGivesUp
  PROVE  IInv'
<1>1. /\ UNCHANGED <<g_adminStatus, interval, agent, tickVars, getQueue, setQueue>>
      /\ TypeOK /\ Current(getQueue) /\ Current(setQueue)
  BY DEF SnmpAsks, SnmpIsAnswered, SnmpGivesUp, queues, IInv, CopiesInv
<1>2. Current(getQueue)' /\ Current(setQueue)'
  BY <1>1 DEF Current
<1>3. /\ snmp' \in {"idle", "get", "set"}
      /\ getEvent' \in BOOLEAN /\ setEvent' \in BOOLEAN /\ timedOut' \in BOOLEAN
  BY <1>1 DEF SnmpAsks, SnmpIsAnswered, SnmpGivesUp, TypeOK
<1> QED
  BY <1>1, <1>2, <1>3, AgentStays DEF TypeOK

-----------------------------------------------------------------------------
(* The inductive invariant, and the theorems. *)

LEMMA Initial == Init => IInv
<1> SUFFICES ASSUME Init PROVE IInv
  OBVIOUS
<1>1. /\ "enabledRxTx" \in AdminStates
      /\ "INITIALIZE" \in TxStates /\ "WAIT_PORT_OPERATIONAL" \in RxStates
      /\ 0 \in 0..ReinitDelay /\ 0 \in 0..TxDelay /\ 0 \in 0..MaxTtl
      /\ {} \in SUBSET Neighbors /\ DefaultInterval \in Intervals
  BY ParameterAssumption
     DEF AdminStates, TxOnStates, RxOnStates, TxStates, RxStates, ParameterAssumption
<1>2. /\ agent \in Agent
      /\ agent.tx_state = "INITIALIZE" /\ agent.remote = {}
      /\ agent.rx_state = "WAIT_PORT_OPERATIONAL"
  <2>1. agent = [adminStatus |-> "enabledRxTx", snmpChangeStatus |-> FALSE,
                 tx_state |-> "INITIALIZE", txShutdownWhile |-> 0,
                 txDelayWhile |-> 0, txTTR |-> 0, txTTL |-> 0,
                 somethingChangedLocal |-> FALSE,
                 rx_state |-> "WAIT_PORT_OPERATIONAL", rxInfoTTL |-> 0,
                 rxInfoAge |-> FALSE, remote |-> {}]
    BY DEF Init
  <2>2. 0 \in Nat /\ FALSE \in BOOLEAN
    OBVIOUS
  <2>3. agent \in Agent
    BY <1>1, <2>1, <2>2, Zenon DEF Agent
  <2> QED
    BY <2>1, <2>3
<1>3. sent \in Frame /\ sent.kind = "none" /\ heard = 0
  <2>1. sent = [kind |-> "none", ttl |-> 0] /\ heard = 0
    BY DEF Init, NoFrame
  <2>2. 0 \in Nat
    OBVIOUS
  <2>3. sent \in Frame
    BY <2>1, <2>2, Zenon DEF Frame
  <2> QED
    BY <2>1, <2>3
<1>4. TypeOK
  <2>1. /\ g_adminStatus = "enabledRxTx" /\ interval = DefaultInterval
        /\ old_tx_state = "none" /\ old_rx_state = "none"
        /\ snmp = "idle" /\ getEvent = FALSE /\ setEvent = FALSE
        /\ getQueue = <<>> /\ setQueue = <<>> /\ timedOut = FALSE
    BY DEF Init
  <2>2. /\ getQueue \in Copies /\ Len(getQueue) <= 1
        /\ setQueue \in Copies /\ Len(setQueue) <= 1 /\ heard \in Nat
    BY <1>3, <2>1, Empty
  <2>3. /\ g_adminStatus \in AdminStates /\ interval \in Intervals
        /\ agent \in {Unknown} \cup Agent
        /\ old_tx_state \in TxStates \cup {"none"}
        /\ old_rx_state \in RxStates \cup {"none"}
        /\ snmp \in {"idle", "get", "set"}
        /\ getEvent \in BOOLEAN /\ setEvent \in BOOLEAN /\ timedOut \in BOOLEAN
    BY <1>1, <1>2, <2>1
  <2> QED
    BY <1>3, <2>2, <2>3 DEF TypeOK
<1>5. MachinesInv
  BY <1>2, <1>3 DEF Init, MachinesInv, TxKept, RxKept
<1>6. CopiesInv
  BY DEF Init, CopiesInv, Current
<1> QED
  BY <1>4, <1>5, <1>6 DEF IInv

LEMMA StutterKeeps == ASSUME IInv, UNCHANGED vars PROVE IInv'
<1>1. /\ UNCHANGED <<g_adminStatus, interval, agent, old_tx_state, old_rx_state, sent, heard>>
      /\ UNCHANGED <<snmp, getEvent, setEvent, timedOut, getQueue, setQueue>>
  BY DEF vars, tickVars, mibVars, queues
<1>2. TypeOK'
  BY <1>1 DEF IInv, TypeOK
<1>3. MachinesInv'
  BY <1>1 DEF IInv, MachinesInv
<1>4. CopiesInv'
  BY <1>1 DEF IInv, CopiesInv, Current
<1> QED
  BY <1>2, <1>3, <1>4 DEF IInv

\* The inductive invariant holds in every state of every behaviour.
THEOREM Invariant == Spec => []IInv
<1>1. IInv /\ [Next]_vars => IInv'
  <2> SUFFICES ASSUME IInv, [Next]_vars PROVE IInv'
    OBVIOUS
  <2>1. CASE Tick
    BY <2>1, TickKeeps
  <2>2. CASE AnyFrame
    <3>1. PICK n \in Neighbors, ttl \in 0..MaxTtl : Receive(n, ttl)
      BY <2>2 DEF AnyFrame
    <3> QED
      BY <3>1, ReceiveKeeps
  <2>3. CASE ReceiveBad
    BY <2>3, ReceiveBadKeeps
  <2>4. CASE CipSet
    BY <2>4, CipSetKeeps
  <2>5. CASE GetMib
    BY <2>5, GetMibKeeps
  <2>6. CASE SnmpGets
    BY <2>6, SnmpGetsKeeps
  <2>7. CASE SnmpGetsNothing
    BY <2>7, SnmpGetsNothingKeeps
  <2>8. CASE SetMib
    BY <2>8, SetMibKeeps
  <2>9. CASE SnmpAsks \/ SnmpIsAnswered \/ SnmpGivesUp
    BY <2>9, SnmpStepKeeps
  <2>10. CASE UNCHANGED vars
    BY <2>10, StutterKeeps
  <2> QED
    BY <2>1, <2>2, <2>3, <2>4, <2>5, <2>6, <2>7, <2>8, <2>9, <2>10 DEF Next
<1> QED
  BY Initial, <1>1, PTL DEF Spec

\* Type correctness, for every value of the constants.
THEOREM TypeCorrect == Spec => []TypeOK
<1>1. IInv => TypeOK
  BY DEF IInv
<1> QED
  BY Invariant, <1>1, PTL

\* An agent that has stopped transmitting has sent its shutdown frame.
THEOREM ShutdownIsAnnounced == Spec => []ShutdownAnnounced
<1>1. IInv => ShutdownAnnounced
  BY DEF IInv, MachinesInv, TxKept, ShutdownAnnounced
<1> QED
  BY Invariant, <1>1, PTL

\* The next information frame is sent before the last one expires.
THEOREM NeighborsHoldOn == Spec => []NeighborsKeepUs
<1>1. IInv => NeighborsKeepUs
  BY DEF IInv, MachinesInv, TxKept, NeighborsKeepUs
<1> QED
  BY Invariant, <1>1, PTL

\* A neighbor is known only to an agent that listens, and while its time runs.
THEOREM RemoteAlive == Spec => []RemoteIsAlive
<1>1. IInv => RemoteIsAlive
  BY DEF IInv, MachinesInv, RxKept, RemoteIsAlive
<1> QED
  BY Invariant, <1>1, PTL

\* An answer belongs to its request as long as no wait has timed out.
THEOREM AnswersAreMatched == Spec => []AnswersMatch
<1>1. Init => AnswersMatch
  BY DEF Init, AnswersMatch
<1>2. TypeOK /\ AnswersMatch /\ [Next]_vars => AnswersMatch'
  <2> SUFFICES ASSUME TypeOK, AnswersMatch, [Next]_vars PROVE AnswersMatch'
    OBVIOUS
  <2>1. ASSUME NEW a, Becomes(a), UNCHANGED mibVars
        PROVE  AnswersMatch'
    <3>1. /\ (getQueue' = <<>>) = (getQueue = <<>>)
          /\ (setQueue' = <<>>) = (setQueue = <<>>)
      BY <2>1 DEF Becomes, Aged
    <3> QED
      BY <2>1, <3>1 DEF AnswersMatch, mibVars
  <2>2. CASE Tick
    <3>1. (\E a : Becomes(a)) /\ UNCHANGED mibVars
      BY <2>2 DEF Tick
    <3> QED
      BY <2>1, <3>1
  <2>3. CASE AnyFrame
    <3>1. (\E a : Becomes(a)) /\ UNCHANGED mibVars
      BY <2>3 DEF AnyFrame, Receive
    <3> QED
      BY <2>1, <3>1
  <2>4. CASE ReceiveBad
    <3>1. (\E a : Becomes(a)) /\ UNCHANGED mibVars
      BY <2>4 DEF ReceiveBad
    <3> QED
      BY <2>1, <3>1
  <2>5. CASE CipSet
    BY <2>5 DEF CipSet, AnswersMatch, mibVars, queues
  <2>6. CASE SnmpAsks
    BY <2>6 DEF SnmpAsks, AnswersMatch, queues
  <2>7. CASE GetMib
    <3>1. ASSUME ~timedOut
          PROVE  /\ snmp = "get" /\ getQueue = <<>> /\ ~setEvent /\ setQueue = <<>>
      BY <2>7, <3>1 DEF GetMib, AnswersMatch, TypeOK
    <3>2. <<agent>> # <<>>
      OBVIOUS
    <3> QED
      BY <2>7, <3>1, <3>2 DEF GetMib, AnswersMatch
  <2>8. CASE SnmpGets
    <3>1. /\ snmp = "get" /\ getQueue # <<>> /\ getQueue' = <<>>
          /\ UNCHANGED <<getEvent, setEvent, timedOut>>
          /\ \/ snmp' = "idle" /\ UNCHANGED setQueue
             \/ \E copy : Posts(copy)
      BY <2>8 DEF SnmpGets, Uses
    <3>2. ASSUME ~timedOut
          PROVE  ~getEvent /\ ~setEvent /\ setQueue = <<>>
      BY <3>1, <3>2 DEF AnswersMatch
    <3>3. CASE snmp' = "idle" /\ UNCHANGED setQueue
      BY <3>1, <3>2, <3>3 DEF AnswersMatch
    <3>4. ASSUME NEW copy, Posts(copy)
          PROVE  AnswersMatch'
      <4>1. snmp' = "set" /\ (setQueue = <<>> => setQueue' # <<>>)
        BY <3>4 DEF Posts
      <4> QED
        BY <3>1, <3>2, <4>1 DEF AnswersMatch
    <3> QED
      BY <3>1, <3>3, <3>4
  <2>9. CASE SnmpGetsNothing
    BY <2>9 DEF SnmpGetsNothing, AnswersMatch
  <2>10. CASE SetMib
    <3>1. ASSUME ~timedOut
          PROVE  snmp = "set" /\ ~getEvent /\ getQueue = <<>>
      BY <2>10, <3>1 DEF SetMib, AnswersMatch, TypeOK
    <3>2. getQueue = <<>> => getQueue' = <<>>
      BY <2>10 DEF SetMib, Aged
    <3> QED
      BY <2>10, <3>1, <3>2 DEF SetMib, AnswersMatch
  <2>11. CASE SnmpIsAnswered
    BY <2>11 DEF SnmpIsAnswered, AnswersMatch, queues
  <2>12. CASE SnmpGivesUp
    BY <2>12 DEF SnmpGivesUp, AnswersMatch
  <2>13. CASE UNCHANGED vars
    BY <2>13 DEF vars, mibVars, queues, AnswersMatch
  <2> QED
    BY <2>2, <2>3, <2>4, <2>5, <2>6, <2>7, <2>8, <2>9, <2>10, <2>11, <2>12, <2>13 DEF Next
<1> QED
  BY TypeCorrect, <1>1, <1>2, PTL DEF Spec
-----------------------------------------------------------------------------
(* How what is known of the neighbors ages.                                *)

\* Without a frame of theirs: a tick takes one off the time they have left, until it takes
\* off all that is known of them; whatever else happens leaves both alone, a copy that
\* SNMP stores back included.
Ages ==
  ~AnyFrame /\ agent # Unknown /\ agent' # Unknown =>
    IF Tick THEN \/ agent'.remote = {}
                 \/ /\ agent'.remote = agent.remote
                    /\ agent'.rxInfoTTL > 0 /\ agent'.rxInfoTTL + 1 = agent.rxInfoTTL
    ELSE agent'.remote = agent.remote /\ agent'.rxInfoTTL = agent.rxInfoTTL

LEMMA TickAges ==
  ASSUME IInv, Tick
  PROVE  \/ agent'.remote = {}
         \/ /\ agent'.remote = agent.remote
            /\ agent'.rxInfoTTL > 0 /\ agent'.rxInfoTTL + 1 = agent.rxInfoTTL
<1>1. /\ TypeOK /\ agent # Unknown /\ agent \in Agent
      /\ TxKept(agent, old_tx_state, sent, heard)
      /\ RxKept(agent, old_rx_state)
  BY DEF IInv, MachinesInv, Tick, TypeOK
<1>2. PICK m \in BOOLEAN :
        \E counted \in {TxCounted(Synchronized, m)} :
        \E rx \in {RxCounted(TxStep(counted))} :
        \E stepped \in {RxStep(rx)} : Becomes(stepped)
  BY DEF Tick
<1> DEFINE a == TxCounted(Synchronized, m)
           b == TxStep(a)
           c == RxStep(RxCounted(b))
<1>3. agent' = c
  BY <1>2 DEF Becomes
<1>4. /\ a \in Agent
      /\ a.tx_state = agent.tx_state /\ a.txTTL = agent.txTTL
      /\ a.txTTR = CountDown(agent.txTTR)
      /\ a.txDelayWhile = CountDown(agent.txDelayWhile)
      /\ a.rx_state = agent.rx_state /\ a.rxInfoTTL = agent.rxInfoTTL
      /\ a.remote = agent.remote
  BY <1>1, CountedFacts
<1> HIDE DEF a
<1>5. /\ b \in Agent
      /\ b.rx_state = agent.rx_state /\ b.rxInfoTTL = agent.rxInfoTTL
      /\ b.remote = agent.remote
  BY <1>1, <1>4, TxStepFacts
<1> HIDE DEF b
<1>6. /\ c \in Agent /\ RxKept(c, c.rx_state)
      /\ c.remote # {} => c.remote = b.remote /\ c.rxInfoTTL = CountDown(b.rxInfoTTL)
  <2>1. RxKept(b, old_rx_state)
    BY <1>1, <1>5, RxKeptSame
  <2> QED
    BY <1>5, <2>1, RxStepFacts
<1> HIDE DEF c
<1>7. ASSUME c.remote # {}
      PROVE  /\ c.remote = agent.remote
             /\ c.rxInfoTTL > 0 /\ c.rxInfoTTL + 1 = agent.rxInfoTTL
  <2>1. c.rxInfoTTL > 0 /\ c.rxInfoTTL = CountDown(agent.rxInfoTTL)
    BY <1>5, <1>6, <1>7 DEF RxKept
  <2>2. agent.rxInfoTTL \in Nat
    BY <1>1, ParameterAssumption DEF Agent, ParameterAssumption
  <2> QED
    BY <1>5, <1>6, <1>7, <2>1, <2>2 DEF CountDown
<1> QED
  BY <1>3, <1>7

\* The table of a port empties without fail once its neighbors fall silent: after at most
\* as many ticks as the last of them announced seconds (rxInfoTTL,
\* LWIP_LLDP_rx_state_machine).
THEOREM SilenceForgets == Spec => [][Ages]_vars
<1>1. ASSUME IInv, Next PROVE Ages
  <2> SUFFICES ASSUME ~AnyFrame, agent # Unknown, agent' # Unknown, ~Tick
               PROVE  agent'.remote = agent.remote /\ agent'.rxInfoTTL = agent.rxInfoTTL
    BY <1>1, TickAges DEF Ages
  <2>1. CASE ReceiveBad
    <3>1. agent \in Agent /\ agent' = [agent EXCEPT !.rxInfoAge = FALSE]
      BY <1>1, <2>1 DEF ReceiveBad, Becomes, IInv, TypeOK
    <3> QED
      BY <3>1 DEF Agent
  <2>2. CASE SetMib
    <3>1. setQueue \in Copies /\ setQueue # <<>> /\ agent' = setQueue[1] /\ Current(setQueue)
      BY <1>1, <2>2 DEF SetMib, IInv, CopiesInv, TypeOK, Copies
    <3> QED
      BY <3>1 DEF Current, SameMachines
  <2>3. CASE CipSet \/ SnmpAsks \/ GetMib \/ SnmpGets \/ SnmpGetsNothing
             \/ SnmpIsAnswered \/ SnmpGivesUp
    BY <2>3 DEF CipSet, SnmpAsks, GetMib, SnmpGets, SnmpGetsNothing, SnmpIsAnswered, SnmpGivesUp
  <2> QED
    BY <1>1, <2>1, <2>2, <2>3 DEF Next
<1>2. IInv /\ [Next]_vars => [Ages]_vars
  BY <1>1
<1> QED
  BY Invariant, <1>2, PTL DEF Spec
=============================================================================
