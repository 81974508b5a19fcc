--------------------------- MODULE DlrRingProofs ---------------------------
(***************************************************************************)
(* The state of the node's software against the state of the switch: proofs *)
(* of NodeStateFollowsHardware and SettledNodeShowsTheRing of DlrNode, and, *)
(* for supervisors of distinct precedences, of StaleTableIsFlushed.  The    *)
(* inductive invariants are RingInv and FlushComes; they rest on            *)
(* TypeCorrect of DlrNodeProofs.                                            *)
(***************************************************************************)
EXTENDS DlrNodeProofs

-----------------------------------------------------------------------------
(* A queue of events against the set h of what its last report may show, or *)
(* the node, which shows s, when it holds no report.                       *)

Reports(q) == {i \in 1..Len(q) : q[i].event = "NEWSTATE"}

\* What a report, and a node, shows of the ring.
Shows(e) == [state |-> e.state, source |-> e.beacon.source]
NodeShows == [state |-> node_state, source |-> rx_beacon_info.source]

Follows(q, s, h) ==
  /\ Reports(q) = {} => s \in h
  /\ \A i \in Reports(q) : (\A j \in Reports(q) : j <= i) => Shows(q[i]) \in h

LEMMA FollowsWider ==
  ASSUME NEW q, NEW s, NEW h, NEW g, h \subseteq g, Follows(q, s, h)
  PROVE  Follows(q, s, g)
BY DEF Follows

\* An event at the back is a report of h, or is no report.
LEMMA FollowsAppend ==
  ASSUME NEW q \in Seq(DlrEvent), NEW e \in DlrEvent, NEW s, NEW h,
         \/ e.event = "NEWSTATE" /\ Shows(e) \in h
         \/ e.event # "NEWSTATE" /\ Follows(q, s, h)
  PROVE  Follows(Append(q, e), s, h)
<1> DEFINE r == Append(q, e)
<1>1. /\ Len(r) = Len(q) + 1
      /\ \A i \in 1..Len(q) : r[i] = q[i]
      /\ r[Len(q) + 1] = e
      /\ Len(q) \in Nat
  OBVIOUS
<1> HIDE DEF r
<1>2. CASE e.event = "NEWSTATE" /\ Shows(e) \in h
  <2>1. Len(q) + 1 \in Reports(r)
    BY <1>1, <1>2 DEF Reports
  <2>2. \A i \in Reports(r) : (\A j \in Reports(r) : j <= i) => i = Len(q) + 1
    BY <1>1, <2>1 DEF Reports
  <2>3. Follows(r, s, h)
    BY <1>1, <1>2, <2>1, <2>2 DEF Follows
  <2>4. QED
    BY <2>3 DEF r
<1>3. CASE e.event # "NEWSTATE" /\ Follows(q, s, h)
  <2>1. Reports(r) = Reports(q)
    BY <1>1, <1>3 DEF Reports
  <2>2. \A i \in Reports(q) : r[i] = q[i]
    BY <1>1 DEF Reports
  <2>3. Follows(r, s, h)
    BY <1>3, <2>1, <2>2 DEF Follows
  <2>4. QED
    BY <2>3 DEF r
<1>4. QED
  BY <1>2, <1>3

\* An event at the front that is no report moves the reports back by one.
LEMMA FollowsFront ==
  ASSUME NEW q \in Seq(DlrEvent), NEW e \in DlrEvent, NEW s, NEW h,
         e.event # "NEWSTATE", Follows(q, s, h)
  PROVE  Follows(<<e>> \o q, s, h)
<1> DEFINE r == <<e>> \o q
<1>1. /\ Len(r) = Len(q) + 1
      /\ r[1] = e
      /\ \A i \in 1..Len(q) : r[i + 1] = q[i]
      /\ Len(q) \in Nat
  OBVIOUS
<1> HIDE DEF r
<1>2. \A i \in Reports(q) : i + 1 \in Reports(r) /\ r[i + 1] = q[i]
  BY <1>1 DEF Reports
<1>3. ASSUME NEW i \in Reports(r)
      PROVE  i - 1 \in Reports(q) /\ r[i] = q[i - 1] /\ i \in Nat
  <2>1. i \in 1..(Len(q) + 1) /\ i # 1
    BY <1>1, <1>3 DEF Reports
  <2>2. i - 1 \in 1..Len(q) /\ i = (i - 1) + 1
    BY <1>1, <2>1
  <2>3. r[i] = q[i - 1]
    BY <1>1, <2>2
  <2>4. QED
    BY <1>3, <2>1, <2>2, <2>3 DEF Reports
<1>4. Reports(r) = {} => s \in h
  BY <1>2 DEF Follows
<1>5. ASSUME NEW i \in Reports(r), \A j \in Reports(r) : j <= i
      PROVE  Shows(r[i]) \in h
  <2>1. \A j \in Reports(q) : j <= i - 1
    BY <1>1, <1>2, <1>3, <1>5 DEF Reports
  <2>2. QED
    BY <1>3, <2>1 DEF Follows
<1>6. Follows(r, s, h)
  BY <1>4, <1>5 DEF Follows
<1>7. QED
  BY <1>6 DEF r

\* Handling the first event: a report makes the node's state its own, any other
\* event leaves the state alone.
LEMMA FollowsTail ==
  ASSUME NEW q \in Seq(DlrEvent), q # <<>>, NEW s, NEW t, NEW h,
         Follows(q, s, h),
         IF Head(q).event = "NEWSTATE" THEN t = Shows(Head(q)) ELSE t = s
  PROVE  Follows(Tail(q), t, h)
<1> DEFINE r == Tail(q)
<1>1. /\ Len(r) = Len(q) - 1
      /\ Head(q) = q[1]
      /\ \A i \in 1..Len(r) : r[i] = q[i + 1]
      /\ Len(q) \in Nat \ {0}
  OBVIOUS
<1> HIDE DEF r
<1>2. ASSUME NEW i \in Reports(r)
      PROVE  i + 1 \in Reports(q) /\ r[i] = q[i + 1] /\ i \in Nat \ {0}
  BY <1>1, <1>2 DEF Reports
<1>3. ASSUME NEW i \in Reports(q), i # 1
      PROVE  i - 1 \in Reports(r) /\ i \in Nat
  <2>1. i - 1 \in 1..Len(r) /\ i = (i - 1) + 1
    BY <1>1, <1>3 DEF Reports
  <2>2. QED
    BY <1>1, <1>3, <2>1 DEF Reports
<1>4. ASSUME Reports(r) = {}
      PROVE  t \in h
  <2>1. CASE Head(q).event = "NEWSTATE"
    <3>1. 1 \in Reports(q)
      BY <1>1, <2>1 DEF Reports
    <3>2. \A j \in Reports(q) : j <= 1
      BY <1>3, <1>4
    <3>3. QED
      BY <1>1, <2>1, <3>1, <3>2 DEF Follows
  <2>2. CASE Head(q).event # "NEWSTATE"
    <3>1. 1 \notin Reports(q)
      BY <1>1, <2>2 DEF Reports
    <3>2. Reports(q) = {}
      BY <1>3, <1>4, <3>1
    <3>3. QED
      BY <2>2, <3>2 DEF Follows
  <2>3. QED
    BY <2>1, <2>2
<1>5. ASSUME NEW i \in Reports(r), \A j \in Reports(r) : j <= i
      PROVE  Shows(r[i]) \in h
  <2>1. ASSUME NEW j \in Reports(q)
        PROVE  j <= i + 1
    BY <1>2, <1>3, <1>5
  <2>2. QED
    BY <1>2, <1>5, <2>1 DEF Follows
<1>6. Follows(r, t, h)
  BY <1>4, <1>5 DEF Follows
<1>7. QED
  BY <1>6 DEF r

-----------------------------------------------------------------------------
(* The state of the node and what it shows of it.                          *)

\* What shows the ring: its state, and a supervisor that the active one does not
\* rank below.
Agreeing ==
  {v \in [state : NodeStates, source : AnySupervisor] :
     v.state = hw.state /\ PrecedenceOf(v.source) <= PrecedenceOf(hw.source)}

\* The strengthening of NodeStateFollowsHardware: only the interrupt handler
\* reports states, the beacon the node has copied is not from a supervisor above
\* the active one, and the attributes are those of the node's state.
NodeAgrees ==
  lost \/ NEWSTATUS \in Pending \/ Follows(exec_queue, NodeShows, Agreeing)

HeldIsNoReport == \A i \in 1..Len(held) : held[i].event # "NEWSTATE"

HasSupervisor == hw.state # "IDLE" => hw.source \in Supervisors

AttributesShowState ==
  /\ attributes.topology = NetworkTopology(node_state)
  /\ attributes.status = NetworkStatus(node_state)

RingInv == TypeOK /\ NodeAgrees /\ HeldIsNoReport /\ HasSupervisor /\ AttributesShowState

\* A node that agrees follows the switch.
LEMMA AgreeingFollows == NodeAgrees => NodeStateFollowsHardware
<1>1. Queued({"NEWSTATE"}) = Reports(exec_queue) /\ Reports(exec_queue) \subseteq 1..Len(exec_queue)
  BY DEF Queued, Reports
<1>2. /\ NodeShows \in Agreeing => node_state = hw.state
      /\ \A i \in Reports(exec_queue) :
           Shows(exec_queue[i]) \in Agreeing => exec_queue[i].state = hw.state
  BY DEF Agreeing, NodeShows, Shows
<1>3. ASSUME Follows(exec_queue, NodeShows, Agreeing)
      PROVE  /\ Queued({"NEWSTATE"}) = {} => node_state = hw.state
             /\ \A i \in 1..Len(exec_queue) : LastReport(i) => exec_queue[i].state = hw.state
  BY <1>1, <1>2, <1>3 DEF Follows, LastReport
<1>4. QED
  BY <1>3 DEF NodeAgrees, NodeStateFollowsHardware

\* Precedences are numbers.
LEMMA PrecedenceIsNat == \A s \in AnySupervisor : PrecedenceOf(s) \in Nat
<1>1. ASSUME NEW s \in Supervisors PROVE Precedence[s] \in Nat
  <2>1. Precedence[s] \in 0..255
    BY SupervisorAssumption
  <2>2. QED
    BY <2>1
<1>2. QED
  BY <1>1 DEF PrecedenceOf, AnySupervisor

\* Only a report moves the state of the node, the beacon it has copied and its
\* attributes.
LEMMA HandlerState ==
  ASSUME FsmTypeOK, AttributesShowState, NEW e \in DlrEvent, NEW f, ExecuteWithEvent(e, f)
  PROVE  /\ NodeShows' = IF e.event = "NEWSTATE" THEN Shows(e) ELSE NodeShows
         /\ AttributesShowState'
<1>1. CASE e.event = "NEWSTATE"
  <2>1. EventNewState(e)
    BY <1>1 DEF ExecuteWithEvent
  <2>2. QED
    BY <1>1, <2>1 DEF EventNewState, AttributesShowState, FsmTypeOK,
       NetworkTopology, NetworkStatus, NodeShows, Shows
<1>2. CASE e.event = "NEWSUPERVISOR"
  <2>1. EventNewSupervisor(e)
    BY <1>2 DEF ExecuteWithEvent
  <2>2. QED
    BY <1>2, <2>1 DEF EventNewSupervisor, AttributesShowState, FsmTypeOK,
       NetworkTopology, NetworkStatus, NodeShows
<1>3. CASE e.event # "NEWSTATE" /\ e.event # "NEWSUPERVISOR"
  <2>1. UNCHANGED nodeVars
    BY <1>3 DEF ExecuteWithEvent, EventLinkLost, EventLinkRestore, EventBeaconTimeout,
       EventFlushTable, EventLocateFault, StartNeighborCheck, EventNeighborCheckResponse,
       EventNeighborTimeout, EventAnswered, fsmVars
  <2>2. QED
    BY <1>3, <2>1 DEF nodeVars, AttributesShowState, NetworkTopology, NetworkStatus, NodeShows
<1>4. QED
  BY <1>1, <1>2, <1>3

\* The interrupt handler reports the state and the supervisor of the switch.
LEMMA IsrEventReports ==
  ASSUME TypeOK, NEW bit \in IrqBits
  PROVE  /\ IF bit = NEWSTATUS
            THEN IsrEvent(bit).event = "NEWSTATE" /\ Shows(IsrEvent(bit)) \in Agreeing
            ELSE IsrEvent(bit).event # "NEWSTATE"
         /\ bit = SUVICHNG => IsrEvent(bit).event = "NEWSUPERVISOR"
         /\ IsrEvent(bit).beacon.source = hw.source
<1>1. /\ IF bit = NEWSTATUS THEN IsrEvent(bit).event = "NEWSTATE"
                            ELSE IsrEvent(bit).event # "NEWSTATE"
      /\ bit = SUVICHNG => IsrEvent(bit).event = "NEWSUPERVISOR"
      /\ IsrEvent(bit).beacon.source = hw.source /\ IsrEvent(bit).state = hw.state
  BY DEF IsrEvent, EventOf, NEWSTATUS, SUVICHNG, BEACONTMO, LNKCHNG, LOCALLOOP, IrqBits, Ports
<1>2. hw.state \in NodeStates /\ hw.source \in AnySupervisor
  BY DEF TypeOK, Hardware
<1>3. Shows(IsrEvent(bit)) \in Agreeing
  BY <1>1, <1>2, PrecedenceIsNat DEF Shows, Agreeing
<1>4. QED
  BY <1>1, <1>3

\* The switch announces a change of state with NEWSTATUS.  A supervisor that takes
\* over in the same state outranks the other one, and is announced with SUVICHNG.
TakesOver ==
  /\ hw.state = "FAULT" /\ SUVICHNG \in irq'
  /\ hw.source \in Supervisors /\ hw'.source \in Supervisors
  /\ hw'.source # hw.source /\ PrecedenceOf(hw'.source) >= PrecedenceOf(hw.source)

LEMMA HardwareMoves ==
  ASSUME TypeOK, HasSupervisor, HwNext
  PROVE  /\ UNCHANGED <<exec_queue, node_state, rx_beacon_info, attributes, lost, scan, held>>
         /\ irq \subseteq irq' /\ HasSupervisor'
         /\ mac_stale' = (mac_stale \/ hw'.state # hw.state \/ hw'.source # hw.source)
         /\ \/ NEWSTATUS \in irq'
            \/ hw'.state = hw.state /\ (hw'.source = hw.source \/ TakesOver)
<1> DEFINE Change ==
      /\ UNCHANGED <<exec_queue, node_state, rx_beacon_info, attributes, lost, scan, held>>
      /\ irq \subseteq irq'
      /\ mac_stale' = (mac_stale \/ hw'.state # hw.state \/ hw'.source # hw.source)
<1>h. hw \in Hardware /\ SUVICHNG # NEWSTATUS
  BY DEF TypeOK, SUVICHNG, NEWSTATUS
<1>1. ASSUME NEW kind, NEW new, NEW bits, HwChange(kind, new, bits)
      PROVE  Change /\ hw' = new /\ irq' = irq \cup bits
  BY <1>1 DEF HwChange, nodeVars, taskVars
<1> HIDE DEF Change
<1>2. ASSUME NEW p \in Ports, NEW s \in Supervisors, HwFirstBeacon(p, s)
      PROVE  Change /\ NEWSTATUS \in irq' /\ hw'.source \in Supervisors
  <2> DEFINE new == [hw EXCEPT !.state = "FAULT", !.source = s, !.last_port = {p}]
  <2>1. PICK more \in SUBSET {SUVICHNG} : HwChange("beacon", new, {NEWSTATUS} \cup more)
    BY <1>2 DEF HwFirstBeacon
  <2>2. new.source = s
    BY <1>h DEF Hardware
  <2> HIDE DEF new
  <2>3. QED
    BY <1>1, <2>1, <2>2
<1>3. ASSUME NEW p \in Ports, NEW s \in Supervisors, HwNewSupervisor(p, s)
      PROVE  /\ Change
             /\ hw'.source \in Supervisors
             /\ NEWSTATUS \in irq' \/ (hw'.state = hw.state /\ TakesOver)
  <2> DEFINE new == [hw EXCEPT !.state = "FAULT", !.source = s, !.last_port = {p}]
             bits == {SUVICHNG} \cup (IF hw.state = "NORMAL" THEN {NEWSTATUS} ELSE {})
  <2>1. /\ HwChange("supervisor", new, bits) /\ hw.state # "IDLE" /\ s # hw.source
        /\ Outranks(s, hw.source)
    BY <1>3 DEF HwNewSupervisor
  <2>2. Change /\ hw' = new /\ irq' = irq \cup bits
    BY <1>1, <2>1
  <2>3. new.state = "FAULT" /\ new.source = s /\ hw.state \in NodeStates
    BY <1>h DEF Hardware
  <2>4. SUVICHNG \in bits /\ (hw.state = "NORMAL" => NEWSTATUS \in bits)
    OBVIOUS
  <2>5. hw.source \in Supervisors
    BY <2>1 DEF HasSupervisor
  <2>6. PrecedenceOf(s) >= PrecedenceOf(hw.source)
    BY <2>1, <2>5, PrecedenceIsNat DEF Outranks, AnySupervisor
  <2> HIDE DEF new, bits
  <2>7. hw.state = "FAULT" \/ NEWSTATUS \in irq'
    BY <2>1, <2>2, <2>3, <2>4 DEF NodeStates
  <2>8. QED
    BY <2>1, <2>2, <2>3, <2>4, <2>5, <2>6, <2>7 DEF TakesOver
<1>4. ASSUME NEW p \in Ports, HwRingClosed(p)
      PROVE  Change /\ NEWSTATUS \in irq' /\ hw.state # "IDLE" /\ hw'.source = hw.source
  <2> DEFINE new == [hw EXCEPT !.state = "NORMAL", !.last_port = Ports]
  <2>1. HwChange("beacon", new, {NEWSTATUS}) /\ hw.state # "IDLE"
    BY <1>4 DEF HwRingClosed
  <2>2. new.source = hw.source
    BY <1>h DEF Hardware
  <2> HIDE DEF new
  <2>3. QED
    BY <1>1, <2>1, <2>2
<1>5. ASSUME HwRingFault
      PROVE  Change /\ NEWSTATUS \in irq' /\ hw.state # "IDLE" /\ hw'.source = hw.source
  <2> DEFINE new == [hw EXCEPT !.state = "FAULT"]
  <2>1. HwChange("ringFault", new, {NEWSTATUS}) /\ hw.state # "IDLE"
    BY <1>5 DEF HwRingFault
  <2>2. new.source = hw.source
    BY <1>h DEF Hardware
  <2> HIDE DEF new
  <2>3. QED
    BY <1>1, <2>1, <2>2
<1>6. ASSUME NEW p \in Ports, HwBeaconTimeout(p) \/ HwLinkLost(p)
      PROVE  /\ Change
             /\ NEWSTATUS \in irq' \/ hw'.state = hw.state
             /\ hw'.source = hw.source /\ (hw.state = "IDLE" => hw'.state = "IDLE")
  <2>w. /\ WithoutBeacon(p, hw).source = hw.source
        /\ hw.state = "IDLE" => WithoutBeacon(p, hw).state = "IDLE"
        /\ WithoutBeacon(p, hw) \in Hardware
    BY <1>h DEF WithoutBeacon, Hardware, NodeStates
  <2>1. PICK kind, new, bits : /\ HwChange(kind, new, bits \cup StatusBit(new))
                               /\ new.source = hw.source
                               /\ hw.state = "IDLE" => new.state = "IDLE"
    <3>1. CASE HwBeaconTimeout(p)
      BY <3>1, <2>w DEF HwBeaconTimeout
    <3>2. CASE HwLinkLost(p)
      <4> DEFINE n == [WithoutBeacon(p, hw) EXCEPT !.link = @ \ {p}]
      <4>1. HwChange("linkLost", n, {LNKCHNG(p)} \cup StatusBit(n))
        BY <3>2 DEF HwLinkLost
      <4>2. n.source = hw.source /\ (hw.state = "IDLE" => n.state = "IDLE")
        BY <2>w DEF Hardware
      <4> HIDE DEF n
      <4>3. QED
        BY <4>1, <4>2
    <3>3. QED
      BY <1>6, <3>1, <3>2
  <2>2. Change /\ hw' = new /\ irq' = irq \cup (bits \cup StatusBit(new))
    BY <1>1, <2>1
  <2>3. QED
    BY <2>1, <2>2 DEF StatusBit
<1>7. ASSUME NEW p \in Ports, HwLinkRestored(p) \/ HwOwnFrame(p)
      PROVE  Change /\ hw'.state = hw.state /\ hw'.source = hw.source
  <2> DEFINE new == [hw EXCEPT !.link = @ \cup {p}]
  <2>1. new.state = hw.state /\ new.source = hw.source
    BY <1>h DEF Hardware
  <2>2. \E kind, bits : HwChange(kind, new, bits) \/ HwChange(kind, hw, bits)
    BY <1>7 DEF HwLinkRestored, HwOwnFrame
  <2> HIDE DEF new
  <2>3. QED
    BY <1>1, <2>1, <2>2
<1> DEFINE Moved == /\ Change /\ HasSupervisor'
                    /\ \/ NEWSTATUS \in irq'
                       \/ hw'.state = hw.state /\ (hw'.source = hw.source \/ TakesOver)
<1>8. Moved
  <2>1. ASSUME NEW p \in Ports, NEW s \in Supervisors, HwFirstBeacon(p, s) PROVE Moved
    BY <1>2, <2>1 DEF HasSupervisor
  <2>2. ASSUME NEW p \in Ports, NEW s \in Supervisors, HwNewSupervisor(p, s) PROVE Moved
    BY <1>3, <2>2 DEF HasSupervisor
  <2>3. ASSUME NEW p \in Ports, HwRingClosed(p) PROVE Moved
    BY <1>4, <2>3 DEF HasSupervisor
  <2>4. ASSUME HwRingFault PROVE Moved
    BY <1>5, <2>4 DEF HasSupervisor
  <2>5. ASSUME NEW p \in Ports, HwBeaconTimeout(p) \/ HwLinkLost(p) PROVE Moved
    BY <1>6, <2>5 DEF HasSupervisor
  <2>6. ASSUME NEW p \in Ports, HwLinkRestored(p) \/ HwOwnFrame(p) PROVE Moved
    BY <1>7, <2>6 DEF HasSupervisor
  <2>7. QED
    BY <2>1, <2>2, <2>3, <2>4, <2>5, <2>6 DEF HwNext
<1>9. QED
  BY <1>8 DEF Change

\* A step that leaves the queue, the node and the switch alone.
LEMMA AgreesStutter ==
  ASSUME NodeAgrees, HasSupervisor,
         UNCHANGED <<exec_queue, node_state, rx_beacon_info, lost, hw, Pending>>
  PROVE  NodeAgrees' /\ HasSupervisor'
BY DEF NodeAgrees, HasSupervisor, Follows, Reports, Shows, NodeShows, Agreeing

\* Every step keeps the invariant.
LEMMA RingStep ==
  ASSUME RingInv, [Next]_vars
  PROVE  RingInv'
<1> USE DEF RingInv
<1>t. TypeOK'
  BY NextType
<1>q. exec_queue \in Seq(DlrEvent) /\ held \in Seq(DlrEvent)
  BY DEF TypeOK
<1>n. NodeAgrees'
        <=> (lost' \/ NEWSTATUS \in Pending' \/ Follows(exec_queue', NodeShows', Agreeing'))
  BY DEF NodeAgrees
<1>g. ASSUME UNCHANGED hw
      PROVE  Agreeing' = Agreeing /\ HasSupervisor'
  BY <1>g DEF Agreeing, HasSupervisor
<1>s. ASSUME UNCHANGED <<node_state, rx_beacon_info>>
      PROVE  NodeShows' = NodeShows
  BY <1>s DEF NodeShows
<1>k. ASSUME UNCHANGED <<node_state, rx_beacon_info, lost, hw, irq, scan>>,
             Follows(exec_queue, NodeShows, Agreeing)
               => Follows(exec_queue', NodeShows, Agreeing)
      PROVE  NodeAgrees' /\ HasSupervisor'
  BY <1>k, <1>n, <1>g, <1>s DEF NodeAgrees, Pending
<1>a. ASSUME UNCHANGED <<node_state, attributes>>
      PROVE  AttributesShowState'
  BY <1>a DEF AttributesShowState, NetworkTopology, NetworkStatus
<1>h. ASSUME UNCHANGED held
      PROVE  HeldIsNoReport'
  BY <1>h DEF HeldIsNoReport
<1>1. CASE HwNext
  <2>1. /\ UNCHANGED <<exec_queue, node_state, rx_beacon_info, attributes, lost, scan, held>>
        /\ irq \subseteq irq' /\ HasSupervisor'
        /\ NEWSTATUS \in irq' \/ (hw'.state = hw.state /\ (hw'.source = hw.source \/ TakesOver))
    BY <1>1, HardwareMoves
  <2>2. NodeAgrees'
    <3>1. CASE NEWSTATUS \in irq'
      BY <1>n, <3>1 DEF Pending
    <3>2. CASE hw'.state = hw.state /\ (hw'.source = hw.source \/ TakesOver)
      <4>1. Pending \subseteq Pending'
        BY <2>1 DEF Pending
      <4>2. PrecedenceOf(hw'.source) >= PrecedenceOf(hw.source)
        <5>1. hw.source \in AnySupervisor
          BY DEF TypeOK, Hardware
        <5>2. QED
          BY <3>2, <5>1, PrecedenceIsNat DEF TakesOver
      <4>3. Agreeing \subseteq Agreeing'
        <5>1. hw.source \in AnySupervisor /\ hw'.source \in AnySupervisor
          BY <1>t DEF TypeOK, Hardware
        <5>2. QED
          BY <3>2, <4>2, <5>1, PrecedenceIsNat DEF Agreeing
      <4>4. QED
        BY <1>n, <1>s, <2>1, <4>1, <4>3, FollowsWider DEF NodeAgrees
    <3>3. QED
      BY <2>1, <3>1, <3>2
  <2>3. QED
    BY <1>t, <1>a, <1>h, <2>1, <2>2
<1>2. CASE IsrLatch
  <2>1. /\ Pending' = Pending
        /\ UNCHANGED <<exec_queue, node_state, rx_beacon_info, attributes, lost, hw, held>>
    BY <1>2 DEF IsrLatch, Pending, fsmVars, nodeVars, taskVars
  <2>2. NodeAgrees' /\ HasSupervisor'
    BY <2>1, AgreesStutter
  <2>3. QED
    BY <1>t, <1>a, <1>h, <2>1, <2>2
<1>3. ASSUME NEW bit \in IrqBits, IsrCallback(bit)
      PROVE  RingInv'
  <2>1. /\ UNCHANGED <<node_state, rx_beacon_info, attributes, hw, irq, held>>
        /\ scan' = scan \ {bit} /\ SendFromIsr(IsrEvent(bit))
    BY <1>3 DEF IsrCallback, fsmVars, nodeVars
  <2>s. NodeShows' = NodeShows /\ Agreeing' = Agreeing /\ HasSupervisor'
    BY <1>g, <1>s, <2>1
  <2>2. NodeAgrees'
    <3>1. CASE ~RoomForEvent
      BY <1>n, <2>1, <3>1 DEF SendFromIsr
    <3>2. CASE RoomForEvent
      <4>1. exec_queue' = Append(exec_queue, IsrEvent(bit)) /\ lost' = lost
        BY <2>1, <3>2 DEF SendFromIsr
      <4>2. IsrEvent(bit) \in DlrEvent
        BY IsrEventType
      <4>3. CASE bit = NEWSTATUS
        <5>1. Follows(exec_queue', NodeShows, Agreeing)
          BY <1>q, <4>1, <4>2, <4>3, IsrEventReports, FollowsAppend
        <5>2. QED
          BY <1>n, <2>s, <5>1
      <4>4. CASE bit # NEWSTATUS
        <5>1. CASE lost \/ NEWSTATUS \in Pending
          BY <1>n, <2>1, <4>1, <4>4, <5>1 DEF Pending
        <5>2. CASE Follows(exec_queue, NodeShows, Agreeing)
          <6>1. Follows(exec_queue', NodeShows, Agreeing)
            BY <1>q, <4>1, <4>2, <4>4, <5>2, IsrEventReports, FollowsAppend
          <6>2. QED
            BY <1>n, <2>s, <6>1
        <5>3. QED
          BY <5>1, <5>2 DEF NodeAgrees
      <4>5. QED
        BY <4>3, <4>4
    <3>3. QED
      BY <3>1, <3>2
  <2>3. QED
    BY <1>t, <1>a, <1>h, <2>s, <2>1, <2>2
<1>4. ASSUME NEW name \in FrameKinds, NEW p \in Ports, NEW learn \in BOOLEAN,
             NEW id \in wire[p] \cup {0}, ReceiverTakeFrame(name, p, id, learn)
      PROVE  RingInv'
  <2>1. /\ UNCHANGED <<exec_queue, node_state, rx_beacon_info, attributes, lost, hw, irq, scan>>
        /\ held' = Interpreted(name, p, id, learn)
    BY <1>4 DEF ReceiverTakeFrame, fsmVars, nodeVars, hwVars
  <2>2. name # "NEWSTATE"
    BY QueueAssumption DEF FrameEvents
  <2> DEFINE e == [EventOf(name, {p}) EXCEPT !.id = id, !.learn = learn]
  <2>e. e.event # "NEWSTATE" /\ (held' = <<>> \/ held' = <<e>>)
    BY <2>1, <2>2 DEF Interpreted, EventOf
  <2> HIDE DEF e
  <2>3. HeldIsNoReport'
    BY <2>e DEF HeldIsNoReport
  <2>4. QED
    BY <1>t, <1>a, <1>k, <2>1, <2>3
<1>5. CASE ReceiverSendEvent
  <2>1. /\ UNCHANGED <<node_state, rx_beacon_info, attributes, lost, hw, irq, scan>>
        /\ held # <<>> /\ held' = <<>> /\ exec_queue' = held \o exec_queue
    BY <1>5 DEF ReceiverSendEvent, fsmVars, nodeVars, hwVars
  <2>2. /\ held = <<held[1]>> /\ held[1] \in DlrEvent
        /\ held[1].event # "NEWSTATE"
    <3>0. Len(held) <= 1
      BY DEF TypeOK
    <3>1. Len(held) = 1
      <4>1. held # <<>> => Len(held) # 0
        BY <1>q
      <4>2. Len(held) \in Nat
        BY <1>q
      <4>3. \A n \in Nat : n <= 1 /\ n # 0 => n = 1
        OBVIOUS
      <4>4. QED
        BY <2>1, <3>0, <4>1, <4>2, <4>3
    <3>2. held = <<held[1]>> /\ held[1] \in DlrEvent
      BY <1>q, <3>1
    <3>3. QED
      BY <3>1, <3>2 DEF HeldIsNoReport
  <2>3. HeldIsNoReport'
    BY <2>1 DEF HeldIsNoReport
  <2>4. ASSUME Follows(exec_queue, NodeShows, Agreeing)
        PROVE  Follows(exec_queue', NodeShows, Agreeing)
    BY <1>q, <2>1, <2>2, <2>4, FollowsFront
  <2>5. NodeAgrees' /\ HasSupervisor'
    BY <1>k, <2>1, <2>4
  <2>6. QED
    BY <1>t, <1>a, <2>1, <2>3, <2>5
<1>6. CASE ExecutorTakeEvent
  <2>1. /\ UNCHANGED <<lost, hw, irq, scan, held>>
        /\ exec_queue # <<>> /\ exec_queue' = Tail(exec_queue)
        /\ ExecuteWithEvent(Head(exec_queue), InFlight)
    BY <1>6 DEF ExecutorTakeEvent, hwVars
  <2>e. Head(exec_queue) \in DlrEvent
    BY <1>q, <2>1
  <2>2. /\ NodeShows' = IF Head(exec_queue).event = "NEWSTATE"
                        THEN Shows(Head(exec_queue)) ELSE NodeShows
        /\ AttributesShowState'
    BY <2>1, <2>e, HandlerState DEF TypeOK
  <2>3. ASSUME Follows(exec_queue, NodeShows, Agreeing)
        PROVE  Follows(exec_queue', NodeShows', Agreeing)
    BY <1>q, <2>1, <2>2, <2>3, FollowsTail
  <2>4. NodeAgrees' /\ HasSupervisor'
    BY <1>n, <1>g, <2>1, <2>3 DEF Pending, NodeAgrees
  <2>5. QED
    BY <1>t, <1>h, <2>1, <2>2, <2>4
<1>7. CASE ExecutorPostCommand \/ DaemonTakeCommand \/ (\E p \in Ports : TimerExpires(p))
           \/ CallbackStore \/ CallbackFreeze \/ UNCHANGED vars
  <2>1. UNCHANGED <<exec_queue, node_state, rx_beacon_info, attributes, lost, hw, irq, scan, held>>
    BY <1>7 DEF ExecutorPostCommand, DaemonTakeCommand, TimerExpires, CallbackStore,
       CallbackFreeze, vars, fsmVars, nodeVars, hwVars, taskVars
  <2>2. QED
    BY <1>t, <1>a, <1>h, <1>k, <2>1
<1>8. CASE CallbackSendEvent
  <2> DEFINE e == [EventOf("NEIGHBORTIMEOUT", {daemon.port}) EXCEPT !.count = daemon.value]
  <2>1. /\ UNCHANGED <<node_state, rx_beacon_info, attributes, lost, hw, irq, scan, held>>
        /\ exec_queue' = Append(exec_queue, e)
    BY <1>8 DEF CallbackSendEvent, fsmVars, nodeVars, hwVars
  <2>2. e.event # "NEWSTATE"
    BY DEF EventOf
  <2>3. e \in DlrEvent
    <3>1. daemon.port \in Ports /\ daemon.value \in 0..255
      BY DEF TypeOK, Daemon
    <3>2. EventOf("NEIGHBORTIMEOUT", {daemon.port}) \in DlrEvent
      BY <3>1, EventOfType DEF TimerEvents
    <3>3. QED
      BY <3>1, <3>2 DEF DlrEvent
  <2> HIDE DEF e
  <2>4. ASSUME Follows(exec_queue, NodeShows, Agreeing)
        PROVE  Follows(exec_queue', NodeShows, Agreeing)
    BY <1>q, <2>1, <2>2, <2>3, <2>4, FollowsAppend
  <2>5. NodeAgrees' /\ HasSupervisor'
    BY <1>k, <2>1, <2>4
  <2>6. QED
    BY <1>t, <1>a, <1>h, <2>1, <2>5
<1>9. QED
  BY <1>1, <1>2, <1>3, <1>4, <1>5, <1>6, <1>7, <1>8
  DEF Next, Isr, ReceiverNext, ExecutorNext, DaemonNext, Idle

\* A node that starts is IDLE, as the switch is.
LEMMA RingInit == Init => RingInv
<1> SUFFICES ASSUME Init PROVE RingInv
  OBVIOUS
<1>1. node_state = "IDLE" /\ hw.state = "IDLE" /\ exec_queue = <<>> /\ held = <<>>
  BY DEF Init, FsmInit
<1>2. NodeAgrees
  <2>1. rx_beacon_info.source = NoSupervisor /\ hw.source = NoSupervisor
    BY DEF Init, FsmInit
  <2>2. PrecedenceOf(NoSupervisor) = 0
    BY DEF PrecedenceOf
  <2>3. NodeShows \in Agreeing
    BY <1>1, <2>1, <2>2 DEF NodeShows, Agreeing, NodeStates, AnySupervisor
  <2>4. QED
    BY <1>1, <2>3 DEF NodeAgrees, Follows, Reports
<1>3. HeldIsNoReport
  BY <1>1 DEF HeldIsNoReport
<1>4. AttributesShowState
  BY DEF Init, FsmInit, AttributesShowState, NetworkTopology, NetworkStatus
<1>5. QED
  BY <1>1, <1>2, <1>3, <1>4, InitType DEF RingInv, HasSupervisor

\* The node's state follows the switch: whatever the order in which the tasks,
\* the timers and the interrupt handler run, the last NEWSTATE event sent shows
\* the state of the switch, or an interrupt is pending, or an event was dropped.
THEOREM StateFollowsHardware == Spec => []NodeStateFollowsHardware
<1>1. RingInv => NodeStateFollowsHardware
  BY AgreeingFollows DEF RingInv
<1>2. QED
  BY <1>1, RingInit, RingStep, PTL DEF Spec

\* A node at rest shows the ring it is in: its state and the CIP attributes
\* network topology and network status are those of the switch.
THEOREM SettledShowsTheRing == Spec => []SettledNodeShowsTheRing
<1>1. RingInv => SettledNodeShowsTheRing
  <2> SUFFICES ASSUME RingInv, Quiet, ~lost
               PROVE  /\ node_state = hw.state
                      /\ attributes.topology = (IF hw.state = "IDLE" THEN "LINEAR" ELSE "RING")
                      /\ attributes.status = (IF hw.state = "FAULT" THEN "RING_FAULT" ELSE "NORMAL")
    BY DEF SettledNodeShowsTheRing
  <2>1. exec_queue = <<>> /\ Pending = {}
    BY DEF Quiet, Pending
  <2>2. node_state = hw.state
    BY <2>1, AgreeingFollows DEF RingInv, NodeStateFollowsHardware, Queued
  <2>3. QED
    BY <2>2 DEF RingInv, AttributesShowState, NetworkTopology, NetworkStatus
<1>2. QED
  BY <1>1, RingInit, RingStep, PTL DEF Spec
-----------------------------------------------------------------------------
(* The switch's table.                                                     *)

\* No two supervisors of the ring have the same precedence: between two that do,
\* _is_new_supervisor_precedence_higher (um_dlr_fsm.c:902) compares a precedence
\* with a MAC address, and the take-over may pass unnoticed.
DistinctPrecedences ==
  \A s, t \in Supervisors : s # t => Precedence[s] # Precedence[t]

\* An event that announces the active supervisor.
SupervisorQueued ==
  \E i \in 1..Len(exec_queue) : /\ exec_queue[i].event = "NEWSUPERVISOR"
                                /\ exec_queue[i].beacon.source = hw.source

\* The event that flushes the table.  It reports a state, and is handled by a flush
\* whatever the node's state; or it announces a supervisor that outranks the one whose
\* beacon the node copied at the last report, to a node that is in FAULT by then.
FlushComes ==
  \/ lost \/ NEWSTATUS \in Pending
  \/ Reports(exec_queue) # {}
  \/ /\ hw.state = "FAULT"
     /\ PrecedenceOf(hw.source) > PrecedenceOf(rx_beacon_info.source)
     /\ SUVICHNG \in Pending \/ SupervisorQueued

\* What a queue keeps, and gets, when an event is put to one of its ends, and what it
\* loses when its head is taken.
LEMMA QueueKeeps ==
  ASSUME NEW q \in Seq(DlrEvent)
  PROVE  /\ \A e \in DlrEvent :
              /\ \A i \in 1..Len(q) : \E j \in 1..Len(Append(q, e)) : Append(q, e)[j] = q[i]
              /\ \E j \in 1..Len(Append(q, e)) : Append(q, e)[j] = e
         /\ \A h \in Seq(DlrEvent) :
              \A i \in 1..Len(q) : \E j \in 1..Len(h \o q) : (h \o q)[j] = q[i]
         /\ q # <<>> =>
              \A i \in 1..Len(q) : \/ q[i] = Head(q)
                                   \/ \E j \in 1..Len(Tail(q)) : Tail(q)[j] = q[i]
<1>1. ASSUME NEW e \in DlrEvent
      PROVE  /\ \A i \in 1..Len(q) : \E j \in 1..Len(Append(q, e)) : Append(q, e)[j] = q[i]
             /\ \E j \in 1..Len(Append(q, e)) : Append(q, e)[j] = e
  <2> DEFINE r == Append(q, e)
  <2>1. /\ Len(q) \in Nat /\ Len(r) = Len(q) + 1 /\ r[Len(q) + 1] = e
        /\ \A i \in 1..Len(q) : r[i] = q[i]
    OBVIOUS
  <2> HIDE DEF r
  <2>2. /\ Len(q) + 1 \in 1..Len(r)
        /\ \A i \in 1..Len(q) : i \in 1..Len(r)
    BY <2>1
  <2>3. /\ \A i \in 1..Len(q) : \E j \in 1..Len(r) : r[j] = q[i]
        /\ \E j \in 1..Len(r) : r[j] = e
    BY <2>1, <2>2
  <2>4. QED
    BY <2>3 DEF r
<1>2. ASSUME NEW h \in Seq(DlrEvent), NEW i \in 1..Len(q)
      PROVE  \E j \in 1..Len(h \o q) : (h \o q)[j] = q[i]
  <2> DEFINE r == h \o q
  <2>1. /\ Len(q) \in Nat /\ Len(h) \in Nat /\ Len(r) = Len(h) + Len(q)
        /\ r[Len(h) + i] = q[i]
    OBVIOUS
  <2> HIDE DEF r
  <2>2. Len(h) + i \in 1..Len(r)
    BY <2>1
  <2>3. \E j \in 1..Len(r) : r[j] = q[i]
    BY <2>1, <2>2
  <2>4. QED
    BY <2>3 DEF r
<1>3. ASSUME q # <<>>, NEW i \in 1..Len(q)
      PROVE  q[i] = Head(q) \/ \E j \in 1..Len(Tail(q)) : Tail(q)[j] = q[i]
  <2> DEFINE r == Tail(q)
  <2>1. /\ Len(q) \in Nat \ {0} /\ Head(q) = q[1] /\ Len(r) = Len(q) - 1
        /\ \A j \in 1..Len(r) : r[j] = q[j + 1]
    BY <1>3
  <2> HIDE DEF r
  <2>2. CASE i = 1
    BY <2>1, <2>2
  <2>3. CASE i # 1
    <3>1. i - 1 \in 1..Len(r) /\ (i - 1) + 1 = i
      BY <2>1, <2>3
    <3>2. \E j \in 1..Len(r) : r[j] = q[i]
      BY <2>1, <3>1
    <3>3. QED
      BY <3>2 DEF r
  <2>4. QED
    BY <2>2, <2>3
<1>4. QED
  BY <1>1, <1>2, <1>3

\* An event that leaves the table stale is no report, nor does it announce to a node in
\* FAULT a supervisor of higher precedence.
LEMMA HandlerFlushes ==
  ASSUME FsmTypeOK, NEW e \in DlrEvent, NEW f, ExecuteWithEvent(e, f), mac_stale'
  PROVE  /\ mac_stale /\ e.event # "NEWSTATE" /\ rx_beacon_info' = rx_beacon_info
         /\ ~ /\ e.event = "NEWSUPERVISOR" /\ node_state = "FAULT"
              /\ PrecedenceOf(e.beacon.source) > PrecedenceOf(rx_beacon_info.source)
<1>1. CASE e.event = "NEWSTATE"
  BY <1>1 DEF ExecuteWithEvent, EventNewState
<1>2. CASE e.event = "NEWSUPERVISOR"
  BY <1>2 DEF ExecuteWithEvent, EventNewSupervisor, IsNewSupervisorPrecedenceHigher
<1>3. CASE e.event = "FLUSHTABLES"
  BY <1>3 DEF ExecuteWithEvent, EventFlushTable, nodeVars
<1>4. CASE e.event \notin {"NEWSTATE", "NEWSUPERVISOR", "FLUSHTABLES"}
  BY <1>4 DEF ExecuteWithEvent, EventLinkLost, EventLinkRestore, EventBeaconTimeout,
     EventLocateFault, StartNeighborCheck, EventNeighborCheckResponse,
     EventNeighborTimeout, EventAnswered, fsmVars, nodeVars
<1>5. QED
  BY <1>1, <1>2, <1>3, <1>4

\* While the table is stale, the event that flushes it is on its way.
LEMMA FlushStep ==
  ASSUME DistinctPrecedences, RingInv, mac_stale => FlushComes, [Next]_vars, mac_stale'
  PROVE  FlushComes'
<1>t. TypeOK /\ TypeOK'
  BY NextType DEF RingInv
<1>q. exec_queue \in Seq(DlrEvent) /\ held \in Seq(DlrEvent)
  BY <1>t DEF TypeOK
\* A step of the software that keeps what is queued and pending.
<1>k. ASSUME UNCHANGED <<mac_stale, rx_beacon_info, hw, lost, irq, scan>>,
             \A i \in 1..Len(exec_queue) :
               \E j \in 1..Len(exec_queue') : exec_queue'[j] = exec_queue[i]
      PROVE  FlushComes'
  <2>1. FlushComes
    BY <1>k
  <2>2. Reports(exec_queue) # {} => Reports(exec_queue') # {}
    BY <1>k DEF Reports
  <2>3. SupervisorQueued => SupervisorQueued'
    BY <1>k DEF SupervisorQueued
  <2>4. QED
    BY <1>k, <2>1, <2>2, <2>3 DEF FlushComes, Pending
<1>u. ASSUME UNCHANGED exec_queue
      PROVE  \A i \in 1..Len(exec_queue) :
               \E j \in 1..Len(exec_queue') : exec_queue'[j] = exec_queue[i]
  BY <1>u
<1>1. CASE HwNext
  <2>1. /\ UNCHANGED <<exec_queue, rx_beacon_info, lost, scan>> /\ irq \subseteq irq'
        /\ mac_stale' = (mac_stale \/ hw'.state # hw.state \/ hw'.source # hw.source)
        /\ NEWSTATUS \in irq' \/ (hw'.state = hw.state /\ (hw'.source = hw.source \/ TakesOver))
    BY <1>1, HardwareMoves DEF RingInv
  <2>2. CASE NEWSTATUS \in irq'
    BY <2>2 DEF FlushComes, Pending
  <2>3. CASE hw'.state = hw.state /\ hw'.source = hw.source
    <3>1. FlushComes /\ (SupervisorQueued => SupervisorQueued') /\ Pending \subseteq Pending'
      BY <2>1, <2>3 DEF SupervisorQueued, Pending
    <3>2. QED
      BY <2>1, <2>3, <3>1 DEF FlushComes
  <2>4. CASE hw'.state = hw.state /\ TakesOver
    <3>1. /\ hw.state = "FAULT" /\ SUVICHNG \in Pending' /\ Pending \subseteq Pending'
          /\ hw.source \in AnySupervisor /\ rx_beacon_info.source \in AnySupervisor
          /\ hw'.source \in AnySupervisor
      BY <1>t, <2>1, <2>4 DEF TakesOver, Pending, TypeOK, Hardware, FsmTypeOK, BeaconInfo
    <3>2. PrecedenceOf(hw'.source) > PrecedenceOf(hw.source)
      <4>1. Precedence[hw'.source] # Precedence[hw.source]
        BY <2>4 DEF TakesOver, DistinctPrecedences
      <4>2. PrecedenceOf(hw'.source) # PrecedenceOf(hw.source)
        BY <2>4, <4>1, SupervisorAssumption DEF TakesOver, PrecedenceOf
      <4>3. QED
        BY <2>4, <3>1, <4>2, PrecedenceIsNat DEF TakesOver
    <3>3. CASE lost \/ NEWSTATUS \in Pending \/ Reports(exec_queue) # {}
      BY <2>1, <3>1, <3>3 DEF FlushComes
    <3>4. CASE ~(lost \/ NEWSTATUS \in Pending) /\ Reports(exec_queue) = {}
      <4>1. NodeShows \in Agreeing
        BY <3>4 DEF RingInv, NodeAgrees, Follows
      <4>2. PrecedenceOf(rx_beacon_info.source) <= PrecedenceOf(hw.source)
        BY <4>1 DEF NodeShows, Agreeing
      <4>3. PrecedenceOf(hw'.source) > PrecedenceOf(rx_beacon_info'.source)
        BY <2>1, <3>1, <3>2, <4>2, PrecedenceIsNat
      <4>4. QED
        BY <2>4, <3>1, <4>3 DEF FlushComes
    <3>5. QED
      BY <3>3, <3>4
  <2>5. QED
    BY <2>1, <2>2, <2>3, <2>4
<1>2. CASE IsrLatch
  <2>1. /\ UNCHANGED <<mac_stale, rx_beacon_info, exec_queue, lost, hw>>
        /\ Pending' = Pending
    BY <1>2 DEF IsrLatch, Pending, fsmVars, nodeVars, taskVars
  <2>2. QED
    BY <2>1 DEF FlushComes, Reports, SupervisorQueued
<1>3. ASSUME NEW bit \in IrqBits, IsrCallback(bit)
      PROVE  FlushComes'
  <2>1. /\ UNCHANGED <<mac_stale, rx_beacon_info, hw, irq>>
        /\ scan' = scan \ {bit} /\ SendFromIsr(IsrEvent(bit))
    BY <1>3 DEF IsrCallback, fsmVars, nodeVars
  <2>2. CASE ~RoomForEvent
    BY <2>1, <2>2 DEF SendFromIsr, FlushComes
  <2>3. CASE RoomForEvent
    <3>1. /\ exec_queue' = Append(exec_queue, IsrEvent(bit)) /\ lost' = lost
          /\ IsrEvent(bit) \in DlrEvent
      BY <2>1, <2>3, IsrEventType, <1>t DEF SendFromIsr
    <3>2. /\ \A i \in 1..Len(exec_queue) :
               \E j \in 1..Len(exec_queue') : exec_queue'[j] = exec_queue[i]
          /\ \E j \in 1..Len(exec_queue') : exec_queue'[j] = IsrEvent(bit)
      BY <1>q, <3>1, QueueKeeps
    <3>3. /\ Reports(exec_queue) # {} => Reports(exec_queue') # {}
          /\ SupervisorQueued => SupervisorQueued'
      BY <2>1, <3>2 DEF Reports, SupervisorQueued
    <3>4. bit = NEWSTATUS => Reports(exec_queue') # {}
      BY <1>t, <3>2, IsrEventReports DEF Reports
    <3>5. bit = SUVICHNG => SupervisorQueued'
      BY <1>t, <2>1, <3>2, IsrEventReports DEF SupervisorQueued
    <3>6. \A b \in Pending : b = bit \/ b \in Pending'
      BY <2>1 DEF Pending
    <3>7. QED
      BY <2>1, <3>1, <3>3, <3>4, <3>5, <3>6 DEF FlushComes
  <2>4. QED
    BY <2>2, <2>3
<1>4. CASE \E name \in FrameKinds, p \in Ports, learn \in BOOLEAN :
             \E id \in wire[p] \cup {0} : ReceiverTakeFrame(name, p, id, learn)
  BY <1>k, <1>u, <1>4 DEF ReceiverTakeFrame, fsmVars, nodeVars, hwVars
<1>5. CASE ReceiverSendEvent
  <2>1. /\ UNCHANGED <<mac_stale, rx_beacon_info, hw, lost, irq, scan>>
        /\ exec_queue' = held \o exec_queue
    BY <1>5 DEF ReceiverSendEvent, fsmVars, nodeVars, hwVars
  <2>2. QED
    BY <1>k, <1>q, <2>1, QueueKeeps
<1>6. CASE ExecutorTakeEvent
  <2>1. /\ UNCHANGED <<lost, hw, irq, scan>>
        /\ exec_queue # <<>> /\ exec_queue' = Tail(exec_queue)
        /\ ExecuteWithEvent(Head(exec_queue), InFlight)
    BY <1>6 DEF ExecutorTakeEvent, hwVars
  <2> DEFINE e == Head(exec_queue)
  <2>2. e \in DlrEvent
    BY <1>q, <2>1
  <2>3. /\ mac_stale /\ e.event # "NEWSTATE" /\ rx_beacon_info' = rx_beacon_info
        /\ ~ /\ e.event = "NEWSUPERVISOR" /\ node_state = "FAULT"
             /\ PrecedenceOf(e.beacon.source) > PrecedenceOf(rx_beacon_info.source)
    BY <1>t, <2>1, <2>2, HandlerFlushes DEF TypeOK
  <2>4. \A i \in 1..Len(exec_queue) :
          exec_queue[i] = e \/ \E j \in 1..Len(exec_queue') : exec_queue'[j] = exec_queue[i]
    BY <1>q, <2>1, QueueKeeps
  <2> HIDE DEF e
  <2>5. Reports(exec_queue) # {} => Reports(exec_queue') # {}
    BY <2>3, <2>4 DEF Reports
  <2>6. CASE lost \/ NEWSTATUS \in Pending \/ Reports(exec_queue) # {}
    BY <2>1, <2>5, <2>6 DEF FlushComes, Pending
  <2>7. CASE ~(lost \/ NEWSTATUS \in Pending) /\ Reports(exec_queue) = {}
    <3>1. /\ hw.state = "FAULT"
          /\ PrecedenceOf(hw.source) > PrecedenceOf(rx_beacon_info.source)
          /\ SUVICHNG \in Pending \/ SupervisorQueued
      BY <2>3, <2>7 DEF FlushComes
    <3>2. node_state = "FAULT"
      <4>1. NodeShows \in Agreeing
        BY <2>7 DEF RingInv, NodeAgrees, Follows
      <4>2. QED
        BY <3>1, <4>1 DEF NodeShows, Agreeing
    <3>3. SupervisorQueued => SupervisorQueued'
      BY <2>1, <2>3, <2>4, <3>1, <3>2 DEF SupervisorQueued
    <3>4. QED
      BY <2>1, <2>3, <3>1, <3>3 DEF FlushComes, Pending
  <2>8. QED
    BY <2>6, <2>7
<1>7. CASE ExecutorPostCommand \/ DaemonTakeCommand \/ (\E p \in Ports : TimerExpires(p))
           \/ CallbackStore \/ CallbackFreeze \/ UNCHANGED vars
  BY <1>k, <1>u, <1>7 DEF ExecutorPostCommand, DaemonTakeCommand, TimerExpires, CallbackStore,
     CallbackFreeze, vars, fsmVars, nodeVars, hwVars, taskVars
<1>8. CASE CallbackSendEvent
  <2> DEFINE e == [EventOf("NEIGHBORTIMEOUT", {daemon.port}) EXCEPT !.count = daemon.value]
  <2>1. /\ UNCHANGED <<mac_stale, rx_beacon_info, hw, lost, irq, scan>>
        /\ exec_queue' = Append(exec_queue, e)
    BY <1>8 DEF CallbackSendEvent, fsmVars, nodeVars, hwVars
  <2>2. e \in DlrEvent
    <3>1. daemon.port \in Ports /\ daemon.value \in 0..255
      BY <1>t DEF TypeOK, Daemon
    <3>2. EventOf("NEIGHBORTIMEOUT", {daemon.port}) \in DlrEvent
      BY <3>1, EventOfType DEF TimerEvents
    <3>3. QED
      BY <3>1, <3>2 DEF DlrEvent
  <2> HIDE DEF e
  <2>3. QED
    BY <1>k, <1>q, <2>1, <2>2, QueueKeeps
<1>9. QED
  BY <1>1, <1>2, <1>3, <1>4, <1>5, <1>6, <1>7, <1>8
  DEF Next, Isr, ReceiverNext, ExecutorNext, DaemonNext, Idle

\* MAC entries of an old topology do not survive: while the switch holds some, an event
\* that flushes them is on its way, unless one met a full queue.  Among supervisors of
\* distinct precedences, for any number of them and of changes of the ring.
THEOREM StaleTableFlushed ==
  ASSUME DistinctPrecedences
  PROVE  Spec => []StaleTableIsFlushed
<1> DEFINE Inv == RingInv /\ (mac_stale => FlushComes)
<1>1. Init => Inv
  BY RingInit DEF Init, FsmInit
<1>2. Inv /\ [Next]_vars => Inv'
  BY RingStep, FlushStep
<1>3. Inv => StaleTableIsFlushed
  BY DEF FlushComes, SupervisorQueued, Reports, StaleTableIsFlushed, Queued
<1>4. QED
  BY <1>1, <1>2, <1>3, PTL DEF Spec
=============================================================================
