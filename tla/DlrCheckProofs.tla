--------------------------- MODULE DlrCheckProofs ---------------------------
(***************************************************************************)
(* The neighbor check of DlrNode: proofs of RequestIdsAreUnique, of         *)
(* CheckNeverStalls and of RequestsBounded, for every number of rounds,     *)
(* retries and late answers, and that the work of a node comes to an end    *)
(* and leaves nothing behind.                                               *)
(***************************************************************************)
EXTENDS DlrNodeProofs

-----------------------------------------------------------------------------

\* The ports of a mask, and how many they are.
LEMMA PortMasks ==
  ASSUME NEW ports \in SUBSET Ports
  PROVE  \/ ports = {} /\ Cardinality(ports) = 0
         \/ ports = {0} /\ Cardinality(ports) = 1
         \/ ports = {1} /\ Cardinality(ports) = 1
         \/ ports = Ports /\ Cardinality(ports) = 2
<1>1. ports = {} \/ ports = {0} \/ ports = {1} \/ ports = Ports
  BY DEF Ports
<1>2. Cardinality({}) = 0
  BY FS_EmptySet
<1>3. Cardinality({0}) = 1 /\ Cardinality({1}) = 1
  BY FS_Singleton
<1>4. Cardinality(Ports) = 2
  <2>1. Ports = 0..1
    BY DEF Ports
  <2>2. Cardinality(0..1) = IF 0 > 1 THEN 0 ELSE 1 - 0 + 1
    BY FS_Interval, 0 \in Int, 1 \in Int, Zenon
  <2>3. QED
    BY <2>1, <2>2
<1>5. QED
  BY <1>1, <1>2, <1>3, <1>4

\* Requests sent together take ids that no request has had, and leave the
\* sequence id above them.
LEMMA RequestsTakeNewIds ==
  ASSUME FsmTypeOK, RequestIdsAreUnique, NEW ports \in SUBSET Ports,
         SendNeighborCheckRequest(ports)
  PROVE  RequestIdsAreUnique'
<1>1. /\ sequence_id \in Nat /\ wire \in [Ports -> SUBSET Nat]
      /\ wire[0] \cap wire[1] = {}
      /\ \A id \in wire[0] : id < sequence_id
      /\ \A id \in wire[1] : id < sequence_id
  BY DEF FsmTypeOK, RequestIdsAreUnique, Ports
<1>2. /\ sequence_id' = sequence_id + Cardinality(ports)
      /\ wire'[0] = IF 0 \in ports THEN wire[0] \cup {RequestId(0, ports)} ELSE wire[0]
      /\ wire'[1] = IF 1 \in ports THEN wire[1] \cup {RequestId(1, ports)} ELSE wire[1]
  BY DEF SendNeighborCheckRequest, Ports
<1>3. /\ RequestId(0, ports) = sequence_id
      /\ RequestId(1, ports) = IF 0 \in ports THEN sequence_id + 1 ELSE sequence_id
  BY DEF RequestId
<1>4. /\ wire'[0] \cap wire'[1] = {}
      /\ \A id \in wire'[0] : id < sequence_id'
      /\ \A id \in wire'[1] : id < sequence_id'
  <2>0. wire[0] \in SUBSET Nat /\ wire[1] \in SUBSET Nat
    BY <1>1 DEF Ports
  <2>1. CASE ports = {} /\ Cardinality(ports) = 0
    BY <1>1, <1>2, <2>0, <2>1
  <2>2. CASE ports = {0} /\ Cardinality(ports) = 1
    BY <1>1, <1>2, <1>3, <2>0, <2>2
  <2>3. CASE ports = {1} /\ Cardinality(ports) = 1
    BY <1>1, <1>2, <1>3, <2>0, <2>3
  <2>4. CASE ports = Ports /\ Cardinality(ports) = 2
    BY <1>1, <1>2, <1>3, <2>0, <2>4 DEF Ports
  <2>5. QED
    BY <2>1, <2>2, <2>3, <2>4, PortMasks
<1>5. QED
  BY <1>4 DEF RequestIdsAreUnique, Ports

\* Every handler keeps the ids apart.
LEMMA HandlerKeepsIdsUnique ==
  ASSUME FsmTypeOK, RequestIdsAreUnique, NEW e \in DlrEvent, NEW f,
         ExecuteWithEvent(e, f)
  PROVE  RequestIdsAreUnique'
<1>1. ASSUME UNCHANGED wire, sequence_id' = sequence_id \/ sequence_id' = sequence_id + 1
      PROVE  RequestIdsAreUnique'
  <2>1. sequence_id \in Nat /\ \A p \in Ports : wire[p] \in SUBSET Nat
    BY DEF FsmTypeOK
  <2>2. QED
    BY <1>1, <2>1 DEF RequestIdsAreUnique
<1>2. CASE \E ports \in SUBSET Ports : SendNeighborCheckRequest(ports)
  BY <1>2, RequestsTakeNewIds
<1>3. CASE EventLocateFault(e, f) \/ EventNeighborTimeout(e)
  <2>1. e.port \in SUBSET Ports /\ DLR_PORT_BOTH \in SUBSET Ports
    BY DEF DlrEvent, DLR_PORT_BOTH
  <2>2. \/ \E ports \in SUBSET Ports : SendNeighborCheckRequest(ports)
        \/ UNCHANGED wire /\ (sequence_id' = sequence_id \/ sequence_id' = sequence_id + 1)
    BY <1>3, <2>1 DEF EventLocateFault, EventNeighborTimeout, StartNeighborCheck,
       SendLinkNeighborStatus, fsmVars, checkVars, answerVars
  <2>3. QED
    BY <1>1, <1>2, <2>2
<1>4. CASE ~(EventLocateFault(e, f) \/ EventNeighborTimeout(e))
  <2>1. UNCHANGED wire /\ (sequence_id' = sequence_id \/ sequence_id' = sequence_id + 1)
    BY <1>4 DEF ExecuteWithEvent, EventNewState, EventLinkLost, EventLinkRestore,
       EventBeaconTimeout, EventNewSupervisor, EventFlushTable, SendLinkNeighborStatus,
       EventNeighborCheckResponse, EventAnswered, fsmVars, checkVars, answerVars
  <2>2. QED
    BY <1>1, <2>1
<1>5. QED
  BY <1>3, <1>4

\* Every step keeps the ids apart; only the executor touches them.
LEMMA UniqueStep ==
  ASSUME TypeOK, RequestIdsAreUnique, [Next]_vars
  PROVE  RequestIdsAreUnique'
<1>1. CASE ExecutorTakeEvent
  <2>1. Head(exec_queue) \in DlrEvent
    BY <1>1 DEF ExecutorTakeEvent, TypeOK
  <2>2. QED
    BY <1>1, <2>1, HandlerKeepsIdsUnique DEF ExecutorTakeEvent, TypeOK
<1>2. ASSUME UNCHANGED <<wire, sequence_id>>
      PROVE  RequestIdsAreUnique'
  BY <1>2 DEF RequestIdsAreUnique
<1>3. CASE HwNext
  <2>1. PICK kind : \E new \in Hardware, bits \in SUBSET IrqBits :
                      HwChange(kind, new, bits) /\ Announced(new, bits)
    BY <1>3, HwNextIsHwChange
  <2>2. QED
    BY <1>2, <2>1 DEF HwChange, checkVars, answerVars
<1>4. CASE Isr \/ ReceiverNext \/ DaemonNext \/ UNCHANGED vars
  BY <1>2, <1>4 DEF Isr, IsrLatch, IsrCallback, ReceiverNext, ReceiverTakeFrame,
     ReceiverSendEvent, DaemonNext, DaemonTakeCommand, TimerExpires, CallbackStore,
     CallbackFreeze, CallbackSendEvent, vars, fsmVars, checkVars, answerVars
<1>5. CASE ExecutorPostCommand
  BY <1>2, <1>5 DEF ExecutorPostCommand, checkVars, answerVars
<1>6. QED
  BY <1>1, <1>3, <1>4, <1>5 DEF Next, ExecutorNext, Idle

\* No two neighbor check requests carry the same sequence id, on either port,
\* nor will a later one: a response that arrives on the wrong port, or late,
\* never passes the receiver's filter for a request that is not its own.
THEOREM RequestIdsUnique == Spec => []RequestIdsAreUnique
<1>1. Init => RequestIdsAreUnique
  BY DEF Init, FsmInit, RequestIdsAreUnique, Ports
<1>2. TypeOK /\ RequestIdsAreUnique /\ [Next]_vars => RequestIdsAreUnique'
  BY UniqueStep
<1>3. QED
  BY <1>1, <1>2, TypeCorrect, PTL DEF Spec
-----------------------------------------------------------------------------
(* Commands on their way to the daemon, and timeouts on their way to the    *)
(* executor.                                                                *)

Command(op, p) == [op |-> op, port |-> p]

\* The last command of q for port p is a start.
StartsLast(q, p) ==
  \E i \in 1..Len(q) : /\ q[i] = Command("start", p)
                       /\ \A j \in 1..Len(q) : q[j] = Command("stop", p) => j < i

\* No command of q stops the timer of port p.
NoStop(q, p) == \A j \in 1..Len(q) : q[j] # Command("stop", p)

TimeoutIn(q, p) ==
  \E i \in 1..Len(q) : q[i].event = "NEIGHBORTIMEOUT" /\ q[i].port = {p}

\* What CheckNeverStalls says of one port, in these words.
Watched(p) ==
  \/ p \in timer /\ NoStop(CommandsAhead, p)
  \/ StartsLast(CommandsAhead, p)
  \/ daemon.pc # "idle" /\ daemon.port = p
  \/ TimeoutIn(exec_queue, p)

LEMMA WatchedMeans ==
  CheckNeverStalls <=> \A p \in round.waiting : Watched(p)
<1>1. ASSUME NEW p, NEW op
      PROVE  Ahead(op, p) = {i \in 1..Len(CommandsAhead) : CommandsAhead[i] = Command(op, p)}
  BY DEF Ahead, Command
<1>2. \A p : Ahead("stop", p) = {} <=> NoStop(CommandsAhead, p)
  BY <1>1 DEF NoStop
<1>3. \A p : (\E i \in Ahead("start", p) : \A j \in Ahead("stop", p) : j < i)
               <=> StartsLast(CommandsAhead, p)
  BY <1>1 DEF StartsLast
<1>4. \A p : TimeoutAhead(p) <=> \/ daemon.pc # "idle" /\ daemon.port = p
                                 \/ TimeoutIn(exec_queue, p)
  BY DEF TimeoutAhead, TimeoutIn, Queued
<1> QED
  BY <1>2, <1>3, <1>4 DEF CheckNeverStalls, Watched

\* Commands that follow do not undo a start unless one of them is a stop.
LEMMA CommandsAppended ==
  ASSUME NEW q \in Seq(TimerCommand), NEW r \in Seq(TimerCommand), NEW p
  PROVE  /\ NoStop(q, p) /\ NoStop(r, p) => NoStop(q \o r, p)
         /\ StartsLast(q, p) /\ NoStop(r, p) => StartsLast(q \o r, p)
         /\ StartsLast(r, p) => StartsLast(q \o r, p)
<1> DEFINE s == q \o r
<1>1. /\ Len(q) \in Nat /\ Len(r) \in Nat /\ Len(s) = Len(q) + Len(r)
      /\ \A i \in 1..Len(s) : s[i] = IF i <= Len(q) THEN q[i] ELSE r[i - Len(q)]
  OBVIOUS
<1> HIDE DEF s
<1>2. \A j \in 1..Len(s) : \/ j \in 1..Len(q) /\ s[j] = q[j]
                           \/ j > Len(q) /\ j - Len(q) \in 1..Len(r) /\ s[j] = r[j - Len(q)]
  BY <1>1
<1>3. NoStop(q, p) /\ NoStop(r, p) => NoStop(s, p)
  BY <1>2 DEF NoStop
<1>4. ASSUME StartsLast(q, p), NoStop(r, p) PROVE StartsLast(s, p)
  <2>1. PICK i \in 1..Len(q) : /\ q[i] = Command("start", p)
                               /\ \A j \in 1..Len(q) : q[j] = Command("stop", p) => j < i
    BY <1>4 DEF StartsLast
  <2>2. i \in 1..Len(s) /\ s[i] = Command("start", p)
    BY <1>1, <2>1
  <2>3. \A j \in 1..Len(s) : s[j] = Command("stop", p) => j < i
    BY <1>2, <1>4, <2>1 DEF NoStop
  <2> QED
    BY <2>2, <2>3 DEF StartsLast
<1>5. ASSUME StartsLast(r, p) PROVE StartsLast(s, p)
  <2>1. PICK k \in 1..Len(r) : /\ r[k] = Command("start", p)
                               /\ \A j \in 1..Len(r) : r[j] = Command("stop", p) => j < k
    BY <1>5 DEF StartsLast
  <2> DEFINE i == Len(q) + k
  <2>2. i \in 1..Len(s) /\ s[i] = Command("start", p)
    BY <1>1, <2>1
  <2>3. ASSUME NEW j \in 1..Len(s), s[j] = Command("stop", p) PROVE j < i
    <3>1. CASE j \in 1..Len(q)
      BY <3>1, <1>1, <2>1
    <3>2. CASE j > Len(q) /\ j - Len(q) \in 1..Len(r) /\ s[j] = r[j - Len(q)]
      <4>1. j - Len(q) < k
        BY <3>2, <2>1, <2>3
      <4> QED
        BY <4>1, <3>2, <1>1, <2>1
    <3> QED
      BY <3>1, <3>2, <1>2
  <2> HIDE DEF i
  <2> QED
    BY <2>2, <2>3 DEF StartsLast
<1> QED
  BY <1>3, <1>4, <1>5 DEF s

\* What the daemon leaves when it takes the first command.
LEMMA CommandTaken ==
  ASSUME NEW q \in Seq(TimerCommand), q # <<>>, NEW p
  PROVE  /\ NoStop(q, p) => Head(q) # Command("stop", p) /\ NoStop(Tail(q), p)
         /\ StartsLast(q, p) => \/ Head(q) = Command("start", p) /\ NoStop(Tail(q), p)
                                \/ StartsLast(Tail(q), p)
<1>1. /\ Len(q) \in Nat \ {0} /\ Head(q) = q[1] /\ Len(Tail(q)) = Len(q) - 1
      /\ \A i \in 1..Len(Tail(q)) : Tail(q)[i] = q[i + 1]
  OBVIOUS
<1> DEFINE t == Tail(q)
<1> HIDE DEF t
<1>2. \A i \in 1..Len(t) : i + 1 \in 1..Len(q) /\ t[i] = q[i + 1]
  BY <1>1 DEF t
<1>3. NoStop(q, p) => Head(q) # Command("stop", p) /\ NoStop(t, p)
  BY <1>1, <1>2 DEF NoStop
<1>4. ASSUME StartsLast(q, p)
      PROVE  \/ Head(q) = Command("start", p) /\ NoStop(t, p)
             \/ StartsLast(t, p)
  <2>1. PICK i \in 1..Len(q) : /\ q[i] = Command("start", p)
                               /\ \A j \in 1..Len(q) : q[j] = Command("stop", p) => j < i
    BY <1>4 DEF StartsLast
  <2>2. CASE i = 1
    <3>1. \A j \in 1..Len(t) : t[j] # Command("stop", p)
      BY <1>2, <2>1, <2>2
    <3> QED
      BY <1>1, <2>1, <2>2, <3>1 DEF NoStop
  <2>3. CASE i # 1
    <3> DEFINE k == i - 1
    <3>1. k \in 1..Len(t) /\ t[k] = Command("start", p)
      BY <1>1, <2>1, <2>3 DEF t
    <3>2. \A j \in 1..Len(t) : t[j] = Command("stop", p) => j < k
      BY <1>2, <2>1
    <3> HIDE DEF k
    <3> QED
      BY <3>1, <3>2 DEF StartsLast
  <2> QED
    BY <2>2, <2>3
<1> QED
  BY <1>3, <1>4 DEF t

\* Two sequences of at most one element each, one after the other.
LEMMA Joined ==
  ASSUME NEW u, NEW v
  PROVE  /\ Len(<<>> \o <<>>) = 0
         /\ Len(<<u>> \o <<>>) = 1 /\ (<<u>> \o <<>>)[1] = u
         /\ Len(<<>> \o <<v>>) = 1 /\ (<<>> \o <<v>>)[1] = v
         /\ /\ Len(<<u>> \o <<v>>) = 2
            /\ (<<u>> \o <<v>>)[1] = u /\ (<<u>> \o <<v>>)[2] = v
<1>1. <<u>> \in Seq({u, v}) /\ <<v>> \in Seq({u, v}) /\ <<>> \in Seq({u, v})
  OBVIOUS
<1> QED
  BY <1>1

\* The commands of a handler.
LEMMA CommandsOfHandler ==
  ASSUME NEW ports \in SUBSET Ports, NEW p \in Ports
  PROVE  /\ NoStop(TimerCommands("start", ports), p)
         /\ p \in ports => StartsLast(TimerCommands("start", ports), p)
         /\ p \notin ports => NoStop(TimerCommands("stop", ports), p)
<1>1. \A op, q : [op |-> op, port |-> q] = Command(op, q)
  BY DEF Command
<1>2. \A op1, op2, q1, q2 : Command(op1, q1) = Command(op2, q2) => op1 = op2 /\ q1 = q2
  BY DEF Command
<1>0. ports = {} \/ ports = {0} \/ ports = {1} \/ ports = {0, 1}
  BY DEF Ports
<1>3. ASSUME NEW op
      PROVE  /\ ports = {} => Len(TimerCommands(op, ports)) = 0
             /\ ports = {0} => /\ Len(TimerCommands(op, ports)) = 1
                               /\ TimerCommands(op, ports)[1] = Command(op, 0)
             /\ ports = {1} => /\ Len(TimerCommands(op, ports)) = 1
                               /\ TimerCommands(op, ports)[1] = Command(op, 1)
             /\ ports = {0, 1} => /\ Len(TimerCommands(op, ports)) = 2
                                  /\ TimerCommands(op, ports)[1] = Command(op, 0)
                                  /\ TimerCommands(op, ports)[2] = Command(op, 1)
  <2> DEFINE a == Command(op, 0)
             b == Command(op, 1)
  <2>1. /\ TimerCommand1(op, ports, 0) = IF 0 \in ports THEN <<a>> ELSE <<>>
        /\ TimerCommand1(op, ports, 1) = IF 1 \in ports THEN <<b>> ELSE <<>>
    BY <1>1 DEF TimerCommand1
  <2>2. TimerCommands(op, ports) = TimerCommand1(op, ports, 0) \o TimerCommand1(op, ports, 1)
    BY DEF TimerCommands
  <2> HIDE DEF a, b
  <2>3. /\ ports = {} => TimerCommands(op, ports) = <<>> \o <<>>
        /\ ports = {0} => TimerCommands(op, ports) = <<a>> \o <<>>
        /\ ports = {1} => TimerCommands(op, ports) = <<>> \o <<b>>
        /\ ports = {0, 1} => TimerCommands(op, ports) = <<a>> \o <<b>>
    <3> DEFINE x == TimerCommand1(op, ports, 0)
               y == TimerCommand1(op, ports, 1)
    <3>1. /\ ports = {} => x = <<>> /\ y = <<>>
          /\ ports = {0} => x = <<a>> /\ y = <<>>
          /\ ports = {1} => x = <<>> /\ y = <<b>>
          /\ ports = {0, 1} => x = <<a>> /\ y = <<b>>
      BY <2>1
    <3> QED
      BY <2>2, <3>1, Zenon
  <2>4. CASE ports = {}
    BY <2>3, Joined, <2>4
  <2>5. CASE ports = {0}
    BY <2>3, Joined, <2>5 DEF a
  <2>6. CASE ports = {1}
    BY <2>3, Joined, <2>6 DEF b
  <2>7. CASE ports = {0, 1}
    BY <2>3, Joined, <2>7 DEF a, b
  <2> QED
    BY <2>4, <2>5, <2>6, <2>7, <1>0
<1>4. p = 0 \/ p = 1
  BY DEF Ports
<1>6. \A op1, op2, q1, q2 : op1 # op2 \/ q1 # q2 => Command(op1, q1) # Command(op2, q2)
  BY <1>2
<1>7. NoStop(TimerCommands("start", ports), p)
  <2> DEFINE s == TimerCommands("start", ports)
  <2>1. \A j \in 1..Len(s) : s[j] = Command("start", 0) \/ s[j] = Command("start", 1)
    <3>1. Len(s) = 0 \/ Len(s) = 1 \/ Len(s) = 2
      BY <1>3, <1>0
    <3> QED
      BY <3>1, <1>3, <1>0
  <2> HIDE DEF s
  <2>2. \A j \in 1..Len(s) : s[j] # Command("stop", p)
    BY <2>1, <1>6
  <2> QED
    BY <2>2 DEF NoStop, s
<1>8. ASSUME p \in ports PROVE StartsLast(TimerCommands("start", ports), p)
  <2> DEFINE s == TimerCommands("start", ports)
  <2>1. \E i \in 1..Len(s) : s[i] = Command("start", p)
    BY <1>3, <1>4, <1>0, <1>8
  <2>2. \A j \in 1..Len(s) : s[j] # Command("stop", p)
    BY <1>7 DEF NoStop
  <2> HIDE DEF s
  <2> QED
    BY <2>1, <2>2 DEF StartsLast, s
<1>9. ASSUME p \notin ports PROVE NoStop(TimerCommands("stop", ports), p)
  <2> DEFINE s == TimerCommands("stop", ports)
  <2>1. CASE Len(s) = 0
    BY <2>1 DEF NoStop
  <2>2. CASE Len(s) = 1 /\ \E q \in Ports \ {p} : s[1] = Command("stop", q)
    BY <2>2, <1>6 DEF NoStop
  <2> QED
    BY <2>1, <2>2, <1>3, <1>4, <1>0, <1>9 DEF Ports
<1> QED
  BY <1>7, <1>8, <1>9

\* A timeout that is queued stays queued until the executor takes it.
LEMMA TimeoutsQueue ==
  ASSUME NEW q \in Seq(DlrEvent), NEW p
  PROVE  /\ \A e \in DlrEvent :
              /\ TimeoutIn(q, p) => TimeoutIn(Append(q, e), p)
              /\ (e.event = "NEIGHBORTIMEOUT" /\ e.port = {p}) => TimeoutIn(Append(q, e), p)
         /\ \A h \in Seq(DlrEvent) : TimeoutIn(q, p) => TimeoutIn(h \o q, p)
         /\ q # <<>> /\ TimeoutIn(q, p) =>
              \/ Head(q).event = "NEIGHBORTIMEOUT" /\ Head(q).port = {p}
              \/ TimeoutIn(Tail(q), p)
<1>1. ASSUME NEW e \in DlrEvent
      PROVE  /\ TimeoutIn(q, p) => TimeoutIn(Append(q, e), p)
             /\ (e.event = "NEIGHBORTIMEOUT" /\ e.port = {p}) => TimeoutIn(Append(q, e), p)
  <2> DEFINE a == Append(q, e)
  <2>1. /\ Len(q) \in Nat /\ Len(a) = Len(q) + 1 /\ a[Len(q) + 1] = e
        /\ \A i \in 1..Len(q) : a[i] = q[i]
    OBVIOUS
  <2> HIDE DEF a
  <2> QED
    BY <2>1 DEF TimeoutIn, a
<1>2. ASSUME NEW h \in Seq(DlrEvent), TimeoutIn(q, p) PROVE TimeoutIn(h \o q, p)
  <2> DEFINE a == h \o q
  <2>1. /\ Len(q) \in Nat /\ Len(h) \in Nat /\ Len(a) = Len(h) + Len(q)
        /\ \A i \in 1..Len(q) : a[Len(h) + i] = q[i]
    OBVIOUS
  <2>2. PICK i \in 1..Len(q) : q[i].event = "NEIGHBORTIMEOUT" /\ q[i].port = {p}
    BY <1>2 DEF TimeoutIn
  <2> HIDE DEF a
  <2>3. Len(h) + i \in 1..Len(a) /\ a[Len(h) + i] = q[i]
    BY <2>1
  <2> QED
    BY <2>2, <2>3 DEF TimeoutIn, a
<1>3. ASSUME q # <<>>, TimeoutIn(q, p)
      PROVE  \/ Head(q).event = "NEIGHBORTIMEOUT" /\ Head(q).port = {p}
             \/ TimeoutIn(Tail(q), p)
  <2> DEFINE t == Tail(q)
  <2>1. /\ Len(q) \in Nat \ {0} /\ Head(q) = q[1] /\ Len(t) = Len(q) - 1
        /\ \A i \in 1..Len(t) : t[i] = q[i + 1]
    BY <1>3
  <2>2. PICK i \in 1..Len(q) : q[i].event = "NEIGHBORTIMEOUT" /\ q[i].port = {p}
    BY <1>3 DEF TimeoutIn
  <2> HIDE DEF t
  <2>3. CASE i = 1
    BY <2>1, <2>2, <2>3
  <2>4. CASE i # 1
    <3> DEFINE k == i - 1
    <3>1. k \in 1..Len(t) /\ t[k] = q[i]
      BY <2>1, <2>4
    <3> HIDE DEF k
    <3> QED
      BY <2>2, <3>1 DEF TimeoutIn, t
  <2> QED
    BY <2>3, <2>4
<1> QED
  BY <1>1, <1>2, <1>3
-----------------------------------------------------------------------------
(* CheckNeverStalls.                                                       *)

\* A node waits for its neighbors only while the ring is at fault: a timeout
\* that is handled in another state is no loss.
WaitsInFault == round.waiting # {} => node_state = "FAULT"

\* What an event does to the ports that are waited for: each has been waited for
\* before and is left alone, or its timer is started again.
LEMMA HandlerWatches ==
  ASSUME FsmTypeOK, timer_cmds = <<>>, WaitsInFault, NEW e \in DlrEvent, NEW f,
         ExecuteWithEvent(e, f)
  PROVE  /\ WaitsInFault'
         /\ \A p \in round'.waiting :
              \/ StartsLast(timer_cmds', p)
              \/ /\ p \in round.waiting /\ NoStop(timer_cmds', p)
                 /\ ~(e.event = "NEIGHBORTIMEOUT" /\ e.port = {p})
<1> DEFINE Result == /\ WaitsInFault'
                     /\ \A p \in round'.waiting :
                          \/ StartsLast(timer_cmds', p)
                          \/ /\ p \in round.waiting /\ NoStop(timer_cmds', p)
                             /\ ~(e.event = "NEIGHBORTIMEOUT" /\ e.port = {p})
           timeout == e.event = "NEIGHBORTIMEOUT"
<1>e. e.port \in SUBSET Ports /\ round \in RoundType /\ round.waiting \in SUBSET Ports
  BY DEF DlrEvent, FsmTypeOK, RoundType
<1>n. \A p : NoStop(<<>>, p)
  BY DEF NoStop
<1>1. ASSUME round' = round, timer_cmds' = timer_cmds, node_state' = node_state, ~timeout
      PROVE  Result
  BY <1>1, <1>n DEF WaitsInFault
<1>2. ASSUME round'.waiting = {} PROVE Result
  BY <1>2 DEF WaitsInFault
<1>3. CASE timeout /\ EventNeighborTimeout(e)
  <2>1. CASE /\ node_state = "FAULT" /\ node_state' = node_state
             /\ timer_cmds' = TimerCommands("start", e.port)
             /\ round'.waiting = round.waiting \cup (e.port \ neighbor_active_port)
    <3>1. \A p \in Ports : /\ NoStop(timer_cmds', p)
                           /\ p \in e.port => StartsLast(timer_cmds', p)
      BY <1>e, <2>1, CommandsOfHandler
    <3>2. \A p \in round'.waiting : p \in Ports /\ (p \in e.port \/ p \in round.waiting)
      BY <1>e, <2>1
    <3>3. WaitsInFault'
      BY <2>1 DEF WaitsInFault
    <3> QED
      BY <3>1, <3>2, <3>3
  <2>2. CASE /\ node_state = "FAULT" /\ node_state' = node_state /\ timer_cmds' = timer_cmds
             /\ round'.waiting = round.waiting \ e.port
    BY <2>2, <1>n DEF WaitsInFault
  <2>3. CASE node_state # "FAULT" /\ round' = round
    BY <2>3, <1>2 DEF WaitsInFault
  <2> QED
    BY <1>3, <1>e, <2>1, <2>2, <2>3
    DEF EventNeighborTimeout, fsmVars, nodeVars, checkVars, RoundType
<1>4. CASE EventLocateFault(e, f) /\ ~timeout
  <2>1. CASE node_state = "FAULT" /\ StartNeighborCheck(f)
    <3>1. /\ timer_cmds' = TimerCommands("start", Ports) /\ round'.waiting = Ports
          /\ node_state' = node_state
      BY <2>1 DEF StartNeighborCheck, DLR_PORT_BOTH, nodeVars
    <3>2. \A p \in Ports : StartsLast(timer_cmds', p)
      BY <3>1, CommandsOfHandler
    <3> QED
      BY <2>1, <3>1, <3>2 DEF WaitsInFault
  <2>2. CASE ~StartNeighborCheck(f)
    BY <1>1, <1>4, <2>2 DEF EventLocateFault, fsmVars, nodeVars, checkVars
  <2> QED
    BY <1>4, <2>1, <2>2, <1>1 DEF EventLocateFault, fsmVars, nodeVars, checkVars
<1>5. CASE EventNeighborCheckResponse(e) /\ ~timeout
  <2>1. CASE node_state = "FAULT"
    <3>1. /\ timer_cmds' = TimerCommands("stop", e.port)
          /\ round'.waiting = round.waiting \ e.port /\ node_state' = node_state
      BY <1>5, <1>e, <2>1 DEF EventNeighborCheckResponse, nodeVars, RoundType
    <3>2. \A p \in Ports \ e.port : NoStop(timer_cmds', p)
      BY <1>e, <3>1, CommandsOfHandler
    <3> QED
      BY <1>5, <1>e, <2>1, <3>1, <3>2 DEF WaitsInFault
  <2>2. CASE node_state # "FAULT"
    BY <1>1, <1>5, <2>2 DEF EventNeighborCheckResponse, fsmVars, nodeVars, checkVars
  <2> QED
    BY <2>1, <2>2
<1>6. CASE (EventLinkLost(e) \/ EventBeaconTimeout(e)) /\ ~timeout
  <2>1. CASE round' = [round EXCEPT !.waiting = {}]
    <3>1. round'.waiting = {}
      BY <2>1, <1>e DEF RoundType
    <3> QED
      BY <3>1, <1>2
  <2>2. CASE round' # [round EXCEPT !.waiting = {}]
    BY <1>1, <1>6, <2>2 DEF EventLinkLost, EventBeaconTimeout, nodeVars
  <2> QED
    BY <2>1, <2>2
<1>7. CASE EventNewState(e) /\ ~timeout
  <2>1. CASE e.state = "FAULT"
    BY <1>7, <1>n, <2>1 DEF EventNewState, WaitsInFault
  <2>2. CASE e.state # "FAULT"
    <3>1. round'.waiting = {}
      BY <1>7, <1>e, <2>2 DEF EventNewState, RoundType
    <3> QED
      BY <3>1, <1>2
  <2> QED
    BY <2>1, <2>2
<1>8. CASE (\/ EventLinkRestore(e) \/ EventNewSupervisor(e) \/ EventFlushTable(e)
            \/ EventAnswered(e)) /\ ~timeout
  BY <1>1, <1>8 DEF EventLinkRestore, EventNewSupervisor, EventFlushTable, EventAnswered,
     fsmVars, nodeVars, checkVars
<1>9. \/ timeout /\ EventNeighborTimeout(e)
      \/ EventLocateFault(e, f) /\ ~timeout
      \/ EventNeighborCheckResponse(e) /\ ~timeout
      \/ (EventLinkLost(e) \/ EventBeaconTimeout(e)) /\ ~timeout
      \/ EventNewState(e) /\ ~timeout
      \/ (\/ EventLinkRestore(e) \/ EventNewSupervisor(e) \/ EventFlushTable(e)
          \/ EventAnswered(e)) /\ ~timeout
  BY DEF ExecuteWithEvent
<1> QED
  BY <1>3, <1>4, <1>5, <1>6, <1>7, <1>8, <1>9

LEMMA WatchStep ==
  ASSUME TypeOK, WaitsInFault, \A p \in round.waiting : Watched(p), [Next]_vars
  PROVE  WaitsInFault' /\ \A p \in round'.waiting : Watched(p)'
<1>t. /\ exec_queue \in Seq(DlrEvent) /\ held \in Seq(DlrEvent) /\ round.waiting \in SUBSET Ports
      /\ timer_queue \in Seq(TimerCommand) /\ timer_cmds \in Seq(TimerCommand)
      /\ CommandsAhead \in Seq(TimerCommand)
  BY DEF TypeOK, FsmTypeOK, RoundType, CommandsAhead
<1>n. TypeOK'
  BY NextType
<1>1. ASSUME UNCHANGED <<round, node_state>>, \A p \in round.waiting : Watched(p) => Watched(p)'
      PROVE  WaitsInFault' /\ \A p \in round'.waiting : Watched(p)'
  BY <1>1 DEF WaitsInFault
<1>2. ASSUME UNCHANGED <<round, node_state, timer, timer_queue, timer_cmds>>,
             NEW p, Watched(p),
             \/ UNCHANGED daemon
             \/ daemon'.pc # "idle" /\ daemon'.port = daemon.port
             \/ TimeoutIn(exec_queue', p),
             TimeoutIn(exec_queue, p) => TimeoutIn(exec_queue', p)
      PROVE  Watched(p)'
  BY <1>2 DEF Watched, CommandsAhead, NoStop, StartsLast, TimeoutIn
<1>3. CASE ExecutorTakeEvent
  <2> DEFINE e == Head(exec_queue)
  <2>1. /\ e \in DlrEvent /\ exec_queue # <<>> /\ timer_cmds = <<>> /\ FsmTypeOK
        /\ ExecuteWithEvent(e, InFlight)
        /\ UNCHANGED <<timer_queue, timer, daemon>> /\ exec_queue' = Tail(exec_queue)
    BY <1>3, <1>t DEF ExecutorTakeEvent, TypeOK
  <2>2. /\ WaitsInFault'
        /\ \A p \in round'.waiting :
              \/ StartsLast(timer_cmds', p)
              \/ /\ p \in round.waiting /\ NoStop(timer_cmds', p)
                 /\ ~(e.event = "NEIGHBORTIMEOUT" /\ e.port = {p})
    BY <2>1, HandlerWatches
  <2>3. /\ CommandsAhead = timer_queue
        /\ CommandsAhead' = timer_queue \o timer_cmds'
        /\ timer_cmds' \in Seq(TimerCommand)
    BY <1>t, <1>n, <2>1 DEF CommandsAhead, TypeOK, FsmTypeOK
  <2>4. ASSUME NEW p \in round'.waiting PROVE Watched(p)'
    <3>1. CASE StartsLast(timer_cmds', p)
      <4>1. StartsLast(timer_queue \o timer_cmds', p)
        BY <3>1, <1>t, <2>3, CommandsAppended
      <4> QED
        BY <4>1, <2>3 DEF Watched, StartsLast
    <3>2. CASE /\ p \in round.waiting /\ NoStop(timer_cmds', p)
               /\ ~(e.event = "NEIGHBORTIMEOUT" /\ e.port = {p})
      <4>1. /\ NoStop(timer_queue, p) => NoStop(timer_queue \o timer_cmds', p)
            /\ StartsLast(timer_queue, p) => StartsLast(timer_queue \o timer_cmds', p)
        BY <3>2, <1>t, <2>3, CommandsAppended
      <4>2. TimeoutIn(exec_queue, p) => TimeoutIn(exec_queue', p)
        BY <3>2, <1>t, <2>1, TimeoutsQueue
      <4>3. Watched(p)
        BY <3>2
      <4> QED
        BY <4>1, <4>2, <4>3, <2>1, <2>3 DEF Watched, NoStop, StartsLast, TimeoutIn
    <3> QED
      BY <2>2, <3>1, <3>2
  <2> QED
    BY <2>2, <2>4
<1>4. CASE ExecutorPostCommand
  <2>1. /\ UNCHANGED <<round, node_state, exec_queue, timer, daemon>>
        /\ timer_cmds # <<>>
        /\ timer_queue' = Append(timer_queue, Head(timer_cmds)) /\ timer_cmds' = Tail(timer_cmds)
    BY <1>4 DEF ExecutorPostCommand, nodeVars, checkVars
  <2>2. CommandsAhead' = CommandsAhead
    BY <1>t, <2>1 DEF CommandsAhead
  <2>3. \A p : Watched(p) => Watched(p)'
    BY <2>1, <2>2 DEF Watched, NoStop, StartsLast, TimeoutIn
  <2> QED
    BY <2>1, <2>3, <1>1
<1>5. CASE DaemonTakeCommand
  <2> DEFINE c == Head(timer_queue)
  <2>1. /\ UNCHANGED <<round, node_state, exec_queue, daemon, timer_cmds>>
        /\ timer_queue # <<>> /\ timer_queue' = Tail(timer_queue)
        /\ timer' = IF c.op = "start" THEN timer \cup {c.port} ELSE timer \ {c.port}
    BY <1>5 DEF DaemonTakeCommand, fsmVars, nodeVars, checkVars
  <2>2. /\ CommandsAhead # <<>> /\ Head(CommandsAhead) = c
        /\ CommandsAhead' = Tail(CommandsAhead)
    BY <1>t, <2>1 DEF CommandsAhead
  <2>3. c \in TimerCommand
    BY <1>t, <2>1
  <2>4. c = Command(c.op, c.port) /\ c.op \in {"start", "stop"}
    BY <2>3 DEF TimerCommand, Command
  <2>5. ASSUME NEW p \in round.waiting, Watched(p) PROVE Watched(p)'
    <3>1. /\ NoStop(CommandsAhead, p) => c # Command("stop", p) /\ NoStop(CommandsAhead', p)
          /\ StartsLast(CommandsAhead, p) =>
                \/ c = Command("start", p) /\ NoStop(CommandsAhead', p)
                \/ StartsLast(CommandsAhead', p)
      BY <1>t, <2>2, CommandTaken
    <3>2. c = Command("start", p) => p \in timer'
      BY <2>1 DEF Command
    <3>3. c # Command("stop", p) /\ p \in timer => p \in timer'
      BY <2>1, <2>4
    <3> HIDE DEF c
    <3> QED
      BY <2>1, <2>5, <3>1, <3>2, <3>3 DEF Watched, NoStop, StartsLast, TimeoutIn
  <2> QED
    BY <2>1, <2>5, <1>1
<1>6. ASSUME NEW q \in Ports, TimerExpires(q)
      PROVE  WaitsInFault' /\ \A p \in round'.waiting : Watched(p)'
  <2>1. /\ UNCHANGED <<round, node_state, exec_queue, timer_queue, timer_cmds>>
        /\ daemon.pc = "idle" /\ daemon'.pc = "store" /\ daemon'.port = q
        /\ timer' = timer \ {q}
    BY <1>6 DEF TimerExpires, fsmVars, nodeVars, checkVars
  <2>2. \A p : Watched(p) => Watched(p)'
    BY <2>1 DEF Watched, CommandsAhead, NoStop, StartsLast, TimeoutIn
  <2> QED
    BY <2>1, <2>2, <1>1
<1>7. CASE CallbackStore \/ CallbackFreeze
  <2>1. /\ UNCHANGED <<round, node_state, exec_queue, timer, timer_queue, timer_cmds>>
        /\ daemon'.pc # "idle" /\ daemon'.port = daemon.port
    <3>1. daemon \in Daemon
      BY DEF TypeOK
    <3> QED
      BY <1>7, <3>1 DEF CallbackStore, CallbackFreeze, fsmVars, nodeVars, checkVars, Daemon
  <2> QED
    BY <2>1, <1>1, <1>2
<1>8. CASE CallbackSendEvent
  <2> DEFINE e == [EventOf("NEIGHBORTIMEOUT", {daemon.port}) EXCEPT !.count = daemon.value]
  <2>1. /\ UNCHANGED <<round, node_state, timer, timer_queue, timer_cmds>>
        /\ exec_queue' = Append(exec_queue, e)
    BY <1>8 DEF CallbackSendEvent, fsmVars, nodeVars, checkVars
  <2>2. e \in DlrEvent /\ e.event = "NEIGHBORTIMEOUT" /\ e.port = {daemon.port}
    <3>1. daemon.port \in Ports /\ daemon.value \in 0..255
      BY DEF TypeOK, Daemon
    <3>2. EventOf("NEIGHBORTIMEOUT", {daemon.port}) \in DlrEvent
      BY <3>1, EventOfType DEF TimerEvents
    <3> QED
      BY <3>1, <3>2 DEF DlrEvent, EventOf
  <2> HIDE DEF e
  <2>3. ASSUME NEW p, Watched(p) PROVE Watched(p)'
    <3>1. /\ TimeoutIn(exec_queue, p) => TimeoutIn(exec_queue', p)
          /\ daemon.port = p => TimeoutIn(exec_queue', p)
      BY <1>t, <2>1, <2>2, TimeoutsQueue
    <3> QED
      BY <2>1, <2>3, <3>1 DEF Watched, CommandsAhead, NoStop, StartsLast, TimeoutIn
  <2> QED
    BY <2>1, <2>3, <1>1
<1>9. CASE ReceiverSendEvent
  <2>1. /\ UNCHANGED <<round, node_state, timer, timer_queue, timer_cmds, daemon>>
        /\ exec_queue' = held \o exec_queue
    BY <1>9 DEF ReceiverSendEvent, fsmVars, nodeVars, checkVars
  <2>2. \A p : TimeoutIn(exec_queue, p) => TimeoutIn(exec_queue', p)
    BY <1>t, <2>1, TimeoutsQueue
  <2> QED
    BY <2>1, <2>2, <1>1, <1>2
<1>10. ASSUME NEW bit \in IrqBits, IsrCallback(bit)
       PROVE  WaitsInFault' /\ \A p \in round'.waiting : Watched(p)'
  <2>1. /\ UNCHANGED <<round, node_state, timer, timer_queue, timer_cmds, daemon>>
        /\ exec_queue' \in {exec_queue, Append(exec_queue, IsrEvent(bit))}
    BY <1>10 DEF IsrCallback, SendFromIsr, fsmVars, nodeVars, checkVars
  <2>2. IsrEvent(bit) \in DlrEvent
    BY IsrEventType
  <2>3. \A p : TimeoutIn(exec_queue, p) => TimeoutIn(exec_queue', p)
    <3>1. \A p : TimeoutIn(exec_queue, p) => TimeoutIn(Append(exec_queue, IsrEvent(bit)), p)
      BY <1>t, <2>2, TimeoutsQueue
    <3>2. CASE exec_queue' = exec_queue
      BY <3>2
    <3>3. CASE exec_queue' = Append(exec_queue, IsrEvent(bit))
      BY <3>1, <3>3
    <3> QED
      BY <2>1, <3>2, <3>3
  <2> QED
    BY <2>1, <2>3, <1>1, <1>2
<1>11. CASE HwNext \/ IsrLatch
            \/ (\E name \in FrameKinds, p \in Ports, learn \in BOOLEAN :
                  \E id \in wire[p] \cup {0} : ReceiverTakeFrame(name, p, id, learn))
            \/ UNCHANGED vars
  <2>1. UNCHANGED <<round, node_state, timer, timer_queue, timer_cmds, daemon, exec_queue>>
    <3>1. HwNext => UNCHANGED <<nodeVars, checkVars, timer_cmds, taskVars>>
      BY HwNextIsHwChange DEF HwChange
    <3> QED
      BY <1>11, <3>1 DEF IsrLatch, ReceiverTakeFrame, vars, fsmVars, nodeVars, checkVars, taskVars
  <2> QED
    BY <2>1, <1>1, <1>2
<1> QED
  BY <1>3, <1>4, <1>5, <1>6, <1>7, <1>8, <1>9, <1>10, <1>11
  DEF Next, Isr, ReceiverNext, ExecutorNext, DaemonNext, Idle

\* While a node waits for a neighbor something is under way that ends the wait:
\* the timer of the port, a command that starts it, or its timeout.  No order of
\* locate faults, answers, late timeouts and timer commands stalls a round.
THEOREM ChecksNeverStall == Spec => []CheckNeverStalls
<1> DEFINE W == WaitsInFault /\ \A p \in round.waiting : Watched(p)
<1>1. Init => W
  BY DEF Init, FsmInit, WaitsInFault
<1>2. TypeOK /\ W /\ [Next]_vars => W'
  BY WatchStep
<1>3. W => CheckNeverStalls
  BY WatchedMeans
<1> QED
  BY <1>1, <1>2, <1>3, TypeCorrect, PTL DEF Spec
-----------------------------------------------------------------------------
(* How many elements of a queue are of some kind.                           *)

Bit(b) == IF b THEN 1 ELSE 0
Tally(q, A) == Cardinality({i \in 1..Len(q) : q[i] \in A})

LEMMA BitType == \A b : Bit(b) \in {0, 1}
  BY DEF Bit

LEMMA TallyType ==
  ASSUME NEW q, NEW A, Len(q) \in Nat
  PROVE  /\ Tally(q, A) \in Nat /\ Tally(q, A) <= Len(q)
         /\ IsFiniteSet({i \in 1..Len(q) : q[i] \in A})
<1> DEFINE X == {i \in 1..Len(q) : q[i] \in A}
<1>1. IsFiniteSet(1..Len(q)) /\ Cardinality(1..Len(q)) = Len(q)
  <2>1. /\ IsFiniteSet(1..Len(q))
        /\ Cardinality(1..Len(q)) = IF 1 > Len(q) THEN 0 ELSE Len(q) - 1 + 1
    BY FS_Interval, 1 \in Int, Len(q) \in Int
  <2> QED
    BY <2>1
<1>2. X \in SUBSET (1..Len(q))
  OBVIOUS
<1>3. IsFiniteSet(X) /\ Cardinality(X) <= Cardinality(1..Len(q))
  BY <1>1, <1>2, FS_Subset
<1>4. Cardinality(X) \in Nat
  BY <1>3, FS_CardinalityType
<1> QED
  BY <1>1, <1>3, <1>4 DEF Tally

\* The positions of some kind in a part of a sequence, wherever that part begins.
LEMMA TallyMoved ==
  ASSUME NEW q, NEW A, Len(q) \in Nat, NEW s, NEW n \in Nat,
         \A i \in 1..Len(q) : s[n + i] = q[i]
  PROVE  /\ IsFiniteSet({i \in (n + 1)..(n + Len(q)) : s[i] \in A})
         /\ Cardinality({i \in (n + 1)..(n + Len(q)) : s[i] \in A}) = Tally(q, A)
<1> DEFINE X == {i \in 1..Len(q) : q[i] \in A}
           Y == {i \in (n + 1)..(n + Len(q)) : s[i] \in A}
           f == [i \in X |-> n + i]
<1>1. \A i \in 1..Len(q) : n + i \in (n + 1)..(n + Len(q))
  OBVIOUS
<1>2. \A j \in (n + 1)..(n + Len(q)) : j - n \in 1..Len(q) /\ n + (j - n) = j
  OBVIOUS
<1>3. f \in [X -> Y]
  BY <1>1
<1>4. \A j \in Y : \E i \in X : f[i] = j
  <2>1. SUFFICES ASSUME NEW j \in Y PROVE j - n \in X /\ f[j - n] = j
    OBVIOUS
  <2>2. j - n \in 1..Len(q) /\ n + (j - n) = j
    BY <1>2
  <2>3. q[j - n] = s[j]
    BY <2>2
  <2> QED
    BY <2>2, <2>3
<1>5. \A a, b \in X : f[a] = f[b] => a = b
  OBVIOUS
<1>6. f \in Bijection(X, Y)
  <2>1. \A a, b \in DOMAIN f : f[a] = f[b] => a = b
    BY <1>5
  <2> HIDE DEF X, Y, f
  <2> QED
    BY <1>3, <1>4, <2>1 DEF Bijection, Injection, Surjection, IsInjective
<1>7. ExistsBijection(X, Y)
  BY <1>6 DEF ExistsBijection
<1>8. IsFiniteSet(X)
  BY TallyType
<1> HIDE DEF X, Y, f
<1>9. IsFiniteSet(Y) /\ Cardinality(Y) = Cardinality(X)
  BY <1>7, <1>8, FS_Bijection
<1> QED
  BY <1>9 DEF Tally, X, Y

LEMMA TallyConcat ==
  ASSUME NEW q, NEW r, NEW s, NEW A, Len(q) \in Nat, Len(r) \in Nat,
         Len(s) = Len(q) + Len(r),
         \A i \in 1..Len(q) : s[i] = q[i], \A i \in 1..Len(r) : s[Len(q) + i] = r[i]
  PROVE  Tally(s, A) = Tally(q, A) + Tally(r, A)
<1> DEFINE n == Len(q)
           X == {i \in 1..n : q[i] \in A}
           Y == {i \in (n + 1)..(n + Len(r)) : s[i] \in A}
           Z == {i \in 1..Len(s) : s[i] \in A}
<1>1. IsFiniteSet(X) /\ Cardinality(X) = Tally(q, A)
  BY TallyType DEF Tally
<1>2. IsFiniteSet(Y) /\ Cardinality(Y) = Tally(r, A)
  BY TallyMoved
<1>3. Z = X \cup Y
  <2>1. \A i \in 1..Len(s) : i \in 1..n \/ i \in (n + 1)..(n + Len(r))
    OBVIOUS
  <2>2. /\ \A i \in 1..n : i \in 1..Len(s)
        /\ \A i \in (n + 1)..(n + Len(r)) : i \in 1..Len(s)
    OBVIOUS
  <2> QED
    BY <2>1, <2>2
<1>4. X \cap Y = {}
  OBVIOUS
<1> HIDE DEF X, Y
<1>5. Cardinality(X \cap Y) = 0
  BY <1>4, FS_EmptySet
<1>6. Cardinality(X \cup Y) = Cardinality(X) + Cardinality(Y) - Cardinality(X \cap Y)
  BY <1>1, <1>2, FS_Union
<1>7. Tally(q, A) \in Nat /\ Tally(r, A) \in Nat
  BY TallyType
<1>8. Tally(s, A) = Cardinality(Z)
  BY DEF Tally
<1> HIDE DEF Z
<1> QED
  BY <1>1, <1>2, <1>3, <1>5, <1>6, <1>7, <1>8

\* A single element.
LEMMA TallyOne ==
  ASSUME NEW x, NEW A
  PROVE  Tally(<<x>>, A) = Bit(x \in A)
<1>1. {i \in 1..Len(<<x>>) : <<x>>[i] \in A} = IF x \in A THEN {1} ELSE {}
  OBVIOUS
<1>2. Cardinality({1}) = 1 /\ Cardinality({}) = 0
  BY FS_EmptySet, FS_Singleton
<1> QED
  BY <1>1, <1>2 DEF Tally, Bit

\* When an element is added at the back.
LEMMA TallyAppend ==
  ASSUME NEW S, NEW q \in Seq(S), NEW e \in S, NEW A
  PROVE  Tally(Append(q, e), A) = Tally(q, A) + Bit(e \in A)
<1> DEFINE o == <<e>>
           s == Append(q, e)
<1>1. /\ Len(q) \in Nat /\ Len(o) = 1 /\ o[1] = e
      /\ Len(s) = Len(q) + 1 /\ s[Len(q) + 1] = e
      /\ \A i \in 1..Len(q) : s[i] = q[i]
  OBVIOUS
<1>2. Tally(o, A) = Bit(e \in A)
  BY TallyOne
<1> HIDE DEF o, s
<1>3. /\ Len(s) = Len(q) + Len(o) /\ Len(q) \in Nat /\ Len(o) \in Nat
      /\ \A i \in 1..Len(q) : s[i] = q[i]
      /\ \A i \in 1..Len(o) : s[Len(q) + i] = o[i]
  BY <1>1
<1>4. Tally(s, A) = Tally(q, A) + Tally(o, A)
  BY <1>3, TallyConcat
<1> QED
  BY <1>2, <1>4 DEF s

\* When the head is taken.
LEMMA TallyTaken ==
  ASSUME NEW S, NEW q \in Seq(S), q # <<>>, NEW A
  PROVE  Tally(q, A) = Tally(Tail(q), A) + Bit(Head(q) \in A)
<1> DEFINE h == <<Head(q)>>
           t == Tail(q)
<1>1. /\ Len(h) = 1 /\ h[1] = q[1] /\ Len(t) \in Nat /\ Len(q) = 1 + Len(t)
      /\ \A i \in 1..Len(t) : q[1 + i] = t[i]
  OBVIOUS
<1>2. Tally(h, A) = Bit(Head(q) \in A)
  BY TallyOne
<1> HIDE DEF h, t
<1>3. /\ \A i \in 1..Len(h) : q[i] = h[i]
      /\ \A i \in 1..Len(t) : q[Len(h) + i] = t[i]
      /\ Len(h) \in Nat /\ Len(t) \in Nat /\ Len(q) = Len(h) + Len(t)
  BY <1>1
<1>4. Tally(q, A) = Tally(h, A) + Tally(t, A)
  BY <1>3, TallyConcat
<1>5. Tally(h, A) \in Nat /\ Tally(t, A) \in Nat
  BY <1>3, TallyType
<1> QED
  BY <1>2, <1>4, <1>5 DEF t

\* Nothing of a kind that is not there.
LEMMA TallyNone ==
  ASSUME NEW A
  PROVE  /\ Tally(<<>>, A) = 0
         /\ \A q : (\A i \in 1..Len(q) : q[i] \notin A) => Tally(q, A) = 0
<1>1. ASSUME NEW q, \A i \in 1..Len(q) : q[i] \notin A
      PROVE  Tally(q, A) = 0
  <2>1. {i \in 1..Len(q) : q[i] \in A} = {}
    BY <1>1
  <2> QED
    BY <2>1, FS_EmptySet DEF Tally
<1>2. \A i \in 1..Len(<<>>) : <<>>[i] \notin A
  OBVIOUS
<1> QED
  BY <1>1, <1>2
-----------------------------------------------------------------------------
(* RequestsBounded.                                                        *)

\* The counter of a port may run past its 255 and start again from 0 while a
\* round lasts, and then tries are counted twice.  The queues must be too short
\* for that many timers and timeouts; those of the program are: 16 and 10.
CounterSuffices == ExecQueueLength + TimerQueueLength <= 249

\* The timeouts of port p for which the executor sends another request.
Retries(p) == {e \in DlrEvent : /\ e.event = "NEIGHBORTIMEOUT" /\ e.port = {p}
                                /\ e.count < DLR_NEIGHBOR_CHECK_TRIES}

\* The timer of port p, and the starts of it to come, each good for one expiry.
Starting(p) == Tally(CommandsAhead, {Command("start", p)}) + Bit(p \in timer)
Retrying(p) == Tally(exec_queue, Retries(p))

\* A bound on the expiries of port p to come in this round: the timers started,
\* and one for each request that may still be sent.
Future(p) == Starting(p) + DLR_NEIGHBOR_CHECK_TRIES + round.inherited[p] - round.requests[p]

\* The retries that a counter at c allows in f expiries, once it has been loaded.
Still(c, f) ==
  IF c < DLR_NEIGHBOR_CHECK_TRIES THEN DLR_NEIGHBOR_CHECK_TRIES - 1 - c
  ELSE IF c + f <= 255 THEN 0 ELSE DLR_NEIGHBOR_CHECK_TRIES

\* Those of the event the daemon is about to send, and of the expiries after it.
Successor(v) == (v + 1) % 256
IsRetry(v) == Bit(v < DLR_NEIGHBOR_CHECK_TRIES)
DaemonTries(d, p, c, f) ==
  IF d.pc = "idle" \/ d.port # p THEN Still(c, f)
  ELSE IF d.pc = "store"
       THEN IsRetry(Successor(d.value)) + Still(Successor(d.value), f)
  ELSE IF d.pc = "freeze"
       THEN Bit(\E v \in {d.value, c} : v < DLR_NEIGHBOR_CHECK_TRIES) + Still(c, f)
  ELSE IsRetry(d.value) + Still(c, f)

\* What a round has sent on port p, what is on its way to be sent, and what may
\* still be, fit in the bound.
Budget(p) ==
  /\ round.requests[p] + Retrying(p) + DaemonTries(daemon, p, timeout_count[p], Future(p))
       <= DLR_NEIGHBOR_CHECK_TRIES + round.inherited[p]
  /\ Future(p) <= 253

\* Only the daemon sends timeouts, each of one port.
TimeoutPorts ==
  /\ \A i \in 1..Len(exec_queue) : exec_queue[i].event = "NEIGHBORTIMEOUT" =>
       \E p \in Ports : exec_queue[i].port = {p}
  /\ \A i \in 1..Len(held) : held[i].event # "NEIGHBORTIMEOUT"

\* The counter after a load and a store.
LEMMA SuccessorIs ==
  ASSUME NEW v \in 0..255
  PROVE  Successor(v) \in 0..255 /\ Successor(v) = IF v = 255 THEN 0 ELSE v + 1
  BY DEF Successor

\* The fewer expiries are left, the fewer retries.
LEMMA StillBounds ==
  ASSUME NEW c \in 0..255, NEW f \in Int
  PROVE  /\ Still(c, f) \in 0..3
         /\ \A g \in Int : g <= f => Still(c, g) <= Still(c, f)
  BY DEF Still, DLR_NEIGHBOR_CHECK_TRIES

\* An expiry takes from the retries left the one it may cause.
LEMMA StillExpires ==
  ASSUME NEW c \in 0..255, NEW f \in 1..253
  PROVE  IsRetry(Successor(c)) + Still(Successor(c), f - 1) <= Still(c, f)
<1>1. Successor(c) \in 0..255 /\ Successor(c) = IF c = 255 THEN 0 ELSE c + 1
  BY SuccessorIs
<1> QED
  BY <1>1 DEF IsRetry, Bit, Still, DLR_NEIGHBOR_CHECK_TRIES

\* An expiry left from an earlier round adds one to what its counter allows.
LEMMA StillStale ==
  ASSUME NEW v \in 0..255, NEW f \in Int, f <= 253
  PROVE  IsRetry(v) + Still(v, f) <= DLR_NEIGHBOR_CHECK_TRIES
  BY DEF IsRetry, Bit, Still, DLR_NEIGHBOR_CHECK_TRIES

\* The same of what the daemon holds.
LEMMA TriesBounds ==
  ASSUME NEW d \in Daemon, NEW p \in Ports, NEW c \in 0..255, NEW f \in Int
  PROVE  /\ DaemonTries(d, p, c, f) \in Nat
         /\ \A g \in Int : g <= f => DaemonTries(d, p, c, g) <= DaemonTries(d, p, c, f)
<1>1. d.value \in 0..255 /\ Successor(d.value) \in 0..255
  BY SuccessorIs DEF Daemon
<1>2. \A v \in 0..255, h \in Int : Still(v, h) \in 0..3
  BY StillBounds
<1>7. \A v \in 0..255, g \in Int : g <= f => Still(v, g) <= Still(v, f)
  BY StillBounds
<1>3. /\ \A v : IsRetry(v) \in {0, 1}
      /\ Bit(\E v \in {d.value, c} : v < DLR_NEIGHBOR_CHECK_TRIES) \in {0, 1}
  BY BitType DEF IsRetry
<1> DEFINE a == IsRetry(Successor(d.value))
           b == Bit(\E v \in {d.value, c} : v < DLR_NEIGHBOR_CHECK_TRIES)
           w == Successor(d.value)
<1>4. a \in {0, 1} /\ b \in {0, 1} /\ IsRetry(d.value) \in {0, 1}
  BY <1>3
<1>5. \A g : DaemonTries(d, p, c, g) =
               IF d.pc = "idle" \/ d.port # p THEN Still(c, g)
               ELSE IF d.pc = "store" THEN a + Still(w, g)
               ELSE IF d.pc = "freeze" THEN b + Still(c, g)
               ELSE IsRetry(d.value) + Still(c, g)
  BY DEF DaemonTries
<1>6. w \in 0..255
  BY <1>1
<1>8. c \in 0..255
  OBVIOUS
<1> HIDE DEF a, b, w
<1>9. \A h \in Int : Still(c, h) \in 0..3 /\ Still(w, h) \in 0..3
  BY <1>2, <1>6, <1>8
<1>10. \A h \in Int : DaemonTries(d, p, c, h) \in Nat
  BY <1>4, <1>5, <1>9
<1>11. ASSUME NEW g \in Int, g <= f
       PROVE  DaemonTries(d, p, c, g) <= DaemonTries(d, p, c, f)
  <2>1. Still(c, g) <= Still(c, f) /\ Still(w, g) <= Still(w, f)
    BY <1>6, <1>7, <1>8, <1>11
  <2> QED
    BY <1>4, <1>5, <1>9, <2>1
<1> QED
  BY <1>10, <1>11

\* A round begins: the daemon may be in a callback, which is counted in InFlight.
LEMMA TriesOfNewRound ==
  ASSUME NEW d \in Daemon, NEW p \in Ports, NEW f \in Int, f <= 253
  PROVE  DaemonTries(d, p, 0, f) <= DLR_NEIGHBOR_CHECK_TRIES - 1
                                    + Bit(d.pc # "idle" /\ d.port = p)
<1>1. d.value \in 0..255 /\ Successor(d.value) \in 0..255
  BY SuccessorIs DEF Daemon
<1>2. Still(0, f) = 2
  BY DEF Still, DLR_NEIGHBOR_CHECK_TRIES
<1>3. IsRetry(Successor(d.value)) + Still(Successor(d.value), f) <= 3
  BY <1>1, StillStale DEF DLR_NEIGHBOR_CHECK_TRIES
<1>4. /\ IsRetry(d.value) \in {0, 1}
      /\ Bit(\E v \in {d.value, 0} : v < DLR_NEIGHBOR_CHECK_TRIES) \in {0, 1}
  BY BitType DEF IsRetry
<1> DEFINE a == IsRetry(Successor(d.value)) + Still(Successor(d.value), f)
           b == Bit(\E v \in {d.value, 0} : v < DLR_NEIGHBOR_CHECK_TRIES)
<1>5. DaemonTries(d, p, 0, f) =
        IF d.pc = "idle" \/ d.port # p THEN 2
        ELSE IF d.pc = "store" THEN a
        ELSE IF d.pc = "freeze" THEN b + 2
        ELSE IsRetry(d.value) + 2
  BY <1>2 DEF DaemonTries
<1>6. a <= 3 /\ b \in {0, 1}
  BY <1>3, <1>4
<1> HIDE DEF a, b
<1> QED
  BY <1>4, <1>5, <1>6 DEF Bit, DLR_NEIGHBOR_CHECK_TRIES

\* One queue after another.
LEMMA TallyJoined ==
  ASSUME NEW S, NEW q \in Seq(S), NEW r \in Seq(S), NEW A
  PROVE  Tally(q \o r, A) = Tally(q, A) + Tally(r, A)
<1> DEFINE s == q \o r
<1>1. /\ Len(s) = Len(q) + Len(r) /\ Len(q) \in Nat /\ Len(r) \in Nat
      /\ \A i \in 1..Len(q) : s[i] = q[i]
      /\ \A i \in 1..Len(r) : s[Len(q) + i] = r[i]
  OBVIOUS
<1> HIDE DEF s
<1>2. Tally(s, A) = Tally(q, A) + Tally(r, A)
  BY <1>1, TallyConcat
<1> QED
  BY <1>2 DEF s

\* The starts of a handler.
LEMMA StartsOfHandler ==
  ASSUME NEW ports \in SUBSET Ports, NEW p \in Ports
  PROVE  /\ Tally(TimerCommands("start", ports), {Command("start", p)}) = Bit(p \in ports)
         /\ Tally(TimerCommands("stop", ports), {Command("start", p)}) = 0
<1> DEFINE A == {Command("start", p)}
<1>1. ASSUME NEW op \in {"start", "stop"}, NEW q \in Ports
      PROVE  /\ TimerCommand1(op, ports, q) \in Seq(TimerCommand)
             /\ Tally(TimerCommand1(op, ports, q), A) =
                  Bit(op = "start" /\ q = p /\ q \in ports)
  <2> DEFINE c == Command(op, q)
  <2>1. c \in TimerCommand /\ TimerCommand1(op, ports, q) = IF q \in ports THEN <<c>> ELSE <<>>
    BY DEF Command, TimerCommand, TimerCommand1
  <2>2. c \in A <=> op = "start" /\ q = p
    BY DEF Command
  <2> HIDE DEF c, A
  <2>3. <<c>> \in Seq(TimerCommand) /\ <<>> \in Seq(TimerCommand)
    BY <2>1
  <2>4. Tally(<<c>>, A) = Bit(c \in A) /\ Tally(<<>>, A) = 0
    BY TallyOne, TallyNone
  <2>5. CASE q \in ports
    BY <2>1, <2>2, <2>3, <2>4, <2>5 DEF Bit
  <2>6. CASE q \notin ports
    BY <2>1, <2>2, <2>3, <2>4, <2>6 DEF Bit
  <2> QED
    BY <2>5, <2>6
<1> HIDE DEF A
<1>2. ASSUME NEW op \in {"start", "stop"}
      PROVE  Tally(TimerCommands(op, ports), A) =
               Bit(op = "start" /\ 0 = p /\ 0 \in ports) + Bit(op = "start" /\ 1 = p /\ 1 \in ports)
  <2> DEFINE x == TimerCommand1(op, ports, 0)
             y == TimerCommand1(op, ports, 1)
  <2>0. 0 \in Ports /\ 1 \in Ports
    BY DEF Ports
  <2>1. /\ x \in Seq(TimerCommand) /\ y \in Seq(TimerCommand)
        /\ Tally(x, A) = Bit(op = "start" /\ 0 = p /\ 0 \in ports)
        /\ Tally(y, A) = Bit(op = "start" /\ 1 = p /\ 1 \in ports)
    BY <1>1, <2>0
  <2>2. TimerCommands(op, ports) = x \o y
    BY DEF TimerCommands
  <2> HIDE DEF x, y
  <2>3. Tally(x \o y, A) = Tally(x, A) + Tally(y, A)
    BY <2>1, TallyJoined
  <2> QED
    BY <2>1, <2>2, <2>3
<1>3. Tally(TimerCommands("start", ports), A) = Bit(p \in ports)
  <2>1. Tally(TimerCommands("start", ports), A) =
               Bit(0 = p /\ 0 \in ports) + Bit(1 = p /\ 1 \in ports)
    BY <1>2
  <2> QED
    BY <2>1 DEF Bit, Ports
<1>4. Tally(TimerCommands("stop", ports), A) = 0
  <2>1. Tally(TimerCommands("stop", ports), A) = Bit(FALSE) + Bit(FALSE)
    BY <1>2
  <2> QED
    BY <2>1 DEF Bit
<1> QED
  BY <1>3, <1>4 DEF A

\* What an event does to the round on one port: nothing, another try, or a new
\* round.
LEMMA HandlerCounts ==
  ASSUME FsmTypeOK, timer_cmds = <<>>, NEW e \in DlrEvent, NEW f, NEW p \in Ports,
         ExecuteWithEvent(e, f),
         e.event = "NEIGHBORTIMEOUT" => \E q \in Ports : e.port = {q}
  PROVE  LET starts == Tally(timer_cmds', {Command("start", p)})
         IN  \/ /\ round'.requests[p] = round.requests[p]
                /\ round'.inherited[p] = round.inherited[p]
                /\ timeout_count'[p] = timeout_count[p] /\ starts = 0
             \/ /\ e \in Retries(p)
                /\ round'.requests[p] = round.requests[p] + 1
                /\ round'.inherited[p] = round.inherited[p]
                /\ timeout_count'[p] = timeout_count[p] /\ starts = 1
             \/ /\ e.event = "LOCATEFAULT"
                /\ round'.requests[p] = 1 /\ round'.inherited[p] = f[p]
                /\ timeout_count'[p] = 0 /\ starts = 1
<1> DEFINE A == {Command("start", p)}
           starts == Tally(timer_cmds', A)
           Same == /\ round'.requests[p] = round.requests[p]
                   /\ round'.inherited[p] = round.inherited[p]
                   /\ timeout_count'[p] = timeout_count[p] /\ starts = 0
           Tries == /\ e \in Retries(p)
                    /\ round'.requests[p] = round.requests[p] + 1
                    /\ round'.inherited[p] = round.inherited[p]
                    /\ timeout_count'[p] = timeout_count[p] /\ starts = 1
           Begins == /\ e.event = "LOCATEFAULT"
                     /\ round'.requests[p] = 1 /\ round'.inherited[p] = f[p]
                     /\ timeout_count'[p] = 0 /\ starts = 1
<1>e. /\ e.port \in SUBSET Ports /\ round \in RoundType
      /\ Tally(<<>>, A) = 0
  <2>1. <<>> \in Seq(TimerCommand) /\ Tally(<<>>, A) = 0
    BY TallyNone
  <2> QED
    BY <2>1 DEF DlrEvent, FsmTypeOK
<1>s. /\ \A ports \in SUBSET Ports : Tally(TimerCommands("stop", ports), A) = 0
      /\ \A ports \in SUBSET Ports : Tally(TimerCommands("start", ports), A) = Bit(p \in ports)
  BY StartsOfHandler
<1>r. \A w : LET r == [round EXCEPT !.waiting = w]
             IN  r.requests = round.requests /\ r.inherited = round.inherited
  BY <1>e DEF RoundType
<1> HIDE DEF A
<1>1. ASSUME \/ round' = round \/ \E w : round' = [round EXCEPT !.waiting = w],
             timeout_count' = timeout_count,
             \/ timer_cmds' = timer_cmds
             \/ \E ports \in SUBSET Ports : timer_cmds' = TimerCommands("stop", ports)
      PROVE  Same
  <2>1. starts = 0
    BY <1>1, <1>e, <1>s
  <2>2. round'.requests = round.requests /\ round'.inherited = round.inherited
    BY <1>1, <1>r
  <2> QED
    BY <1>1, <2>1, <2>2
<1>2. CASE e.event = "NEIGHBORTIMEOUT" /\ EventNeighborTimeout(e)
  <2>1. CASE /\ TriesLeft(e)
             /\ timer_cmds' = TimerCommands("start", e.port)
             /\ round' = [round EXCEPT
                  !.requests = [q \in Ports |-> IF q \in e.port THEN @[q] + 1 ELSE @[q]],
                  !.waiting = @ \cup (e.port \ neighbor_active_port)]
             /\ UNCHANGED timeout_count
    <3>1. /\ round'.inherited = round.inherited
          /\ round'.requests[p] = IF p \in e.port THEN round.requests[p] + 1
                                  ELSE round.requests[p]
      BY <1>e, <2>1 DEF RoundType
    <3>2. starts = Bit(p \in e.port)
      BY <1>e, <1>s, <2>1
    <3>3. CASE p \in e.port
      <4>1. e.port = {p}
        BY <1>2, <3>3
      <4>2. e \in Retries(p)
        BY <1>2, <2>1, <4>1 DEF Retries, TriesLeft
      <4>3. Tries
        BY <2>1, <3>1, <3>2, <3>3, <4>2 DEF Bit
      <4> QED
        BY <4>3 DEF A
    <3>4. CASE p \notin e.port
      <4>1. Same
        BY <2>1, <3>1, <3>2, <3>4 DEF Bit
      <4> QED
        BY <4>1 DEF A
    <3> QED
      BY <3>3, <3>4
  <2>2. CASE /\ UNCHANGED <<timer_cmds, timeout_count>>
             /\ round' = [round EXCEPT !.waiting = @ \ e.port]
    BY <1>1, <2>2 DEF A
  <2>3. CASE UNCHANGED <<timer_cmds, timeout_count, round>>
    BY <1>1, <2>3 DEF A
  <2> QED
    BY <1>2, <2>1, <2>2, <2>3
    DEF EventNeighborTimeout, fsmVars, nodeVars, checkVars, answerVars
<1>3. CASE e.event = "LOCATEFAULT" /\ EventLocateFault(e, f)
  <2>1. CASE StartNeighborCheck(f)
    <3>1. /\ timer_cmds' = TimerCommands("start", Ports) /\ timeout_count'[p] = 0
          /\ round'.requests[p] = 1 /\ round'.inherited[p] = f[p]
      BY <2>1 DEF StartNeighborCheck, DLR_PORT_BOTH
    <3>2. starts = 1
      BY <1>s, <3>1 DEF Bit
    <3> QED
      BY <1>3, <3>1, <3>2 DEF A
  <2>2. CASE UNCHANGED <<timer_cmds, timeout_count, round>>
    BY <1>1, <2>2 DEF A
  <2> QED
    BY <1>3, <2>1, <2>2 DEF EventLocateFault, fsmVars, checkVars, answerVars
<1>4. CASE EventNeighborCheckResponse(e)
  <2>1. \/ UNCHANGED <<timer_cmds, timeout_count, round>>
        \/ /\ timer_cmds' = TimerCommands("stop", e.port) /\ UNCHANGED timeout_count
           /\ round' = [round EXCEPT !.waiting = @ \ e.port]
    BY <1>4 DEF EventNeighborCheckResponse, fsmVars, checkVars, answerVars
  <2> QED
    BY <1>1, <1>e, <2>1 DEF A
<1>5. CASE EventLinkLost(e) \/ EventBeaconTimeout(e) \/ EventNewState(e)
  <2>1. /\ UNCHANGED timeout_count
        /\ \/ timer_cmds' = timer_cmds \/ timer_cmds' = TimerCommands("stop", DLR_PORT_BOTH)
        /\ round' = round \/ round' = [round EXCEPT !.waiting = {}]
    BY <1>5 DEF EventLinkLost, EventBeaconTimeout, EventNewState, answerVars
  <2> QED
    BY <1>1, <2>1 DEF A, DLR_PORT_BOTH
<1>6. CASE EventLinkRestore(e) \/ EventNewSupervisor(e) \/ EventFlushTable(e) \/ EventAnswered(e)
  <2>1. UNCHANGED <<timer_cmds, timeout_count, round>>
    BY <1>6 DEF EventLinkRestore, EventNewSupervisor, EventFlushTable, EventAnswered,
       fsmVars, checkVars, answerVars
  <2> QED
    BY <1>1, <2>1 DEF A
<1> QED
  BY <1>2, <1>3, <1>4, <1>5, <1>6 DEF ExecuteWithEvent

\* A round inherits at least the timeouts that will still be answered with a
\* request, and no more than the executor's queue holds.
LEMMA InheritedTimeouts ==
  ASSUME TypeOK, exec_queue # <<>>, NEW p \in Ports
  PROVE  LET busy == Bit(daemon.pc # "idle" /\ daemon.port = p)
         IN  /\ InFlight[p] \in Nat
             /\ Tally(Tail(exec_queue), Retries(p)) + busy <= InFlight[p]
             /\ InFlight[p] <= ExecQueueLength
<1> DEFINE t == Tail(exec_queue)
           X == {i \in 2..(1 + Len(t)) : exec_queue[i] \in Retries(p)}
           Y == TimeoutsQueued(p)
           busy == Bit(daemon.pc # "idle" /\ daemon.port = p)
<1>1. /\ exec_queue \in Seq(DlrEvent) /\ Len(exec_queue) <= ExecQueueLength
      /\ ExecQueueLength \in Nat
  BY QueueAssumption DEF TypeOK
<1>2. /\ Len(t) \in Nat /\ Len(exec_queue) = 1 + Len(t)
      /\ \A i \in 1..Len(t) : exec_queue[1 + i] = t[i]
  BY <1>1
<1> HIDE DEF t
<1>3. IsFiniteSet(X) /\ Cardinality(X) = Tally(t, Retries(p))
  <2>1. /\ IsFiniteSet({i \in (1 + 1)..(1 + Len(t)) : exec_queue[i] \in Retries(p)})
        /\ Cardinality({i \in (1 + 1)..(1 + Len(t)) : exec_queue[i] \in Retries(p)})
             = Tally(t, Retries(p))
    BY <1>2, 1 \in Nat, TallyMoved
  <2>2. 1 + 1 = 2
    OBVIOUS
  <2> QED
    BY <2>1, <2>2
<1>4. X \subseteq Y
  BY <1>2 DEF TimeoutsQueued, Retries
<1>5. IsFiniteSet(Y) /\ Cardinality(Y) <= Len(t)
  <2>1. IsFiniteSet(2..Len(exec_queue)) /\ Cardinality(2..Len(exec_queue)) = Len(t)
    <3>1. /\ IsFiniteSet(2..Len(exec_queue))
          /\ Cardinality(2..Len(exec_queue)) =
               IF 2 > Len(exec_queue) THEN 0 ELSE Len(exec_queue) - 2 + 1
      BY <1>2, FS_Interval, 2 \in Int, Len(exec_queue) \in Int
    <3> QED
      BY <1>2, <3>1
  <2>2. Y \in SUBSET (2..Len(exec_queue))
    BY DEF TimeoutsQueued
  <2> QED
    BY <2>1, <2>2, FS_Subset
<1>6. Cardinality(X) <= Cardinality(Y) /\ Cardinality(X) \in Nat /\ Cardinality(Y) \in Nat
  BY <1>3, <1>4, <1>5, FS_Subset, FS_CardinalityType
<1>7. InFlight[p] = Cardinality(Y) + busy /\ busy \in {0, 1}
  BY BitType DEF InFlight, Bit
<1> HIDE DEF X, Y, busy
<1>8. /\ InFlight[p] \in Nat /\ Tally(t, Retries(p)) + busy <= InFlight[p]
      /\ InFlight[p] <= ExecQueueLength
  BY <1>1, <1>2, <1>3, <1>5, <1>6, <1>7
<1> QED
  BY <1>8 DEF t, busy

\* The numbers of a round.
BudgetTypeOK ==
  \A p \in Ports :
    /\ Starting(p) \in Nat /\ Retrying(p) \in Nat /\ Future(p) \in Int
    /\ round.requests[p] \in Nat /\ round.inherited[p] \in Nat
    /\ timeout_count[p] \in 0..255 /\ daemon \in Daemon
    /\ \A f \in Int : DaemonTries(daemon, p, timeout_count[p], f) \in Nat

LEMMA BudgetType == TypeOK => BudgetTypeOK
<1> SUFFICES ASSUME TypeOK, NEW p \in Ports
             PROVE  /\ Starting(p) \in Nat /\ Retrying(p) \in Nat /\ Future(p) \in Int
                    /\ round.requests[p] \in Nat /\ round.inherited[p] \in Nat
                    /\ timeout_count[p] \in 0..255 /\ daemon \in Daemon
                    /\ \A f \in Int : DaemonTries(daemon, p, timeout_count[p], f) \in Nat
  BY DEF BudgetTypeOK
<1>1. /\ CommandsAhead \in Seq(TimerCommand) /\ exec_queue \in Seq(DlrEvent)
      /\ round \in RoundType /\ daemon \in Daemon /\ timeout_count[p] \in 0..255
  BY DEF TypeOK, FsmTypeOK, CommandsAhead
<1>2. Len(CommandsAhead) \in Nat /\ Len(exec_queue) \in Nat
  BY <1>1
<1>3. Starting(p) \in Nat
  <2>1. Tally(CommandsAhead, {Command("start", p)}) \in Nat /\ Bit(p \in timer) \in {0, 1}
    BY <1>2, TallyType, BitType
  <2> QED
    BY <2>1 DEF Starting
<1>4. Retrying(p) \in Nat
  BY <1>2, TallyType DEF Retrying
<1>5. round.requests[p] \in Nat /\ round.inherited[p] \in Nat
  BY <1>1 DEF RoundType
<1>6. Future(p) \in Int
  BY <1>3, <1>5 DEF Future, DLR_NEIGHBOR_CHECK_TRIES
<1>7. \A f \in Int : DaemonTries(daemon, p, timeout_count[p], f) \in Nat
  BY <1>1, TriesBounds
<1> QED
  BY <1>1, <1>3, <1>4, <1>5, <1>6, <1>7

LEMMA BudgetTypeNext == TypeOK' => BudgetTypeOK'
  BY BudgetType, PTL

\* A timer that may expire is part of the future.
LEMMA FutureIsStarted ==
  ASSUME TypeOK, NEW p \in Ports, Budget(p)
  PROVE  Future(p) >= Starting(p)
<1>1. /\ DaemonTries(daemon, p, timeout_count[p], Future(p)) \in Nat
      /\ round.requests[p] \in Nat /\ round.inherited[p] \in Nat /\ Retrying(p) \in Nat
      /\ Starting(p) \in Nat /\ Future(p) \in Int
  BY BudgetType DEF BudgetTypeOK
<1> QED
  BY <1>1 DEF Budget, Future, DLR_NEIGHBOR_CHECK_TRIES

\* A step that only moves numbers of the budget down keeps it.
LEMMA BudgetKept ==
  ASSUME TypeOK, TypeOK', NEW p \in Ports, Budget(p),
         round'.requests[p] = round.requests[p], round'.inherited[p] = round.inherited[p],
         timeout_count'[p] = timeout_count[p], UNCHANGED daemon,
         Starting(p)' <= Starting(p), Retrying(p)' <= Retrying(p)
  PROVE  Budget(p)'
<1> DEFINE c == timeout_count[p]
           f == Future(p)
           g == Future(p)'
<1>1. /\ Starting(p) \in Nat /\ Retrying(p) \in Nat /\ f \in Int
      /\ round.requests[p] \in Nat /\ round.inherited[p] \in Nat
      /\ c \in 0..255 /\ daemon \in Daemon
      /\ DaemonTries(daemon, p, c, f) \in Nat
  BY BudgetType DEF BudgetTypeOK
<1>2. Starting(p)' \in Nat /\ Retrying(p)' \in Nat /\ g \in Int
  BY BudgetTypeNext DEF BudgetTypeOK
<1>3. g <= f
  BY <1>1, <1>2 DEF Future, DLR_NEIGHBOR_CHECK_TRIES
<1>4. DaemonTries(daemon, p, c, g) <= DaemonTries(daemon, p, c, f)
      /\ DaemonTries(daemon, p, c, g) \in Nat
  BY <1>1, <1>2, <1>3, TriesBounds
<1>5. /\ round.requests[p] + Retrying(p) + DaemonTries(daemon, p, c, f)
           <= DLR_NEIGHBOR_CHECK_TRIES + round.inherited[p]
      /\ f <= 253
  BY DEF Budget
<1>6. Budget(p)' <=> /\ round'.requests[p] + Retrying(p)' + DaemonTries(daemon, p, c, g)
                          <= DLR_NEIGHBOR_CHECK_TRIES + round'.inherited[p]
                     /\ g <= 253
  BY DEF Budget
<1> HIDE DEF c, f, g
<1>7. round.requests[p] + Retrying(p)' + DaemonTries(daemon, p, c, g)
        <= DLR_NEIGHBOR_CHECK_TRIES + round.inherited[p]
  BY <1>1, <1>2, <1>4, <1>5 DEF DLR_NEIGHBOR_CHECK_TRIES
<1> QED
  BY <1>1, <1>2, <1>3, <1>5, <1>6, <1>7

\* The interrupt handler sends no timeouts, and begins no rounds.
LEMMA IsrEventName ==
  ASSUME NEW bit \in IrqBits
  PROVE  IsrEvent(bit).event # "NEIGHBORTIMEOUT" /\ IsrEvent(bit).event # "LOCATEFAULT"
<1> DEFINE port == {p \in Ports : bit \in {BEACONTMO(p), LNKCHNG(p), LOCALLOOP(p)}}
           name == CASE bit = NEWSTATUS -> "NEWSTATE"
                     [] bit = SUVICHNG -> "NEWSUPERVISOR"
                     [] bit \in {BEACONTMO(p) : p \in Ports} -> "BEACONTIMEOUT"
                     [] bit \in {LNKCHNG(p) : p \in Ports} ->
                          IF port \subseteq hw.link THEN "LINKRESTORED" ELSE "LINKLOST"
                     [] OTHER -> "OWNFRAME"
<1>1. name # "NEIGHBORTIMEOUT" /\ name # "LOCATEFAULT"
  OBVIOUS
<1> HIDE DEF name
<1>2. IsrEvent(bit).event = name
  BY DEF IsrEvent, EventOf, name
<1> QED
  BY <1>1, <1>2

\* Every step keeps the timeouts to the daemon's callback.
LEMMA TimeoutPortsStep ==
  ASSUME TypeOK, TimeoutPorts, [Next]_vars
  PROVE  TimeoutPorts'
<1> DEFINE Good(e) == e.event = "NEIGHBORTIMEOUT" => \E p \in Ports : e.port = {p}
<1>t. /\ exec_queue \in Seq(DlrEvent) /\ held \in Seq(DlrEvent) /\ Len(held) <= 1
      /\ daemon.port \in Ports
  BY DEF TypeOK, Daemon
<1>g. /\ \A i \in 1..Len(exec_queue) : Good(exec_queue[i])
      /\ \A i \in 1..Len(held) : held[i].event # "NEIGHBORTIMEOUT"
  BY DEF TimeoutPorts
<1>m. ASSUME \A i \in 1..Len(exec_queue') : Good(exec_queue'[i]),
             \A i \in 1..Len(held') : held'[i].event # "NEIGHBORTIMEOUT"
      PROVE  TimeoutPorts'
  BY <1>m DEF TimeoutPorts
<1>1. ASSUME NEW e, Good(e)
      PROVE  \A i \in 1..Len(Append(exec_queue, e)) : Good(Append(exec_queue, e)[i])
  <2>1. /\ Len(Append(exec_queue, e)) = Len(exec_queue) + 1 /\ Len(exec_queue) \in Nat
        /\ Append(exec_queue, e)[Len(exec_queue) + 1] = e
        /\ \A i \in 1..Len(exec_queue) : Append(exec_queue, e)[i] = exec_queue[i]
    BY <1>t
  <2> DEFINE s == Append(exec_queue, e)
  <2> HIDE DEF s, Good
  <2>2. \A i \in 1..Len(s) : i \in 1..Len(exec_queue) \/ i = Len(exec_queue) + 1
    BY <2>1 DEF s
  <2>3. \A i \in 1..Len(s) : Good(s[i])
    BY <1>1, <1>g, <2>1, <2>2 DEF s
  <2> QED
    BY <2>3 DEF s
<1>2. CASE UNCHANGED <<exec_queue, held>>
  BY <1>2, <1>g, <1>m
<1>3. ASSUME NEW name \in FrameKinds, NEW p \in Ports, NEW learn \in BOOLEAN,
             NEW id \in wire[p] \cup {0}, ReceiverTakeFrame(name, p, id, learn)
      PROVE  TimeoutPorts'
  <2> DEFINE e == [EventOf(name, {p}) EXCEPT !.id = id, !.learn = learn]
  <2>1. exec_queue' = exec_queue /\ held' \in {<<>>, <<e>>}
    BY <1>3 DEF ReceiverTakeFrame, Interpreted
  <2>2. e.event = name /\ name # "NEIGHBORTIMEOUT"
    BY QueueAssumption DEF EventOf, FrameEvents
  <2> HIDE DEF e
  <2>3. \A i \in 1..Len(held') : held'[i].event # "NEIGHBORTIMEOUT"
    <3>1. CASE held' = <<>>
      BY <3>1
    <3>2. CASE held' = <<e>>
      BY <2>2, <3>2
    <3> QED
      BY <2>1, <3>1, <3>2
  <2> QED
    BY <1>g, <1>m, <2>1, <2>3
<1>4. CASE ReceiverSendEvent
  <2>1. exec_queue' = held \o exec_queue /\ held' = <<>>
    BY <1>4 DEF ReceiverSendEvent
  <2> DEFINE s == held \o exec_queue
  <2>2. /\ Len(s) = Len(held) + Len(exec_queue) /\ Len(held) \in Nat
        /\ Len(exec_queue) \in Nat
        /\ \A i \in 1..Len(s) : s[i] = IF i <= Len(held) THEN held[i]
                                       ELSE exec_queue[i - Len(held)]
    BY <1>t
  <2> HIDE DEF s
  <2>3. \A i \in 1..Len(s) : \/ i \in 1..Len(held) /\ s[i] = held[i]
                             \/ i - Len(held) \in 1..Len(exec_queue)
                                /\ s[i] = exec_queue[i - Len(held)]
    BY <2>2
  <2>4. \A i \in 1..Len(s) : Good(s[i])
    BY <1>g, <2>3
  <2>5. \A i \in 1..Len(held') : held'[i].event # "NEIGHBORTIMEOUT"
    BY <2>1
  <2> QED
    BY <1>m, <2>1, <2>4, <2>5 DEF s
<1>5. CASE ExecutorTakeEvent
  <2>1. exec_queue # <<>> /\ exec_queue' = Tail(exec_queue) /\ held' = held
    BY <1>5 DEF ExecutorTakeEvent
  <2>2. \A i \in 1..Len(Tail(exec_queue)) : /\ i + 1 \in 1..Len(exec_queue)
                                            /\ Tail(exec_queue)[i] = exec_queue[i + 1]
    BY <1>t, <2>1
  <2> HIDE DEF Good
  <2>3. \A i \in 1..Len(exec_queue') : Good(exec_queue'[i])
    BY <1>g, <2>1, <2>2
  <2> QED
    BY <1>g, <1>m, <2>1, <2>3
<1>6. CASE CallbackSendEvent
  <2> DEFINE e == [EventOf("NEIGHBORTIMEOUT", {daemon.port}) EXCEPT !.count = daemon.value]
  <2>1. exec_queue' = Append(exec_queue, e) /\ held' = held
    BY <1>6 DEF CallbackSendEvent
  <2>2. Good(e)
    BY <1>t DEF EventOf
  <2> HIDE DEF e, Good
  <2> QED
    BY <1>1, <1>g, <1>m, <2>1, <2>2
<1>7. ASSUME NEW bit \in IrqBits, IsrCallback(bit)
      PROVE  TimeoutPorts'
  <2>1. /\ exec_queue' = exec_queue \/ exec_queue' = Append(exec_queue, IsrEvent(bit))
        /\ held' = held
    BY <1>7 DEF IsrCallback, SendFromIsr
  <2>2. Good(IsrEvent(bit))
    BY IsrEventName
  <2> HIDE DEF Good
  <2> QED
    BY <1>1, <1>g, <1>m, <2>1, <2>2
<1>8. CASE HwNext \/ IsrLatch \/ ExecutorPostCommand \/ DaemonTakeCommand
           \/ (\E p \in Ports : TimerExpires(p)) \/ CallbackStore \/ CallbackFreeze
           \/ UNCHANGED vars
  <2>1. HwNext => UNCHANGED taskVars
    BY HwNextIsHwChange DEF HwChange
  <2>2. UNCHANGED <<exec_queue, held>>
    BY <1>8, <2>1 DEF IsrLatch, ExecutorPostCommand, DaemonTakeCommand, TimerExpires,
       CallbackStore, CallbackFreeze, vars, taskVars
  <2> QED
    BY <1>2, <2>2
<1> QED
  BY <1>3, <1>4, <1>5, <1>6, <1>7, <1>8
  DEF Next, Isr, ReceiverNext, ExecutorNext, DaemonNext, Idle

\* The event the executor takes.
LEMMA TakenEvent ==
  ASSUME TypeOK, TimeoutPorts, ExecutorTakeEvent
  PROVE  LET e == Head(exec_queue)
         IN  /\ FsmTypeOK /\ timer_cmds = <<>> /\ exec_queue # <<>>
             /\ exec_queue \in Seq(DlrEvent) /\ e \in DlrEvent
             /\ e.event = "NEIGHBORTIMEOUT" => \E q \in Ports : e.port = {q}
             /\ ExecuteWithEvent(e, InFlight) /\ exec_queue' = Tail(exec_queue)
<1> DEFINE e == Head(exec_queue)
<1>1. /\ timer_cmds = <<>> /\ exec_queue # <<>>
      /\ ExecuteWithEvent(e, InFlight) /\ exec_queue' = Tail(exec_queue)
  BY DEF ExecutorTakeEvent
<1>2. exec_queue \in Seq(DlrEvent) /\ FsmTypeOK
  BY DEF TypeOK
<1>3. e = exec_queue[1] /\ 1 \in 1..Len(exec_queue) /\ e \in DlrEvent
  BY <1>1, <1>2
<1> HIDE DEF e
<1>4. e.event = "NEIGHBORTIMEOUT" => \E q \in Ports : e.port = {q}
  BY <1>3 DEF TimeoutPorts
<1>5. /\ FsmTypeOK /\ timer_cmds = <<>> /\ exec_queue # <<>>
      /\ exec_queue \in Seq(DlrEvent) /\ e \in DlrEvent
      /\ e.event = "NEIGHBORTIMEOUT" => \E q \in Ports : e.port = {q}
      /\ ExecuteWithEvent(e, InFlight) /\ exec_queue' = Tail(exec_queue)
  BY <1>1, <1>2, <1>3, <1>4
<1> QED
  BY <1>5 DEF e

\* The starts to come are those there were and those of the handler.
LEMMA HandlerStarts ==
  ASSUME TypeOK, TypeOK', NEW p \in Ports, ExecutorTakeEvent
  PROVE  /\ Starting(p)' = Starting(p) + Tally(timer_cmds', {Command("start", p)})
         /\ Starting(p) \in Nat /\ Starting(p) <= TimerQueueLength + 1
<1> DEFINE A == {Command("start", p)}
           starts == Tally(timer_cmds', A)
<1>1. /\ timer_cmds = <<>> /\ UNCHANGED <<timer_queue, timer>>
      /\ timer_queue \in Seq(TimerCommand) /\ timer_cmds' \in Seq(TimerCommand)
  BY DEF ExecutorTakeEvent, TypeOK, FsmTypeOK
<1>2. CommandsAhead = timer_queue /\ CommandsAhead' = timer_queue \o timer_cmds'
  BY <1>1 DEF CommandsAhead
<1>3. Tally(timer_queue \o timer_cmds', A) = Tally(timer_queue, A) + starts
  BY <1>1, TallyJoined
<1>4. /\ Tally(timer_queue, A) \in Nat /\ Tally(timer_queue, A) <= Len(timer_queue)
      /\ Len(timer_queue) \in Nat /\ Len(timer_queue) <= TimerQueueLength
      /\ starts \in Nat
  <2>1. Len(timer_queue) \in Nat /\ Len(timer_cmds') \in Nat
    BY <1>1
  <2> QED
    BY <2>1, TallyType DEF TypeOK
<1>5. /\ Starting(p) = Tally(timer_queue, A) + Bit(p \in timer)
      /\ Starting(p)' = Tally(timer_queue, A) + starts + Bit(p \in timer)
  <2> HIDE DEF starts, A
  <2>1. /\ Starting(p) = Tally(CommandsAhead, A) + Bit(p \in timer)
        /\ Starting(p)' = Tally(CommandsAhead', A) + Bit(p \in timer)
    BY <1>1 DEF Starting, A
  <2> QED
    BY <1>2, <1>3, <2>1
<1>6. Bit(p \in timer) \in {0, 1} /\ TimerQueueLength \in Nat
  BY BitType, QueueAssumption
<1> HIDE DEF A, starts
<1>7. /\ Starting(p)' = Starting(p) + starts
      /\ Starting(p) \in Nat /\ Starting(p) <= TimerQueueLength + 1
  BY <1>4, <1>5, <1>6
<1> QED
  BY <1>7 DEF A, starts

\* The round that a handler leaves on port p.
LEMMA HandlerBudget ==
  ASSUME CounterSuffices, TypeOK, TypeOK', TimeoutPorts, NEW p \in Ports, Budget(p),
         ExecutorTakeEvent
  PROVE  Budget(p)'
<1> DEFINE e == Head(exec_queue)
           t == Tail(exec_queue)
           starts == Tally(timer_cmds', {Command("start", p)})
           c == timeout_count'[p]
           f == Future(p)
           g == Future(p)'
           tries(x, y) == DaemonTries(daemon, p, x, y)
           busy == Bit(daemon.pc # "idle" /\ daemon.port = p)
<1>1. /\ timer_cmds = <<>> /\ exec_queue # <<>> /\ ExecuteWithEvent(e, InFlight)
      /\ exec_queue' = t /\ UNCHANGED daemon
      /\ exec_queue \in Seq(DlrEvent) /\ e \in DlrEvent /\ FsmTypeOK
  BY TakenEvent DEF ExecutorTakeEvent
<1>3. \/ /\ round'.requests[p] = round.requests[p]
         /\ round'.inherited[p] = round.inherited[p]
         /\ timeout_count'[p] = timeout_count[p] /\ starts = 0
      \/ /\ e \in Retries(p)
         /\ round'.requests[p] = round.requests[p] + 1
         /\ round'.inherited[p] = round.inherited[p]
         /\ timeout_count'[p] = timeout_count[p] /\ starts = 1
      \/ /\ e.event = "LOCATEFAULT"
         /\ round'.requests[p] = 1 /\ round'.inherited[p] = InFlight[p]
         /\ timeout_count'[p] = 0 /\ starts = 1
  <2>1. e.event = "NEIGHBORTIMEOUT" => \E q \in Ports : e.port = {q}
    BY TakenEvent
  <2> HIDE DEF e
  <2> QED
    BY <1>1, <2>1, HandlerCounts
<1>4. Starting(p)' = Starting(p) + starts /\ Starting(p) <= TimerQueueLength + 1
  BY HandlerStarts
<1>5. /\ Retrying(p) = Tally(t, Retries(p)) + Bit(e \in Retries(p))
      /\ Retrying(p)' = Tally(t, Retries(p))
      /\ Bit(e \in Retries(p)) \in {0, 1}
  <2>1. Tally(exec_queue, Retries(p)) = Tally(t, Retries(p)) + Bit(e \in Retries(p))
    BY <1>1, TallyTaken
  <2>2. exec_queue' = t
    BY <1>1
  <2> HIDE DEF t, e
  <2> QED
    BY <2>1, <2>2, BitType DEF Retrying
<1>6. /\ Starting(p) \in Nat /\ Retrying(p) \in Nat /\ f \in Int
      /\ round.requests[p] \in Nat /\ round.inherited[p] \in Nat
      /\ \A h \in Int : tries(timeout_count[p], h) \in Nat
  BY BudgetType DEF BudgetTypeOK
<1>7. /\ Starting(p)' \in Nat /\ Retrying(p)' \in Nat /\ g \in Int /\ c \in 0..255
      /\ \A h \in Int : tries(c, h) \in Nat
  BY BudgetTypeNext, <1>1 DEF BudgetTypeOK
<1>8. /\ f = Starting(p) + 3 + round.inherited[p] - round.requests[p]
      /\ g = Starting(p)' + 3 + round'.inherited[p] - round'.requests[p]
  BY DEF Future, DLR_NEIGHBOR_CHECK_TRIES
<1>9. /\ round.requests[p] + Retrying(p) + tries(timeout_count[p], f) <= 3 + round.inherited[p]
      /\ f <= 253
  BY DEF Budget, DLR_NEIGHBOR_CHECK_TRIES
<1>10. ASSUME round'.requests[p] + Retrying(p)' + tries(c, g) <= 3 + round'.inherited[p],
              g <= 253
       PROVE  Budget(p)'
  BY <1>1, <1>10 DEF Budget, DLR_NEIGHBOR_CHECK_TRIES
<1>11. CASE /\ round'.requests[p] = round.requests[p]
            /\ round'.inherited[p] = round.inherited[p]
            /\ timeout_count'[p] = timeout_count[p] /\ starts = 0
  <2>1. Starting(p)' = Starting(p) /\ Retrying(p)' <= Retrying(p)
    <3> HIDE DEF starts, t, e
    <3> QED
      BY <1>4, <1>5, <1>6, <1>7, <1>11
  <2>2. UNCHANGED daemon
    BY <1>1
  <2>3. Starting(p)' <= Starting(p)
    BY <1>6, <2>1
  <2> QED
    BY <1>11, <2>1, <2>2, <2>3, BudgetKept
<1>12. CASE /\ e \in Retries(p)
            /\ round'.requests[p] = round.requests[p] + 1
            /\ round'.inherited[p] = round.inherited[p]
            /\ timeout_count'[p] = timeout_count[p] /\ starts = 1
  <2>1. Bit(e \in Retries(p)) = 1
    BY <1>12 DEF Bit
  <2> HIDE DEF starts, t, e, f, g
  <2>2. Starting(p)' = Starting(p) + 1 /\ Retrying(p)' + 1 = Retrying(p)
    BY <1>4, <1>5, <1>6, <1>7, <1>12, <2>1
  <2>3. g = f
    BY <1>6, <1>8, <1>12, <2>2
  <2>4. tries(c, g) = tries(timeout_count[p], f) /\ tries(timeout_count[p], f) \in Nat
    BY <1>6, <1>12, <2>3
  <2> HIDE DEF c, tries
  <2>5. round'.requests[p] + Retrying(p)' + tries(c, g) <= 3 + round'.inherited[p]
    BY <1>6, <1>7, <1>9, <1>12, <2>2, <2>4
  <2>6. g <= 253
    BY <1>9, <2>3
  <2> QED
    BY <1>10, <2>5, <2>6
<1>13. CASE /\ round'.requests[p] = 1 /\ round'.inherited[p] = InFlight[p]
            /\ timeout_count'[p] = 0 /\ starts = 1
  <2>1. /\ InFlight[p] \in Nat /\ Tally(t, Retries(p)) + busy <= InFlight[p]
        /\ InFlight[p] <= ExecQueueLength /\ busy \in {0, 1}
    BY <1>1, InheritedTimeouts, BitType
  <2>2. ExecQueueLength \in Nat /\ TimerQueueLength \in Nat
        /\ ExecQueueLength + TimerQueueLength <= 249
    BY QueueAssumption DEF CounterSuffices
  <2>3. daemon \in Daemon
    BY DEF TypeOK
  <2> HIDE DEF starts, t, e, f, g, busy
  <2>4. g <= 253
    BY <1>4, <1>6, <1>7, <1>8, <1>13, <2>1, <2>2
  <2>5. DaemonTries(daemon, p, 0, g) <= 3 - 1 + busy
    BY <1>7, <2>3, <2>4, TriesOfNewRound DEF busy, DLR_NEIGHBOR_CHECK_TRIES
  <2>6. tries(c, g) <= 2 + busy /\ tries(c, g) \in Nat
    BY <1>7, <1>13, <2>1, <2>5
  <2> HIDE DEF c, tries
  <2>7. round'.requests[p] + Retrying(p)' + tries(c, g) <= 3 + round'.inherited[p]
    BY <1>5, <1>7, <1>13, <2>1, <2>6
  <2> QED
    BY <1>10, <2>4, <2>7
<1> QED
  BY <1>3, <1>11, <1>12, <1>13

\* The daemon takes a command: a start becomes a running timer.
LEMMA CommandStarts ==
  ASSUME TypeOK, NEW p \in Ports, DaemonTakeCommand
  PROVE  Starting(p)' <= Starting(p)
<1> DEFINE c == Head(timer_queue)
           A == {Command("start", p)}
<1>1. /\ UNCHANGED <<round, timeout_count, exec_queue, daemon, timer_cmds>>
      /\ timer_queue # <<>> /\ timer_queue' = Tail(timer_queue)
      /\ timer' = IF c.op = "start" THEN timer \cup {c.port} ELSE timer \ {c.port}
  BY DEF DaemonTakeCommand, fsmVars, checkVars, answerVars
<1>2. /\ timer_queue \in Seq(TimerCommand) /\ timer_cmds \in Seq(TimerCommand)
      /\ CommandsAhead \in Seq(TimerCommand)
  BY DEF TypeOK, FsmTypeOK, CommandsAhead
<1>3. /\ CommandsAhead # <<>> /\ Head(CommandsAhead) = c
      /\ CommandsAhead' = Tail(CommandsAhead)
  BY <1>1, <1>2 DEF CommandsAhead
<1>4. Tally(CommandsAhead, A) = Tally(CommandsAhead', A) + Bit(c \in A)
  BY <1>2, <1>3, TallyTaken
<1>5. c \notin A => (p \in timer' => p \in timer)
  <2>1. c \in TimerCommand
    BY <1>1, <1>2
  <2>2. c = Command(c.op, c.port)
    BY <2>1 DEF TimerCommand, Command
  <2> HIDE DEF c
  <2> QED
    BY <1>1, <2>2
<1>6. /\ Starting(p) = Tally(CommandsAhead, A) + Bit(p \in timer)
      /\ Starting(p)' = Tally(CommandsAhead', A) + Bit(p \in timer')
  BY DEF Starting
<1>7. Tally(CommandsAhead, A) \in Nat /\ Tally(CommandsAhead', A) \in Nat
  <2>1. Len(CommandsAhead) \in Nat /\ Len(Tail(CommandsAhead)) \in Nat
    BY <1>2, <1>3
  <2> QED
    BY <1>3, <2>1, TallyType
<1> HIDE DEF c, A
<1> QED
  BY <1>4, <1>5, <1>6, <1>7 DEF Bit

LEMMA CommandBudget ==
  ASSUME TypeOK, TypeOK', NEW p \in Ports, Budget(p), DaemonTakeCommand
  PROVE  Budget(p)'
<1>1. UNCHANGED <<round, timeout_count, exec_queue, daemon>>
  BY DEF DaemonTakeCommand, fsmVars, checkVars, answerVars
<1>2. Retrying(p)' = Retrying(p) /\ Retrying(p) \in Nat
  <2>1. Retrying(p)' = Retrying(p)
    BY <1>1 DEF Retrying
  <2> QED
    BY <2>1, BudgetType DEF BudgetTypeOK
<1>3. Retrying(p)' <= Retrying(p)
  BY <1>2
<1> QED
  BY <1>1, <1>3, CommandStarts, BudgetKept

\* The timer of a port expires, and its callback loads the counter.
LEMMA ExpiryStarts ==
  ASSUME TypeOK, NEW p \in Ports, NEW q \in Ports, TimerExpires(q)
  PROVE  Starting(p)' = Starting(p) - Bit(p = q)
<1> DEFINE n == Tally(CommandsAhead, {Command("start", p)})
<1>1. /\ UNCHANGED <<timer_queue, timer_cmds>>
      /\ q \in timer /\ timer' = timer \ {q}
  BY DEF TimerExpires, fsmVars
<1>2. CommandsAhead' = CommandsAhead
  BY <1>1 DEF CommandsAhead
<1>3. Starting(p) = n + Bit(p \in timer) /\ Starting(p)' = n + Bit(p \in timer')
  BY <1>2 DEF Starting
<1>4. n \in Nat
  <2>1. CommandsAhead \in Seq(TimerCommand)
    BY DEF TypeOK, FsmTypeOK, CommandsAhead
  <2>2. Len(CommandsAhead) \in Nat
    BY <2>1
  <2> QED
    BY <2>2, TallyType
<1>5. Bit(p \in timer') = Bit(p \in timer) - Bit(p = q)
  BY <1>1 DEF Bit
<1>6. Bit(p \in timer) \in {0, 1} /\ Bit(p = q) \in {0, 1}
  BY BitType
<1> HIDE DEF n
<1> QED
  BY <1>3, <1>4, <1>5, <1>6

LEMMA ExpiryBudget ==
  ASSUME TypeOK, TypeOK', NEW p \in Ports, Budget(p), NEW q \in Ports, TimerExpires(q)
  PROVE  Budget(p)'
<1> DEFINE c == timeout_count[p]
           f == Future(p)
           g == Future(p)'
<1>1. /\ UNCHANGED <<round, timeout_count, exec_queue, timer_queue, timer_cmds>>
      /\ daemon.pc = "idle" /\ q \in timer /\ timer' = timer \ {q}
      /\ daemon' = [pc |-> "store", port |-> q, value |-> timeout_count[q]]
  BY DEF TimerExpires, fsmVars, checkVars, answerVars
<1>2. /\ Starting(p) \in Nat /\ Retrying(p) \in Nat /\ f \in Int
      /\ round.requests[p] \in Nat /\ round.inherited[p] \in Nat /\ c \in 0..255
  BY BudgetType DEF BudgetTypeOK
<1>3. Starting(p)' \in Nat /\ g \in Int
  BY BudgetTypeNext DEF BudgetTypeOK
<1>4. Retrying(p)' = Retrying(p)
  BY <1>1 DEF Retrying
<1>5. Starting(p)' = Starting(p) - Bit(p = q)
  BY ExpiryStarts
<1>6. g = f - Bit(p = q)
  <2>1. /\ f = Starting(p) + 3 + round.inherited[p] - round.requests[p]
        /\ g = Starting(p)' + 3 + round.inherited[p] - round.requests[p]
    BY <1>1 DEF Future, DLR_NEIGHBOR_CHECK_TRIES
  <2>2. Bit(p = q) \in {0, 1}
    BY BitType
  <2> HIDE DEF f, g
  <2> QED
    BY <1>2, <1>5, <2>1, <2>2
<1>7. DaemonTries(daemon, p, c, f) = Still(c, f) /\ Still(c, f) \in Nat
  <2>1. Still(c, f) \in 0..3
    BY <1>2, StillBounds
  <2>2. DaemonTries(daemon, p, c, f) = Still(c, f)
    BY <1>1 DEF DaemonTries
  <2> QED
    BY <2>1, <2>2
<1>8. DaemonTries(daemon', p, c, g) <= Still(c, f) /\ DaemonTries(daemon', p, c, g) \in Nat
  <2>1. CASE p = q
    <3>1. f \in 1..253 /\ g = f - 1
      <4>1. Starting(p) >= 1
        BY <1>2, <1>3, <1>5, <2>1 DEF Bit
      <4>2. f >= Starting(p) /\ f <= 253
        BY FutureIsStarted DEF Budget
      <4> HIDE DEF f, g
      <4> QED
        BY <1>2, <1>6, <2>1, <4>1, <4>2 DEF Bit
    <3>2. daemon'.pc = "store" /\ daemon'.port = p /\ daemon'.value = c
      BY <1>1, <2>1
    <3>3. DaemonTries(daemon', p, c, g) = IsRetry(Successor(c)) + Still(Successor(c), g)
      BY <3>2 DEF DaemonTries
    <3>4. IsRetry(Successor(c)) + Still(Successor(c), f - 1) <= Still(c, f)
      BY <1>2, <3>1, StillExpires
    <3>5. IsRetry(Successor(c)) \in {0, 1} /\ Still(Successor(c), g) \in 0..3
      BY <1>2, <1>3, BitType, SuccessorIs, StillBounds DEF IsRetry
    <3> QED
      BY <3>1, <3>3, <3>4, <3>5
  <2>2. CASE p # q
    <3>1. DaemonTries(daemon', p, c, g) = Still(c, g)
      BY <1>1, <2>2 DEF DaemonTries
    <3>2. g = f
      BY <1>2, <1>6, <2>2 DEF Bit
    <3> QED
      BY <1>2, <1>7, <3>1, <3>2
  <2> QED
    BY <2>1, <2>2
<1>9. /\ round.requests[p] + Retrying(p) + DaemonTries(daemon, p, c, f)
           <= 3 + round.inherited[p]
      /\ f <= 253
  BY DEF Budget, DLR_NEIGHBOR_CHECK_TRIES
<1>10. Budget(p)' <=> /\ round.requests[p] + Retrying(p)' + DaemonTries(daemon', p, c, g)
                           <= 3 + round.inherited[p]
                      /\ g <= 253
  BY <1>1 DEF Budget, DLR_NEIGHBOR_CHECK_TRIES
<1>11. g <= 253
  BY <1>2, <1>3, <1>6, <1>9, BitType
<1> HIDE DEF c, f, g
<1>12. round.requests[p] + Retrying(p)' + DaemonTries(daemon', p, c, g) <= 3 + round.inherited[p]
  BY <1>2, <1>4, <1>7, <1>8, <1>9
<1> QED
  BY <1>10, <1>11, <1>12

\* The callback stores the counter, and freezes it.
LEMMA CounterBudget ==
  ASSUME TypeOK, TypeOK', NEW p \in Ports, Budget(p), CallbackStore \/ CallbackFreeze
  PROVE  Budget(p)'
<1> DEFINE f == Future(p)
<1>1. /\ UNCHANGED <<round, exec_queue, timer, timer_queue, timer_cmds>>
      /\ daemon \in Daemon /\ timeout_count \in [Ports -> 0..255]
  <2>1. daemon \in Daemon /\ timeout_count \in [Ports -> 0..255]
    BY DEF TypeOK, FsmTypeOK
  <2>2. UNCHANGED <<round, exec_queue, timer, timer_queue, timer_cmds>>
    BY DEF CallbackStore, CallbackFreeze, fsmVars, checkVars
  <2> QED
    BY <2>1, <2>2
<1>2. Future(p)' = f /\ Retrying(p)' = Retrying(p)
  BY <1>1 DEF Future, Starting, CommandsAhead, Retrying
<1>3. /\ Retrying(p) \in Nat /\ f \in Int
      /\ round.requests[p] \in Nat /\ round.inherited[p] \in Nat
      /\ DaemonTries(daemon, p, timeout_count[p], f) \in Nat
  BY BudgetType DEF BudgetTypeOK
<1>4. DaemonTries(daemon', p, timeout_count'[p], f) \in Nat
  BY BudgetTypeNext, <1>2, <1>3 DEF BudgetTypeOK
<1>5. DaemonTries(daemon', p, timeout_count'[p], f)
        <= DaemonTries(daemon, p, timeout_count[p], f)
  <2>1. CASE daemon.port # p
    <3>1. daemon'.port = daemon.port /\ timeout_count'[p] = timeout_count[p]
      <4>1. CASE CallbackStore
        BY <1>1, <2>1, <4>1 DEF CallbackStore, Daemon
      <4>2. CASE CallbackFreeze
        BY <1>1, <4>2 DEF CallbackFreeze, Daemon, fsmVars, checkVars, answerVars
      <4> QED
        BY <4>1, <4>2
    <3>2. /\ DaemonTries(daemon, p, timeout_count[p], f) = Still(timeout_count[p], f)
          /\ DaemonTries(daemon', p, timeout_count'[p], f) = Still(timeout_count[p], f)
      BY <2>1, <3>1 DEF DaemonTries
    <3> QED
      BY <1>3, <3>2
  <2>2. CASE daemon.port = p /\ CallbackStore
    <3> DEFINE w == Successor(daemon.value)
    <3>1. /\ daemon.pc = "store" /\ daemon'.pc = "freeze" /\ daemon'.port = p
          /\ daemon'.value = w /\ timeout_count'[p] = w
      BY <1>1, <2>2 DEF CallbackStore, Daemon, Successor
    <3>2. DaemonTries(daemon, p, timeout_count[p], f) = IsRetry(w) + Still(w, f)
      BY <2>2, <3>1 DEF DaemonTries
    <3>3. DaemonTries(daemon', p, timeout_count'[p], f) =
            Bit(\E v \in {w, w} : v < DLR_NEIGHBOR_CHECK_TRIES) + Still(w, f)
      BY <3>1 DEF DaemonTries
    <3>4. (\E v \in {w, w} : v < DLR_NEIGHBOR_CHECK_TRIES) <=> w < DLR_NEIGHBOR_CHECK_TRIES
      OBVIOUS
    <3>5. Bit(\E v \in {w, w} : v < DLR_NEIGHBOR_CHECK_TRIES) = IsRetry(w)
      BY <3>4 DEF Bit, IsRetry
    <3> DEFINE x == DaemonTries(daemon, p, timeout_count[p], f)
               y == DaemonTries(daemon', p, timeout_count'[p], f)
    <3>6. x = y
      BY <3>2, <3>3, <3>5
    <3>7. x \in Nat
      BY <1>3
    <3> HIDE DEF x, y
    <3>8. y <= x
      BY <3>6, <3>7
    <3> QED
      BY <3>8 DEF x, y
  <2>3. CASE daemon.port = p /\ CallbackFreeze
    <3> DEFINE b == \E v \in {daemon.value, timeout_count[p]} : v < DLR_NEIGHBOR_CHECK_TRIES
    <3>1. /\ daemon.pc = "freeze" /\ daemon'.pc = "send" /\ daemon'.port = p
          /\ daemon'.value \in {daemon.value, timeout_count[p]}
          /\ timeout_count' = timeout_count
      BY <1>1, <2>3 DEF CallbackFreeze, Daemon, fsmVars, checkVars, answerVars
    <3>2. DaemonTries(daemon, p, timeout_count[p], f) = Bit(b) + Still(timeout_count[p], f)
      BY <2>3, <3>1 DEF DaemonTries
    <3>3. DaemonTries(daemon', p, timeout_count'[p], f) =
            IsRetry(daemon'.value) + Still(timeout_count[p], f)
      BY <3>1 DEF DaemonTries
    <3>4. daemon'.value < DLR_NEIGHBOR_CHECK_TRIES => b
      BY <3>1
    <3> HIDE DEF b
    <3>5. IsRetry(daemon'.value) <= Bit(b) /\ IsRetry(daemon'.value) \in {0, 1}
          /\ Bit(b) \in {0, 1}
      BY <3>4 DEF IsRetry, Bit
    <3>6. Still(timeout_count[p], f) \in 0..3
      BY <1>1, <1>3, StillBounds
    <3> QED
      BY <3>2, <3>3, <3>5, <3>6
  <2> QED
    BY <2>1, <2>2, <2>3
<1>6. /\ round.requests[p] + Retrying(p) + DaemonTries(daemon, p, timeout_count[p], f)
           <= 3 + round.inherited[p]
      /\ f <= 253
  BY DEF Budget, DLR_NEIGHBOR_CHECK_TRIES
<1>7. Budget(p)' <=> /\ round.requests[p] + Retrying(p)
                          + DaemonTries(daemon', p, timeout_count'[p], f) <= 3 + round.inherited[p]
                     /\ f <= 253
  BY <1>1, <1>2 DEF Budget, DLR_NEIGHBOR_CHECK_TRIES
<1> HIDE DEF f
<1> QED
  BY <1>3, <1>4, <1>5, <1>6, <1>7

\* The callback sends its event.
LEMMA SendBudget ==
  ASSUME TypeOK, TypeOK', NEW p \in Ports, Budget(p), CallbackSendEvent
  PROVE  Budget(p)'
<1> DEFINE e == [EventOf("NEIGHBORTIMEOUT", {daemon.port}) EXCEPT !.count = daemon.value]
           c == timeout_count[p]
           f == Future(p)
           mine == daemon.port = p
           retry == e \in Retries(p)
<1>1. /\ UNCHANGED <<round, timeout_count, timer, timer_queue, timer_cmds>>
      /\ exec_queue' = Append(exec_queue, e) /\ daemon.pc = "send" /\ daemon' = IdleDaemon
  BY DEF CallbackSendEvent, fsmVars, checkVars, answerVars
<1>2. /\ exec_queue \in Seq(DlrEvent) /\ daemon.port \in Ports /\ daemon.value \in 0..255
  BY DEF TypeOK, Daemon
<1>3. /\ e \in DlrEvent /\ e.event = "NEIGHBORTIMEOUT" /\ e.port = {daemon.port}
      /\ e.count = daemon.value
  <2>1. EventOf("NEIGHBORTIMEOUT", {daemon.port}) \in DlrEvent
    BY <1>2, EventOfType DEF TimerEvents
  <2> QED
    BY <1>2, <2>1 DEF DlrEvent, EventOf
<1>4. retry <=> mine /\ daemon.value < DLR_NEIGHBOR_CHECK_TRIES
  <2> HIDE DEF e
  <2> QED
    BY <1>2, <1>3 DEF Retries
<1>5. Retrying(p)' = Retrying(p) + Bit(retry)
  <2>1. Tally(Append(exec_queue, e), Retries(p)) = Tally(exec_queue, Retries(p)) + Bit(retry)
    <3> HIDE DEF e
    <3> QED
      BY <1>2, <1>3, TallyAppend
  <2> QED
    BY <1>1, <2>1 DEF Retrying
<1>6. Future(p)' = f
  BY <1>1 DEF Future, Starting, CommandsAhead
<1>7. /\ Retrying(p) \in Nat /\ f \in Int /\ c \in 0..255
      /\ round.requests[p] \in Nat /\ round.inherited[p] \in Nat
  BY BudgetType DEF BudgetTypeOK
<1>8. DaemonTries(daemon, p, c, f) = Bit(retry) + Still(c, f)
  <2>1. CASE mine
    <3>1. Bit(retry) = IsRetry(daemon.value)
      BY <1>4, <2>1 DEF Bit, IsRetry
    <3>2. DaemonTries(daemon, p, c, f) = IsRetry(daemon.value) + Still(c, f)
      BY <1>1, <2>1 DEF DaemonTries
    <3> QED
      BY <3>1, <3>2
  <2>2. CASE ~mine
    <3>1. Bit(retry) = 0
      BY <1>4, <2>2 DEF Bit
    <3>2. DaemonTries(daemon, p, c, f) = Still(c, f)
      BY <2>2 DEF DaemonTries
    <3>3. Still(c, f) \in 0..3
      BY <1>7, StillBounds
    <3> QED
      BY <3>1, <3>2, <3>3
  <2> QED
    BY <2>1, <2>2
<1>9. DaemonTries(daemon', p, c, f) = Still(c, f) /\ Still(c, f) \in 0..3
  <2>1. Still(c, f) \in 0..3
    BY <1>7, StillBounds
  <2>2. DaemonTries(daemon', p, c, f) = Still(c, f)
    BY <1>1 DEF DaemonTries, IdleDaemon
  <2> QED
    BY <2>1, <2>2
<1>10. /\ round.requests[p] + Retrying(p) + DaemonTries(daemon, p, c, f)
            <= 3 + round.inherited[p]
       /\ f <= 253
  BY DEF Budget, DLR_NEIGHBOR_CHECK_TRIES
<1>11. Budget(p)' <=> /\ round.requests[p] + Retrying(p)' + DaemonTries(daemon', p, c, f)
                           <= 3 + round.inherited[p]
                      /\ f <= 253
  BY <1>1, <1>6 DEF Budget, DLR_NEIGHBOR_CHECK_TRIES
<1>12. Bit(retry) \in {0, 1}
  BY BitType
<1> HIDE DEF e, c, f, retry
<1> QED
  BY <1>5, <1>7, <1>8, <1>9, <1>10, <1>11, <1>12

\* Events that are no timeouts, at either end of the executor's queue.
LEMMA QueueBudget ==
  ASSUME TypeOK, TypeOK', TimeoutPorts, NEW p \in Ports, Budget(p),
         \/ ReceiverSendEvent
         \/ \E bit \in IrqBits : IsrCallback(bit)
  PROVE  Budget(p)'
<1>1. UNCHANGED <<round, timeout_count, timer, timer_queue, timer_cmds, daemon>>
  BY DEF ReceiverSendEvent, IsrCallback, fsmVars, checkVars, answerVars
<1>2. exec_queue \in Seq(DlrEvent) /\ held \in Seq(DlrEvent)
  BY DEF TypeOK
<1>3. Tally(exec_queue', Retries(p)) = Tally(exec_queue, Retries(p))
  <2>1. CASE ReceiverSendEvent
    <3>1. exec_queue' = held \o exec_queue
      BY <2>1 DEF ReceiverSendEvent
    <3>2. Tally(held \o exec_queue, Retries(p))
            = Tally(held, Retries(p)) + Tally(exec_queue, Retries(p))
      BY <1>2, TallyJoined
    <3>3. Tally(held, Retries(p)) = 0
      <4>1. \A i \in 1..Len(held) : held[i] \notin Retries(p)
        BY DEF TimeoutPorts, Retries
      <4> QED
        BY <4>1, TallyNone
    <3>4. Len(exec_queue) \in Nat
      BY <1>2
    <3>5. Tally(exec_queue, Retries(p)) \in Nat
      BY <3>4, TallyType
    <3> QED
      BY <3>1, <3>2, <3>3, <3>5
  <2>2. ASSUME NEW bit \in IrqBits, IsrCallback(bit)
        PROVE  Tally(exec_queue', Retries(p)) = Tally(exec_queue, Retries(p))
    <3> DEFINE e == IsrEvent(bit)
    <3>1. exec_queue' = exec_queue \/ exec_queue' = Append(exec_queue, e)
      BY <2>2 DEF IsrCallback, SendFromIsr
    <3>2. e \in DlrEvent
      BY IsrEventType
    <3>3. e \notin Retries(p)
      BY IsrEventName DEF Retries
    <3> HIDE DEF e
    <3>4. Tally(Append(exec_queue, e), Retries(p)) =
            Tally(exec_queue, Retries(p)) + Bit(e \in Retries(p))
      BY <1>2, <3>2, TallyAppend
    <3>5. Len(exec_queue) \in Nat
      BY <1>2
    <3>6. Tally(exec_queue, Retries(p)) \in Nat
      BY <3>5, TallyType
    <3>7. Tally(Append(exec_queue, e), Retries(p)) = Tally(exec_queue, Retries(p))
      BY <3>3, <3>4, <3>6 DEF Bit
    <3> QED
      BY <3>1, <3>7
  <2> QED
    BY <2>1, <2>2
<1>4. Retrying(p)' = Retrying(p) /\ Starting(p)' = Starting(p)
  BY <1>1, <1>3 DEF Retrying, Starting, CommandsAhead
<1>5. Retrying(p)' <= Retrying(p) /\ Starting(p)' <= Starting(p)
  <2>1. Retrying(p) \in Nat /\ Starting(p) \in Nat
    BY BudgetType DEF BudgetTypeOK
  <2> QED
    BY <1>4, <2>1
<1> QED
  BY <1>1, <1>5, BudgetKept

LEMMA BudgetStep ==
  ASSUME CounterSuffices, TypeOK, TimeoutPorts, [Next]_vars,
         NEW p \in Ports, Budget(p)
  PROVE  Budget(p)'
<1>t. TypeOK'
  BY NextType
<1>1. ASSUME UNCHANGED <<round, timeout_count, timer, CommandsAhead, daemon, exec_queue>>
      PROVE  Budget(p)'
  BY <1>1 DEF Budget, Future, Starting, Retrying
<1>2. CASE ExecutorPostCommand
  <2>1. /\ UNCHANGED <<round, timeout_count, exec_queue, timer, daemon>>
        /\ timer_cmds # <<>>
        /\ timer_queue' = Append(timer_queue, Head(timer_cmds)) /\ timer_cmds' = Tail(timer_cmds)
    BY <1>2 DEF ExecutorPostCommand, checkVars, answerVars
  <2>2. timer_queue \in Seq(TimerCommand) /\ timer_cmds \in Seq(TimerCommand)
    BY DEF TypeOK, FsmTypeOK
  <2>3. CommandsAhead' = CommandsAhead
    BY <2>1, <2>2 DEF CommandsAhead
  <2> QED
    BY <1>1, <2>1, <2>3
<1>3. CASE HwNext \/ IsrLatch
           \/ (\E name \in FrameKinds, q \in Ports, learn \in BOOLEAN :
                 \E id \in wire[q] \cup {0} : ReceiverTakeFrame(name, q, id, learn))
           \/ UNCHANGED vars
  <2>1. HwNext => UNCHANGED <<checkVars, timer_cmds, taskVars>>
    BY HwNextIsHwChange DEF HwChange
  <2>2. UNCHANGED <<round, timeout_count, timer, timer_queue, timer_cmds, daemon, exec_queue>>
    BY <1>3, <2>1 DEF IsrLatch, ReceiverTakeFrame, vars, fsmVars, checkVars, answerVars, taskVars
  <2> QED
    BY <1>1, <2>2 DEF CommandsAhead
<1> QED
  BY <1>t, <1>2, <1>3, HandlerBudget, CommandBudget, ExpiryBudget, CounterBudget, SendBudget,
     QueueBudget
  DEF Next, Isr, ReceiverNext, ExecutorNext, DaemonNext, Idle

LEMMA BudgetInit ==
  ASSUME Init, NEW p \in Ports
  PROVE  Budget(p)
<1>1. /\ CommandsAhead = <<>> \o <<>> /\ timer = {} /\ exec_queue = <<>>
      /\ daemon = IdleDaemon /\ timeout_count[p] = 0
      /\ round.requests[p] = 0 /\ round.inherited[p] = 0
  BY DEF Init, FsmInit, CommandsAhead
<1>2. <<>> \o <<>> = <<>>
  OBVIOUS
<1>3. Starting(p) = 0 /\ Retrying(p) = 0
  <2>1. \A A : Tally(<<>>, A) = 0
    BY TallyNone
  <2>2. CommandsAhead = <<>> /\ exec_queue = <<>>
    BY <1>1, <1>2
  <2>3. Bit(p \in timer) = 0
    BY <1>1 DEF Bit
  <2> QED
    BY <2>1, <2>2, <2>3 DEF Starting, Retrying
<1>4. Future(p) = 3
  BY <1>1, <1>3 DEF Future, DLR_NEIGHBOR_CHECK_TRIES
<1>5. DaemonTries(daemon, p, timeout_count[p], Future(p)) = 2
  BY <1>1, <1>4 DEF DaemonTries, IdleDaemon, Still, DLR_NEIGHBOR_CHECK_TRIES
<1> QED
  BY <1>1, <1>3, <1>4, <1>5 DEF Budget, DLR_NEIGHBOR_CHECK_TRIES

\* The rounds of both ports.
Budgeted == TimeoutPorts /\ \A p \in Ports : Budget(p)

LEMMA BudgetedInit == Init => Budgeted
<1> SUFFICES ASSUME Init PROVE Budgeted
  OBVIOUS
<1>1. TimeoutPorts
  BY DEF Init, TimeoutPorts
<1> QED
  BY <1>1, BudgetInit DEF Budgeted

\* In one round a node sends three requests on a port, and one more for each
\* timeout of an earlier round that was still in flight when the round began: no
\* order of late timeouts, restarts of the timers and reads of the counter that
\* the daemon shares with the executor makes it send another.
THEOREM RequestsAreBounded ==
  ASSUME CounterSuffices
  PROVE  Spec => []RequestsBounded
<1>1. TypeOK /\ Budgeted /\ [Next]_vars => Budgeted'
  BY TimeoutPortsStep, BudgetStep DEF Budgeted
<1>2. TypeOK /\ Budgeted => RequestsBounded
  <2> SUFFICES ASSUME TypeOK, Budgeted, NEW p \in Ports
               PROVE  round.requests[p] <= DLR_NEIGHBOR_CHECK_TRIES + round.inherited[p]
    BY DEF RequestsBounded
  <2>1. /\ DaemonTries(daemon, p, timeout_count[p], Future(p)) \in Nat
        /\ round.requests[p] \in Nat /\ round.inherited[p] \in Nat /\ Retrying(p) \in Nat
    BY BudgetType DEF BudgetTypeOK
  <2> QED
    BY <2>1 DEF Budgeted, Budget, DLR_NEIGHBOR_CHECK_TRIES
<1> QED
  BY BudgetedInit, <1>1, <1>2, TypeCorrect, PTL DEF Spec
-----------------------------------------------------------------------------
(* How the work of a node comes to an end.                                 *)

\* The Locate_Fault frames among events.
Locates == {e \in DlrEvent : e.event = "LOCATEFAULT"}

\* A new round lets a port expire three times, and once for each timeout it inherits.
RoundWork == 18 * (ExecQueueLength + 3)
RoundsAhead == Tally(exec_queue, Locates) + Tally(held, Locates)
RoundsWork == RoundWork * RoundsAhead

\* An event is taken and may leave two commands, each to be posted and taken; what brings
\* it counts one more for each step it takes until then.  An expiry brings a timeout.
DaemonWork == IF daemon.pc = "idle" THEN 0
              ELSE IF daemon.pc = "send" THEN 6
              ELSE IF daemon.pc = "freeze" THEN 7
              ELSE 8

\* The steps that are left at most before all is done, if no frame comes and the hardware
\* does not change.
Weighed(f, d, c, t, e, h, r, s, i) == 9 * f + d + 2 * c + t + 5 * e + 6 * h + r + 6 * s + 7 * i
NodeWork ==
  Weighed(Future(0) + Future(1), DaemonWork, Len(timer_cmds), Len(timer_queue),
          Len(exec_queue), Len(held), RoundsWork, Cardinality(scan), Cardinality(irq))

\* Every step of the interrupt handler, the tasks and the timers leaves less work.
NodeWorkEnds ==
  /\ NodeWork \in Nat
  /\ Isr \/ ReceiverSendEvent \/ ExecutorNext \/ DaemonNext => NodeWork' < NodeWork

\* The summands of NodeWork, as natural numbers.
Summands ==
  /\ Future(0) \in Nat /\ Future(1) \in Nat /\ DaemonWork \in Nat
  /\ Len(timer_cmds) \in Nat /\ Len(timer_queue) \in Nat
  /\ Len(exec_queue) \in Nat /\ Len(held) \in Nat
  /\ RoundsAhead \in Nat /\ RoundsWork \in Nat
  /\ Cardinality(scan) \in Nat /\ Cardinality(irq) \in Nat

LEMMA RoundWorkType == RoundWork \in Nat
  BY QueueAssumption DEF RoundWork

LEMMA Multiples ==
  ASSUME NEW a \in Nat, NEW n \in Nat
  PROVE  a * n \in Nat /\ a * (n + 1) = a * n + a
  OBVIOUS

LEMMA WeighedType ==
  ASSUME NEW f \in Nat, NEW d \in Nat, NEW c \in Nat, NEW t \in Nat, NEW e \in Nat,
         NEW h \in Nat, NEW r \in Nat, NEW s \in Nat, NEW i \in Nat
  PROVE  Weighed(f, d, c, t, e, h, r, s, i) \in Nat
  BY DEF Weighed

LEMMA LatchWeighs ==
  ASSUME NEW f \in Nat, NEW d \in Nat, NEW c \in Nat, NEW t \in Nat, NEW e \in Nat,
         NEW h \in Nat, NEW r \in Nat, NEW i \in Nat, i # 0
  PROVE  Weighed(f, d, c, t, e, h, r, i, 0) < Weighed(f, d, c, t, e, h, r, 0, i)
  BY DEF Weighed

LEMMA CallbackWeighs ==
  ASSUME NEW f \in Nat, NEW d \in Nat, NEW c \in Nat, NEW t \in Nat, NEW e \in Nat,
         NEW h \in Nat, NEW r \in Nat, NEW s \in Nat, NEW i \in Nat,
         NEW en \in Nat, NEW sn \in Nat, en <= e + 1, sn = s - 1
  PROVE  Weighed(f, d, c, t, en, h, r, sn, i) < Weighed(f, d, c, t, e, h, r, s, i)
  BY DEF Weighed

LEMMA ReceiverWeighs ==
  ASSUME NEW f \in Nat, NEW d \in Nat, NEW c \in Nat, NEW t \in Nat, NEW e \in Nat,
         NEW h \in Nat, NEW r \in Nat, NEW s \in Nat, NEW i \in Nat, h # 0
  PROVE  Weighed(f, d, c, t, h + e, 0, r, s, i) < Weighed(f, d, c, t, e, h, r, s, i)
  BY DEF Weighed

LEMMA TakeWeighs ==
  ASSUME NEW f \in Nat, NEW d \in Nat, NEW t \in Nat, NEW e \in Nat, NEW h \in Nat,
         NEW r \in Nat, NEW s \in Nat, NEW i \in Nat, NEW fn \in Nat, NEW cn \in Nat,
         NEW en \in Nat, NEW rn \in Nat,
         cn <= 2, en = e - 1, 9 * fn + rn <= 9 * f + r
  PROVE  Weighed(fn, d, cn, t, en, h, rn, s, i) < Weighed(f, d, 0, t, e, h, r, s, i)
  BY DEF Weighed

LEMMA PostWeighs ==
  ASSUME NEW f \in Nat, NEW d \in Nat, NEW c \in Nat, NEW t \in Nat, NEW e \in Nat,
         NEW h \in Nat, NEW r \in Nat, NEW s \in Nat, NEW i \in Nat,
         NEW cn \in Nat, cn = c - 1
  PROVE  Weighed(f, d, cn, t + 1, e, h, r, s, i) < Weighed(f, d, c, t, e, h, r, s, i)
  BY DEF Weighed

LEMMA DaemonWeighs ==
  ASSUME NEW f \in Nat, NEW d \in Nat, NEW c \in Nat, NEW t \in Nat, NEW e \in Nat,
         NEW h \in Nat, NEW r \in Nat, NEW s \in Nat, NEW i \in Nat,
         NEW fn \in Nat, NEW dn \in Nat, NEW tn \in Nat, NEW en \in Nat,
         9 * fn + dn + tn + 5 * en < 9 * f + d + t + 5 * e
  PROVE  Weighed(fn, dn, c, tn, en, h, r, s, i) < Weighed(f, d, c, t, e, h, r, s, i)
  BY DEF Weighed

LEMMA BitsFinite ==
  ASSUME NEW bits \in SUBSET IrqBits
  PROVE  IsFiniteSet(bits) /\ Cardinality(bits) \in Nat
<1>1. IrqBits \in SUBSET (0..15)
  BY DEF IrqBits, NEWSTATUS, BEACONTMO, SUVICHNG, LNKCHNG, LOCALLOOP, Ports
<1>2. IsFiniteSet(0..15)
  BY FS_Interval, 0 \in Int, 15 \in Int
<1>3. bits \in SUBSET (0..15)
  BY <1>1
<1>4. IsFiniteSet(bits)
  BY <1>2, <1>3, FS_Subset
<1> QED
  BY <1>4, FS_CardinalityType

LEMMA SummandsType == TypeOK /\ Budgeted => Summands
<1> SUFFICES ASSUME TypeOK, Budgeted PROVE Summands
  OBVIOUS
<1>1. Future(0) \in Nat /\ Future(1) \in Nat
  <2>1. ASSUME NEW p \in Ports PROVE Future(p) \in Nat
    <3>1. Future(p) \in Int /\ Starting(p) \in Nat /\ Future(p) >= Starting(p)
      BY BudgetType, FutureIsStarted DEF BudgetTypeOK, Budgeted
    <3> QED
      BY <3>1
  <2> QED
    BY <2>1 DEF Ports
<1>2. /\ timer_cmds \in Seq(TimerCommand) /\ timer_queue \in Seq(TimerCommand)
      /\ exec_queue \in Seq(DlrEvent) /\ held \in Seq(DlrEvent)
      /\ scan \in SUBSET IrqBits /\ irq \in SUBSET IrqBits
  BY DEF TypeOK, FsmTypeOK
<1>3. /\ Len(timer_cmds) \in Nat /\ Len(timer_queue) \in Nat
      /\ Len(exec_queue) \in Nat /\ Len(held) \in Nat
  BY <1>2
<1>4. RoundsAhead \in Nat
  <2>1. Tally(exec_queue, Locates) \in Nat /\ Tally(held, Locates) \in Nat
    BY <1>3, TallyType
  <2> QED
    BY <2>1 DEF RoundsAhead
<1>5. RoundsWork \in Nat
  BY <1>4, RoundWorkType, Multiples DEF RoundsWork
<1>6. Cardinality(scan) \in Nat /\ Cardinality(irq) \in Nat
  BY <1>2, BitsFinite
<1>7. DaemonWork \in Nat
  BY DEF DaemonWork
<1> QED
  BY <1>1, <1>3, <1>4, <1>5, <1>6, <1>7 DEF Summands

LEMMA SummandsSum == Summands => Future(0) + Future(1) \in Nat
  BY DEF Summands

LEMMA SummandsNext == (TypeOK /\ Budgeted)' => Summands'
  BY SummandsType, PTL

\* Steps that leave the rounds alone.
LEMMA SameFuture ==
  ASSUME UNCHANGED <<round, timer, CommandsAhead>>
  PROVE  Future(0)' = Future(0) /\ Future(1)' = Future(1)
  BY DEF Future, Starting

LEMMA IsrWork ==
  ASSUME TypeOK, Summands, Summands', Isr
  PROVE  NodeWork' < NodeWork
<1>1. UNCHANGED <<round, timer, timer_queue, timer_cmds, daemon, held>>
  BY DEF Isr, IsrLatch, IsrCallback, fsmVars, checkVars, taskVars
<1>2. Future(0)' = Future(0) /\ Future(1)' = Future(1) /\ DaemonWork' = DaemonWork
  BY <1>1, SameFuture DEF CommandsAhead, DaemonWork
<1>3. scan \in SUBSET IrqBits /\ irq \in SUBSET IrqBits /\ exec_queue \in Seq(DlrEvent)
  BY DEF TypeOK
<1>4. CASE IsrLatch
  <2>1. scan' = irq /\ scan = {} /\ irq' = {} /\ irq # {} /\ exec_queue' = exec_queue
    BY <1>4 DEF IsrLatch, taskVars
  <2>2. Cardinality(scan) = 0 /\ Cardinality(irq') = 0 /\ Cardinality(scan') = Cardinality(irq)
    BY <2>1, FS_EmptySet
  <2>3. Cardinality(irq) # 0
    BY <1>3, <2>1, BitsFinite, FS_EmptySet
  <2>4. RoundsWork' = RoundsWork
    BY <1>1, <2>1 DEF RoundsAhead, RoundsWork
  <2>5. /\ Len(timer_cmds') = Len(timer_cmds) /\ Len(timer_queue') = Len(timer_queue)
        /\ Len(exec_queue') = Len(exec_queue) /\ Len(held') = Len(held)
    BY <1>1, <2>1
  <2> QED
    <3> DEFINE W(i, j) == Weighed(Future(0) + Future(1), DaemonWork, Len(timer_cmds),
                 Len(timer_queue), Len(exec_queue), Len(held), RoundsWork, i, j)
    <3>1. NodeWork' = W(Cardinality(irq), 0)
      BY <1>2, <2>2, <2>4, <2>5 DEF NodeWork
    <3>2. NodeWork = W(0, Cardinality(irq))
      BY <2>2 DEF NodeWork
    <3>3. W(Cardinality(irq), 0) < W(0, Cardinality(irq))
      BY <2>3, SummandsSum, LatchWeighs DEF Summands
    <3> QED
      BY <3>1, <3>2, <3>3
<1>5. ASSUME NEW bit \in IrqBits, IsrCallback(bit)
      PROVE  NodeWork' < NodeWork
  <2> DEFINE e == IsrEvent(bit)
  <2>1. /\ bit \in scan /\ scan' = scan \ {bit} /\ irq' = irq
        /\ exec_queue' = exec_queue \/ exec_queue' = Append(exec_queue, e)
    BY <1>5 DEF IsrCallback, SendFromIsr
  <2>2. Cardinality(scan') = Cardinality(scan) - 1
    <3>1. IsFiniteSet(scan)
      BY <1>3, BitsFinite
    <3> QED
      BY <2>1, <3>1, FS_RemoveElement
  <2>3. e \in DlrEvent /\ e \notin Locates
    BY IsrEventType, IsrEventName DEF Locates
  <2> HIDE DEF e
  <2>4. Tally(exec_queue', Locates) = Tally(exec_queue, Locates)
    <3>1. Tally(Append(exec_queue, e), Locates)
            = Tally(exec_queue, Locates) + Bit(e \in Locates)
      BY <1>3, <2>3, TallyAppend
    <3>2. Len(exec_queue) \in Nat
      BY <1>3
    <3>3. Tally(exec_queue, Locates) \in Nat
      BY <3>2, TallyType
    <3>4. Tally(Append(exec_queue, e), Locates) = Tally(exec_queue, Locates)
      BY <2>3, <3>1, <3>3 DEF Bit
    <3> QED
      BY <2>1, <3>4
  <2>5. RoundsWork' = RoundsWork
    BY <1>1, <2>4 DEF RoundsAhead, RoundsWork
  <2>6. Len(exec_queue') <= Len(exec_queue) + 1
    <3>1. Len(Append(exec_queue, e)) = Len(exec_queue) + 1 /\ Len(exec_queue) \in Nat
      BY <1>3, <2>3
    <3> QED
      BY <2>1, <3>1
  <2> DEFINE W(n, m) == Weighed(Future(0) + Future(1), DaemonWork, Len(timer_cmds),
                Len(timer_queue), n, Len(held), RoundsWork, m, Cardinality(irq))
  <2>7. NodeWork' = W(Len(exec_queue'), Cardinality(scan'))
    BY <1>1, <1>2, <2>1, <2>5 DEF NodeWork
  <2>8. W(Len(exec_queue'), Cardinality(scan')) < W(Len(exec_queue), Cardinality(scan))
    <3>1. Len(exec_queue') \in Nat /\ Cardinality(scan') \in Nat
      BY DEF Summands
    <3> QED
      BY <2>2, <2>6, <3>1, SummandsSum, CallbackWeighs DEF Summands
  <2> QED
    BY <2>7, <2>8 DEF NodeWork
<1> QED
  BY <1>4, <1>5 DEF Isr

LEMMA ReceiverWork ==
  ASSUME TypeOK, Summands, Summands', ReceiverSendEvent
  PROVE  NodeWork' < NodeWork
<1>1. /\ UNCHANGED <<round, timer, timer_queue, timer_cmds, daemon, scan, irq>>
      /\ held # <<>> /\ exec_queue' = held \o exec_queue /\ held' = <<>>
  BY DEF ReceiverSendEvent, fsmVars, hwVars, checkVars
<1>2. Future(0)' = Future(0) /\ Future(1)' = Future(1) /\ DaemonWork' = DaemonWork
  BY <1>1, SameFuture DEF CommandsAhead, DaemonWork
<1>3. exec_queue \in Seq(DlrEvent) /\ held \in Seq(DlrEvent)
  BY DEF TypeOK
<1>4. /\ Len(exec_queue') = Len(held) + Len(exec_queue) /\ Len(held') = 0
      /\ Len(held) # 0 /\ Len(held) \in Nat /\ Len(exec_queue) \in Nat
  BY <1>1, <1>3
<1>5. RoundsWork' = RoundsWork
  <2>1. Tally(held \o exec_queue, Locates) = Tally(held, Locates) + Tally(exec_queue, Locates)
    BY <1>3, TallyJoined
  <2>2. Tally(<<>>, Locates) = 0
    BY TallyNone
  <2>3. Tally(held, Locates) \in Nat /\ Tally(exec_queue, Locates) \in Nat
    BY <1>4, TallyType
  <2> QED
    BY <1>1, <2>1, <2>2, <2>3 DEF RoundsAhead, RoundsWork
<1> DEFINE W(n, m) == Weighed(Future(0) + Future(1), DaemonWork, Len(timer_cmds),
              Len(timer_queue), n, m, RoundsWork, Cardinality(scan), Cardinality(irq))
<1>6. NodeWork' = W(Len(held) + Len(exec_queue), 0)
  BY <1>1, <1>2, <1>4, <1>5 DEF NodeWork
<1>7. W(Len(held) + Len(exec_queue), 0) < W(Len(exec_queue), Len(held))
  BY <1>4, SummandsSum, ReceiverWeighs DEF Summands
<1> QED
  BY <1>6, <1>7 DEF NodeWork

\* A handler leaves at most a command for each port.
LEMMA CommandsCount ==
  ASSUME NEW op, NEW ports
  PROVE  Len(TimerCommands(op, ports)) <= 2
<1> DEFINE x == TimerCommand1(op, ports, 0)
           y == TimerCommand1(op, ports, 1)
<1>1. ASSUME NEW p
      PROVE  \E S : /\ TimerCommand1(op, ports, p) \in Seq(S)
                    /\ Len(TimerCommand1(op, ports, p)) <= 1
  <2> DEFINE c == Command(op, p)
  <2>1. TimerCommand1(op, ports, p) = IF p \in ports THEN <<c>> ELSE <<>>
    BY DEF TimerCommand1, Command
  <2> HIDE DEF c
  <2>2. /\ <<c>> \in Seq({c}) /\ Len(<<c>>) <= 1
        /\ <<>> \in Seq({c}) /\ Len(<<>>) <= 1
    OBVIOUS
  <2> QED
    BY <2>1, <2>2
<1>2. PICK X : x \in Seq(X) /\ Len(x) <= 1
  BY <1>1
<1>3. PICK Y : y \in Seq(Y) /\ Len(y) <= 1
  BY <1>1
<1> HIDE DEF x, y
<1>4. Len(x \o y) = Len(x) + Len(y) /\ Len(x) \in Nat /\ Len(y) \in Nat
  BY <1>2, <1>3
<1>5. Len(x \o y) <= 2
  BY <1>2, <1>3, <1>4
<1> QED
  BY <1>5 DEF TimerCommands, x, y

LEMMA HandlerCommands ==
  ASSUME NEW e \in DlrEvent, NEW f, timer_cmds = <<>>, ExecuteWithEvent(e, f)
  PROVE  Len(timer_cmds') <= 2
<1>1. \/ timer_cmds' = timer_cmds
      \/ \E op, ports : timer_cmds' = TimerCommands(op, ports)
  BY DEF ExecuteWithEvent, EventNeighborTimeout, EventLocateFault, StartNeighborCheck,
     EventNeighborCheckResponse, EventLinkLost, EventBeaconTimeout, EventNewState,
     EventLinkRestore, EventNewSupervisor, EventFlushTable, EventAnswered,
     fsmVars, checkVars, answerVars
<1>2. Len(<<>>) <= 2
  OBVIOUS
<1> QED
  BY <1>1, <1>2, CommandsCount

\* A Locate_Fault frame may begin a round on both ports; another event adds no expiry.
LEMMA HandlerFuture ==
  ASSUME TypeOK, TypeOK', TimeoutPorts, NEW p \in Ports, Budget(p), ExecutorTakeEvent
  PROVE  /\ Future(p) \in Int /\ Future(p)' \in Int
         /\ Future(p)' <= Future(p)
                + (IF Head(exec_queue) \in Locates THEN ExecQueueLength + 3 ELSE 0)
<1> DEFINE e == Head(exec_queue)
           starts == Tally(timer_cmds', {Command("start", p)})
<1>1. e \in DlrEvent /\ FsmTypeOK /\ ExecuteWithEvent(e, InFlight)
  BY TakenEvent
<1>2. \/ /\ round'.requests[p] = round.requests[p]
         /\ round'.inherited[p] = round.inherited[p] /\ starts = 0
      \/ /\ round'.requests[p] = round.requests[p] + 1
         /\ round'.inherited[p] = round.inherited[p] /\ starts = 1
      \/ /\ e.event = "LOCATEFAULT"
         /\ round'.requests[p] = 1 /\ round'.inherited[p] = InFlight[p] /\ starts = 1
  <2>1. timer_cmds = <<>> /\ (e.event = "NEIGHBORTIMEOUT" => \E q \in Ports : e.port = {q})
    BY TakenEvent
  <2> HIDE DEF e
  <2> QED
    BY <1>1, <2>1, HandlerCounts
<1>3. Starting(p)' = Starting(p) + starts /\ Starting(p) \in Nat
  BY HandlerStarts
<1>4. /\ round.requests[p] \in Nat /\ round.inherited[p] \in Nat /\ Future(p) \in Int
      /\ round'.requests[p] \in Nat /\ round'.inherited[p] \in Nat /\ Future(p)' \in Int
  BY BudgetType, BudgetTypeNext DEF BudgetTypeOK
<1>5. /\ Future(p) = Starting(p) + 3 + round.inherited[p] - round.requests[p]
      /\ Future(p)' = Starting(p)' + 3 + round'.inherited[p] - round'.requests[p]
      /\ Future(p) >= Starting(p)
  BY FutureIsStarted DEF Future, DLR_NEIGHBOR_CHECK_TRIES
<1>6. InFlight[p] \in Nat /\ InFlight[p] <= ExecQueueLength /\ ExecQueueLength \in Nat
  <2>1. exec_queue # <<>>
    BY TakenEvent
  <2> QED
    BY <2>1, InheritedTimeouts, QueueAssumption
<1>7. e.event = "LOCATEFAULT" => e \in Locates
  BY <1>1 DEF Locates
<1> DEFINE more == IF e \in Locates THEN ExecQueueLength + 3 ELSE 0
<1>8. more \in Nat /\ (e.event = "LOCATEFAULT" => more = ExecQueueLength + 3)
  BY <1>6, <1>7
<1>9. ASSUME NEW a, NEW b, a = Future(p), b = Future(p)'
      PROVE  b <= a + more
  <2> HIDE DEF e, starts, more
  <2> QED
    BY <1>2, <1>3, <1>4, <1>5, <1>6, <1>8, <1>9
<1> QED
  BY <1>4, <1>9

LEMMA HandlerWork ==
  ASSUME TypeOK, TypeOK', Budgeted, Summands, Summands', ExecutorTakeEvent
  PROVE  NodeWork' < NodeWork
<1> DEFINE e == Head(exec_queue)
           more == IF e \in Locates THEN ExecQueueLength + 3 ELSE 0
<1>1. /\ UNCHANGED <<scan, irq, held, timer_queue, daemon>>
      /\ exec_queue # <<>> /\ exec_queue' = Tail(exec_queue)
      /\ timer_cmds = <<>> /\ exec_queue \in Seq(DlrEvent)
  BY DEF ExecutorTakeEvent, TypeOK, hwVars
<1>2. DaemonWork' = DaemonWork
  BY <1>1 DEF DaemonWork
<1>3. Len(timer_cmds') <= 2 /\ Len(timer_cmds) = 0
  <2>1. e \in DlrEvent /\ ExecuteWithEvent(e, InFlight)
    BY TakenEvent DEF Budgeted
  <2> QED
    BY <1>1, <2>1, HandlerCommands
<1>4. Len(exec_queue') = Len(exec_queue) - 1
  BY <1>1
<1>5. RoundsWork = RoundsWork' + RoundWork * Bit(e \in Locates)
  <2>1. Tally(exec_queue, Locates) = Tally(exec_queue', Locates) + Bit(e \in Locates)
    BY <1>1, TallyTaken
  <2>2. RoundsAhead = RoundsAhead' + Bit(e \in Locates)
    <3>1. Tally(exec_queue, Locates) \in Nat /\ Tally(exec_queue', Locates) \in Nat
          /\ Tally(held, Locates) \in Nat
      BY TallyType DEF Summands
    <3>2. Bit(e \in Locates) \in {0, 1}
      BY BitType
    <3> HIDE DEF e
    <3> QED
      BY <1>1, <2>1, <3>1, <3>2 DEF RoundsAhead
  <2>3. RoundsAhead' \in Nat /\ RoundWork \in Nat
    BY RoundWorkType DEF Summands
  <2>4. RoundWork * 0 = 0 /\ RoundWork * 1 = RoundWork
    BY <2>3
  <2>5. /\ RoundWork * (RoundsAhead' + 1) = RoundWork * RoundsAhead' + RoundWork
        /\ RoundWork * RoundsAhead' \in Nat
    BY <2>3, Multiples
  <2>6. RoundsWork = RoundWork * RoundsAhead /\ RoundsWork' = RoundWork * RoundsAhead'
    BY DEF RoundsWork
  <2> QED
    BY <2>2, <2>3, <2>4, <2>5, <2>6 DEF Bit
<1>6. more \in Nat /\ 18 * more = RoundWork * Bit(e \in Locates)
  <2>1. ExecQueueLength \in Nat /\ RoundWork \in Nat
        /\ RoundWork * 0 = 0 /\ RoundWork * 1 = RoundWork
    BY RoundWorkType, QueueAssumption
  <2> HIDE DEF e
  <2> QED
    BY <2>1 DEF RoundWork, Bit
<1>7. Future(0)' <= Future(0) + more /\ Future(1)' <= Future(1) + more
  BY HandlerFuture DEF Budgeted, Ports
<1> DEFINE f == Future(0) + Future(1)
           fn == Future(0)' + Future(1)'
<1>8. /\ Future(0) \in Nat /\ Future(1) \in Nat /\ Future(0)' \in Nat /\ Future(1)' \in Nat
      /\ RoundsWork \in Nat /\ RoundsWork' \in Nat
  BY DEF Summands
<1> HIDE DEF e, more
<1>9. 9 * fn + RoundsWork' <= 9 * f + RoundsWork /\ f \in Nat /\ fn \in Nat
  BY <1>5, <1>6, <1>7, <1>8
<1> HIDE DEF f, fn
<1> DEFINE W(a, b, n, m) == Weighed(a, DaemonWork, b, Len(timer_queue), n, Len(held), m,
                                    Cardinality(scan), Cardinality(irq))
<1>10. NodeWork' = W(fn, Len(timer_cmds'), Len(exec_queue'), RoundsWork')
  BY <1>1, <1>2 DEF NodeWork, fn
<1>11. NodeWork = W(f, 0, Len(exec_queue), RoundsWork)
  BY <1>3 DEF NodeWork, f
<1>12. Len(timer_cmds') \in Nat /\ Len(exec_queue') \in Nat
  BY DEF Summands
<1>13. W(fn, Len(timer_cmds'), Len(exec_queue'), RoundsWork')
         < W(f, 0, Len(exec_queue), RoundsWork)
  BY <1>3, <1>4, <1>8, <1>9, <1>12, TakeWeighs DEF Summands
<1> QED
  BY <1>10, <1>11, <1>13

LEMMA PostWork ==
  ASSUME TypeOK, Summands, Summands', ExecutorPostCommand
  PROVE  NodeWork' < NodeWork
<1>1. /\ UNCHANGED <<round, timer, daemon, exec_queue, held, scan, irq>>
      /\ timer_cmds # <<>> /\ timer_cmds' = Tail(timer_cmds)
      /\ timer_queue' = Append(timer_queue, Head(timer_cmds))
      /\ timer_cmds \in Seq(TimerCommand) /\ timer_queue \in Seq(TimerCommand)
  BY DEF ExecutorPostCommand, hwVars, checkVars, TypeOK, FsmTypeOK
<1>2. CommandsAhead' = CommandsAhead
  BY <1>1 DEF CommandsAhead
<1>3. Future(0)' = Future(0) /\ Future(1)' = Future(1) /\ DaemonWork' = DaemonWork
  BY <1>1, <1>2, SameFuture DEF DaemonWork
<1>4. RoundsWork' = RoundsWork
  BY <1>1 DEF RoundsWork, RoundsAhead
<1>5. Len(timer_cmds') = Len(timer_cmds) - 1 /\ Len(timer_queue') = Len(timer_queue) + 1
  BY <1>1
<1> DEFINE W(n, m) == Weighed(Future(0) + Future(1), DaemonWork, n, m, Len(exec_queue),
                              Len(held), RoundsWork, Cardinality(scan), Cardinality(irq))
<1>6. NodeWork' = W(Len(timer_cmds'), Len(timer_queue) + 1)
  BY <1>1, <1>3, <1>4, <1>5 DEF NodeWork
<1>7. Len(timer_cmds') \in Nat
  BY DEF Summands
<1>8. W(Len(timer_cmds'), Len(timer_queue) + 1) < W(Len(timer_cmds), Len(timer_queue))
  BY <1>5, <1>7, SummandsSum, PostWeighs DEF Summands
<1> QED
  BY <1>6, <1>8 DEF NodeWork

\* What the steps of the daemon have in common.
LEMMA DaemonPays ==
  ASSUME Summands, Summands', UNCHANGED <<timer_cmds, held, scan, irq>>,
         Tally(exec_queue', Locates) = Tally(exec_queue, Locates),
         9 * (Future(0)' + Future(1)') + DaemonWork' + Len(timer_queue')
             + 5 * Len(exec_queue')
           < 9 * (Future(0) + Future(1)) + DaemonWork + Len(timer_queue)
             + 5 * Len(exec_queue)
  PROVE  NodeWork' < NodeWork
<1>1. RoundsWork' = RoundsWork
  BY DEF RoundsWork, RoundsAhead
<1> DEFINE f == Future(0) + Future(1)
           fn == Future(0)' + Future(1)'
           W(a, b, n, m) == Weighed(a, b, Len(timer_cmds), n, m, Len(held), RoundsWork,
                                    Cardinality(scan), Cardinality(irq))
<1>2. f \in Nat /\ fn \in Nat
  <2>1. Future(0) \in Nat /\ Future(1) \in Nat
    BY DEF Summands
  <2>2. Future(0)' \in Nat /\ Future(1)' \in Nat
    BY DEF Summands
  <2> QED
    BY <2>1, <2>2
<1>3. /\ DaemonWork' \in Nat /\ Len(timer_queue') \in Nat /\ Len(exec_queue') \in Nat
  BY DEF Summands
<1>4. NodeWork' = W(fn, DaemonWork', Len(timer_queue'), Len(exec_queue'))
  BY <1>1 DEF NodeWork
<1>5. NodeWork = W(f, DaemonWork, Len(timer_queue), Len(exec_queue))
  BY DEF NodeWork
<1>6. 9 * fn + DaemonWork' + Len(timer_queue') + 5 * Len(exec_queue')
        < 9 * f + DaemonWork + Len(timer_queue) + 5 * Len(exec_queue)
  OBVIOUS
<1> HIDE DEF f, fn
<1>7. W(fn, DaemonWork', Len(timer_queue'), Len(exec_queue'))
        < W(f, DaemonWork, Len(timer_queue), Len(exec_queue))
  BY <1>2, <1>3, <1>6, DaemonWeighs DEF Summands
<1> QED
  BY <1>4, <1>5, <1>7

LEMMA DaemonNextWork ==
  ASSUME TypeOK, TypeOK', Summands, Summands', DaemonNext
  PROVE  NodeWork' < NodeWork
<1> DEFINE f == Future(0) + Future(1)
           fn == Future(0)' + Future(1)'
           q == Len(timer_queue)
           n == Len(exec_queue)
<1>1. /\ Future(0) \in Nat /\ Future(1) \in Nat /\ q \in Nat /\ n \in Nat
  BY DEF Summands
<1>2. /\ Future(0)' \in Nat /\ Future(1)' \in Nat
      /\ DaemonWork' \in Nat /\ q' \in Nat /\ n' \in Nat
  BY DEF Summands
<1>3. UNCHANGED <<timer_cmds, held, scan, irq, round>>
  BY DEF DaemonNext, DaemonTakeCommand, TimerExpires, CallbackStore, CallbackFreeze,
     CallbackSendEvent, fsmVars, checkVars, hwVars
<1>4. ASSUME 9 * fn + DaemonWork' + q' + 5 * n' < 9 * f + DaemonWork + q + 5 * n,
             Tally(exec_queue', Locates) = Tally(exec_queue, Locates)
      PROVE  NodeWork' < NodeWork
  BY <1>3, <1>4, DaemonPays
<1>5. ASSUME NEW p \in Ports
      PROVE  /\ Starting(p) \in Nat
             /\ Future(p) = Starting(p) + 3 + round.inherited[p] - round.requests[p]
             /\ Future(p)' = Starting(p)' + 3 + round.inherited[p] - round.requests[p]
             /\ round.inherited[p] \in Nat /\ round.requests[p] \in Nat
  BY <1>3, BudgetType DEF BudgetTypeOK, Future, DLR_NEIGHBOR_CHECK_TRIES
<1>6. CASE DaemonTakeCommand
  <2>1. /\ timer_queue # <<>> /\ timer_queue' = Tail(timer_queue)
        /\ timer_queue \in Seq(TimerCommand) /\ UNCHANGED <<exec_queue, daemon>>
    BY <1>6 DEF DaemonTakeCommand, TypeOK
  <2>2. q' = q - 1 /\ n' = n /\ DaemonWork' = DaemonWork
    BY <2>1 DEF DaemonWork
  <2>3. Future(0)' <= Future(0) /\ Future(1)' <= Future(1)
    <3>1. ASSUME NEW p \in Ports PROVE Future(p)' <= Future(p)
      <4>1. Starting(p)' <= Starting(p) /\ Starting(p)' \in Nat
        BY <1>6, CommandStarts, BudgetTypeNext DEF BudgetTypeOK
      <4> QED
        BY <1>5, <4>1
    <3> QED
      BY <3>1 DEF Ports
  <2> HIDE DEF q, n
  <2> QED
    BY <1>1, <1>2, <1>4, <2>1, <2>2, <2>3
<1>7. ASSUME NEW p \in Ports, TimerExpires(p)
      PROVE  NodeWork' < NodeWork
  <2>1. /\ UNCHANGED <<exec_queue, timer_queue>>
        /\ DaemonWork = 0 /\ DaemonWork' = 8
    BY <1>7 DEF TimerExpires, DaemonWork
  <2>2. q' = q /\ n' = n
    BY <2>1
  <2>3. ASSUME NEW r \in Ports
        PROVE  Future(r)' = Future(r) - Bit(r = p)
    <3>1. Starting(r)' = Starting(r) - Bit(r = p)
      BY <1>7, ExpiryStarts
    <3>2. Bit(r = p) \in {0, 1}
      BY BitType
    <3> QED
      BY <1>5, <3>1, <3>2
  <2>4. fn = f - 1
    <3>1. Future(0)' = Future(0) - Bit(0 = p) /\ Future(1)' = Future(1) - Bit(1 = p)
      BY <2>3 DEF Ports
    <3>2. p = 0 \/ p = 1
      BY DEF Ports
    <3> QED
      BY <1>1, <3>1, <3>2 DEF Bit
  <2>5. f \in Nat /\ fn \in Nat
    BY <1>1, <1>2
  <2> HIDE DEF q, n, f, fn
  <2>6. 9 * fn + DaemonWork' + q' + 5 * n' < 9 * f + DaemonWork + q + 5 * n
    BY <1>1, <2>1, <2>2, <2>4, <2>5
  <2> QED
    BY <1>4, <2>1, <2>6
<1>8. CASE CallbackStore \/ CallbackFreeze
  <2>1. DaemonWork' = DaemonWork - 1 /\ DaemonWork \in Nat
    <3>1. daemon \in Daemon
      BY DEF TypeOK
    <3>2. CASE daemon.pc = "store" /\ daemon'.pc = "freeze"
      BY <3>2 DEF DaemonWork
    <3>3. CASE daemon.pc = "freeze" /\ daemon'.pc = "send"
      BY <3>3 DEF DaemonWork
    <3>4. CallbackStore => daemon.pc = "store" /\ daemon'.pc = "freeze"
      BY <3>1 DEF CallbackStore, Daemon
    <3>5. CallbackFreeze => daemon.pc = "freeze" /\ daemon'.pc = "send"
      BY <3>1 DEF CallbackFreeze, Daemon
    <3> QED
      BY <1>8, <3>2, <3>3, <3>4, <3>5
  <2>2. UNCHANGED <<timer_queue, exec_queue, timer>>
    BY <1>8 DEF CallbackStore, CallbackFreeze
  <2>3. Future(0)' = Future(0) /\ Future(1)' = Future(1)
    BY <1>3, <2>2, SameFuture DEF CommandsAhead
  <2>4. q' = q /\ n' = n
    BY <2>2
  <2> HIDE DEF q, n
  <2> QED
    BY <1>1, <1>2, <1>4, <2>1, <2>2, <2>3, <2>4
<1>9. CASE CallbackSendEvent
  <2> DEFINE e == [EventOf("NEIGHBORTIMEOUT", {daemon.port}) EXCEPT !.count = daemon.value]
  <2>1. /\ exec_queue' = Append(exec_queue, e) /\ UNCHANGED <<timer_queue, timer>>
        /\ daemon.pc = "send" /\ daemon'.pc = "idle"
    BY <1>9 DEF CallbackSendEvent, IdleDaemon
  <2>q. exec_queue \in Seq(DlrEvent) /\ exec_queue' \in Seq(DlrEvent)
    BY DEF TypeOK
  <2>2. e.event = "NEIGHBORTIMEOUT"
    BY DEF EventOf
  <2> HIDE DEF e
  <2>3. e \notin Locates
    BY <2>2 DEF Locates
  <2>4. e \in DlrEvent
    <3>1. Append(exec_queue, e)[Len(exec_queue) + 1] = e
          /\ Len(exec_queue) + 1 \in 1..Len(Append(exec_queue, e))
      BY <2>q
    <3> QED
      BY <2>1, <2>q, <3>1
  <2>5. Tally(exec_queue', Locates) = Tally(exec_queue, Locates)
    <3>1. Tally(Append(exec_queue, e), Locates)
            = Tally(exec_queue, Locates) + Bit(e \in Locates)
      BY <2>1, <2>q, <2>4, TallyAppend
    <3>2. Tally(exec_queue, Locates) \in Nat
      BY <1>1, TallyType
    <3> QED
      BY <2>1, <2>3, <3>1, <3>2 DEF Bit
  <2>6. DaemonWork = 6 /\ DaemonWork' = 0
    BY <2>1 DEF DaemonWork
  <2>7. Future(0)' = Future(0) /\ Future(1)' = Future(1)
    BY <1>3, <2>1, SameFuture DEF CommandsAhead
  <2>8. q' = q /\ n' = n + 1
    BY <2>1, <2>q, <2>4
  <2> HIDE DEF q, n
  <2>9. 9 * fn + DaemonWork' + q' + 5 * n' < 9 * f + DaemonWork + q + 5 * n
    BY <1>1, <2>6, <2>7, <2>8
  <2> QED
    BY <1>4, <2>5, <2>9
<1> QED
  BY <1>6, <1>7, <1>8, <1>9 DEF DaemonNext

\* However the interrupt handler, the tasks and the timers take turns, they come to an
\* end: each of their steps leaves less work, so that only frames and changes of the
\* hardware, which bring new work, keep the node running.  No start of a timer, late
\* timeout or retry does, and the bound is known: a round lets a port expire three times
\* and once for each timeout it inherits (_event_locate_fault and _event_neighbor_timeout
\* of um_dlr_fsm.c, _timer_timeout_code of um_dlr_timer_neighbor_checker.c).
THEOREM WorkComesToAnEnd ==
  ASSUME CounterSuffices
  PROVE  Spec => [][NodeWorkEnds]_vars
<1>1. TypeOK /\ Budgeted => NodeWork \in Nat
  <2> SUFFICES ASSUME TypeOK, Budgeted PROVE NodeWork \in Nat
    OBVIOUS
  <2>1. Summands
    BY SummandsType
  <2> QED
    BY <2>1, SummandsSum, WeighedType DEF Summands, NodeWork
<1>2. TypeOK /\ Budgeted /\ [Next]_vars => Budgeted'
  BY TimeoutPortsStep, BudgetStep DEF Budgeted
<1>3. TypeOK /\ TypeOK' /\ Budgeted /\ Budgeted' => NodeWorkEnds
  <2> SUFFICES ASSUME TypeOK, TypeOK', Budgeted, Budgeted',
                      Isr \/ ReceiverSendEvent \/ ExecutorNext \/ DaemonNext
               PROVE  NodeWork' < NodeWork
    BY <1>1 DEF NodeWorkEnds
  <2>1. Summands /\ Summands'
    BY SummandsType, SummandsNext
  <2> QED
    BY <2>1, IsrWork, ReceiverWork, HandlerWork, PostWork, DaemonNextWork DEF ExecutorNext
<1> QED
  BY BudgetedInit, <1>2, <1>3, TypeCorrect, PTL DEF Spec
-----------------------------------------------------------------------------
(* What a node that has come to an end leaves behind.                      *)

\* The interrupt handler, a task or a timer has something to do and can do it.
TaskReady ==
  \/ scan # {} \/ irq # {}
  \/ held # <<>> /\ RoomForEvent
  \/ timer_cmds = <<>> /\ exec_queue # <<>>
  \/ timer_cmds # <<>> /\ Len(timer_queue) < TimerQueueLength
  \/ daemon.pc = "idle" /\ (timer_queue # <<>> \/ timer # {})
  \/ daemon.pc \in {"store", "freeze"}
  \/ daemon.pc = "send" /\ RoomForEvent

\* No event, command, timer or neighbor check is left over.
RestLeavesNothing == ~TaskReady /\ NoCircularWait => Quiet /\ round.waiting = {}

\* A node in which nothing can run has served everything and waits for no neighbor: a
\* check that is not answered has been given up.  The one other way to stop is the wait
\* of the executor and the daemon for each other: _timer_timeout_code of
\* um_dlr_timer_neighbor_checker.c sends to the queue of the task that waits for room in
\* the daemon's.
THEOREM NothingIsLeftOver == Spec => []RestLeavesNothing
<1>1. TypeOK /\ CheckNeverStalls => RestLeavesNothing
  <2> SUFFICES ASSUME TypeOK, CheckNeverStalls, ~TaskReady, NoCircularWait
               PROVE  Quiet /\ round.waiting = {}
    BY DEF RestLeavesNothing
  <2>1. /\ exec_queue \in Seq(DlrEvent) /\ timer_queue \in Seq(TimerCommand)
        /\ Len(timer_queue) <= TimerQueueLength /\ daemon \in Daemon
        /\ ExecQueueLength \in Nat \ {0} /\ TimerQueueLength \in Nat \ {0}
    BY QueueAssumption DEF TypeOK
  <2>2. daemon.pc = "idle" \/ (daemon.pc = "send" /\ ~RoomForEvent)
    BY <2>1 DEF TaskReady, Daemon
  <2>3. timer_cmds = <<>>
    <3> SUFFICES ASSUME timer_cmds # <<>> PROVE FALSE
      OBVIOUS
    <3>1. Len(timer_queue) = TimerQueueLength
      BY <2>1 DEF TaskReady
    <3>2. timer_queue # <<>>
      BY <2>1, <3>1
    <3>3. daemon.pc = "send" /\ ~RoomForEvent
      BY <2>2, <3>2 DEF TaskReady
    <3> QED
      BY <3>1, <3>3 DEF NoCircularWait
  <2>4. exec_queue = <<>>
    BY <2>3 DEF TaskReady
  <2>5. RoomForEvent
    BY <2>1, <2>4 DEF RoomForEvent
  <2>6. Quiet
    BY <2>2, <2>3, <2>4, <2>5 DEF TaskReady, Quiet
  <2>7. ASSUME NEW p \in round.waiting PROVE FALSE
    <3>1. Watched(p)
      BY WatchedMeans
    <3>2. CommandsAhead = <<>>
      BY <2>6 DEF Quiet, CommandsAhead
    <3> QED
      BY <2>6, <3>1, <3>2 DEF Quiet, Watched, StartsLast, TimeoutIn
  <2> QED
    BY <2>6, <2>7
<1> QED
  BY <1>1, TypeCorrect, ChecksNeverStall, PTL

=============================================================================
