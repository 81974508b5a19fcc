-------------------------- MODULE EtherNetifProofs --------------------------
(* For every heap, callback list and queue length: EtherNetif's type       *)
(* invariant, that every allocated frame has one owner, that none is left  *)
(* in the receive ring, and that the tasks never all wait for each other.  *)
EXTENDS EtherNetif, TLAPS

\* The blocks, and who has them.
FramesOK ==
  /\ heap \in 0..Blocks
  /\ held \in [Tasks -> Pointers]
  /\ queue \in [Queues -> Nat]
  /\ bad_free \in BOOLEAN
  /\ OneOwner

\* The pointers the reader holds, by where it is.
ReaderPointers ==
  /\ reader.pc \in {"wait", "allocate"} => held["reader"] = "null"
  /\ reader.pc \in {"read", "prepare"} => held["reader"] = "block"
  /\ reader.pc = "call" =>
       held["reader"] = IF reader.node = Len(Clients) THEN "null" ELSE "block"
  /\ held["packet"] = IF reader.pc = "call" THEN "block" ELSE "null"

\* The pointers the DLR executor holds, by where it is.
ExecutorPointers ==
  /\ executor.pc = "wait" => held["executor"] = "null"
  /\ executor.pc \in {"wait", "handle"} => held["response"] = "null"
  /\ executor.pc = "send" => held["response"] = "block"

\* No other pointer is to a freed block.
NoOtherDangles == \A t \in Tasks \ {"response"} : held[t] # "freed"

\* A pointer is set only where there was none, and only what is held is freed:
\* the count of the owners alone is not inductive.
IInv ==
  /\ TypeOK
  /\ OneOwner
  /\ ReaderPointers
  /\ ExecutorPointers
  /\ NoOtherDangles

LEMMA Bounds ==
  /\ Blocks \in Nat /\ Descriptors \in Nat /\ MaxNotified \in Nat \ {0}
  /\ \A q \in Queues : QueueLength[q] \in Nat \ {0}
  BY BoundAssumption

LEMMA SomeClient == Len(Clients) \in Nat /\ 1 \in 1..Len(Clients)
  BY BoundAssumption

-----------------------------------------------------------------------------
(* What a task does with a frame keeps the blocks and their owners in step. *)

LEMMA HeldChanges ==
  ASSUME held \in [Tasks -> Pointers], NEW t \in Tasks, NEW p \in Pointers,
         held' = [held EXCEPT ![t] = p]
  PROVE  /\ held' \in [Tasks -> Pointers]
         /\ p = "block" => HeldByTasks' = HeldByTasks - Holds(t) + 1
         /\ p # "block" => HeldByTasks' = HeldByTasks - Holds(t)
         /\ HeldByTasks \in Nat /\ HeldByTasks >= Holds(t)
  <1>1. held' \in [Tasks -> Pointers]
    OBVIOUS
  <1>2. \A u \in Tasks : Holds(u) \in {0, 1}
    BY DEF Holds
  <1>3. \A u \in Tasks \ {t} : Holds(u)' = Holds(u)
    BY DEF Holds
  <1>4. HeldByTasks \in Nat /\ HeldByTasks >= Holds(t)
    BY <1>2 DEF HeldByTasks, Tasks
  <1>5. ASSUME p = "block" PROVE HeldByTasks' = HeldByTasks - Holds(t) + 1
    <2>1. Holds(t)' = 1
      BY <1>5 DEF Holds
    <2> QED
      BY <1>2, <1>3, <2>1 DEF HeldByTasks, Tasks
  <1>6. ASSUME p # "block" PROVE HeldByTasks' = HeldByTasks - Holds(t)
    <2>1. Holds(t)' = 0
      BY <1>6 DEF Holds
    <2> QED
      BY <1>2, <1>3, <2>1 DEF HeldByTasks, Tasks
  <1> QED
    BY <1>1, <1>4, <1>5, <1>6

LEMMA QueuedChanges ==
  ASSUME queue \in [Queues -> Nat], NEW q \in Queues, NEW n \in Nat,
         queue' = [queue EXCEPT ![q] = n]
  PROVE  /\ queue' \in [Queues -> Nat]
         /\ Queued' = Queued - queue[q] + n
  BY DEF Queued, Queues

LEMMA QueuedNat ==
  ASSUME queue \in [Queues -> Nat]
  PROVE  Queued \in Nat
  BY DEF Queued, Queues

LEMMA AllocateFrames ==
  ASSUME FramesOK, NEW t \in Tasks, held[t] = "null", Allocate(t)
  PROVE  FramesOK'
  <1>1. held \in [Tasks -> Pointers] /\ queue \in [Queues -> Nat] /\ "block" \in Pointers
    BY DEF FramesOK, Pointers
  <1>2. held' = [held EXCEPT ![t] = "block"]
    BY DEF Allocate
  <1>3. Holds(t) = 0
    BY DEF Holds
  <1>4. /\ held' \in [Tasks -> Pointers]
        /\ HeldByTasks' = HeldByTasks - Holds(t) + 1
        /\ HeldByTasks \in Nat
    BY ONLY <1>1, <1>2, HeldChanges, t \in Tasks
  <1>5. Queued' = Queued /\ queue' = queue /\ Queued \in Nat
    BY <1>1, QueuedNat DEF Allocate, Queued
  <1>6. heap < Blocks /\ heap' = heap + 1 /\ bad_free' = bad_free
    BY DEF Allocate
  <1> QED
    BY <1>1, <1>3, <1>4, <1>5, <1>6, BoundAssumption DEF FramesOK, OneOwner

LEMMA ReleaseFrames ==
  ASSUME FramesOK, NEW t \in Tasks, Release(t)
  PROVE  FramesOK'
  <1>1. held \in [Tasks -> Pointers] /\ queue \in [Queues -> Nat] /\ "null" \in Pointers
    BY DEF FramesOK, Pointers
  <1>2. held' = [held EXCEPT ![t] = "null"]
    BY DEF Release
  <1>3. Holds(t) \in {0, 1}
    BY DEF Holds
  <1>4. /\ held' \in [Tasks -> Pointers]
        /\ HeldByTasks' = HeldByTasks - Holds(t)
        /\ HeldByTasks \in Nat /\ HeldByTasks >= Holds(t)
    BY ONLY <1>1, <1>2, HeldChanges, t \in Tasks
  <1>5. Queued' = Queued /\ queue' = queue /\ Queued \in Nat
    BY <1>1, QueuedNat DEF Release, Queued
  <1>6. heap \in Nat /\ heap <= Blocks /\ Blocks \in Nat /\ bad_free \in BOOLEAN
    BY Bounds DEF FramesOK
  <1>7. heap' = heap - Holds(t) /\ bad_free' \in BOOLEAN
    <2>1. bad_free' \in BOOLEAN
      BY <1>6 DEF Release
    <2>2. CASE held[t] = "block"
      BY <1>6, <2>2 DEF Release, Holds
    <2>3. CASE held[t] # "block"
      BY <1>6, <2>3 DEF Release, Holds
    <2> QED
      BY <2>1, <2>2, <2>3
  <1> QED
    BY <1>1, <1>3, <1>4, <1>5, <1>6, <1>7 DEF FramesOK, OneOwner

LEMMA SendFrames ==
  ASSUME FramesOK, NEW t \in Tasks, held[t] = "block", NEW q \in Queues, Send(t, q)
  PROVE  FramesOK'
  <1>1. held \in [Tasks -> Pointers] /\ queue \in [Queues -> Nat] /\ "null" \in Pointers
    BY DEF FramesOK, Pointers
  <1>2. held' = [held EXCEPT ![t] = "null"]
    BY DEF Send
  <1>3. Holds(t) = 1
    BY DEF Holds
  <1>4. /\ held' \in [Tasks -> Pointers]
        /\ HeldByTasks' = HeldByTasks - Holds(t)
        /\ HeldByTasks \in Nat /\ HeldByTasks >= Holds(t)
    BY ONLY <1>1, <1>2, HeldChanges, t \in Tasks
  <1> DEFINE n == queue[q] + 1
  <1>5. n \in Nat /\ queue' = [queue EXCEPT ![q] = n]
    BY <1>1 DEF Send
  <1> HIDE DEF n
  <1>6. /\ queue' \in [Queues -> Nat]
        /\ Queued' = Queued - queue[q] + n
    BY ONLY <1>1, <1>5, QueuedChanges, q \in Queues
  <1>7. Queued \in Nat /\ queue[q] \in Nat /\ n = queue[q] + 1
    BY <1>1, QueuedNat DEF n
  <1>8. heap' = heap /\ bad_free' = bad_free
    BY DEF Send
  <1> QED
    BY <1>3, <1>4, <1>6, <1>7, <1>8 DEF FramesOK, OneOwner

LEMMA ReceiveFrames ==
  ASSUME FramesOK, NEW t \in Tasks, held[t] = "null", NEW q \in Queues, Receive(t, q)
  PROVE  FramesOK'
  <1>1. held \in [Tasks -> Pointers] /\ queue \in [Queues -> Nat] /\ "block" \in Pointers
    BY DEF FramesOK, Pointers
  <1>2. held' = [held EXCEPT ![t] = "block"]
    BY DEF Receive
  <1>3. Holds(t) = 0
    BY DEF Holds
  <1>4. /\ held' \in [Tasks -> Pointers]
        /\ HeldByTasks' = HeldByTasks - Holds(t) + 1
        /\ HeldByTasks \in Nat
    BY ONLY <1>1, <1>2, HeldChanges, t \in Tasks
  <1> DEFINE n == queue[q] - 1
  <1>5. n \in Nat /\ queue' = [queue EXCEPT ![q] = n]
    BY <1>1 DEF Receive
  <1> HIDE DEF n
  <1>6. /\ queue' \in [Queues -> Nat]
        /\ Queued' = Queued - queue[q] + n
    BY ONLY <1>1, <1>5, QueuedChanges, q \in Queues
  <1>7. Queued \in Nat /\ queue[q] \in Nat /\ n = queue[q] - 1
    BY <1>1, QueuedNat DEF n
  <1>8. heap' = heap /\ bad_free' = bad_free
    BY DEF Receive
  <1> QED
    BY <1>3, <1>4, <1>6, <1>7, <1>8 DEF FramesOK, OneOwner

LEMMA SameFrames ==
  ASSUME FramesOK, UNCHANGED frameVars
  PROVE  FramesOK'
  BY DEF FramesOK, OneOwner, HeldByTasks, Queued, Holds, frameVars

-----------------------------------------------------------------------------
(* The invariant holds initially, and every step keeps it.                 *)

\* The rest of the type invariant.
QueuesOK ==
  /\ events \in Nat
  /\ \A q \in Queues \ {"executor"} : queue[q] <= QueueLength[q]
  /\ queue["executor"] + events <= QueueLength["executor"]

InputsOK ==
  /\ link \in BOOLEAN
  /\ received \in 0..Descriptors
  /\ irq \in BOOLEAN
  /\ notified \in 0..MaxNotified

TasksOK ==
  /\ reader \in [pc : {"wait", "allocate", "read", "prepare", "call"},
                 node : 1..Len(Clients), port : BOOLEAN]
  /\ executor \in [pc : {"wait", "handle", "send", "failed"}, sends : 0..MaxSends]

PointersOK == ReaderPointers /\ ExecutorPointers /\ NoOtherDangles

LEMMA IInvParts ==
  IInv <=> FramesOK /\ QueuesOK /\ InputsOK /\ TasksOK /\ PointersOK
  BY DEF IInv, TypeOK, FramesOK, QueuesOK, InputsOK, TasksOK, PointersOK

LEMMA IInvPartsPrime ==
  IInv' <=> FramesOK' /\ QueuesOK' /\ InputsOK' /\ TasksOK' /\ PointersOK'
  BY DEF IInv, TypeOK, FramesOK, QueuesOK, InputsOK, TasksOK, PointersOK

LEMMA InitIInv == Init => IInv
  <1> SUFFICES ASSUME Init PROVE IInv
    OBVIOUS
  <1>1. OneOwner
    BY DEF Init, OneOwner, HeldByTasks, Queued, Holds, Tasks, Queues
  <1>2. FramesOK
    <2>1. heap = 0 /\ held = [t \in Tasks |-> "null"] /\ queue = [q \in Queues |-> 0]
          /\ bad_free = FALSE
      BY DEF Init
    <2>2. heap \in 0..Blocks /\ held \in [Tasks -> Pointers] /\ queue \in [Queues -> Nat]
      BY <2>1, Bounds DEF Pointers
    <2> QED
      BY <1>1, <2>1, <2>2 DEF FramesOK
  <1>3. TasksOK
    BY SomeClient DEF Init, TasksOK, MaxSends
  <1>4. QueuesOK
    <2>1. events = 0 /\ queue = [q \in Queues |-> 0]
      BY DEF Init
    <2> QED
      BY <2>1, Bounds DEF QueuesOK, Queues
  <1>5. InputsOK
    <2>1. received = 0 /\ notified = 0 /\ link = TRUE /\ irq = FALSE
      BY DEF Init
    <2>2. received \in 0..Descriptors /\ notified \in 0..MaxNotified
      BY <2>1, Bounds
    <2> QED
      BY <2>1, <2>2 DEF InputsOK
  <1>6. PointersOK
    BY DEF Init, PointersOK, ReaderPointers, ExecutorPointers, NoOtherDangles, Tasks
  <1> QED
    BY <1>2, <1>3, <1>4, <1>5, <1>6, IInvParts

LEMMA InputIInv ==
  ASSUME IInv, DmaStoresFrame \/ LinkLost \/ LinkRestored \/ EventArrives \/ EtherIsr
  PROVE  IInv'
  <1>1. /\ FramesOK /\ QueuesOK /\ InputsOK /\ TasksOK /\ PointersOK
        /\ UNCHANGED <<frameVars, taskVars>>
    BY IInvParts DEF DmaStoresFrame, LinkLost, LinkRestored, EventArrives, EtherIsr
  <1>2. FramesOK'
    BY <1>1, SameFrames
  <1>3. QueuesOK'
    <2>1. CASE EventArrives
      BY <2>1, <1>1, Bounds
      DEF EventArrives, Room, Entries, QueuesOK, FramesOK, Queues, frameVars
    <2>2. CASE UNCHANGED events
      BY <2>2, <1>1 DEF QueuesOK, frameVars
    <2> QED
      BY <2>1, <2>2 DEF DmaStoresFrame, LinkLost, LinkRestored, EtherIsr
  <1>4. InputsOK'
    <2>1. received' \in 0..Descriptors
      BY <1>1, Bounds
      DEF DmaStoresFrame, LinkLost, LinkRestored, EventArrives, EtherIsr, InputsOK, inputVars
    <2>2. notified' \in 0..MaxNotified
      BY <1>1, Bounds
      DEF DmaStoresFrame, LinkLost, LinkRestored, EventArrives, EtherIsr, InputsOK, inputVars
    <2>3. link' \in BOOLEAN /\ irq' \in BOOLEAN
      BY <1>1
      DEF DmaStoresFrame, LinkLost, LinkRestored, EventArrives, EtherIsr, InputsOK, inputVars
    <2> QED
      BY <2>1, <2>2, <2>3 DEF InputsOK
  <1>5. TasksOK' /\ PointersOK'
    BY <1>1 DEF TasksOK, PointersOK, ReaderPointers, ExecutorPointers, NoOtherDangles,
                frameVars, taskVars
  <1> QED
    BY <1>2, <1>3, <1>4, <1>5, IInvPartsPrime

-----------------------------------------------------------------------------
(* What a task does with a frame keeps the bounds of the queues.           *)

LEMMA SendQueues ==
  ASSUME FramesOK, QueuesOK, NEW t \in Tasks, NEW q \in Queues, Send(t, q), events' = events
  PROVE  QueuesOK'
  <1>1. /\ queue \in [Queues -> Nat]
        /\ queue' = [queue EXCEPT ![q] = @ + 1]
        /\ Room(q)
    BY DEF FramesOK, Send
  <1> QED
    BY <1>1, Bounds DEF QueuesOK, Room, Entries, Queues

LEMMA ReceiveQueues ==
  ASSUME FramesOK, QueuesOK, NEW t \in Tasks, NEW q \in Queues, Receive(t, q), events' = events
  PROVE  QueuesOK'
  <1>1. /\ queue \in [Queues -> Nat]
        /\ queue' = [queue EXCEPT ![q] = @ - 1]
    BY DEF FramesOK, Receive
  <1> QED
    BY <1>1, Bounds DEF QueuesOK, Queues

LEMMA SameQueues ==
  ASSUME QueuesOK, queue' = queue, events' = events
  PROVE  QueuesOK'
  BY DEF QueuesOK

LEMMA SameInputs ==
  ASSUME InputsOK, UNCHANGED inputVars
  PROVE  InputsOK'
  BY DEF InputsOK, inputVars

-----------------------------------------------------------------------------
(* The reader.                                                             *)

LEMMA ReaderWakesIInv ==
  ASSUME IInv, ReaderWakes
  PROVE  IInv'
  <1>1. FramesOK /\ QueuesOK /\ InputsOK /\ TasksOK /\ PointersOK
    BY IInvParts
  <1>2. FramesOK' /\ QueuesOK'
    BY <1>1, SameFrames, SameQueues DEF ReaderWakes, frameVars
  <1>3. InputsOK'
    <2>1. notified' \in 0..MaxNotified
      BY <1>1, Bounds DEF ReaderWakes, InputsOK
    <2> QED
      BY <1>1, <2>1 DEF ReaderWakes, InputsOK
  <1>4. TasksOK' /\ PointersOK'
    BY <1>1 DEF ReaderWakes, TasksOK, PointersOK, ReaderPointers, ExecutorPointers,
                NoOtherDangles, frameVars
  <1> QED
    BY <1>2, <1>3, <1>4, IInvPartsPrime

LEMMA ReaderAllocatesIInv ==
  ASSUME IInv, ReaderAllocates
  PROVE  IInv'
  <1>1. FramesOK /\ QueuesOK /\ InputsOK /\ TasksOK /\ PointersOK
    BY IInvParts
  <1>2. held["reader"] = "null" /\ Allocate("reader")
    BY <1>1 DEF PointersOK, ReaderPointers, ReaderAllocates
  <1>3. FramesOK'
    BY <1>1, <1>2, AllocateFrames DEF Tasks
  <1>4. QueuesOK' /\ InputsOK'
    BY <1>1, SameQueues, SameInputs DEF ReaderAllocates, Allocate
  <1>5. TasksOK' /\ PointersOK'
    BY <1>1 DEF ReaderAllocates, Allocate, FramesOK, TasksOK, PointersOK, ReaderPointers,
                ExecutorPointers, NoOtherDangles, Tasks
  <1> QED
    BY <1>3, <1>4, <1>5, IInvPartsPrime

LEMMA ReaderReadsIInv ==
  ASSUME IInv, ReaderReads
  PROVE  IInv'
  <1>1. FramesOK /\ QueuesOK /\ InputsOK /\ TasksOK /\ PointersOK
    BY IInvParts
  <1>2. FramesOK'
    BY <1>1, ReleaseFrames, SameFrames DEF ReaderReads, Tasks
  <1>3. QueuesOK'
    BY <1>1, SameQueues DEF ReaderReads, Release, frameVars
  <1>4. InputsOK'
    <2>1. received' \in 0..Descriptors
      BY <1>1, Bounds DEF ReaderReads, InputsOK
    <2> QED
      BY <1>1, <2>1 DEF ReaderReads, InputsOK
  <1>5. TasksOK' /\ PointersOK'
    <2>1. CASE link /\ received > 0
      BY <1>1, <2>1, SomeClient DEF ReaderReads, TasksOK, PointersOK, ReaderPointers,
         ExecutorPointers, NoOtherDangles, frameVars
    <2>2. CASE ~(link /\ received > 0)
      BY <1>1, <2>2 DEF ReaderReads, Release, FramesOK, TasksOK, PointersOK, ReaderPointers,
         ExecutorPointers, NoOtherDangles, Tasks
    <2> QED
      BY <2>1, <2>2
  <1> QED
    BY <1>2, <1>3, <1>4, <1>5, IInvPartsPrime

LEMMA ReaderPreparesIInv ==
  ASSUME IInv, ReaderPrepares
  PROVE  IInv'
  <1>1. FramesOK /\ QueuesOK /\ InputsOK /\ TasksOK /\ PointersOK
    BY IInvParts
  <1>2. held["packet"] = "null" /\ held["reader"] = "block"
    BY <1>1 DEF PointersOK, ReaderPointers, ReaderPrepares
  <1>3. FramesOK'
    <2>1. CASE ~LastClient
      BY <1>1, <1>2, <2>1, AllocateFrames DEF ReaderPrepares, Tasks
    <2>2. CASE LastClient
      <3>1. /\ held \in [Tasks -> Pointers]
            /\ held' = [held EXCEPT !["packet"] = "block", !["reader"] = "null"]
            /\ UNCHANGED <<heap, queue, bad_free>>
        BY <1>1, <1>2, <2>2 DEF ReaderPrepares, FramesOK
      <3>2. held' \in [Tasks -> Pointers]
        BY <3>1 DEF Pointers
      <3>3. /\ Holds("packet") = 0 /\ Holds("reader") = 1
            /\ Holds("packet")' = 1 /\ Holds("reader")' = 0
        BY <1>2, <3>1 DEF Holds, Tasks
      <3>4. \A t \in Tasks \ {"packet", "reader"} : Holds(t)' = Holds(t) /\ Holds(t) \in {0, 1}
        BY <3>1 DEF Holds
      <3>5. HeldByTasks' = HeldByTasks
        BY <3>3, <3>4 DEF HeldByTasks, Tasks
      <3>6. Queued' = Queued
        BY <3>1 DEF Queued
      <3> QED
        BY <1>1, <3>1, <3>2, <3>5, <3>6 DEF FramesOK, OneOwner
    <2> QED
      BY <2>1, <2>2
  <1>4. QueuesOK' /\ InputsOK'
    BY <1>1, SameQueues, SameInputs DEF ReaderPrepares, Allocate
  <1>5. TasksOK' /\ PointersOK'
    BY <1>1, <1>2 DEF ReaderPrepares, LastClient, Allocate, FramesOK, TasksOK, PointersOK,
       ReaderPointers, ExecutorPointers, NoOtherDangles, Tasks
  <1> QED
    BY <1>3, <1>4, <1>5, IInvPartsPrime

LEMMA ReaderCallsIInv ==
  ASSUME IInv, ReaderCalls
  PROVE  IInv'
  <1>1. FramesOK /\ QueuesOK /\ InputsOK /\ TasksOK /\ PointersOK
    BY IInvParts
  <1>2. held["packet"] = "block"
    BY <1>1 DEF PointersOK, ReaderPointers, ReaderCalls
  <1>3. \/ Release("packet")
        \/ \E q \in Queues : Send("packet", q)
    BY DEF ReaderCalls, DlrCallback, LwipCallback, OpenerCallback, Request, Queues
  <1>4. FramesOK'
    BY <1>1, <1>2, <1>3, ReleaseFrames, SendFrames DEF Tasks
  <1>5. QueuesOK' /\ InputsOK'
    <2>1. UNCHANGED <<events, inputVars>>
      BY DEF ReaderCalls
    <2>2. CASE Release("packet")
      BY <1>1, <2>1, <2>2, SameQueues, SameInputs DEF Release
    <2>3. CASE \E q \in Queues : Send("packet", q)
      BY <1>1, <2>1, <2>3, SendQueues, SameInputs DEF Tasks
    <2> QED
      BY <1>3, <2>2, <2>3
  <1>6. /\ held' = [held EXCEPT !["packet"] = "null"]
        /\ held \in [Tasks -> Pointers]
    BY <1>1, <1>3 DEF Release, Send, FramesOK
  <1>7. TasksOK'
    <2>1. /\ executor' = executor
          /\ reader' = IF LastClient THEN [pc |-> "allocate", node |-> 1, port |-> TRUE]
                       ELSE [reader EXCEPT !.pc = "prepare", !.node = @ + 1]
      BY DEF ReaderCalls, NextRead
    <2>2. CASE LastClient
      BY <1>1, <2>1, <2>2, SomeClient DEF TasksOK
    <2>3. CASE ~LastClient
      <3>1. reader.node + 1 \in 1..Len(Clients)
        BY <1>1, <2>3, SomeClient DEF TasksOK, LastClient
      <3> QED
        BY <1>1, <2>1, <2>3, <3>1 DEF TasksOK
    <2> QED
      BY <2>2, <2>3
  <1>8. PointersOK'
    BY <1>1, <1>6 DEF ReaderCalls, LastClient, NextRead, TasksOK, PointersOK, ReaderPointers,
       ExecutorPointers, NoOtherDangles, Tasks
  <1> QED
    BY <1>4, <1>5, <1>7, <1>8, IInvPartsPrime

-----------------------------------------------------------------------------
(* DLR.                                                                    *)

LEMMA ReceiverIInv ==
  ASSUME IInv, Receiver
  PROVE  IInv'
  <1>1. FramesOK /\ QueuesOK /\ InputsOK /\ TasksOK /\ PointersOK
    BY IInvParts
  <1>2. InputsOK' /\ TasksOK' /\ UNCHANGED taskVars
    BY <1>1, SameInputs DEF Receiver, ReceiverTakesFrame, ReceiverDropsFrame,
       ReceiverPassesFrame, TasksOK, taskVars
  <1>3. CASE ReceiverTakesFrame
    <2>1. FramesOK' /\ QueuesOK'
      BY <1>1, <1>3, ReceiveFrames, ReceiveQueues DEF ReceiverTakesFrame, Tasks, Queues
    <2>2. PointersOK'
      BY <1>1, <1>2, <1>3 DEF ReceiverTakesFrame, Receive, FramesOK, PointersOK,
         ReaderPointers, ExecutorPointers, NoOtherDangles, Tasks, taskVars
    <2> QED
      BY <1>2, <2>1, <2>2, IInvPartsPrime
  <1>4. CASE ReceiverDropsFrame
    <2> DEFINE n == queue["dlr"] - 1
    <2>1. /\ queue \in [Queues -> Nat] /\ held \in [Tasks -> Pointers] /\ "dlr" \in Queues
          /\ n \in Nat /\ queue' = [queue EXCEPT !["dlr"] = n]
          /\ n = queue["dlr"] - 1 /\ queue["dlr"] \in Nat /\ queue["dlr"] > 0
      BY <1>1, <1>4 DEF ReceiverDropsFrame, FramesOK, Queues
    <2> HIDE DEF n
    <2>2. /\ queue' \in [Queues -> Nat] /\ Queued' = Queued - queue["dlr"] + n
          /\ Queued \in Nat /\ Queued >= queue["dlr"]
      BY <2>1, QueuedChanges, QueuedNat DEF Queued, Queues
    <2>3. HeldByTasks' = HeldByTasks /\ HeldByTasks \in Nat
      <3>1. \A t \in Tasks : Holds(t)' = Holds(t) /\ Holds(t) \in {0, 1}
        BY <1>4 DEF ReceiverDropsFrame, Holds
      <3> QED
        BY <3>1 DEF HeldByTasks, Tasks
    <2>4. FramesOK'
      <3>1. heap' = heap - 1 /\ held' = held /\ bad_free' = bad_free
        BY <1>4 DEF ReceiverDropsFrame
      <3>2. heap' \in 0..Blocks /\ OneOwner'
        BY <1>1, <2>1, <2>2, <2>3, <3>1, Bounds DEF FramesOK, OneOwner
      <3> QED
        BY <1>1, <2>2, <3>1, <3>2 DEF FramesOK
    <2>5. QueuesOK'
      BY <1>1, <1>4, <2>1, Bounds DEF ReceiverDropsFrame, QueuesOK, Queues
    <2>6. PointersOK'
      BY <1>1, <1>2, <1>4 DEF ReceiverDropsFrame, PointersOK, ReaderPointers,
         ExecutorPointers, NoOtherDangles, taskVars
    <2> QED
      BY <1>2, <2>4, <2>5, <2>6, IInvPartsPrime
  <1>5. CASE ReceiverPassesFrame
    <2>1. held["receiver"] = "block" /\ Send("receiver", "executor") /\ events' = events
      BY <1>1, <1>5 DEF ReceiverPassesFrame, FramesOK, PointersOK, NoOtherDangles, Tasks, Pointers
    <2>2. FramesOK' /\ QueuesOK'
      BY <1>1, <2>1, SendFrames, SendQueues DEF Tasks, Queues
    <2>3. PointersOK'
      BY <1>1, <1>2, <2>1 DEF Send, FramesOK, PointersOK,
         ReaderPointers, ExecutorPointers, NoOtherDangles, Tasks, taskVars
    <2> QED
      BY <1>2, <2>2, <2>3, IInvPartsPrime
  <1> QED
    BY <1>3, <1>4, <1>5 DEF Receiver

LEMMA ExecutorTakesIInv ==
  ASSUME IInv, ExecutorTakesEvent
  PROVE  IInv'
  <1>1. FramesOK /\ QueuesOK /\ InputsOK /\ TasksOK /\ PointersOK
    BY IInvParts
  <1>2. InputsOK' /\ TasksOK'
    BY <1>1, SameInputs DEF ExecutorTakesEvent, TasksOK
  <1>3. CASE Receive("executor", "executor") /\ UNCHANGED events
    <2>1. held["executor"] = "null" /\ held["response"] = "null"
      BY <1>1 DEF ExecutorTakesEvent, PointersOK, ExecutorPointers
    <2>2. FramesOK' /\ QueuesOK'
      BY <1>1, <1>3, <2>1, ReceiveFrames, ReceiveQueues DEF Tasks, Queues
    <2>3. PointersOK'
      BY <1>1, <1>3, <2>1 DEF ExecutorTakesEvent, Receive, FramesOK, PointersOK,
         ReaderPointers, ExecutorPointers, NoOtherDangles, Tasks
    <2> QED
      BY <1>2, <2>2, <2>3, IInvPartsPrime
  <1>4. CASE events > 0 /\ events' = events - 1 /\ UNCHANGED frameVars
    <2>1. FramesOK'
      BY <1>1, <1>4, SameFrames
    <2>2. QueuesOK'
      BY <1>1, <1>4, Bounds DEF QueuesOK, FramesOK, Queues, frameVars
    <2>3. PointersOK'
      BY <1>1, <1>4 DEF ExecutorTakesEvent, PointersOK, ReaderPointers, ExecutorPointers,
         NoOtherDangles, frameVars
    <2> QED
      BY <1>2, <2>1, <2>2, <2>3, IInvPartsPrime
  <1> QED
    BY <1>3, <1>4 DEF ExecutorTakesEvent

LEMMA ExecutorAllocatesIInv ==
  ASSUME IInv, ExecutorAllocates
  PROVE  IInv'
  <1>1. FramesOK /\ QueuesOK /\ InputsOK /\ TasksOK /\ PointersOK
    BY IInvParts
  <1>2. held["response"] = "null" /\ Allocate("response")
    BY <1>1 DEF ExecutorAllocates, PointersOK, ExecutorPointers
  <1>3. FramesOK' /\ QueuesOK' /\ InputsOK'
    BY <1>1, <1>2, AllocateFrames, SameQueues, SameInputs
    DEF ExecutorAllocates, Allocate, Tasks
  <1>4. TasksOK'
    BY <1>1 DEF ExecutorAllocates, TasksOK, MaxSends
  <1>5. PointersOK'
    BY <1>1, <1>2 DEF ExecutorAllocates, Allocate, FramesOK, PointersOK,
       ReaderPointers, ExecutorPointers, NoOtherDangles, Tasks
  <1> QED
    BY <1>3, <1>4, <1>5, IInvPartsPrime

LEMMA ExecutorSendsIInv ==
  ASSUME IInv, ExecutorSends
  PROVE  IInv'
  <1>1. FramesOK /\ QueuesOK /\ InputsOK /\ TasksOK /\ PointersOK
    BY IInvParts
  <1>2. held["response"] = "block" /\ held["executor"] # "freed"
    BY <1>1 DEF ExecutorSends, PointersOK, ExecutorPointers, NoOtherDangles, Tasks
  <1>3. InputsOK' /\ TasksOK' /\ events' = events
    BY <1>1, SameInputs DEF ExecutorSends, TasksOK
  <1>4. CASE Send("response", "writer") /\ executor' = [executor EXCEPT !.pc = "handle"]
    <2>1. FramesOK' /\ QueuesOK'
      BY <1>1, <1>2, <1>3, <1>4, SendFrames, SendQueues DEF Tasks, Queues
    <2>2. PointersOK'
      BY <1>1, <1>2, <1>4 DEF ExecutorSends, Send, FramesOK, TasksOK, PointersOK,
         ReaderPointers, ExecutorPointers, NoOtherDangles, Tasks
    <2> QED
      BY <1>3, <2>1, <2>2, IInvPartsPrime
  <1>5. CASE UNCHANGED frameVars /\ executor' = [executor EXCEPT !.pc = "failed"]
    <2>1. FramesOK' /\ QueuesOK'
      BY <1>1, <1>3, <1>5, SameFrames, SameQueues DEF frameVars
    <2>2. PointersOK'
      BY <1>1, <1>5 DEF ExecutorSends, TasksOK, PointersOK, ReaderPointers,
         ExecutorPointers, NoOtherDangles, frameVars
    <2> QED
      BY <1>3, <2>1, <2>2, IInvPartsPrime
  <1>6. CASE /\ heap' = heap - 1
             /\ held' = [held EXCEPT !["response"] = "freed"]
             /\ executor' = [executor EXCEPT !.pc = "failed"]
             /\ UNCHANGED <<queue, bad_free>>
    <2>1. /\ held \in [Tasks -> Pointers] /\ queue \in [Queues -> Nat]
          /\ "freed" \in Pointers /\ "response" \in Tasks
          /\ held' = [held EXCEPT !["response"] = "freed"]
      BY <1>1, <1>6 DEF FramesOK, Pointers, Tasks
    <2>2. Holds("response") = 1
      BY <1>2 DEF Holds
    <2>3. /\ held' \in [Tasks -> Pointers]
          /\ HeldByTasks' = HeldByTasks - Holds("response")
          /\ HeldByTasks \in Nat /\ HeldByTasks >= Holds("response")
      BY ONLY <2>1, HeldChanges
    <2>4. Queued' = Queued /\ Queued \in Nat
      BY <1>6, <2>1, QueuedNat DEF Queued
    <2>5. FramesOK'
      BY <1>1, <1>6, <2>1, <2>2, <2>3, <2>4, Bounds DEF FramesOK, OneOwner
    <2>6. QueuesOK'
      BY <1>1, <1>3, <1>6, SameQueues
    <2>7. PointersOK'
      BY <1>1, <2>1, <1>6 DEF ExecutorSends, TasksOK, PointersOK, ReaderPointers,
         ExecutorPointers, NoOtherDangles, Tasks
    <2> QED
      BY <1>3, <2>5, <2>6, <2>7, IInvPartsPrime
  <1> QED
    BY <1>4, <1>5, <1>6 DEF ExecutorSends

LEMMA ExecutorFreesIInv ==
  ASSUME IInv, ExecutorFails \/ ExecutorFinishes
  PROVE  IInv'
  <1>1. FramesOK /\ QueuesOK /\ InputsOK /\ TasksOK /\ PointersOK
    BY IInvParts
  <1>2. FramesOK' /\ QueuesOK' /\ InputsOK'
    BY <1>1, ReleaseFrames, SameQueues, SameInputs
    DEF ExecutorFails, ExecutorFinishes, Release, Tasks
  <1>3. TasksOK'
    BY <1>1 DEF ExecutorFails, ExecutorFinishes, SendsLeft, TasksOK, MaxSends
  <1>4. PointersOK'
    BY <1>1 DEF ExecutorFails, ExecutorFinishes, Release, FramesOK, TasksOK, PointersOK,
       ReaderPointers, ExecutorPointers, NoOtherDangles, Tasks
  <1> QED
    BY <1>2, <1>3, <1>4, IInvPartsPrime

-----------------------------------------------------------------------------
(* lwIP and the writer.                                                    *)

LEMMA OutputIInv ==
  ASSUME IInv, LwipReceiver \/ LinkOutputAllocates \/ LinkOutputSends \/ Writer
  PROVE  IInv'
  <1>1. FramesOK /\ QueuesOK /\ InputsOK /\ TasksOK /\ PointersOK
    BY IInvParts
  <1>2. UNCHANGED <<events, inputVars, taskVars>>
    BY DEF LwipReceiver, LwipTakesFrame, LwipInputsFrame, LinkOutputAllocates,
           LinkOutputSends, Writer, WriterTakesFrame, WriterWritesFrame
  <1>3. InputsOK' /\ TasksOK'
    BY <1>1, <1>2, SameInputs DEF TasksOK, taskVars
  <1>4. PICK t \in {"lwip", "tcpip", "writer"}, q \in Queues :
          \/ held[t] = "null" /\ (Receive(t, q) \/ Allocate(t))
          \/ held[t] = "block" /\ (Release(t) \/ Send(t, q))
    BY <1>1 DEF LwipReceiver, LwipTakesFrame, LwipInputsFrame, LinkOutputAllocates,
       LinkOutputSends, Writer, WriterTakesFrame, WriterWritesFrame, Request, FramesOK,
       PointersOK, NoOtherDangles, Tasks, Queues, Pointers
  <1>5. t \in Tasks
    BY DEF Tasks
  <1>6. FramesOK' /\ QueuesOK'
    BY <1>1, <1>2, <1>4, <1>5, AllocateFrames, ReleaseFrames, SendFrames, ReceiveFrames,
       SendQueues, ReceiveQueues, SameQueues DEF Allocate, Release
  <1>7. \E p \in {"null", "block"} : held' = [held EXCEPT ![t] = p]
    BY <1>4 DEF Receive, Allocate, Release, Send
  <1>8. PointersOK'
    BY <1>1, <1>2, <1>7 DEF FramesOK, PointersOK, ReaderPointers, ExecutorPointers,
       NoOtherDangles, Tasks, taskVars
  <1> QED
    BY <1>3, <1>6, <1>8, IInvPartsPrime

LEMMA NextIInv == IInv /\ [Next]_vars => IInv'
  <1> SUFFICES ASSUME IInv, [Next]_vars PROVE IInv'
    OBVIOUS
  <1>1. CASE Inputs \/ EtherIsr
    BY <1>1, InputIInv, OutputIInv DEF Inputs
  <1>2. CASE Reader
    BY <1>2, ReaderWakesIInv, ReaderAllocatesIInv, ReaderReadsIInv, ReaderPreparesIInv,
       ReaderCallsIInv DEF Reader
  <1>3. CASE Receiver
    BY <1>3, ReceiverIInv
  <1>4. CASE Executor
    BY <1>4, ExecutorTakesIInv, ExecutorAllocatesIInv, ExecutorSendsIInv, ExecutorFreesIInv
    DEF Executor
  <1>5. CASE LwipReceiver \/ LinkOutputSends \/ Writer
    BY <1>5, OutputIInv
  <1>6. CASE UNCHANGED vars
    BY <1>6 DEF vars, IInv, TypeOK, OneOwner, HeldByTasks, Queued, Holds, ReaderPointers,
       ExecutorPointers, NoOtherDangles
  <1> QED
    BY <1>1, <1>2, <1>3, <1>4, <1>5, <1>6 DEF Next, Work, Inputs, Runs, Stopped

\* The type invariant and the invariant of the owners, for every heap, callback
\* list and queue length.
THEOREM TypeCorrect == Spec => []TypeOK
  <1>1. IInv => TypeOK
    BY DEF IInv
  <1> QED
    BY InitIInv, NextIInv, <1>1, PTL DEF Spec

\* Every allocated frame has one owner: none is leaked and none is freed under
\* its owner, through every copy, full queue and error return.
THEOREM FramesHaveOneOwner == Spec => []OneOwner
  <1>1. IInv => OneOwner
    BY DEF IInv
  <1> QED
    BY InitIInv, NextIInv, <1>1, PTL DEF Spec

LEMMA NextLeavesNothing ==
  TypeOK /\ NoFrameLeftBehind /\ [Next]_vars => NoFrameLeftBehind'
  <1> SUFFICES ASSUME TypeOK, NoFrameLeftBehind, [Next]_vars PROVE NoFrameLeftBehind'
    OBVIOUS
  <1> USE DEF NoFrameLeftBehind
  <1>1. CASE DmaStoresFrame
    <2>1. irq' = TRUE
      BY <1>1 DEF DmaStoresFrame
    <2> QED
      BY <2>1, Zenon
  <1>2. CASE EtherIsr
    <2>1. notified' > 0
      <3>1. notified \in Nat /\ notified' = notified + 1
        BY <1>2, Bounds DEF EtherIsr, TypeOK
      <3> QED
        BY ONLY <3>1
    <2> QED
      BY <2>1, Zenon
  <1>3. CASE LinkLost
    <2>1. link' = FALSE
      BY <1>3 DEF LinkLost
    <2> QED
      BY <2>1, Zenon
  <1>4. CASE LinkRestored
    <2>1. ~(received' > 0)
      BY <1>4 DEF LinkRestored
    <2> QED
      BY <2>1, Zenon
  <1>5. CASE ReaderReads
    <2>1. CASE link /\ received > 0
      <3>1. reader'.pc # "wait"
        BY <1>5, <2>1 DEF ReaderReads
      <3> QED
        BY <3>1, Zenon
    <2>2. CASE ~(link /\ received > 0)
      <3>1. link' = link /\ received' = received
        BY <1>5, <2>2 DEF ReaderReads
      <3> QED
        BY <2>2, <3>1, Zenon
    <2> QED
      BY <2>1, <2>2
  <1>6. CASE ReaderWakes \/ ReaderAllocates \/ ReaderPrepares \/ ReaderCalls
    <2>1. reader'.pc # "wait"
      <3>1. reader \in [pc : {"wait", "allocate", "read", "prepare", "call"},
                        node : 1..Len(Clients), port : BOOLEAN]
        BY DEF TypeOK
      <3>2. "pc" \in DOMAIN reader
        BY <3>1
      <3>3. CASE reader' = [pc |-> "allocate", node |-> 1, port |-> TRUE]
        BY <3>3
      <3>4. CASE reader' = [reader EXCEPT !.pc = "prepare", !.node = @ + 1]
        BY <3>1, <3>4
      <3>5. CASE \E pc \in {"allocate", "read", "call"} : reader' = [reader EXCEPT !.pc = pc]
        BY <3>2, <3>5
      <3> QED
        BY <1>6, <3>3, <3>4, <3>5
        DEF ReaderWakes, ReaderAllocates, ReaderPrepares, ReaderCalls, NextRead
    <2> QED
      BY <2>1, Zenon
  <1>7. CASE UNCHANGED <<reader, inputVars>>
    BY <1>7 DEF inputVars
  <1> QED
    BY <1>1, <1>2, <1>3, <1>4, <1>5, <1>6, <1>7
    DEF Next, Runs, Inputs, Work, Reader, Stopped, vars, inputVars, taskVars, EventArrives,
        LinkOutputAllocates, LinkOutputSends, Receiver, ReceiverTakesFrame,
        ReceiverDropsFrame, ReceiverPassesFrame, Executor, ExecutorTakesEvent,
        ExecutorAllocates, ExecutorSends, ExecutorFails, ExecutorFinishes, LwipReceiver,
        LwipTakesFrame, LwipInputsFrame, Writer, WriterTakesFrame, WriterWritesFrame

\* The reader never waits on frames that no wakeup will make it read.
THEOREM NothingLeftBehind == Spec => []NoFrameLeftBehind
  <1>1. Init => NoFrameLeftBehind
    BY DEF Init, NoFrameLeftBehind
  <1> QED
    BY <1>1, TypeCorrect, NextLeavesNothing, PTL DEF Spec

\* Where the executor waits for a block it has none to send, and where the reader
\* does it has no copy: the heap cannot be full of what stalled tasks hold.
LEMMA StalledHold ==
  ASSUME IInv, ~SomeTaskReady
  PROVE  /\ Queued = queue["dlr"] + queue["executor"]
         /\ queue["dlr"] \in 0..QueueLength["dlr"]
         /\ queue["executor"] \in 0..QueueLength["executor"]
         /\ HeldByTasks \in 0..4
         /\ executor.pc = "wait" => queue["executor"] = 0
         /\ executor.pc = "wait" /\ held["receiver"] = "null" => HeldByTasks <= 2
  <1>1. /\ held \in [Tasks -> Pointers] /\ queue \in [Queues -> Nat] /\ events \in Nat
        /\ queue["dlr"] <= QueueLength["dlr"]
        /\ queue["executor"] + events <= QueueLength["executor"]
        /\ executor.pc \in {"wait", "handle", "send", "failed"}
    BY DEF IInv, TypeOK, Queues
  <1>2. /\ queue["dlr"] \in Nat /\ queue["executor"] \in Nat /\ queue["lwip"] \in Nat
        /\ queue["writer"] \in Nat
        /\ QueueLength["dlr"] \in Nat /\ QueueLength["executor"] \in Nat
    BY <1>1, Bounds DEF Queues
  <1>3. /\ held["tcpip"] = "null" /\ held["lwip"] = "null" /\ held["writer"] = "null"
        /\ queue["lwip"] = 0 /\ queue["writer"] = 0
    BY <1>2 DEF SomeTaskReady
  <1>4. executor.pc \in {"wait", "handle"}
    BY <1>1 DEF SomeTaskReady, ExecutorReady
  <1>5. held["response"] = "null" /\ (executor.pc = "wait" => held["executor"] = "null")
    BY <1>4 DEF IInv, ExecutorPointers
  <1>6. executor.pc = "wait" => queue["executor"] = 0
    BY <1>1, <1>2 DEF SomeTaskReady, ExecutorReady, Entries
  <1>7. \A t \in Tasks : Holds(t) \in {0, 1} /\ (held[t] = "null" => Holds(t) = 0)
    BY DEF Holds
  <1>8. HeldByTasks = Holds("reader") + Holds("packet") + Holds("receiver") + Holds("executor")
    BY <1>3, <1>5, <1>7 DEF HeldByTasks, Tasks
  <1>9. /\ HeldByTasks \in 0..4
        /\ executor.pc = "wait" /\ held["receiver"] = "null" => HeldByTasks <= 2
    BY <1>5, <1>7, <1>8 DEF Tasks
  <1> QED
    BY <1>1, <1>2, <1>3, <1>6, <1>9 DEF Queued

\* With blocks enough for what the queues to DLR and its executor hold, and for what the
\* tasks hold while they wait, the tasks never all wait: none waits for a block that only
\* the others could free, or for room that only the others could make, for any callback
\* list and length of the queues.
THEOREM TasksGoOn ==
  ASSUME BlocksSuffice
  PROVE  Spec => []TasksNeverStall
  <1>1. ASSUME IInv, ~bad_free, ~SomeTaskReady PROVE Quiet
    <2>1. /\ heap = HeldByTasks + Queued /\ heap \in Nat
          /\ Queued = queue["dlr"] + queue["executor"]
          /\ queue["dlr"] \in 0..QueueLength["dlr"]
          /\ queue["executor"] \in 0..QueueLength["executor"]
          /\ HeldByTasks \in 0..4
          /\ executor.pc = "wait" => queue["executor"] = 0
          /\ executor.pc = "wait" /\ held["receiver"] = "null" => HeldByTasks <= 2
      BY <1>1, StalledHold DEF IInv, TypeOK, OneOwner
    <2>2. /\ Blocks \in Nat /\ QueueLength["dlr"] \in Nat \ {0}
          /\ QueueLength["executor"] \in Nat \ {0} /\ MaxNotified \in Nat \ {0}
      BY Bounds DEF Queues
    <2>3. heap < Blocks
      BY <2>1, <2>2 DEF BlocksSuffice
    <2>4. /\ reader.pc \in {"wait", "allocate", "read", "prepare", "call"}
          /\ executor.pc \in {"wait", "handle", "send", "failed"}
          /\ held \in [Tasks -> Pointers] /\ queue \in [Queues -> Nat] /\ events \in Nat
          /\ irq \in BOOLEAN /\ notified \in 0..MaxNotified
      BY <1>1 DEF IInv, TypeOK
    \* With a block left, the executor has nothing to do, so the receiver has room there
    \* and nothing to do either, and the reader has room at DLR.
    <2>5. executor.pc = "wait" /\ Entries("executor") = 0
      <3>1. executor.pc = "wait"
        BY <1>1, <2>3, <2>4 DEF SomeTaskReady, ExecutorReady
      <3>2. ~(Entries("executor") > 0)
        BY <1>1, <3>1 DEF SomeTaskReady, ExecutorReady
      <3> QED
        BY <2>4, <3>1, <3>2 DEF Entries, Queues
    <2>6. held["receiver"] = "null" /\ queue["dlr"] = 0
      BY <1>1, <2>1, <2>2, <2>5 DEF SomeTaskReady, ReceiverReady, Room
    <2>7. Room("dlr")
      BY <2>2, <2>6 DEF Room, Entries
    <2>8. reader.pc = "wait" /\ notified = 0
      <3>1. ~ReaderReady
        BY <1>1 DEF SomeTaskReady
      <3>2. reader.pc = "wait"
        BY <2>3, <2>4, <2>7, <3>1 DEF ReaderReady
      <3> QED
        BY <2>2, <2>4, <3>1, <3>2 DEF ReaderReady
    <2>9. ~irq
      BY <1>1, <2>2, <2>8 DEF SomeTaskReady
    <2>10. /\ \A t \in {"lwip", "tcpip", "writer"} : held[t] = "null"
           /\ queue["lwip"] = 0 /\ queue["writer"] = 0
      BY <1>1, <2>4 DEF SomeTaskReady, Queues
    <2> QED
      BY <2>5, <2>6, <2>8, <2>9, <2>10 DEF Quiet, Entries, Queues
  <1>2. IInv => TasksNeverStall
    BY <1>1 DEF TasksNeverStall
  <1> QED
    BY InitIInv, NextIInv, <1>2, PTL DEF Spec
-----------------------------------------------------------------------------
(* The work ends.                                                          *)

\* The work left but for the frames in the ring.
RingApart ==
  (IF irq THEN 4 ELSE 0) + 3 * notified + ReaderWork + ExecutorWork + FramesWork

\* A step leaves less work.
LessLeft == WorkLeft' \in 0..(WorkLeft - 1)

WorkOK ==
  /\ ReaderWork \in Nat /\ ExecutorWork \in Nat /\ FramesWork \in Nat
  /\ RingApart \in Nat
  /\ (PerClient * Len(Clients) + 2) * received \in Nat
  /\ WorkLeft = (PerClient * Len(Clients) + 2) * received + RingApart

LEMMA WorkTypes == IInv => WorkOK
  <1> SUFFICES ASSUME IInv PROVE WorkOK
    OBVIOUS
  <1>1. /\ received \in Nat /\ notified \in Nat
        /\ held \in [Tasks -> Pointers] /\ queue \in [Queues -> Nat] /\ events \in Nat
        /\ reader.pc \in {"wait", "allocate", "read", "prepare", "call"}
        /\ reader.node \in 1..Len(Clients)
        /\ executor.pc \in {"wait", "handle", "send", "failed"}
        /\ executor.sends \in 0..MaxSends
    BY Bounds DEF IInv, TypeOK
  <1>2. Len(Clients) \in Nat \ {0}
    BY SomeClient
  <1>3. ReaderWork \in Nat
    BY <1>1, <1>2 DEF ReaderWork, PerClient
  <1>4. ExecutorWork \in Nat
    BY <1>1 DEF ExecutorWork, MaxSends
  <1>5. FramesWork \in Nat
    <2>1. \A t \in Tasks : Set(t) \in {0, 1}
      BY DEF Set
    <2>2. /\ Entries("executor") \in Nat /\ queue["dlr"] \in Nat /\ queue["lwip"] \in Nat
          /\ queue["writer"] \in Nat
      BY <1>1 DEF Entries, Queues
    <2> QED
      BY <2>1, <2>2 DEF FramesWork, Tasks
  <1>6. RingApart \in Nat
    BY <1>1, <1>3, <1>4, <1>5 DEF RingApart
  <1>7. (PerClient * Len(Clients) + 2) * received \in Nat
    <2>1. \A a, b \in Nat : a * b \in Nat
      OBVIOUS
    <2>2. PerClient * Len(Clients) + 2 \in Nat
      BY <1>2 DEF PerClient
    <2> QED
      BY <1>1, <2>1, <2>2
  <1>8. WorkLeft = (PerClient * Len(Clients) + 2) * received + RingApart
    <2> DEFINE ring == (PerClient * Len(Clients) + 2) * received
    <2>1. ring \in Nat
      BY <1>7
    <2>2. WorkLeft = ring + (IF irq THEN 4 ELSE 0) + 3 * notified + ReaderWork + ExecutorWork
                     + FramesWork
      BY DEF WorkLeft
    <2> HIDE DEF ring
    <2>3. WorkLeft = ring + RingApart
      BY <1>1, <1>3, <1>4, <1>5, <2>1, <2>2 DEF RingApart
    <2> QED
      BY <2>3 DEF ring
  <1> QED
    BY <1>3, <1>4, <1>5, <1>6, <1>7, <1>8 DEF WorkOK

LEMMA WorkTypesPrime == IInv' => WorkOK'
  BY WorkTypes, PTL

\* A step that reads no frame from the ring.
LEMMA LessApart ==
  ASSUME IInv, IInv', UNCHANGED received, RingApart' < RingApart
  PROVE  LessLeft
  <1> DEFINE ring == (PerClient * Len(Clients) + 2) * received
  <1>1. /\ ring \in Nat /\ RingApart \in Nat /\ WorkLeft = ring + RingApart
    BY WorkTypes DEF WorkOK
  <1>2. RingApart' \in Nat /\ WorkLeft' = ring' + RingApart'
    BY WorkTypesPrime DEF WorkOK
  <1>3. ring' = ring
    OBVIOUS
  <1>4. RingApart' < RingApart
    OBVIOUS
  <1> HIDE DEF ring
  <1>5. \A r, a, b \in Nat : b < a => r + b \in 0..(r + a - 1)
    OBVIOUS
  <1>6. ring + RingApart' \in 0..(ring + RingApart - 1)
    BY <1>1, <1>2, <1>4, <1>5
  <1>7. WorkLeft' = ring + RingApart' /\ WorkLeft - 1 = ring + RingApart - 1
    BY <1>1, <1>2, <1>3
  <1> QED
    BY <1>6, <1>7 DEF LessLeft

\* The variables a step of the tasks reads the work from.
Workers ==
  /\ held \in [Tasks -> Pointers] /\ queue \in [Queues -> Nat] /\ events \in Nat
  /\ notified \in Nat /\ Len(Clients) \in Nat
  /\ reader \in [pc : {"wait", "allocate", "read", "prepare", "call"},
                 node : 1..Len(Clients), port : BOOLEAN]
  /\ executor \in [pc : {"wait", "handle", "send", "failed"}, sends : 0..MaxSends]
  /\ \A t \in Tasks \ {"response"} : held[t] # "freed"

LEMMA IInvWorkers == IInv => Workers
  BY Bounds, SomeClient DEF IInv, TypeOK, NoOtherDangles, Workers

\* The work of the frames, in the queues and at the tasks.
QueueWork ==
  12 * queue["dlr"] + 10 * Entries("executor") + 2 * queue["writer"] + 2 * queue["lwip"]
TaskWork == 11 * Set("receiver") + 3 * Set("tcpip") + Set("writer") + Set("lwip")

FramesWorkOK ==
  FramesWork = QueueWork + TaskWork /\ QueueWork \in Nat /\ TaskWork \in Nat

LEMMA FramesWorkIs == Workers => FramesWorkOK
  <1> SUFFICES ASSUME Workers PROVE FramesWorkOK
    OBVIOUS
  <1>1. /\ Entries("executor") \in Nat /\ queue["dlr"] \in Nat /\ queue["lwip"] \in Nat
        /\ queue["writer"] \in Nat
    BY DEF Workers, Entries, Queues
  <1>2. \A t \in Tasks : Set(t) \in {0, 1}
    BY DEF Set
  <1> QED
    BY <1>1, <1>2 DEF FramesWorkOK, FramesWork, QueueWork, TaskWork, Tasks

LEMMA FramesWorkIsPrime == Workers' => FramesWorkOK'
  BY FramesWorkIs, PTL

\* A frame more, or less, in queue q, for the frame's work there.
Worth(q) == IF q = "dlr" THEN 12 ELSE IF q = "executor" THEN 10 ELSE 2

LEMMA QueueGains ==
  ASSUME Workers, NEW q \in Queues, NEW d \in {1, -1},
         queue' = [queue EXCEPT ![q] = @ + d], events' = events
  PROVE  QueueWork' = QueueWork + d * Worth(q)
  <1>1. /\ queue["executor"] \in Nat /\ queue["dlr"] \in Nat /\ queue["lwip"] \in Nat
        /\ queue["writer"] \in Nat /\ events \in Nat /\ events' = events
    BY DEF Workers, Queues
  <1>2. \A r \in Queues : queue'[r] = IF r = q THEN queue[r] + d ELSE queue[r]
    BY DEF Workers
  <1>3. CASE q = "dlr"
    BY <1>1, <1>2, <1>3 DEF QueueWork, Worth, Entries, Queues
  <1>4. CASE q = "executor"
    BY <1>1, <1>2, <1>4 DEF QueueWork, Worth, Entries, Queues
  <1>5. CASE q = "lwip"
    BY <1>1, <1>2, <1>5 DEF QueueWork, Worth, Entries, Queues
  <1>6. CASE q = "writer"
    BY <1>1, <1>2, <1>6 DEF QueueWork, Worth, Entries, Queues
  <1> QED
    BY <1>3, <1>4, <1>5, <1>6 DEF Queues

\* Task t has a frame, or has none any more.
TaskWorth(t) == IF t = "receiver" THEN 11 ELSE IF t = "tcpip" THEN 3
                ELSE IF t \in {"writer", "lwip"} THEN 1 ELSE 0

LEMMA TaskChanges ==
  ASSUME Workers, NEW t \in Tasks, \A u \in Tasks \ {t} : held'[u] = held[u]
  PROVE  /\ held[t] # "null" /\ held'[t] = "null" => TaskWork' = TaskWork - TaskWorth(t)
         /\ held[t] = "null" /\ held'[t] # "null" => TaskWork' = TaskWork + TaskWorth(t)
         /\ TaskWorth(t) = 0 => TaskWork' = TaskWork
  <1>1. \A u \in Tasks : /\ u # t => Set(u)' = Set(u)
                         /\ Set(u) \in {0, 1} /\ Set(u)' \in {0, 1}
    BY DEF Set
  <1>2. /\ held[t] # "null" /\ held'[t] = "null" => Set(t) = 1 /\ Set(t)' = 0
        /\ held[t] = "null" /\ held'[t] # "null" => Set(t) = 0 /\ Set(t)' = 1
    BY DEF Set
  <1>3. CASE t = "receiver"
    BY <1>1, <1>2, <1>3 DEF TaskWork, TaskWorth, Tasks
  <1>4. CASE t = "tcpip"
    BY <1>1, <1>2, <1>4 DEF TaskWork, TaskWorth, Tasks
  <1>5. CASE t = "writer"
    BY <1>1, <1>2, <1>5 DEF TaskWork, TaskWorth, Tasks
  <1>6. CASE t = "lwip"
    BY <1>1, <1>2, <1>6 DEF TaskWork, TaskWorth, Tasks
  <1>7. CASE t \notin {"receiver", "tcpip", "writer", "lwip"}
    <2>1. TaskWorth(t) = 0
      BY <1>7 DEF TaskWorth
    <2>2. TaskWork' = TaskWork
      BY <1>1, <1>7 DEF TaskWork, Tasks
    <2> QED
      BY <1>1, <2>1, <2>2 DEF TaskWork, Tasks
  <1> QED
    BY <1>3, <1>4, <1>5, <1>6, <1>7

\* What becomes of the frames' work when a frame is allocated, sent, taken or freed.
LEMMA FramesWorkBy ==
  ASSUME Workers, Workers', NEW m \in Int, NEW n \in Int,
         QueueWork' = QueueWork + m, TaskWork' = TaskWork + n
  PROVE  FramesWork' = FramesWork + m + n
  BY FramesWorkIs, FramesWorkIsPrime DEF FramesWorkOK

LEMMA AllocateWork ==
  ASSUME Workers, Workers', NEW t \in Tasks, held[t] = "null", Allocate(t), events' = events
  PROVE  FramesWork' = FramesWork + TaskWorth(t)
  <1>1. TaskWork' = TaskWork + TaskWorth(t) /\ TaskWorth(t) \in Nat
    BY TaskChanges DEF Allocate, TaskWorth, Workers
  <1>2. QueueWork' = QueueWork + 0 /\ FramesWork \in Int
    BY FramesWorkIs DEF Allocate, QueueWork, Entries, FramesWorkOK
  <1> QED
    BY <1>1, <1>2, FramesWorkBy

LEMMA SendWork ==
  ASSUME Workers, Workers', NEW t \in Tasks, NEW q \in Queues, held[t] # "null", Send(t, q),
         events' = events
  PROVE  FramesWork' = FramesWork + Worth(q) - TaskWorth(t)
  <1>1. QueueWork' = QueueWork + Worth(q) /\ Worth(q) \in Int
    <2>1. QueueWork' = QueueWork + 1 * Worth(q)
      BY QueueGains DEF Send
    <2> QED
      BY <2>1 DEF Worth
  <1>2. TaskWork' = TaskWork - TaskWorth(t) /\ TaskWorth(t) \in Int
    BY TaskChanges DEF Send, TaskWorth, Workers
  <1>3. TaskWork \in Int /\ FramesWork \in Int
    BY FramesWorkIs DEF FramesWorkOK
  <1>4. TaskWork' = TaskWork + (0 - TaskWorth(t))
    BY <1>2, <1>3
  <1>5. FramesWork' = FramesWork + Worth(q) + (0 - TaskWorth(t))
    BY <1>1, <1>2, <1>4, FramesWorkBy
  <1> QED
    BY <1>1, <1>2, <1>3, <1>5

LEMMA ReceiveWork ==
  ASSUME Workers, Workers', NEW t \in Tasks, NEW q \in Queues, held[t] = "null", Receive(t, q),
         events' = events
  PROVE  FramesWork' = FramesWork + TaskWorth(t) - Worth(q)
  <1>1. QueueWork' = QueueWork - Worth(q) /\ Worth(q) \in Int
    <2>1. queue' = [queue EXCEPT ![q] = @ + (-1)]
      BY DEF Receive, Workers
    <2>2. QueueWork' = QueueWork + (-1) * Worth(q)
      BY <2>1, QueueGains
    <2> QED
      BY <2>2, FramesWorkIs DEF Worth, FramesWorkOK
  <1>2. TaskWork' = TaskWork + TaskWorth(t) /\ TaskWorth(t) \in Int
    BY TaskChanges DEF Receive, TaskWorth, Workers
  <1>3. QueueWork \in Int /\ FramesWork \in Int
    BY FramesWorkIs DEF FramesWorkOK
  <1>4. QueueWork' = QueueWork + (0 - Worth(q))
    BY <1>1, <1>3
  <1>5. FramesWork' = FramesWork + (0 - Worth(q)) + TaskWorth(t)
    BY <1>1, <1>2, <1>4, FramesWorkBy
  <1> QED
    BY <1>1, <1>2, <1>3, <1>5

LEMMA ReleaseWork ==
  ASSUME Workers, Workers', NEW t \in Tasks, Release(t), events' = events,
         held[t] # "null" \/ TaskWorth(t) = 0
  PROVE  FramesWork' = FramesWork - TaskWorth(t)
  <1>1. QueueWork' = QueueWork + 0
    BY FramesWorkIs DEF Release, QueueWork, Entries, FramesWorkOK
  <1>2. FramesWork \in Int /\ TaskWork \in Int /\ TaskWorth(t) \in Int
    BY FramesWorkIs DEF FramesWorkOK, TaskWorth
  <1>3. TaskWork' = TaskWork - TaskWorth(t)
    BY <1>2, TaskChanges DEF Release, Workers
  <1>4. TaskWork' = TaskWork + (0 - TaskWorth(t))
    BY <1>2, <1>3
  <1>5. FramesWork' = FramesWork + 0 + (0 - TaskWorth(t))
    BY <1>1, <1>2, <1>4, FramesWorkBy
  <1> QED
    BY <1>2, <1>5

LEMMA SameWork ==
  ASSUME UNCHANGED <<held, queue, events>>
  PROVE  FramesWork' = FramesWork
  BY DEF FramesWork, Set, Entries

LEMMA IInvWorkersPrime == IInv' => Workers'
  BY IInvWorkers, PTL

\* A step that leaves the driver's part alone.
LEMMA TasksLess ==
  ASSUME IInv, IInv', UNCHANGED inputVars,
         ReaderWork' + ExecutorWork' + FramesWork' < ReaderWork + ExecutorWork + FramesWork
  PROVE  LessLeft
  <1>1. /\ ReaderWork \in Nat /\ ExecutorWork \in Nat /\ FramesWork \in Nat
        /\ ReaderWork' \in Nat /\ ExecutorWork' \in Nat /\ FramesWork' \in Nat
        /\ notified \in Nat
    BY WorkTypes, WorkTypesPrime, IInvWorkers DEF WorkOK, Workers
  <1> DEFINE notices == (IF irq THEN 4 ELSE 0) + 3 * notified
  <1>2. notices \in Nat /\ notices' = notices
    BY <1>1 DEF inputVars
  <1>3. /\ RingApart = notices + ReaderWork + ExecutorWork + FramesWork
        /\ RingApart' = notices' + ReaderWork' + ExecutorWork' + FramesWork'
    BY DEF RingApart
  <1> HIDE DEF notices
  <1>4. ReaderWork' + ExecutorWork' + FramesWork' < ReaderWork + ExecutorWork + FramesWork
    OBVIOUS
  <1>5. \A n, a, b, c, x, y, z \in Nat :
          x + y + z < a + b + c => n + x + y + z < n + a + b + c
    OBVIOUS
  <1>6. notices + ReaderWork' + ExecutorWork' + FramesWork'
          < notices + ReaderWork + ExecutorWork + FramesWork
    BY <1>1, <1>2, <1>4, <1>5
  <1>7. RingApart' < RingApart
    BY <1>2, <1>3, <1>6
  <1> QED
    BY <1>7, LessApart DEF inputVars

LEMMA EtherIsrLess ==
  ASSUME IInv, IInv', EtherIsr
  PROVE  LessLeft
  <1>1. /\ ReaderWork \in Nat /\ ExecutorWork \in Nat /\ FramesWork \in Nat
        /\ notified \in Nat
    BY WorkTypes, IInvWorkers DEF WorkOK, Workers
  <1>2. FramesWork' = FramesWork /\ ReaderWork' = ReaderWork /\ ExecutorWork' = ExecutorWork
    BY SameWork DEF EtherIsr, frameVars, taskVars, ReaderWork, ExecutorWork
  <1>3. RingApart' < RingApart
    BY <1>1, <1>2 DEF RingApart, EtherIsr
  <1> QED
    BY <1>3, LessApart DEF EtherIsr

LEMMA ReaderWakesLess ==
  ASSUME IInv, IInv', ReaderWakes
  PROVE  LessLeft
  <1>1. ExecutorWork \in Nat /\ FramesWork \in Nat /\ notified \in Nat
    BY WorkTypes, IInvWorkers DEF WorkOK, Workers
  <1>2. FramesWork' = FramesWork /\ ExecutorWork' = ExecutorWork
    BY SameWork DEF ReaderWakes, frameVars, ExecutorWork
  <1>3. ReaderWork = 0 /\ ReaderWork' = 2
    BY IInvWorkers DEF ReaderWakes, ReaderWork, Workers
  <1>4. RingApart' < RingApart
    BY <1>1, <1>2, <1>3 DEF RingApart, ReaderWakes
  <1> QED
    BY <1>4, LessApart DEF ReaderWakes

LEMMA ReaderAllocatesLess ==
  ASSUME IInv, IInv', ReaderAllocates
  PROVE  LessLeft
  <1>1. Workers /\ Workers' /\ held["reader"] = "null" /\ ExecutorWork \in Nat /\ FramesWork \in Nat
    BY WorkTypes, IInvWorkers, IInvWorkersPrime DEF WorkOK, ReaderAllocates, IInv, ReaderPointers
  <1>2. FramesWork' = FramesWork
    <2>1. FramesWork' = FramesWork + TaskWorth("reader")
      BY <1>1, AllocateWork DEF ReaderAllocates, Tasks
    <2> QED
      BY <1>1, <2>1 DEF TaskWorth
  <1>3. ReaderWork = 2 /\ ReaderWork' = 1 /\ ExecutorWork' = ExecutorWork
    BY <1>1 DEF ReaderAllocates, ReaderWork, ExecutorWork, Workers
  <1> QED
    BY <1>1, <1>2, <1>3, TasksLess DEF ReaderAllocates

\* A frame leaves the ring for the callback list, or the reader rests.
LEMMA ReaderReadsLess ==
  ASSUME IInv, IInv', ReaderReads
  PROVE  LessLeft
  <1>1. Workers /\ Workers' /\ ExecutorWork \in Nat /\ FramesWork \in Nat /\ received \in Nat
    BY WorkTypes, IInvWorkers, IInvWorkersPrime DEF WorkOK, IInv, TypeOK
  <1>2. ReaderWork = 1 /\ ExecutorWork' = ExecutorWork
    BY <1>1 DEF ReaderReads, ReaderWork, ExecutorWork, Workers
  <1>3. CASE link /\ received > 0
    <2>1. FramesWork' = FramesWork
      BY <1>3, SameWork DEF ReaderReads, frameVars
    <2> DEFINE frame == PerClient * Len(Clients) + 2
               notices == (IF irq THEN 4 ELSE 0) + 3 * notified
    <2>2. ReaderWork' = frame /\ frame \in Nat
      <3>1. ReaderWork' = PerClient * (Len(Clients) - 1) + 16
        BY <1>1, <1>3 DEF ReaderReads, ReaderWork, Workers
      <3> QED
        BY <3>1, SomeClient DEF PerClient
    <2>3. /\ RingApart = notices + ReaderWork + ExecutorWork + FramesWork
          /\ RingApart' = notices' + ReaderWork' + ExecutorWork' + FramesWork'
          /\ notices' = notices /\ notices \in Nat
      BY <1>1 DEF RingApart, ReaderReads, Workers
    <2>4. frame * received' = frame * received - frame
      <3>1. received' = received - 1
        BY <1>3 DEF ReaderReads
      <3>2. \A f, n \in Nat : f * (n - 1) = f * n - f
        OBVIOUS
      <3> HIDE DEF frame
      <3> QED
        BY <1>1, <2>2, <3>1, <3>2
    <2>5. /\ WorkLeft = frame * received + RingApart /\ frame * received \in Nat
          /\ WorkLeft' = frame * received' + RingApart' /\ frame * received' \in Nat
          /\ RingApart' \in Nat
      BY WorkTypes, WorkTypesPrime DEF WorkOK
    <2> DEFINE ring == frame * received
    <2>6. WorkLeft = ring + RingApart /\ WorkLeft' = ring - frame + RingApart' /\ ring \in Nat
      BY <2>4, <2>5
    <2> HIDE DEF frame, notices, ring
    <2>7. WorkLeft' = WorkLeft - 1 /\ ring - frame + RingApart' \in Int
      BY <1>1, <1>2, <2>1, <2>2, <2>3, <2>6
    <2>8. WorkLeft' \in Nat
      BY <2>5 DEF ring, frame
    <2> QED
      BY <2>7, <2>8 DEF LessLeft
  <1>4. CASE ~(link /\ received > 0)
    <2>1. FramesWork' = FramesWork
      <3>1. FramesWork' = FramesWork - TaskWorth("reader")
        BY <1>1, <1>4, ReleaseWork DEF ReaderReads, Tasks, TaskWorth
      <3> QED
        BY <1>1, <3>1 DEF TaskWorth
    <2>2. ReaderWork' = 0 /\ UNCHANGED inputVars
      BY <1>1, <1>4 DEF ReaderReads, ReaderWork, inputVars, Workers
    <2> QED
      BY <1>1, <1>2, <2>1, <2>2, TasksLess
  <1> QED
    BY <1>3, <1>4

LEMMA ReaderPreparesLess ==
  ASSUME IInv, IInv', ReaderPrepares
  PROVE  LessLeft
  <1>1. /\ Workers /\ Workers' /\ held["packet"] = "null"
        /\ ExecutorWork \in Nat /\ FramesWork \in Nat /\ ReaderWork \in Nat
    BY WorkTypes, IInvWorkers, IInvWorkersPrime DEF WorkOK, ReaderPrepares, IInv, ReaderPointers
  <1>2. FramesWork' = FramesWork
    <2>1. CASE LastClient
      BY <1>1, <2>1 DEF ReaderPrepares, FramesWork, Set, Entries, Workers, Tasks
    <2>2. CASE ~LastClient
      <3>1. FramesWork' = FramesWork + TaskWorth("packet")
        BY <1>1, <2>2, AllocateWork DEF ReaderPrepares, Tasks
      <3> QED
        BY <1>1, <3>1 DEF TaskWorth
    <2> QED
      BY <2>1, <2>2
  <1>3. ReaderWork' = ReaderWork - 1 /\ ExecutorWork' = ExecutorWork
    BY <1>1, SomeClient DEF ReaderPrepares, ReaderWork, ExecutorWork, Workers, PerClient
  <1> QED
    BY <1>1, <1>2, <1>3, TasksLess DEF ReaderPrepares

\* A client takes the frame on, for at most what is set aside for it.
LEMMA ReaderCallsLess ==
  ASSUME IInv, IInv', ReaderCalls
  PROVE  LessLeft
  <1>1. /\ Workers /\ Workers' /\ held["packet"] = "block"
        /\ ExecutorWork \in Nat /\ FramesWork \in Nat /\ ReaderWork \in Nat
    BY WorkTypes, IInvWorkers, IInvWorkersPrime DEF WorkOK, ReaderCalls, IInv, ReaderPointers
  <1>2. FramesWork' <= FramesWork + 12 /\ FramesWork' \in Int
    <2>1. CASE Send("packet", "dlr")
      <3>1. FramesWork' = FramesWork + Worth("dlr") - TaskWorth("packet")
        BY <1>1, <2>1, SendWork DEF ReaderCalls, Tasks, Queues
      <3> QED
        BY <1>1, <3>1 DEF Worth, TaskWorth
    <2>2. CASE Send("packet", "lwip")
      <3>1. FramesWork' = FramesWork + Worth("lwip") - TaskWorth("packet")
        BY <1>1, <2>2, SendWork DEF ReaderCalls, Tasks, Queues
      <3> QED
        BY <1>1, <3>1 DEF Worth, TaskWorth
    <2>3. CASE Release("packet")
      <3>1. FramesWork' = FramesWork - TaskWorth("packet")
        BY <1>1, <2>3, ReleaseWork DEF ReaderCalls, Tasks
      <3> QED
        BY <1>1, <3>1 DEF TaskWorth
    <2> QED
      BY <2>1, <2>2, <2>3 DEF ReaderCalls, DlrCallback, LwipCallback, OpenerCallback, Request
  <1>3. ReaderWork' <= ReaderWork - 13 /\ ReaderWork' \in Int /\ ExecutorWork' = ExecutorWork
    <2>1. ExecutorWork' = ExecutorWork
      BY DEF ReaderCalls, ExecutorWork
    <2>2. /\ reader.node \in 1..Len(Clients) /\ Len(Clients) \in Nat
          /\ ReaderWork = 14 * (Len(Clients) - reader.node) + 15
      BY <1>1 DEF ReaderCalls, ReaderWork, Workers, PerClient
    <2>3. CASE LastClient
      <3>1. ReaderWork' = 2
        BY <2>3 DEF ReaderCalls, ReaderWork, NextRead
      <3> QED
        BY <2>1, <2>2, <2>3, <3>1 DEF LastClient
    <2>4. CASE ~LastClient
      <3>1. reader'.pc = "prepare" /\ reader'.node = reader.node + 1
        BY <1>1, <2>4 DEF ReaderCalls, Workers
      <3>2. ReaderWork' = 14 * (Len(Clients) - (reader.node + 1)) + 16
        BY <3>1 DEF ReaderWork, PerClient
      <3> QED
        BY <2>1, <2>2, <3>2
    <2> QED
      BY <2>3, <2>4
  <1> QED
    BY <1>1, <1>2, <1>3, TasksLess DEF ReaderCalls

\* A step of a task behind the reader.
LEMMA OthersLess ==
  ASSUME IInv, IInv', UNCHANGED <<inputVars, reader>>,
         ExecutorWork' + FramesWork' < ExecutorWork + FramesWork
  PROVE  LessLeft
  <1>1. /\ ReaderWork \in Nat /\ ExecutorWork \in Nat /\ FramesWork \in Nat
        /\ ExecutorWork' \in Nat /\ FramesWork' \in Nat
    BY WorkTypes, WorkTypesPrime DEF WorkOK
  <1>2. ReaderWork' = ReaderWork
    BY DEF ReaderWork
  <1>3. \A r, a, b, x, y \in Nat : x + y < a + b => r + x + y < r + a + b
    OBVIOUS
  <1>4. ExecutorWork' + FramesWork' < ExecutorWork + FramesWork
    OBVIOUS
  <1>5. ReaderWork + ExecutorWork' + FramesWork' < ReaderWork + ExecutorWork + FramesWork
    BY <1>1, <1>3, <1>4
  <1> QED
    BY <1>2, <1>5, TasksLess

LEMMA ReceiverLess ==
  ASSUME IInv, IInv', Receiver
  PROVE  LessLeft
  <1>1. Workers /\ Workers' /\ ExecutorWork \in Nat /\ FramesWork \in Nat
    BY WorkTypes, IInvWorkers, IInvWorkersPrime DEF WorkOK
  <1>2. ExecutorWork' = ExecutorWork /\ UNCHANGED <<inputVars, reader>>
    BY DEF Receiver, ReceiverTakesFrame, ReceiverDropsFrame, ReceiverPassesFrame, taskVars,
           ExecutorWork
  <1>3. CASE ReceiverTakesFrame
    <2>1. FramesWork' = FramesWork + TaskWorth("receiver") - Worth("dlr")
      BY <1>1, <1>3, ReceiveWork DEF ReceiverTakesFrame, Tasks, Queues
    <2>2. FramesWork' = FramesWork - 1
      BY <1>1, <2>1 DEF Worth, TaskWorth
    <2> QED
      BY <1>1, <1>2, <2>2, OthersLess
  <1>4. CASE ReceiverDropsFrame
    <2>1. queue' = [queue EXCEPT !["dlr"] = @ + (-1)] /\ UNCHANGED <<held, events>>
      BY <1>1, <1>4 DEF ReceiverDropsFrame, Workers, Queues
    <2>2. QueueWork' = QueueWork + (-1) * Worth("dlr")
      BY <1>1, <2>1, QueueGains DEF Queues
    <2>3. QueueWork' = QueueWork + (-12) /\ TaskWork' = TaskWork + 0
      BY <1>1, <2>1, <2>2, FramesWorkIs DEF Worth, TaskWork, Set, FramesWorkOK
    <2>4. FramesWork' = FramesWork + (-12) + 0
      BY <1>1, <2>3, FramesWorkBy
    <2> QED
      BY <1>1, <1>2, <2>4, OthersLess
  <1>5. CASE ReceiverPassesFrame
    <2>1. FramesWork' = FramesWork + Worth("executor") - TaskWorth("receiver")
      BY <1>1, <1>5, SendWork DEF ReceiverPassesFrame, Tasks, Queues
    <2>2. FramesWork' = FramesWork - 1
      BY <1>1, <2>1 DEF Worth, TaskWorth
    <2> QED
      BY <1>1, <1>2, <2>2, OthersLess
  <1> QED
    BY <1>3, <1>4, <1>5 DEF Receiver

\* An entry of the executor's queue is worth more than what its handler sends.
LEMMA ExecutorLess ==
  ASSUME IInv, IInv', Executor
  PROVE  LessLeft
  <1>1. Workers /\ Workers' /\ ExecutorWork \in Nat /\ FramesWork \in Nat
    BY WorkTypes, IInvWorkers, IInvWorkersPrime DEF WorkOK
  <1>2. UNCHANGED <<inputVars, reader>>
    BY DEF Executor, ExecutorTakesEvent, ExecutorAllocates, ExecutorSends, ExecutorFails,
           ExecutorFinishes
  <1>3. CASE ExecutorTakesEvent
    <2>1. ExecutorWork = 0 /\ ExecutorWork' \in 0..9
      <3>1. executor'.pc = "handle" /\ executor'.sends \in 0..2
        BY <1>3 DEF ExecutorTakesEvent, MaxSends
      <3> QED
        BY <1>3, <3>1 DEF ExecutorTakesEvent, ExecutorWork
    <2>2. FramesWork' = FramesWork - 10
      <3>1. CASE Receive("executor", "executor") /\ events' = events
        <4>1. held["executor"] = "null"
          BY <1>3 DEF ExecutorTakesEvent, IInv, ExecutorPointers
        <4>2. FramesWork' = FramesWork + TaskWorth("executor") - Worth("executor")
          BY <1>1, <3>1, <4>1, ReceiveWork DEF Tasks, Queues
        <4> QED
          BY <1>1, <4>2 DEF TaskWorth, Worth
      <3>2. CASE events > 0 /\ events' = events - 1 /\ UNCHANGED frameVars
        <4>1. /\ queue["executor"] \in Nat /\ queue["dlr"] \in Nat /\ queue["lwip"] \in Nat
              /\ queue["writer"] \in Nat /\ events \in Nat
          BY <1>1 DEF Workers, Queues
        <4>2. QueueWork' = QueueWork + (-10)
          BY <3>2, <4>1 DEF QueueWork, Entries, frameVars
        <4>3. TaskWork' = TaskWork + 0
          BY <1>1, <3>2, FramesWorkIs DEF TaskWork, Set, frameVars, FramesWorkOK
        <4>4. FramesWork' = FramesWork + (-10) + 0
          BY <1>1, <4>2, <4>3, FramesWorkBy
        <4> QED
          BY <1>1, <4>4
      <3> QED
        BY <1>3, <3>1, <3>2 DEF ExecutorTakesEvent
    <2>3. \A f \in Nat, n \in 0..9 : n + (f - 10) < 0 + f
      OBVIOUS
    <2>4. ExecutorWork' + FramesWork' < ExecutorWork + FramesWork
      BY <1>1, <2>1, <2>2, <2>3
    <2> QED
      BY <1>2, <2>4, OthersLess
  <1>4. CASE ExecutorAllocates
    <2>1. FramesWork' = FramesWork
      <3>1. held["response"] = "null"
        BY <1>4 DEF ExecutorAllocates, IInv, ExecutorPointers
      <3>2. FramesWork' = FramesWork + TaskWorth("response")
        BY <1>1, <1>4, <3>1, AllocateWork DEF ExecutorAllocates, Tasks
      <3> QED
        BY <1>1, <3>2 DEF TaskWorth
    <2>2. ExecutorWork' = ExecutorWork - 1
      BY <1>1, <1>4 DEF ExecutorAllocates, ExecutorWork, Workers, MaxSends
    <2> QED
      BY <1>1, <1>2, <2>1, <2>2, OthersLess
  <1>5. CASE ExecutorSends
    <2>1. /\ held["response"] = "block" /\ executor.sends \in Nat
          /\ ExecutorWork = 4 * executor.sends + 4 /\ events' = events
      BY <1>1, <1>5 DEF ExecutorSends, IInv, ExecutorPointers, ExecutorWork, Workers, MaxSends
    <2>2. CASE Send("response", "writer") /\ executor' = [executor EXCEPT !.pc = "handle"]
      <3>1. FramesWork' = FramesWork + Worth("writer") - TaskWorth("response")
        BY <1>1, <2>1, <2>2, SendWork DEF Tasks, Queues
      <3>2. FramesWork' = FramesWork + 2
        BY <1>1, <3>1 DEF Worth, TaskWorth
      <3>3. ExecutorWork' = 4 * executor.sends + 1
        BY <1>1, <2>2 DEF ExecutorWork, Workers
      <3> QED
        BY <1>1, <1>2, <2>1, <3>2, <3>3, OthersLess
    <2>3. CASE executor' = [executor EXCEPT !.pc = "failed"] /\ queue' = queue
               /\ (\A t \in Tasks \ {"response"} : held'[t] = held[t])
      <3>1. FramesWork' = FramesWork
        BY <2>1, <2>3 DEF FramesWork, Set, Entries, Tasks
      <3>2. ExecutorWork' = 2
        BY <1>1, <2>3 DEF ExecutorWork, Workers
      <3> QED
        BY <1>1, <1>2, <2>1, <3>1, <3>2, OthersLess
    <2> QED
      BY <1>1, <1>5, <2>2, <2>3 DEF ExecutorSends, frameVars, Workers
  <1>6. CASE ExecutorFails
    <2>1. FramesWork' = FramesWork
      <3>1. FramesWork' = FramesWork - TaskWorth("response")
        BY <1>1, <1>6, ReleaseWork DEF ExecutorFails, Tasks, TaskWorth
      <3> QED
        BY <1>1, <3>1 DEF TaskWorth
    <2>2. ExecutorWork = 2 /\ ExecutorWork' = 1
      BY <1>6 DEF ExecutorFails, ExecutorWork, SendsLeft
    <2> QED
      BY <1>1, <1>2, <2>1, <2>2, OthersLess
  <1>7. CASE ExecutorFinishes
    <2>1. FramesWork' = FramesWork
      <3>1. FramesWork' = FramesWork - TaskWorth("executor")
        BY <1>1, <1>7, ReleaseWork DEF ExecutorFinishes, Tasks, TaskWorth
      <3> QED
        BY <1>1, <3>1 DEF TaskWorth
    <2>2. ExecutorWork = 1 /\ ExecutorWork' = 0
      BY <1>1, <1>7 DEF ExecutorFinishes, ExecutorWork, Workers
    <2> QED
      BY <1>1, <1>2, <2>1, <2>2, OthersLess
  <1> QED
    BY <1>3, <1>4, <1>5, <1>6, <1>7 DEF Executor

LEMMA OutputLess ==
  ASSUME IInv, IInv', LwipReceiver \/ LinkOutputSends \/ Writer
  PROVE  LessLeft
  <1>1. Workers /\ Workers' /\ ExecutorWork \in Nat /\ FramesWork \in Nat
    BY WorkTypes, IInvWorkers, IInvWorkersPrime DEF WorkOK
  <1>2. UNCHANGED <<inputVars, reader>> /\ ExecutorWork' = ExecutorWork /\ events' = events
    BY DEF LwipReceiver, LinkOutputSends, Writer, LwipTakesFrame, LwipInputsFrame,
           WriterTakesFrame, WriterWritesFrame, taskVars, ExecutorWork
  <1>3. ASSUME NEW t \in {"lwip", "writer"}, held[t] = "null", Receive(t, t)
        PROVE  LessLeft
    <2>1. FramesWork' = FramesWork + TaskWorth(t) - Worth(t)
      BY <1>1, <1>2, <1>3, ReceiveWork DEF Tasks, Queues
    <2>2. FramesWork' = FramesWork - 1
      BY <1>1, <1>3, <2>1 DEF TaskWorth, Worth
    <2> QED
      BY <1>1, <1>2, <2>2, OthersLess
  <1>4. ASSUME NEW t \in {"lwip", "writer", "tcpip"}, held[t] # "null", Release(t)
        PROVE  LessLeft
    <2>1. FramesWork' = FramesWork - TaskWorth(t)
      BY <1>1, <1>2, <1>4, ReleaseWork DEF Tasks
    <2>2. FramesWork' < FramesWork
      BY <1>1, <1>4, <2>1 DEF TaskWorth
    <2>3. FramesWork' \in Nat
      BY WorkTypesPrime DEF WorkOK
    <2>4. \A e, f, g \in Nat : g < f => e + g < e + f
      OBVIOUS
    <2>5. ExecutorWork' + FramesWork' < ExecutorWork + FramesWork
      BY <1>1, <1>2, <2>2, <2>3, <2>4
    <2> QED
      BY <1>2, <2>5, OthersLess
  <1>5. ASSUME held["tcpip"] # "null", Send("tcpip", "writer")
        PROVE  LessLeft
    <2>1. FramesWork' = FramesWork + Worth("writer") - TaskWorth("tcpip")
      BY <1>1, <1>2, <1>5, SendWork DEF Tasks, Queues
    <2>2. FramesWork' = FramesWork - 1
      BY <1>1, <2>1 DEF TaskWorth, Worth
    <2> QED
      BY <1>1, <1>2, <2>2, OthersLess
  <1> QED
    BY <1>3, <1>4, <1>5 DEF LwipReceiver, LinkOutputSends, Writer, LwipTakesFrame,
       LwipInputsFrame, WriterTakesFrame, WriterWritesFrame, Request

LEMMA WorkLess ==
  IInv /\ IInv' /\ Work => LessLeft
  BY EtherIsrLess, ReaderWakesLess, ReaderAllocatesLess, ReaderReadsLess, ReaderPreparesLess,
     ReaderCallsLess, ReceiverLess, ExecutorLess, OutputLess DEF Work, Reader

\* Without input the work ends: each step of a task or of the interrupt handler leaves less
\* of it, however long the queues and the callback list are, so that by TasksGoOn all come
\* to rest after at most WorkLeft steps.
THEOREM WorkComesToAnEnd == Spec => WorkEnds
  <1>1. IInv /\ IInv' /\ [Next]_vars => [Work => WorkLeft' \in 0..(WorkLeft - 1)]_vars
    BY WorkLess DEF LessLeft
  <1> QED
    BY InitIInv, NextIInv, <1>1, PTL DEF Spec, WorkEnds
=============================================================================
