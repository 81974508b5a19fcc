----------------------------- MODULE EtherNetif -----------------------------
(***************************************************************************)
(* Who owns an Ethernet frame.  A frame is a heap block                    *)
(* (ether_netif_frame_t) that passes from task to task by pointer: from    *)
(* the reader through the callbacks of the registered clients to DLR and   *)
(* lwIP, and from DLR and lwIP to the writer.  Whoever ends up with it     *)
(* frees it.  Modelled: src/common/renesas/module/ether_netif (reader,     *)
(* writer, callback list), the frame callbacks of dlr, lwip_port and       *)
(* opener_port, and the tasks behind them as far as they hold frames.      *)
(*                                                                         *)
(* What a frame says does not matter here, so blocks are counted: a queue  *)
(* is the number of frames in it, a task's pointer is null, to a block of  *)
(* its own, or to one that is freed.  Events of the DLR executor that      *)
(* carry no frame are counted in events; its queue holds the frames first, *)
(* as the receiver sends to the front.  The clients are registered and     *)
(* their queues exist before the first frame: nothing can be read before   *)
(* the monitor task's first pass over the PHYs, a second after the start.  *)
(***************************************************************************)
EXTENDS Integers, Sequences

CONSTANTS
  Blocks,       \* how many frames the heap has room for
  Clients,      \* the callback list, in order of registration
  QueueLength,  \* the length of each queue
  Descriptors,  \* the receive ring of the GMAC
  MaxNotified   \* bound: notifications the reader has not taken

Queues == {"dlr", "executor", "lwip", "writer"}
Tasks == {"reader", "packet", "receiver", "executor", "response", "lwip", "tcpip", "writer"}
Pointers == {"null", "block", "freed"}
MaxSends == 2   \* a Locate_Fault handler sends two frames, others at most one

ASSUME BoundAssumption ==
  /\ Blocks \in Nat
  /\ QueueLength \in [Queues -> Nat \ {0}]
  /\ Clients \in Seq({"dlr", "lwip", "opener"}) \ {<<>>}
  /\ Descriptors \in Nat /\ MaxNotified \in Nat \ {0}

VARIABLES
  heap,      \* the blocks that are allocated
  held,      \* the pointer each task holds; "packet" is the reader's in a callback
  queue,     \* the frames in the queues between the tasks
  events,    \* the entries of the executor's queue without a frame
  link,      \* some port has a link
  received,  \* frames in the receive ring of the GMAC
  irq,       \* its interrupt is pending
  notified,  \* notifications the reader has not taken
  reader,    \* where the reader is, at which client, and if the frame's port is known
  executor,  \* where the DLR executor is, and how many frames its handler sends
  bad_free   \* a block that was free has been freed

vars == <<heap, held, queue, events, link, received, irq, notified, reader, executor,
          bad_free>>
frameVars == <<heap, held, queue, bad_free>>
inputVars == <<link, received, irq, notified>>
taskVars == <<reader, executor>>

TypeOK ==
  /\ heap \in 0..Blocks
  /\ held \in [Tasks -> Pointers]
  /\ queue \in [Queues -> Nat]
  /\ events \in Nat
  /\ \A q \in Queues \ {"executor"} : queue[q] <= QueueLength[q]
  /\ queue["executor"] + events <= QueueLength["executor"]
  /\ link \in BOOLEAN
  /\ received \in 0..Descriptors
  /\ irq \in BOOLEAN
  /\ notified \in 0..MaxNotified
  /\ reader \in [pc : {"wait", "allocate", "read", "prepare", "call"},
                 node : 1..Len(Clients), port : BOOLEAN]
  /\ executor \in [pc : {"wait", "handle", "send", "failed"}, sends : 0..MaxSends]
  /\ bad_free \in BOOLEAN

Init ==
  /\ heap = 0
  /\ held = [t \in Tasks |-> "null"]
  /\ queue = [q \in Queues |-> 0]
  /\ events = 0
  /\ link = TRUE
  /\ received = 0
  /\ irq = FALSE
  /\ notified = 0
  /\ reader = [pc |-> "wait", node |-> 1, port |-> TRUE]
  /\ executor = [pc |-> "wait", sends |-> 0]
  /\ bad_free = FALSE
-----------------------------------------------------------------------------
(* What the tasks do with a frame.                                         *)

Entries(q) == IF q = "executor" THEN queue[q] + events ELSE queue[q]

\* Mutant: a full queue takes one more.
RoomOffByOne(q) == Entries(q) <= QueueLength[q]

Room(q) == Entries(q) < QueueLength[q]

\* Mutant: the last block is never given out.
AllocateKeepsOne(t) ==
  /\ heap + 1 < Blocks
  /\ heap' = heap + 1
  /\ held' = [held EXCEPT ![t] = "block"]
  /\ UNCHANGED <<queue, bad_free>>

\* USR_HEAP_ALLOCATE: the loop ends when there is a block.
Allocate(t) ==
  /\ heap < Blocks
  /\ heap' = heap + 1
  /\ held' = [held EXCEPT ![t] = "block"]
  /\ UNCHANGED <<queue, bad_free>>

\* USR_HEAP_RELEASE: nothing for the null pointer, else vPortFree and forget.
Release(t) ==
  /\ heap' = IF held[t] = "block" THEN heap - 1 ELSE heap
  /\ bad_free' = (held[t] = "freed")
  /\ held' = [held EXCEPT ![t] = "null"]
  /\ UNCHANGED queue

\* xQueueSend and xQueueSendToFront with room.
Send(t, q) ==
  /\ Room(q)
  /\ queue' = [queue EXCEPT ![q] = @ + 1]
  /\ held' = [held EXCEPT ![t] = "null"]
  /\ UNCHANGED <<heap, bad_free>>

\* xQueueReceive of a frame.
Receive(t, q) ==
  /\ queue[q] > 0
  /\ queue' = [queue EXCEPT ![q] = @ - 1]
  /\ held' = [held EXCEPT ![t] = "block"]
  /\ UNCHANGED <<heap, bad_free>>

\* Mutant: the frame that finds no room is forgotten, not freed.
RequestForgets(t, q) ==
  \/ Send(t, q)
  \/ /\ ~Room(q)
     /\ held' = [held EXCEPT ![t] = "null"]
     /\ UNCHANGED <<heap, queue, bad_free>>

\* A send that does not wait: with no room the frame is freed.
Request(t, q) ==
  \/ Send(t, q)
  \/ ~Room(q) /\ Release(t)
-----------------------------------------------------------------------------
(* The Ethernet driver and the reader task.                                *)

DmaStoresFrame ==
  /\ link
  /\ received < Descriptors
  /\ received' = received + 1
  /\ irq' = TRUE
  /\ UNCHANGED <<frameVars, events, link, notified, taskVars>>

\* vEtherISRCallback: one notification, however many frames.
EtherIsr ==
  /\ irq
  /\ notified < MaxNotified
  /\ irq' = FALSE
  /\ notified' = notified + 1
  /\ UNCHANGED <<frameVars, events, link, received, taskVars>>

ReaderWakes ==
  /\ reader.pc = "wait"
  /\ notified > 0
  /\ notified' = notified - 1
  /\ reader' = [reader EXCEPT !.pc = "allocate"]
  /\ UNCHANGED <<frameVars, events, link, received, irq, executor>>

ReaderAllocates ==
  /\ reader.pc = "allocate"
  /\ Allocate("reader")
  /\ reader' = [reader EXCEPT !.pc = "read"]
  /\ UNCHANGED <<events, inputVars, executor>>

\* The monitor task runs R_GMAC_LinkProcess, which stops reception with the
\* last link and starts it with an empty receive ring.
LinkLost ==
  /\ link
  /\ link' = FALSE
  /\ UNCHANGED <<frameVars, events, received, irq, notified, taskVars>>

LinkRestored ==
  /\ ~link
  /\ link' = TRUE
  /\ received' = 0
  /\ UNCHANGED <<frameVars, events, irq, notified, taskVars>>

\* A frame is read, or the buffer is freed and the reader waits again.
ReaderReads ==
  /\ reader.pc = "read"
  /\ IF link /\ received > 0
     THEN /\ received' = received - 1
          /\ \E port \in BOOLEAN : reader' = [pc |-> "prepare", node |-> 1, port |-> port]
          /\ UNCHANGED frameVars
     ELSE /\ Release("reader")
          /\ reader' = [reader EXCEPT !.pc = "wait"]
          /\ UNCHANGED received
  /\ UNCHANGED <<events, link, irq, notified, executor>>

LastClient == reader.node = Len(Clients)

\* um_ether_netif_callback_request: the last client gets the original, the
\* others a copy.
ReaderPrepares ==
  /\ reader.pc = "prepare"
  /\ IF LastClient
     THEN /\ held' = [held EXCEPT !["packet"] = held["reader"], !["reader"] = "null"]
          /\ UNCHANGED <<heap, queue, bad_free>>
     ELSE Allocate("packet")
  /\ reader' = [reader EXCEPT !.pc = "call"]
  /\ UNCHANGED <<events, inputVars, executor>>

\* Mutant: a frame of no known port is not freed.
DlrCallbackForgets ==
  \/ reader.port /\ Send("packet", "dlr")
  \/ /\ ~reader.port
     /\ held' = [held EXCEPT !["packet"] = "null"]
     /\ UNCHANGED <<heap, queue, bad_free>>

\* The DLR callback waits for room, and frees a frame of no known port.
DlrCallback == IF reader.port THEN Send("packet", "dlr") ELSE Release("packet")

\* The lwIP callback does not wait.
LwipCallback == Request("packet", "lwip")

\* The OpENer callback wants no frames.
OpenerCallback == Release("packet")

\* Mutant: one frame is read for each notification.
NextReadWaits == "wait"

\* Where the reader goes after a frame: round its loop.
NextRead == "allocate"

ReaderCalls ==
  LET client == Clients[reader.node]
  IN  /\ reader.pc = "call"
      /\ \/ client = "dlr" /\ DlrCallback
         \/ client = "lwip" /\ LwipCallback
         \/ client = "opener" /\ OpenerCallback
      /\ reader' = IF LastClient THEN [pc |-> NextRead, node |-> 1, port |-> TRUE]
                   ELSE [reader EXCEPT !.pc = "prepare", !.node = @ + 1]
      /\ UNCHANGED <<events, inputVars, executor>>

Reader == ReaderWakes \/ ReaderAllocates \/ ReaderReads \/ ReaderPrepares \/ ReaderCalls
-----------------------------------------------------------------------------
(* DLR.                                                                    *)

ReceiverTakesFrame ==
  /\ held["receiver"] = "null"
  /\ Receive("receiver", "dlr")
  /\ UNCHANGED <<events, inputVars, taskVars>>

\* The frame makes no event: it is freed, and the receiver takes the next.
ReceiverDropsFrame ==
  /\ held["receiver"] = "null"
  /\ queue["dlr"] > 0
  /\ queue' = [queue EXCEPT !["dlr"] = @ - 1]
  /\ heap' = heap - 1
  /\ UNCHANGED <<held, bad_free, events, inputVars, taskVars>>

\* The frame makes an event: to the front of the executor's queue, once there
\* is room.
ReceiverPassesFrame ==
  /\ held["receiver"] # "null"
  /\ Send("receiver", "executor")
  /\ UNCHANGED <<events, inputVars, taskVars>>

Receiver == ReceiverTakesFrame \/ ReceiverDropsFrame \/ ReceiverPassesFrame

\* An event of the switch or of a timer.
EventArrives ==
  /\ Room("executor")
  /\ events' = events + 1
  /\ UNCHANGED <<frameVars, inputVars, taskVars>>

ExecutorTakesEvent ==
  /\ executor.pc = "wait"
  /\ \/ Receive("executor", "executor") /\ UNCHANGED events
     \/ /\ queue["executor"] = 0
        /\ events > 0
        /\ events' = events - 1
        /\ UNCHANGED frameVars
  /\ \E n \in 0..MaxSends : executor' = [pc |-> "handle", sends |-> n]
  /\ UNCHANGED <<inputVars, reader>>

\* A frame to send: um_dlr_fsm_send_ and so on.
ExecutorAllocates ==
  /\ executor.pc = "handle"
  /\ executor.sends > 0
  /\ Allocate("response")
  /\ executor' = [pc |-> "send", sends |-> executor.sends - 1]
  /\ UNCHANGED <<events, inputVars, reader>>

\* um_dlr_ether_netif_send: refused where there is no port; with no room the
\* writer's request frees the frame, and the error goes back to the caller.
ExecutorSends ==
  /\ executor.pc = "send"
  /\ \/ /\ Send("response", "writer")
        /\ executor' = [executor EXCEPT !.pc = "handle"]
     \/ /\ executor' = [executor EXCEPT !.pc = "failed"]
        /\ UNCHANGED frameVars
     \/ /\ ~Room("writer")
        /\ heap' = heap - 1
        /\ held' = [held EXCEPT !["response"] = "freed"]
        /\ executor' = [executor EXCEPT !.pc = "failed"]
        /\ UNCHANGED <<queue, bad_free>>
  /\ UNCHANGED <<events, inputVars, reader>>

\* Mutant: the frame that could not be sent is sent again.
SendsLeftRetry == executor.sends + 1

\* Where an error leaves the handler: it returns.
SendsLeft == 0

\* USR_HEAP_ERROR_RETURN: the caller frees the frame whatever the error was.
ExecutorFails ==
  /\ executor.pc = "failed"
  /\ Release("response")
  /\ executor' = [pc |-> "handle", sends |-> SendsLeft]
  /\ UNCHANGED <<events, inputVars, reader>>

\* The frame of the event is freed whether its handler succeeded or not.
ExecutorFinishes ==
  /\ executor.pc = "handle"
  /\ executor.sends = 0
  /\ Release("executor")
  /\ executor' = [executor EXCEPT !.pc = "wait"]
  /\ UNCHANGED <<events, inputVars, reader>>

Executor == \/ ExecutorTakesEvent \/ ExecutorAllocates \/ ExecutorSends
            \/ ExecutorFails \/ ExecutorFinishes
-----------------------------------------------------------------------------
(* lwIP and the writer task.                                               *)

LwipTakesFrame ==
  /\ held["lwip"] = "null"
  /\ Receive("lwip", "lwip")
  /\ UNCHANGED <<events, inputVars, taskVars>>

\* The network interfaces get copies.
LwipInputsFrame ==
  /\ held["lwip"] # "null"
  /\ Release("lwip")
  /\ UNCHANGED <<events, inputVars, taskVars>>

LwipReceiver == LwipTakesFrame \/ LwipInputsFrame

\* _link_output on the TCP/IP thread.
LinkOutputAllocates ==
  /\ held["tcpip"] = "null"
  /\ Allocate("tcpip")
  /\ UNCHANGED <<events, inputVars, taskVars>>

\* It ignores the error of a full queue.
LinkOutputSends ==
  /\ held["tcpip"] # "null"
  /\ Request("tcpip", "writer")
  /\ UNCHANGED <<events, inputVars, taskVars>>

WriterTakesFrame ==
  /\ held["writer"] = "null"
  /\ Receive("writer", "writer")
  /\ UNCHANGED <<events, inputVars, taskVars>>

WriterWritesFrame ==
  /\ held["writer"] # "null"
  /\ Release("writer")
  /\ UNCHANGED <<events, inputVars, taskVars>>

Writer == WriterTakesFrame \/ WriterWritesFrame
-----------------------------------------------------------------------------
\* A failed configASSERT stops the program.
Stopped == bad_free /\ UNCHANGED vars
Runs(A) == ~bad_free /\ A

Inputs == DmaStoresFrame \/ LinkLost \/ LinkRestored \/ EventArrives \/ LinkOutputAllocates

Work == EtherIsr \/ Reader \/ Receiver \/ Executor \/ LwipReceiver \/ LinkOutputSends \/ Writer

Next == Runs(Inputs) \/ Runs(Work) \/ Stopped

Spec == Init /\ [][Next]_vars
-----------------------------------------------------------------------------
Holds(t) == IF held[t] = "block" THEN 1 ELSE 0

\* The frames the tasks hold, and those in the queues.
HeldByTasks ==
  Holds("reader") + Holds("packet") + Holds("receiver") + Holds("executor") +
  Holds("response") + Holds("lwip") + Holds("tcpip") + Holds("writer")

Queued == queue["dlr"] + queue["executor"] + queue["lwip"] + queue["writer"]

\* Every allocated block has one owner, through every copy for a client, every
\* full queue and every error return: none is leaked (a block more than there
\* are owners), none is freed under its owner (a block less).
OneOwner == heap = HeldByTasks + Queued

\* heap_4.c:281: vPortFree asserts that the block it is given is allocated.
FreedBlocksAreAllocated == ~bad_free

\* While there is a link, a reader that waits with frames in the receive ring
\* has a wakeup to come, though a notification may stand for several frames.
NoFrameLeftBehind ==
  reader.pc = "wait" /\ link /\ received > 0 => irq \/ notified > 0

Quiet ==
  /\ ~irq /\ notified = 0
  /\ \A q \in Queues : Entries(q) = 0
  /\ reader.pc = "wait" /\ executor.pc = "wait"
  /\ \A t \in {"receiver", "lwip", "tcpip", "writer"} : held[t] = "null"

\* What each task waits for: a notification, a frame or event, a block of the heap
\* (USR_HEAP_ALLOCATE), or room in a queue (portMAX_DELAY).
ReaderReady ==
  \/ reader.pc = "wait" /\ notified > 0
  \/ reader.pc = "read"
  \/ reader.pc \in {"allocate", "prepare"} /\ heap < Blocks
  \/ reader.pc = "prepare" /\ LastClient
  \/ reader.pc = "call" /\ (Clients[reader.node] = "dlr" /\ reader.port => Room("dlr"))
ReceiverReady == IF held["receiver"] = "null" THEN queue["dlr"] > 0 ELSE Room("executor")
ExecutorReady ==
  \/ executor.pc = "wait" /\ Entries("executor") > 0
  \/ executor.pc = "handle" /\ (executor.sends = 0 \/ heap < Blocks)
  \/ executor.pc \in {"send", "failed"}
SomeTaskReady ==
  \/ irq /\ notified < MaxNotified
  \/ ReaderReady \/ ReceiverReady \/ ExecutorReady
  \/ held["tcpip"] # "null"
  \/ \E t \in {"lwip", "writer"} : held[t] # "null" \/ queue[t] > 0

\* Unless all is done, some task can go on: they never all wait for a block, or
\* for room in a queue, that only they could give.
TasksNeverStall == Quiet \/ bad_free \/ SomeTaskReady

\* What TasksNeverStall calls ready is what has a step, no more and no less.
ReadyTasksStep == bad_free \/ (SomeTaskReady <=> ENABLED Work)

\* How many steps the tasks can take before they need input again: an interrupt wakes the
\* reader for three, each frame in the ring takes it round the callback list, and behind
\* that each place of a frame is worth more than the next one on its way.
PerClient == 14
Set(t) == IF held[t] = "null" THEN 0 ELSE 1
ReaderWork ==
  CASE reader.pc = "wait" -> 0
    [] reader.pc = "read" -> 1
    [] reader.pc = "allocate" -> 2
    [] reader.pc = "prepare" -> PerClient * (Len(Clients) - reader.node) + 16
    [] reader.pc = "call" -> PerClient * (Len(Clients) - reader.node) + 15
ExecutorWork ==
  CASE executor.pc = "wait" -> 0
    [] executor.pc = "handle" -> 4 * executor.sends + 1
    [] executor.pc = "send" -> 4 * executor.sends + 4
    [] executor.pc = "failed" -> 2
FramesWork ==
  12 * queue["dlr"] + 11 * Set("receiver") + 10 * Entries("executor") +
  3 * Set("tcpip") + 2 * queue["writer"] + Set("writer") + 2 * queue["lwip"] + Set("lwip")
WorkLeft ==
  (PerClient * Len(Clients) + 2) * received + (IF irq THEN 4 ELSE 0) + 3 * notified +
  ReaderWork + ExecutorWork + FramesWork

\* The work ends: no task makes work that comes round to it again, so that without input
\* all come to rest, whatever the order in which they run and whichever sends fail.
WorkEnds == [][Work => WorkLeft' \in 0..(WorkLeft - 1)]_vars

\* With fewer blocks they do stall: one for each entry of the queues to DLR and to
\* its executor, one for each of those two tasks, one to answer with, and the
\* reader's original and copy.
BlocksSuffice == Blocks >= QueueLength["dlr"] + QueueLength["executor"] + 5
=============================================================================
