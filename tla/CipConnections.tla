--------------------------- MODULE CipConnections ---------------------------
(***************************************************************************)
(* The CIP connection manager: the connection objects of OpENer, the list  *)
(* of those in use, the encapsulation sessions that carry the requests and *)
(* the UDP sockets the I/O connections hold.  One task runs everything,    *)
(* so an action is a whole handler: a Forward Open, a Forward Close, a     *)
(* datagram, the registration or the end of a session, a reset, or what    *)
(* ManageConnections does with one connection of the list.                 *)
(*                                                                         *)
(* A request reaches the manager through the registered session of its     *)
(* originator.  The O->T side is always point-to-point; the T->O side is   *)
(* multicast or point-to-point.  A multicast assembly is produced by one   *)
(* connection, the holder of its socket, on behalf of all that consume it. *)
(***************************************************************************)
EXTENDS Naturals, FiniteSets

CONSTANTS
  Slots,        \* the connection objects, numbered in the order of their arrays
  Kind,         \* the array each belongs to: one of Kinds
  Point,        \* the input assembly of each kind of I/O connection
  Originators, Serials,
  NumSessions,  \* OPENER_NUMBER_OF_SUPPORTED_SESSIONS
  MaxSockets,   \* the UDP sockets the stack can still create
  NumNodes,     \* the nodes of connection_list
  Watchdog,     \* ticks without data that a connection survives, plus one
  None, Freed

VARIABLES
  conn,      \* the connection objects
  list,      \* connection_list: its members,
  ahead,     \* their order, see ActiveList,
  node,      \* and the one ManageConnections stands on
  session,   \* g_registered_sessions: the peer of each session
  udp        \* the number of UDP sockets created and not closed

vars == <<conn, list, ahead, node, session, udp>>

List == INSTANCE ActiveList

Kinds == {"owner", "input", "listen", "explicit"}
Sessions == 1..NumSessions

SlotAssumption == /\ Slots \subseteq Nat
                  /\ IsFiniteSet(Slots)
                  /\ Kind \in [Slots -> Kinds]
                  /\ None \notin Slots
ASSUME SlotAssumption

BoundAssumption == {NumSessions, MaxSockets, NumNodes, Watchdog} \subseteq Nat
ASSUME BoundAssumption

\* The listen-only connections do not listen to an assembly of the input-only
\* ones: a listener that created the socket of its assembly hands it to nobody.
PointAssumption == Point["input"] # Point["listen"]
ASSUME PointAssumption

Connection == [state : {"NonExistent", "Established", "TimedOut"},
               originator : Originators \cup {None},
               serial : Serials \cup {None},
               session : 0..NumSessions,
               multicast : BOOLEAN,
               consuming : BOOLEAN,
               producing : BOOLEAN,
               watchdog : 0..Watchdog]

Empty == [state |-> "NonExistent", originator |-> None, serial |-> None,
          session |-> 0, multicast |-> FALSE, consuming |-> FALSE,
          producing |-> FALSE, watchdog |-> 0]

Init == /\ conn = [c \in Slots |-> Empty]
        /\ List!Init
        /\ session = [s \in Sessions |-> None]
        /\ udp = 0
-----------------------------------------------------------------------------
(* Searches of the list. *)

IsIo(c) == Kind[c] # "explicit"

\* The I/O connections that produce the input assembly of c.
SamePoint(c) == {d \in list : IsIo(d) /\ Point[Kind[d]] = Point[Kind[c]]}

Listeners(c) == {d \in SamePoint(c) : Kind[d] = "listen"}

IsMaster(c) == conn[c].multicast /\ conn[c].producing

\* GetNextNonControlMasterConnection: who takes the socket over from c.
Heirs(c) == List!First({d \in SamePoint(c) \ {c} :
                          /\ Kind[d] # "listen"
                          /\ conn[d].state = "Established"
                          /\ conn[d].multicast
                          /\ ~conn[d].producing})

\* (mutant) The search looks at the head of the list only.
WithTriadAtHead(o, n, st) == {c \in List!First(list) : /\ conn[c].state \in st
                                                       /\ conn[c].originator = o
                                                       /\ conn[c].serial = n}

\* The connections of a triad that a search for the state in st meets first.
WithTriad(o, n, st) == List!First({c \in list : /\ conn[c].state \in st
                                                /\ conn[c].originator = o
                                                /\ conn[c].serial = n})

\* CheckForTimedOutConnectionsAndCloseTCPConnections: does c's originator have
\* another connection that has not timed out?
HasOther(c) == \E d \in list \ {c} : /\ conn[d].originator = conn[c].originator
                                     /\ conn[d].state # "TimedOut"

\* CloseClass3ConnectionBasedOnSession: the walk ends at the first one closed.
Class3Of(S) == UNION {List!First({c \in list : Kind[c] = "explicit" /\ conn[c].session = s})
                      : s \in S}
-----------------------------------------------------------------------------
(* Closing connections. *)

\* (mutant) The master's socket is closed with it.
HeirsNone(c) == {}

\* CloseIoConnection hands the master's socket on, or ends the listeners too.
HeirsOfClosed(c) == IF Kind[c] \in {"owner", "input"} /\ IsMaster(c) THEN Heirs(c) ELSE {}

ClosedWith(c) ==
  {c} \cup IF Kind[c] \in {"owner", "input"} /\ IsMaster(c) /\ Heirs(c) = {}
           THEN Listeners(c) ELSE {}

\* (mutant) A closed object is not emptied.
AfterUnemptied(S, H) == [d \in Slots |-> IF d \in H THEN [conn[d] EXCEPT !.producing = TRUE]
                                        ELSE conn[d]]

\* The objects when those of S are closed and those of H have taken a socket over.
After(S, H) == [d \in Slots |-> IF d \in S THEN Empty
                                ELSE IF d \in H THEN [conn[d] EXCEPT !.producing = TRUE]
                                ELSE conn[d]]

SocketsOf(S) == Cardinality({c \in S : conn[c].consuming})
                  + Cardinality({c \in S : conn[c].producing})

\* (mutant) The socket that was handed on is closed all the same.
UdpAfterAll(S, H) == udp - SocketsOf(S)

UdpAfter(S, H) == (udp + Cardinality(H)) - SocketsOf(S)

Close(S, H) == /\ conn' = After(S, H)
               /\ List!Edit(S, {})
               /\ udp' = UdpAfter(S, H)
-----------------------------------------------------------------------------
(* Forward Open. *)

Connected(o) == \E s \in Sessions : session[s] = o

Lowest(S) == {c \in S : \A d \in S : c <= d}

Free(k) == Lowest({c \in Slots : Kind[c] = k /\ conn[c].state = "NonExistent"})

\* (mutant) A timed out connection of any originator.
ReusableByAll(o, k) == Lowest({c \in Slots : Kind[c] = k /\ conn[c].state = "TimedOut"})

\* The timed out connection of the same originator, closed and used again.
Reusable(o, k) == Lowest({c \in Slots : /\ Kind[c] = k
                                        /\ conn[c].state = "TimedOut"
                                        /\ conn[c].originator = o})

Owners(k) == {c \in list : Kind[c] = "owner" /\ Point["owner"] = Point[k]}

\* GetIoConnectionForConnectionData: the objects an originator may be given.
Candidate(o, k) ==
  CASE k = "owner"  -> IF Owners(k) = {} THEN Free(k) ELSE Reusable(o, k)
    [] k = "input"  -> IF Reusable(o, k) = {} THEN Free(k) ELSE Reusable(o, k)
    [] k = "listen" -> IF \A d \in list : ~(/\ IsIo(d)
                                            /\ Point[Kind[d]] = Point[k]
                                            /\ conn[d].producing)
                       THEN {}
                       ELSE IF Reusable(o, k) = {} THEN Free(k) ELSE Reusable(o, k)

Opened(o, n, s, multicast, consuming, producing) ==
  [state |-> "Established", originator |-> o, serial |-> n, session |-> s,
   multicast |-> multicast, consuming |-> consuming, producing |-> producing,
   watchdog |-> Watchdog]

\* (mutant) An existing multicast socket is not looked for.
MastersNone(c, S, H) == {}

\* The connections whose multicast socket c finds when those of S are closed.
Masters(c, S, H) == List!First({d \in SamePoint(c) \ S : /\ After(S, H)[d].multicast
                                                         /\ After(S, H)[d].producing})

\* OpenCommunicationChannels and AddNewActiveConnection for c, once S is closed:
\* an exclusive owner takes an existing multicast socket, others go without.
Establish(c, o, n, s, multicast, S, H) ==
  LET masters == IF multicast THEN Masters(c, S, H) ELSE {}
      stolen == IF Kind[c] = "owner" THEN masters ELSE {}
      created == IF masters = {} THEN 2 ELSE 1
  IN  /\ UdpAfter(S, H) + created <= MaxSockets
      /\ Cardinality(list \ S) < NumNodes
      /\ conn' = [d \in Slots |->
                    IF d = c THEN Opened(o, n, s, multicast, TRUE,
                                         masters = {} \/ stolen # {})
                    ELSE IF d \in stolen
                    THEN [After(S, H)[d] EXCEPT !.producing = FALSE]
                    ELSE After(S, H)[d]]
      /\ List!Edit(S, {c})
      /\ udp' = UdpAfter(S, H) + created

\* A socket cannot be created: those created before it for c stay open.
NoSocket(c, multicast, S, H) ==
  /\ UdpAfter(S, H) + (IF multicast /\ Masters(c, S, H) # {} THEN 1 ELSE 2) > MaxSockets
  /\ conn' = After(S, H)
  /\ List!Edit(S, {})
  /\ udp' = MaxSockets

ForwardOpenIo(o, n, k, s, multicast) ==
  /\ node = None
  /\ session[s] = o
  /\ WithTriad(o, n, {"Established"}) = {}
  /\ \E c \in Candidate(o, k) :
       LET old == conn[c].state = "TimedOut"
           S == IF old THEN ClosedWith(c) ELSE {}
           H == IF old THEN HeirsOfClosed(c) ELSE {}
       IN  \/ Establish(c, o, n, s, multicast, S, H)
           \/ NoSocket(c, multicast, S, H)
           \/ old /\ Close(S, H)        \* refused by a later check of the request
  /\ UNCHANGED <<node, session>>

ForwardOpenExplicit(o, n, s) ==
  /\ node = None
  /\ session[s] = o
  /\ WithTriad(o, n, {"Established"}) = {}
  /\ Cardinality(list) < NumNodes
  /\ \E c \in Free("explicit") :
       /\ conn' = [conn EXCEPT ![c] = Opened(o, n, s, FALSE, FALSE, FALSE)]
       /\ List!Edit({}, {c})
  /\ UNCHANGED <<node, session, udp>>
-----------------------------------------------------------------------------
(* Forward Close, data, sessions, reset. *)

ForwardClose(o, n) ==
  /\ node = None
  /\ Connected(o)
  /\ \E c \in WithTriad(o, n, {"Established", "TimedOut"}) :
       Close(ClosedWith(c), HeirsOfClosed(c))
  /\ UNCHANGED <<node, session>>

\* HandleReceivedConnectedData: data the connection accepts reload its watchdog.
ReceiveData(c) ==
  /\ node = None
  /\ conn[c].state = "Established"
  /\ IsIo(c) \/ Connected(conn[c].originator)
  /\ conn' = [conn EXCEPT ![c].watchdog = Watchdog]
  /\ UNCHANGED <<list, ahead, node, session, udp>>

RegisterSession(o) ==
  /\ node = None
  /\ \E s \in Lowest({t \in Sessions : session[t] = None}) :
       session' = [session EXCEPT ![s] = o]
  /\ UNCHANGED <<conn, list, ahead, node, udp>>

\* UnregisterSession, or the TCP connection ends or stays idle: RemoveSession.
EndSession(s) ==
  /\ node = None
  /\ session[s] # None
  /\ session' = [session EXCEPT ![s] = None]
  /\ Close(Class3Of({s}), {})
  /\ UNCHANGED node

\* ResetDevice: CloseAllConnections before the reset itself.
ResetDevice ==
  /\ node = None
  /\ list # {}
  /\ Close(list, {})
  /\ UNCHANGED <<node, session>>
-----------------------------------------------------------------------------
(* ManageConnections. *)

StartTick == List!StartWalk /\ UNCHANGED <<conn, session, udp>>

\* (mutant) The next node is read before the connection is handled.
LeaveToSaved(S) == node' \in List!Successor(node, {})

Leave(S) == node' \in List!Successor(node, S)

\* A connection that has timed out before is passed over.
PassOver ==
  /\ node # None
  /\ conn[node].state # "Established"
  /\ Leave({})
  /\ UNCHANGED <<conn, list, ahead, session, udp>>

\* (mutant) The time-out is not looked at before the watchdog is decremented.
CountDownBlind ==
  /\ node # None
  /\ conn[node].state = "Established"
  /\ conn' = [conn EXCEPT ![node].watchdog = @ - 1]
  /\ Leave({})
  /\ UNCHANGED <<list, ahead, session, udp>>

CountDown ==
  /\ node # None
  /\ conn[node].state = "Established"
  /\ conn[node].watchdog > 1
  /\ conn' = [conn EXCEPT ![node].watchdog = @ - 1]
  /\ Leave({})
  /\ UNCHANGED <<list, ahead, session, udp>>

Expired(c) == /\ node = c
              /\ conn[c].state = "Established"
              /\ conn[c].watchdog = 1

\* Class3ConnectionTimeoutHandler.
TimeOutExplicit(c) ==
  /\ Expired(c)
  /\ ~IsIo(c)
  /\ session' = IF HasOther(c) THEN session
                ELSE [session EXCEPT ![conn[c].session] = None]
  /\ Close({c}, {})
  /\ Leave({c})

\* HandleIoConnectionTimeOut.  silent: the last packet that came was accepted
\* as well, so that the originator has sent nothing since.
TimeOutIo(c) ==
  /\ Expired(c)
  /\ IsIo(c)
  /\ \E silent \in BOOLEAN :
       LET peers == IF silent /\ ~HasOther(c)
                    THEN {s \in Sessions : session[s] = conn[c].originator} ELSE {}
           handing == Kind[c] = "input" /\ IsMaster(c)
           heirs == IF handing THEN Heirs(c) ELSE {}
           ended == IF Kind[c] = "owner" /\ conn[c].multicast
                    THEN {d \in SamePoint(c) : Kind[d] \in {"input", "listen"}}
                    ELSE IF handing /\ heirs = {} THEN Listeners(c) ELSE {}
           S == ended \cup Class3Of(peers)
       IN  /\ session' = [s \in Sessions |-> IF s \in peers THEN None ELSE session[s]]
           /\ conn' = [After(S, heirs) EXCEPT
                         ![c].state = "TimedOut",
                         ![c].producing = @ /\ heirs = {}]
           /\ List!Edit(S, {})
           /\ udp' = UdpAfter(S, {})
           /\ Leave(S)

Next ==
  \/ \E o \in Originators, n \in Serials :
       \/ \E s \in Sessions :
            \/ \E k \in Kinds \ {"explicit"}, m \in BOOLEAN : ForwardOpenIo(o, n, k, s, m)
            \/ ForwardOpenExplicit(o, n, s)
       \/ ForwardClose(o, n)
  \/ \E o \in Originators : RegisterSession(o)
  \/ \E s \in Sessions : EndSession(s)
  \/ ResetDevice
  \/ StartTick
  \/ PassOver
  \/ CountDown
  \/ \E c \in Slots : ReceiveData(c) \/ TimeOutExplicit(c) \/ TimeOutIo(c)

Spec == Init /\ [][Next]_vars
-----------------------------------------------------------------------------
TypeOK ==
  /\ conn \in [Slots -> Connection]
  /\ list \subseteq Slots
  /\ ahead \in [Slots -> SUBSET Slots]
  /\ node \in list \cup {None}
  /\ session \in [Sessions -> Originators \cup {None}]
  /\ udp \in 0..MaxSockets

\* A connection object is in connection_list exactly while it is Established or
\* TimedOut, in whatever way it was opened or closed: a search finds every
\* connection in use and no object that is free to be used again.
ListExact == \A c \in Slots : c \in list <=> conn[c].state # "NonExistent"

\* No two established connections have the same triad (CheckForExistingConnection).
TriadUnique ==
  \A c, d \in list :
    (/\ conn[c].state = "Established" /\ conn[d].state = "Established"
     /\ conn[c].originator = conn[d].originator /\ conn[c].serial = conn[d].serial)
      => c = d

\* Taking a socket over never leaves it with two connections, one of which
\* would close it under the other.
SocketsHeld == SocketsOf(list) <= udp

\* An input assembly is produced on one multicast socket.
MasterUnique == \A c, d \in list : (/\ IsIo(c) /\ d \in SamePoint(c)
                                    /\ IsMaster(c) /\ IsMaster(d)) => c = d

\* A multicast owner or input-only connection has a connection of the list that
\* holds the socket its data go out on, through every close, time-out and take-over.
MasterKept ==
  \A c \in list : (/\ Kind[c] \in {"owner", "input"}
                   /\ conn[c].state = "Established"
                   /\ conn[c].multicast)
                    => \E d \in SamePoint(c) : IsMaster(d)

\* Ownership: it passes to another originator only when it was given up.
Owned == \A c \in Slots : (/\ Kind[c] = "owner"
                           /\ conn[c].state # "NonExistent" /\ conn'[c].state # "NonExistent")
                            => conn'[c].originator = conn[c].originator

\* No step moves an exclusive owner's object to another originator.
OwnershipKept == [][Owned]_vars

\* The list the handlers work on is the one ActiveList describes.
ListRefined == List!Spec
=============================================================================
