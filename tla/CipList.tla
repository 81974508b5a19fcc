------------------------------ MODULE CipList ------------------------------
(***************************************************************************)
(* connection_list as it is stored: a doubly linked list whose nodes come  *)
(* from a static array (doublylinkedlist.c, cipconnectionobject.c).  The   *)
(* allocator takes the first node that is all zero, removing a node zeroes *)
(* it again, and ManageConnections keeps a pointer to a node while the     *)
(* code it calls removes nodes, that one included.                         *)
(*                                                                         *)
(* ahead is a history variable: the order ActiveList gives the list.       *)
(***************************************************************************)
EXTENDS Naturals, FiniteSets

CONSTANTS
  NumExplicit, NumOwners,      \* OPENER_CIP_NUM_EXPLICIT_CONNS, .._EXLUSIVE_OWNER_CONNS
  NumInputs, NumListens,       \* .._INPUT_ONLY_CONNS, .._LISTEN_ONLY_CONNS
  PerInput, PerListen,         \* the connection objects of each such path
  Null, None, Freed

VARIABLES
  nodes,       \* the static array
  first, last, \* the ends of the list
  node,        \* the node ManageConnections stands on
  fault,       \* a node was written through the null pointer
  ahead        \* (history) the members nearer to the head

vars == <<nodes, first, last, node, fault, ahead>>

\* The connection objects, and the nodes there are for them.
NumSlots == NumExplicit + NumOwners + NumInputs * PerInput + NumListens * PerListen
Slots == 1..NumSlots
\* (mutant) The listen-only connections are forgotten.
NodesAmountShort == NumExplicit + NumInputs + NumOwners

NodesAmount == NumExplicit + NumInputs + NumOwners + NumListens
Nodes == 1..NodesAmount

ListAssumption ==
  /\ {NumExplicit, NumOwners, NumInputs, NumListens, PerInput, PerListen} \subseteq Nat
  /\ Null \notin Nodes \cup Slots
  /\ None # Freed /\ {None, Freed} \cap Slots = {}
ASSUME ListAssumption

Zero == [previous |-> Null, next |-> Null, data |-> Null]

Listed == {nodes[n].data : n \in Nodes} \ {Null}

\* The list as ActiveList has it.
Abstract == INSTANCE ActiveList WITH
              list <- Listed,
              node <- IF node = Null THEN None
                      ELSE IF nodes[node].data = Null THEN Freed
                      ELSE nodes[node].data

Init == /\ nodes = [n \in Nodes |-> Zero]
        /\ first = Null
        /\ last = Null
        /\ node = Null
        /\ fault = FALSE
        /\ ahead = [c \in Slots |-> {}]

\* CipConnectionObjectListArrayAllocator.
Allocator == {n \in Nodes : /\ nodes[n] = Zero
                            /\ \A m \in Nodes : m < n => nodes[m] # Zero}

\* (mutant) The head is moved before the new node is linked to it.
InsertAtNewHead(c) ==
  /\ ~fault
  /\ node = Null
  /\ c \notin Listed
  /\ \E n \in Allocator :
       /\ nodes' = [nodes EXCEPT ![n] = [previous |-> Null, next |-> n, data |-> c]]
       /\ first' = n
       /\ last' = IF first = Null THEN n ELSE last
  /\ ahead' = [d \in Slots |-> IF d \in Listed THEN ahead[d] \cup {c} ELSE {}]
  /\ UNCHANGED <<node, fault>>

\* AddNewActiveConnection, DoublyLinkedListInsertAtHead.
InsertAtHead(c) ==
  /\ ~fault
  /\ node = Null
  /\ c \notin Listed
  /\ \/ /\ Allocator = {}
        /\ fault' = TRUE
        /\ UNCHANGED <<nodes, first, last, ahead>>
     \/ /\ \E n \in Allocator :
             /\ nodes' = [m \in Nodes |->
                            IF m = n THEN [Zero EXCEPT !.next = first, !.data = c]
                            ELSE IF m = first THEN [nodes[m] EXCEPT !.previous = n]
                            ELSE nodes[m]]
             /\ first' = n
             /\ last' = IF first = Null THEN n ELSE last
        /\ ahead' = [d \in Slots |-> IF d \in Listed THEN ahead[d] \cup {c} ELSE {}]
        /\ UNCHANGED fault
  /\ UNCHANGED node

\* (mutant) The node behind still points back to the removed one.
RemoveNodeHalf(c) ==
  /\ ~fault
  /\ \E n \in Nodes :
       /\ nodes[n].data = c
       /\ first' = IF n = first THEN nodes[n].next ELSE first
       /\ last' = IF n = last THEN nodes[n].previous ELSE last
       /\ nodes' = [m \in Nodes |->
                      IF m = n THEN Zero
                      ELSE IF m = nodes[n].previous
                      THEN [nodes[m] EXCEPT !.next = nodes[n].next]
                      ELSE nodes[m]]
  /\ ahead' = [d \in Slots |-> IF d = c THEN {} ELSE ahead[d] \ {c}]
  /\ UNCHANGED <<node, fault>>

\* (mutant) The node keeps its pointers when it is given back.
RemoveNodeKept(c) ==
  /\ ~fault
  /\ \E n \in Nodes :
       LET previous == nodes[n].previous
           next == nodes[n].next
       IN  /\ nodes[n].data = c
           /\ first' = IF n = first THEN next ELSE first
           /\ last' = IF n = last THEN previous ELSE last
           /\ nodes' = [m \in Nodes |->
                          IF m = n THEN [nodes[n] EXCEPT !.data = Null]
                          ELSE [nodes[m] EXCEPT
                                  !.next = IF m = previous THEN next ELSE @,
                                  !.previous = IF m = next THEN previous ELSE @]]
  /\ ahead' = [d \in Slots |-> IF d = c THEN {} ELSE ahead[d] \ {c}]
  /\ UNCHANGED <<node, fault>>

\* RemoveFromActiveConnections, DoublyLinkedListRemoveNode and the deallocator.
RemoveNode(c) ==
  /\ ~fault
  /\ \E n \in Nodes :
       LET previous == nodes[n].previous
           next == nodes[n].next
       IN  /\ nodes[n].data = c
           /\ first' = IF n = first THEN next ELSE first
           /\ last' = IF n = last THEN previous ELSE last
           /\ nodes' = [m \in Nodes |->
                          IF m = n THEN Zero
                          ELSE [nodes[m] EXCEPT
                                  !.next = IF m = previous THEN next ELSE @,
                                  !.previous = IF m = next THEN previous ELSE @]]
  /\ ahead' = [d \in Slots |-> IF d = c THEN {} ELSE ahead[d] \ {c}]
  /\ UNCHANGED <<node, fault>>

\* ManageConnections begins, and goes from one node to the next.
StartWalk ==
  /\ ~fault
  /\ node = Null
  /\ first # Null
  /\ node' = first
  /\ UNCHANGED <<nodes, first, last, fault, ahead>>

Advance ==
  /\ ~fault
  /\ node # Null
  /\ node' = nodes[node].next
  /\ UNCHANGED <<nodes, first, last, fault, ahead>>

Next == \/ \E c \in Slots : InsertAtHead(c) \/ RemoveNode(c)
        \/ StartWalk
        \/ Advance

\* ManageConnections runs to its end.
Spec == Init /\ [][Next]_vars /\ WF_vars(Advance)
-----------------------------------------------------------------------------
NodeOrNull == Nodes \cup {Null}

TypeOK ==
  /\ nodes \in [Nodes -> [previous : NodeOrNull, next : NodeOrNull,
                          data : Slots \cup {Null}]]
  /\ {first, last, node} \subseteq NodeOrNull
  /\ fault \in BOOLEAN
  /\ ahead \in [Slots -> SUBSET Slots]

Used(n) == nodes[n].data # Null

\* The neighbours of a node in use.
Chained(n) ==
  LET c == nodes[n].data
      next == nodes[n].next
      previous == nodes[n].previous
  IN  /\ IF next = Null THEN n = last /\ Listed = ahead[c] \cup {c}
         ELSE /\ Used(next)
              /\ nodes[next].previous = n
              /\ ahead[nodes[next].data] = ahead[c] \cup {c}
      /\ IF previous = Null THEN n = first /\ ahead[c] = {}
         ELSE Used(previous) /\ nodes[previous].next = n

\* The pointers agree with the order of the list in both directions, from first
\* to last, and a node outside the list is all zero: the allocator cannot take a
\* node in use, and a search from first meets every connection in the list once.
Linked ==
  /\ \A n \in Nodes : ~Used(n) => nodes[n] = Zero
  /\ \A n, m \in Nodes : (Used(n) /\ nodes[n].data = nodes[m].data) => n = m
  /\ \A n \in Nodes : Used(n) => Chained(n)
  /\ first # Null => Used(first) /\ nodes[first].previous = Null
  /\ last # Null => Used(last) /\ nodes[last].next = Null
  /\ (first = Null) <=> (Listed = {})
  /\ (last = Null) <=> (Listed = {})

\* The list is what the connection manager expects of it.
Implements == Abstract!Spec

\* Every walk comes to its end, whatever was removed under it.
WalkEnds == []<>(node = Null \/ fault)

\* The number of connections the configuration supports find a node each
\* ("The number of supported ... connections", opener_user_conf.h).
PoolSuffices == ~fault
=============================================================================
