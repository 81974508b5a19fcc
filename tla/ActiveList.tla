----------------------------- MODULE ActiveList -----------------------------
(***************************************************************************)
(* What the connection manager expects of connection_list, the list of the *)
(* connection objects in use: connections enter at its head, leave from    *)
(* any place, and the others keep their order; one walk at a time visits   *)
(* it from the head towards the tail.  A handler closes a set of           *)
(* connections and opens at most one; a step of the walk may close         *)
(* connections too, and a walk whose current connection is closed ends     *)
(* there, because the node is zeroed before its next pointer is read.      *)
(*                                                                         *)
(* The order is kept as a function: ahead[c] is the set of the connections *)
(* nearer to the head than c.                                              *)
(***************************************************************************)
CONSTANTS Slots,    \* the connection objects
          None,     \* no walk in progress
          Freed     \* the walk stands on a node that was given back

VARIABLES list,     \* the connection objects in the list
          ahead,    \* for each of them, those nearer to the head
          node      \* the connection the walk stands on

listVars == <<list, ahead, node>>

Init == /\ list = {}
        /\ ahead = [c \in Slots |-> {}]
        /\ node = None

\* The member of S that a search from the head meets first, as a set.
First(S) == {c \in S : ahead[c] \cap S = {}}

\* The members of S that a walk standing on c has still to visit.
Behind(c, S) == {d \in S : c \in ahead[d]}

\* Closes the connections of S, then puts those of O (at most one) at the head.
Edit(S, O) ==
  /\ list' = (list \ S) \cup O
  /\ ahead' = [c \in Slots |-> IF c \in O THEN {}
                               ELSE IF c \in list \ S THEN (ahead[c] \ S) \cup O
                               ELSE {}]

\* A handler outside a walk.
Handler ==
  /\ node = None
  /\ \E S \in SUBSET list, O \in SUBSET Slots :
       /\ \A c, d \in O : c = d
       /\ O \cap (list \ S) = {}
       /\ Edit(S, O)
  /\ UNCHANGED node

StartWalk ==
  /\ node = None
  /\ node' \in First(list)
  /\ UNCHANGED <<list, ahead>>

\* The connection the walk comes to when it leaves c and S has been closed.
Successor(c, S) ==
  LET rest == IF c \in S THEN {} ELSE Behind(c, list \ S)
  IN  IF rest = {} THEN {None} ELSE First(rest)

\* What closing S does to the place of the walk.
Place(S) == IF node \in S THEN Freed ELSE node

\* Connections closed by the code that handles the current connection.
CloseDuringWalk ==
  /\ node # None
  /\ \E S \in SUBSET list : Edit(S, {}) /\ node' = Place(S)

\* The current connection is dealt with and the walk moves on.
Visit ==
  /\ node # None
  /\ \E S \in SUBSET list : Edit(S, {}) /\ node' \in Successor(node, S)

Next == Handler \/ StartWalk \/ CloseDuringWalk \/ Visit

Spec == Init /\ [][Next]_listVars
-----------------------------------------------------------------------------
\* ahead is a strict total order of the list: every search and every walk meets
\* its members one after the other, each of them once.
Ordered ==
  /\ \A c \in Slots : /\ ahead[c] \subseteq list
                      /\ c \notin ahead[c]
                      /\ c \notin list => ahead[c] = {}
  /\ \A c, d \in list : d \in ahead[c] => ahead[d] \subseteq ahead[c]
  /\ \A c, d \in list : c = d \/ c \in ahead[d] \/ d \in ahead[c]
=============================================================================
