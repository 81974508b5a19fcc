--------------------------- MODULE CipListProofs ---------------------------
(***************************************************************************)
(* Proofs about CipList: the stored list stays linked, it implements the   *)
(* list ActiveList describes, and its pool suffices when every path has    *)
(* one connection object.                                                  *)
(***************************************************************************)
EXTENDS CipList, FiniteSetTheorems, TLAPS

\* The order of the list, in its terms.
Ordered ==
  /\ \A c \in Slots : /\ ahead[c] \subseteq Listed
                      /\ c \notin ahead[c]
                      /\ c \notin Listed => ahead[c] = {}
  /\ \A c, d \in Listed : d \in ahead[c] => ahead[d] \subseteq ahead[c]
  /\ \A c, d \in Listed : c = d \/ c \in ahead[d] \/ d \in ahead[c]

ListInv == TypeOK /\ Linked /\ Ordered

\* Null names no node and no connection.
LEMMA NullFresh == Null \notin Nodes /\ Null \notin Slots
BY ListAssumption DEF ListAssumption

\* The record of a node, field by field.
LEMMA NodeFields ==
  ASSUME TypeOK, NEW n \in Nodes
  PROVE  /\ nodes[n] = [previous |-> nodes[n].previous, next |-> nodes[n].next,
                        data |-> nodes[n].data]
         /\ nodes[n].previous \in NodeOrNull
         /\ nodes[n].next \in NodeOrNull
         /\ nodes[n].data \in Slots \cup {Null}
BY DEF TypeOK

\* A connection is listed exactly when a node holds it.
LEMMA ListedNode ==
  ASSUME NEW c \in Slots
  PROVE  c \in Listed <=> \E n \in Nodes : nodes[n].data = c
BY NullFresh DEF Listed

LEMMA ListedUsed ==
  ASSUME TypeOK
  PROVE  /\ Listed \subseteq Slots
         /\ \A n \in Nodes : Used(n) <=> nodes[n].data \in Listed
BY NullFresh DEF Listed, Used, TypeOK
-----------------------------------------------------------------------------
(* Inserting at the head: what the new list is. *)

LEMMA InitInv == Init => ListInv
<1> SUFFICES ASSUME Init PROVE ListInv
  OBVIOUS
<1>1. Listed = {}
  BY DEF Init, Listed, Zero
<1>2. TypeOK
  BY DEF Init, TypeOK, Zero, NodeOrNull
<1>3. Linked
  BY <1>1 DEF Init, Linked, Used, Zero
<1>4. Ordered
  BY <1>1 DEF Init, Ordered
<1> QED
  BY <1>2, <1>3, <1>4 DEF ListInv
-----------------------------------------------------------------------------
(* Inserting at the head. *)

LEMMA InsertListed ==
  ASSUME ListInv, NEW c \in Slots, c \notin Listed, NEW n \in Nodes, nodes[n] = Zero,
         nodes' = [m \in Nodes |->
                     IF m = n THEN [Zero EXCEPT !.next = first, !.data = c]
                     ELSE IF m = first THEN [nodes[m] EXCEPT !.previous = n]
                     ELSE nodes[m]]
  PROVE  /\ \A m \in Nodes : nodes'[m].data = IF m = n THEN c ELSE nodes[m].data
         /\ \A m \in Nodes : nodes'[m].next = IF m = n THEN first ELSE nodes[m].next
         /\ \A m \in Nodes : nodes'[m].previous =
                IF m = n THEN Null ELSE IF m = first THEN n ELSE nodes[m].previous
         /\ Listed' = Listed \cup {c}
         /\ nodes' \in [Nodes -> [previous : NodeOrNull, next : NodeOrNull,
                                  data : Slots \cup {Null}]]
<1> USE DEF ListInv
<1>1. \A m \in Nodes : /\ nodes'[m].data = IF m = n THEN c ELSE nodes[m].data
                       /\ nodes'[m].next = IF m = n THEN first ELSE nodes[m].next
                       /\ nodes'[m].previous =
                            IF m = n THEN Null ELSE IF m = first THEN n ELSE nodes[m].previous
  BY NodeFields DEF Zero
<1>2. nodes' \in [Nodes -> [previous : NodeOrNull, next : NodeOrNull,
                            data : Slots \cup {Null}]]
  <2> DEFINE Node == [previous : NodeOrNull, next : NodeOrNull, data : Slots \cup {Null}]
  <2>1. [Zero EXCEPT !.next = first, !.data = c] \in Node
    BY DEF Zero, TypeOK, NodeOrNull
  <2>2. \A m \in Nodes : [nodes[m] EXCEPT !.previous = n] \in Node
    BY DEF TypeOK, NodeOrNull
  <2>3. \A m \in Nodes : nodes[m] \in Node
    BY DEF TypeOK
  <2> HIDE DEF Node
  <2>4. \A m \in Nodes : nodes'[m] \in Node
    BY <2>1, <2>2, <2>3
  <2>5. nodes' \in [Nodes -> Node]
    BY <2>4
  <2> QED
    BY <2>5 DEF Node
<1>3. nodes[n].data = Null
  BY DEF Zero
<1>4. Listed' = Listed \cup {c}
  <2>1. Listed' \subseteq Listed \cup {c}
    BY <1>1 DEF Listed
  <2>2. c \in Listed'
    BY <1>1, NullFresh DEF Listed
  <2>3. Listed \subseteq Listed'
    BY <1>1, <1>3 DEF Listed
  <2> QED
    BY <2>1, <2>2, <2>3
<1> QED
  BY <1>1, <1>2, <1>4

LEMMA InsertInv ==
  ASSUME ListInv, NEW c \in Slots, InsertAtHead(c)
  PROVE  ListInv'
<1> USE DEF ListInv
<1>1. CASE Allocator = {} /\ fault' = TRUE /\ UNCHANGED <<nodes, first, last, ahead>>
  <2>1. Listed' = Listed
    BY <1>1 DEF Listed
  <2>2. TypeOK'
    BY <1>1 DEF TypeOK, InsertAtHead, NodeOrNull
  <2>3. Linked'
    BY <1>1, <2>1 DEF Linked, Chained, Used
  <2>4. Ordered'
    BY <1>1, <2>1 DEF Ordered
  <2> QED
    BY <2>2, <2>3, <2>4
<1>2. ASSUME NEW n \in Allocator,
             nodes' = [m \in Nodes |->
                         IF m = n THEN [Zero EXCEPT !.next = first, !.data = c]
                         ELSE IF m = first THEN [nodes[m] EXCEPT !.previous = n]
                         ELSE nodes[m]],
             first' = n,
             last' = IF first = Null THEN n ELSE last,
             ahead' = [d \in Slots |-> IF d \in Listed THEN ahead[d] \cup {c} ELSE {}],
             UNCHANGED <<node, fault>>
      PROVE  ListInv'
  <2>0. n \in Nodes /\ nodes[n] = Zero /\ c \notin Listed /\ n # Null /\ c # Null
    BY NullFresh DEF Allocator, InsertAtHead
  <2>1. /\ \A m \in Nodes : nodes'[m].data = IF m = n THEN c ELSE nodes[m].data
        /\ \A m \in Nodes : nodes'[m].next = IF m = n THEN first ELSE nodes[m].next
        /\ \A m \in Nodes : nodes'[m].previous =
                IF m = n THEN Null ELSE IF m = first THEN n ELSE nodes[m].previous
        /\ Listed' = Listed \cup {c}
        /\ nodes' \in [Nodes -> [previous : NodeOrNull, next : NodeOrNull,
                                 data : Slots \cup {Null}]]
    BY <1>2, <2>0, InsertListed
  <2>2. TypeOK'
    BY <1>2, <2>0, <2>1 DEF TypeOK, NodeOrNull
  <2>3. Ordered'
    <3>1. /\ \A d \in Listed : ahead'[d] = ahead[d] \cup {c}
          /\ \A d \in Slots : d \notin Listed => ahead'[d] = {}
          /\ ahead'[c] = {}
          /\ Listed \subseteq Slots
      BY <1>2, <2>0, ListedUsed
    <3>2. \A d \in Slots : /\ ahead'[d] \subseteq Listed'
                           /\ d \notin ahead'[d]
                           /\ d \notin Listed' => ahead'[d] = {}
      BY <3>1, <2>1, <2>0 DEF Ordered
    <3>3. \A d, e \in Listed' : e \in ahead'[d] => ahead'[e] \subseteq ahead'[d]
      BY <3>1, <2>1, <2>0 DEF Ordered
    <3>4. \A d, e \in Listed' : d = e \/ d \in ahead'[e] \/ e \in ahead'[d]
      BY <3>1, <2>1, <2>0 DEF Ordered
    <3> QED
      BY <3>2, <3>3, <3>4 DEF Ordered
  <2>4. Linked'
    <3>0. ~Used(n) /\ Used(n)' /\ \A m \in Nodes \ {n} : Used(m)' <=> Used(m)
      BY <2>0, <2>1 DEF Used, Zero
    <3>1. \A m \in Nodes : ~Used(m)' => nodes'[m] = Zero
      <4> SUFFICES ASSUME NEW m \in Nodes, ~Used(m)' PROVE nodes'[m] = Zero
        OBVIOUS
      <4>1. m # n /\ ~Used(m)
        BY <3>0
      <4>2. m # first
        BY <4>1, NullFresh DEF Linked
      <4> QED
        BY <4>1, <4>2, <1>2 DEF Linked
    <3>2. \A m, k \in Nodes : (Used(m)' /\ nodes'[m].data = nodes'[k].data) => m = k
      <4>1. \A m \in Nodes \ {n} : nodes'[m].data = nodes[m].data /\ nodes[m].data # c
        BY <2>0, <2>1, ListedNode
      <4> QED
        BY <4>1, <2>1, <3>0 DEF Linked
    <3>3. /\ first' # Null /\ Used(first)' /\ nodes'[first'].previous = Null
          /\ Listed' # {}
      BY <1>2, <2>0, <2>1, <3>0
    <3>4. last' # Null /\ Used(last)' /\ nodes'[last'].next = Null
      <4>1. CASE first = Null
        BY <4>1, <1>2, <2>0, <2>1, <3>0
      <4>2. CASE first # Null
        <5>1. last \in Nodes /\ Used(last) /\ nodes[last].next = Null
          <6>1. last # Null
            BY <4>2 DEF Linked
          <6> QED
            BY <6>1 DEF Linked, TypeOK, NodeOrNull
        <5>2. last' = last /\ last # n
          BY <5>1, <4>2, <1>2, <3>0
        <5>3. nodes'[last].next = Null /\ nodes'[last].data # Null
          BY <5>1, <5>2, <2>1 DEF Used
        <5> QED
          BY <5>1, <5>2, <5>3, NullFresh DEF Used
      <4> QED
        BY <4>1, <4>2
    <3>5. ASSUME NEW m \in Nodes, Used(m)' PROVE Chained(m)'
      <4> DEFINE d == nodes'[m].data
      <4>0. /\ first # Null => first \in Nodes /\ first # n
            /\ \A k \in Nodes \ {n} : Used(k) => ahead'[nodes'[k].data] = ahead[nodes[k].data] \cup {c}
            /\ ahead'[c] = {}
        <5>1. first # Null => first \in Nodes /\ first # n
          BY <3>0 DEF Linked, TypeOK, NodeOrNull
        <5>2. \A k \in Nodes \ {n} : Used(k) => ahead'[nodes'[k].data] = ahead[nodes[k].data] \cup {c}
          BY <1>2, <2>1, ListedUsed
        <5> QED
          BY <5>1, <5>2, <1>2, <2>0
      <4>1. CASE m = n
        <5>0. nodes'[n].data = c /\ nodes'[n].next = first /\ nodes'[n].previous = Null
          BY <2>0, <2>1
        <5>1. CASE first = Null
          <6>1. Listed' = {c} /\ last' = n
            BY <5>1, <1>2, <2>1 DEF Linked
          <6> QED
            BY <4>1, <5>0, <5>1, <6>1, <4>0, <1>2 DEF Chained
        <5>2. CASE first # Null
          <6>1. Used(first) /\ nodes[first].previous = Null /\ Chained(first)
            BY <5>2, <4>0 DEF Linked
          <6>2. ahead[nodes[first].data] = {}
            BY <6>1 DEF Chained
          <6>3. nodes'[first].data # Null /\ nodes'[first].previous = n
            BY <6>1, <5>2, <4>0, <2>1 DEF Used
          <6>4. ahead'[nodes'[first].data] = {c}
            BY <6>1, <6>2, <5>2, <4>0
          <6>5. ahead'[nodes'[n].data] = {} /\ n = first'
            BY <5>0, <4>0, <1>2
          <6>6. ahead'[nodes'[first].data] = ahead'[nodes'[n].data] \cup {nodes'[n].data}
            BY <6>4, <6>5, <5>0
          <6> QED
            BY <6>3, <6>5, <6>6, <4>1, <5>0, <5>2 DEF Chained, Used
        <5> QED
          BY <5>1, <5>2
      <4>2. CASE m # n
        <5>0. /\ Used(m) /\ Chained(m)
              /\ nodes'[m].data = nodes[m].data /\ nodes'[m].next = nodes[m].next
              /\ ahead'[nodes'[m].data] = ahead[nodes[m].data] \cup {c}
          BY <4>0, <4>2, <3>0, <2>1, <3>5 DEF Linked
        <5>1. IF nodes'[m].next = Null
              THEN m = last' /\ Listed' = ahead'[nodes'[m].data] \cup {nodes'[m].data}
              ELSE /\ nodes'[nodes'[m].next].data # Null
                   /\ nodes'[nodes'[m].next].previous = m
                   /\ ahead'[nodes'[nodes'[m].next].data]
                        = ahead'[nodes'[m].data] \cup {nodes'[m].data}
          <6>1. CASE nodes[m].next = Null
            <7>1. m = last /\ Listed = ahead[nodes[m].data] \cup {nodes[m].data}
              BY <5>0, <6>1 DEF Chained
            <7>2. last' = last
              BY <7>1, <5>0, <1>2 DEF Linked, Used, Listed
            <7> QED
              BY <5>0, <6>1, <7>1, <7>2, <2>1
          <6>2. CASE nodes[m].next # Null
            <7> DEFINE k == nodes[m].next
            <7>1. /\ k \in Nodes /\ Used(k) /\ nodes[k].previous = m
                  /\ ahead[nodes[k].data] = ahead[nodes[m].data] \cup {nodes[m].data}
              BY <5>0, <6>2, NodeFields DEF Chained, NodeOrNull
            <7>2. k # n /\ k # first
              BY <7>1, <3>0, NullFresh DEF Linked
            <7>3. nodes'[k].data = nodes[k].data /\ nodes'[k].previous = m
              BY <7>1, <7>2, <2>1
            <7>4. ahead'[nodes'[k].data] = ahead[nodes[k].data] \cup {c}
              BY <7>1, <7>2, <4>0
            <7> QED
              BY <5>0, <6>2, <7>1, <7>3, <7>4 DEF Used
          <6> QED
            BY <6>1, <6>2
        <5>2. IF nodes'[m].previous = Null THEN m = first' /\ ahead'[nodes'[m].data] = {}
              ELSE /\ nodes'[nodes'[m].previous].data # Null
                   /\ nodes'[nodes'[m].previous].next = m
          <6>1. CASE m = first
            <7>1. nodes'[m].previous = n /\ nodes'[n].data = c /\ nodes'[n].next = first
              BY <6>1, <4>2, <2>0, <2>1
            <7> QED
              BY <7>1, <6>1, <2>0
          <6>2. CASE m # first
            <7> DEFINE k == nodes[m].previous
            <7>1. k # Null
              BY <6>2, <5>0 DEF Chained
            <7>2. k \in Nodes /\ Used(k) /\ nodes[k].next = m
              BY <5>0, <7>1, NodeFields DEF Chained, NodeOrNull
            <7>3. nodes'[m].previous = k /\ k # n
              BY <6>2, <4>2, <7>2, <3>0, <2>1
            <7>4. nodes'[k].data = nodes[k].data /\ nodes'[k].next = m
              BY <7>2, <7>3, <2>1
            <7> QED
              BY <7>1, <7>2, <7>3, <7>4 DEF Used
          <6> QED
            BY <6>1, <6>2
        <5> QED
          BY <5>1, <5>2 DEF Chained, Used
      <4> QED
        BY <4>1, <4>2
    <3> QED
      BY <3>1, <3>2, <3>3, <3>4, <3>5 DEF Linked
  <2> QED
    BY <2>2, <2>3, <2>4
<1> QED
  BY <1>1, <1>2 DEF InsertAtHead
-----------------------------------------------------------------------------
(* Removing a node. *)

LEMMA RemoveListed ==
  ASSUME ListInv, NEW c \in Slots, NEW n \in Nodes, nodes[n].data = c,
         nodes' = [m \in Nodes |->
                     IF m = n THEN Zero
                     ELSE [nodes[m] EXCEPT
                             !.next = IF m = nodes[n].previous THEN nodes[n].next ELSE @,
                             !.previous = IF m = nodes[n].next THEN nodes[n].previous ELSE @]]
  PROVE  /\ nodes'[n] = Zero
         /\ \A m \in Nodes \ {n} :
              /\ nodes'[m].data = nodes[m].data
              /\ nodes'[m].next =
                   IF m = nodes[n].previous THEN nodes[n].next ELSE nodes[m].next
              /\ nodes'[m].previous =
                   IF m = nodes[n].next THEN nodes[n].previous ELSE nodes[m].previous
         /\ Listed' = Listed \ {c}
         /\ nodes' \in [Nodes -> [previous : NodeOrNull, next : NodeOrNull,
                                  data : Slots \cup {Null}]]
<1> USE DEF ListInv
<1>0. nodes'[n] = Zero
  OBVIOUS
<1>1. \A m \in Nodes \ {n} :
           /\ nodes'[m].data = nodes[m].data
           /\ nodes'[m].next =
                IF m = nodes[n].previous THEN nodes[n].next ELSE nodes[m].next
           /\ nodes'[m].previous =
                IF m = nodes[n].next THEN nodes[n].previous ELSE nodes[m].previous
           /\ nodes'[m] \in [previous : NodeOrNull, next : NodeOrNull, data : Slots \cup {Null}]
  <2> TAKE m \in Nodes \ {n}
  <2>1. nodes'[m] = [nodes[m] EXCEPT
           !.next = IF m = nodes[n].previous THEN nodes[n].next ELSE @,
           !.previous = IF m = nodes[n].next THEN nodes[n].previous ELSE @]
    OBVIOUS
  <2>2. nodes[m] \in [previous : NodeOrNull, next : NodeOrNull, data : Slots \cup {Null}]
    BY DEF TypeOK
  <2>3. nodes[n].previous \in NodeOrNull /\ nodes[n].next \in NodeOrNull
    BY NodeFields
  <2>4. nodes'[m] = [previous |-> IF m = nodes[n].next THEN nodes[n].previous ELSE nodes[m].previous,
                     next |-> IF m = nodes[n].previous THEN nodes[n].next ELSE nodes[m].next,
                     data |-> nodes[m].data]
    BY <2>1, <2>2
  <2> QED
    BY <2>2, <2>3, <2>4
<1>2. nodes' \in [Nodes -> [previous : NodeOrNull, next : NodeOrNull,
                            data : Slots \cup {Null}]]
  <2>1. Zero \in [previous : NodeOrNull, next : NodeOrNull, data : Slots \cup {Null}]
    BY DEF Zero, NodeOrNull
  <2>2. \A m \in Nodes :
          nodes'[m] \in [previous : NodeOrNull, next : NodeOrNull, data : Slots \cup {Null}]
    BY <1>0, <1>1, <2>1
  <2>3. nodes' = [m \in Nodes |-> nodes'[m]]
    OBVIOUS
  <2> QED
    BY <2>2, <2>3
<1>3. Listed' = Listed \ {c}
  <2>0. nodes'[n].data = Null /\ c # Null
    BY <1>0, NullFresh DEF Zero
  <2>1. \A m \in Nodes \ {n} : nodes[m].data # c
    BY <2>0 DEF Linked, Used
  <2>2. ASSUME NEW d \in Listed' PROVE d \in Listed \ {c}
    <3>1. PICK m \in Nodes : nodes'[m].data = d /\ d # Null
      BY DEF Listed
    <3>2. m # n /\ nodes[m].data = d
      BY <3>1, <1>1, <2>0
    <3> QED
      BY <3>1, <3>2, <2>1 DEF Listed
  <2>3. ASSUME NEW d \in Listed \ {c} PROVE d \in Listed'
    <3>1. PICK m \in Nodes : nodes[m].data = d /\ d # Null
      BY DEF Listed
    <3>2. m # n /\ nodes'[m].data = d
      BY <3>1, <1>1
    <3> QED
      BY <3>1, <3>2 DEF Listed
  <2> QED
    BY <2>2, <2>3
<1> QED
  BY <1>0, <1>1, <1>2, <1>3

LEMMA RemoveInv ==
  ASSUME ListInv, NEW c \in Slots, RemoveNode(c)
  PROVE  ListInv'
<1> USE DEF ListInv
<1>1. PICK n \in Nodes :
         /\ nodes[n].data = c
         /\ first' = IF n = first THEN nodes[n].next ELSE first
         /\ last' = IF n = last THEN nodes[n].previous ELSE last
         /\ nodes' = [m \in Nodes |->
                        IF m = n THEN Zero
                        ELSE [nodes[m] EXCEPT
                                !.next = IF m = nodes[n].previous THEN nodes[n].next ELSE @,
                                !.previous = IF m = nodes[n].next THEN nodes[n].previous ELSE @]]
  BY DEF RemoveNode
<1> DEFINE before == nodes[n].previous
           behind == nodes[n].next
<1>2. /\ nodes'[n] = Zero
      /\ \A m \in Nodes \ {n} :
           /\ nodes'[m].data = nodes[m].data
           /\ nodes'[m].next = IF m = before THEN behind ELSE nodes[m].next
           /\ nodes'[m].previous = IF m = behind THEN before ELSE nodes[m].previous
      /\ Listed' = Listed \ {c}
      /\ nodes' \in [Nodes -> [previous : NodeOrNull, next : NodeOrNull,
                               data : Slots \cup {Null}]]
  BY <1>1, RemoveListed
<1>3. /\ ahead' = [d \in Slots |-> IF d = c THEN {} ELSE ahead[d] \ {c}]
      /\ node' = node /\ fault' = fault
  BY DEF RemoveNode
<1>4. /\ before \in NodeOrNull /\ behind \in NodeOrNull
      /\ c # Null /\ n # Null /\ c \in Listed /\ Listed \subseteq Slots
  <2>1. before \in NodeOrNull /\ behind \in NodeOrNull
    BY NodeFields
  <2>2. c # Null /\ n # Null
    BY NullFresh
  <2>3. c \in Listed
    BY <1>1, ListedNode
  <2> QED
    BY <2>1, <2>2, <2>3, ListedUsed
<1>5. TypeOK'
  <2>1. {first', last', node'} \subseteq NodeOrNull
    BY <1>1, <1>3, <1>4 DEF TypeOK
  <2>2. ahead' \in [Slots -> SUBSET Slots]
    BY <1>3 DEF TypeOK
  <2> QED
    BY <1>2, <1>3, <2>1, <2>2 DEF TypeOK
<1>6. Ordered'
  <2>1. \A d \in Slots : /\ ahead'[d] \subseteq Listed'
                         /\ d \notin ahead'[d]
                         /\ d \notin Listed' => ahead'[d] = {}
    BY <1>2, <1>3, <1>4 DEF Ordered
  <2>2. \A d \in Listed' : d \in Listed /\ d # c /\ ahead'[d] = ahead[d] \ {c}
    BY <1>2, <1>3, <1>4
  <2>3. \A d, e \in Listed' : e \in ahead'[d] => ahead'[e] \subseteq ahead'[d]
    BY <2>2 DEF Ordered
  <2>4. \A d, e \in Listed' : d = e \/ d \in ahead'[e] \/ e \in ahead'[d]
    BY <2>2 DEF Ordered
  <2> QED
    BY <2>1, <2>3, <2>4 DEF Ordered
<1>7. Linked'
  <2>1. Used(n) /\ Chained(n) /\ ~Used(n)' /\ \A m \in Nodes \ {n} : Used(m)' <=> Used(m)
    BY <1>1, <1>2, <1>4 DEF Linked, Used, Zero
  <2>2. \A m \in Nodes : ~Used(m)' => nodes'[m] = Zero
    <3> SUFFICES ASSUME NEW m \in Nodes \ {n}, ~Used(m)' PROVE nodes'[m] = Zero
      BY <1>2
    <3>1. nodes[m] = Zero /\ ~Used(m)
      BY <2>1 DEF Linked
    <3>2. m # before /\ m # behind
      BY <2>1, <3>1, <1>4, NullFresh DEF Chained
    <3>3. nodes'[m].data = Null /\ nodes'[m].next = Null /\ nodes'[m].previous = Null
      BY <3>1, <3>2, <1>2 DEF Zero
    <3> QED
      BY <3>3, <1>2 DEF Zero
  <2>3. \A m, k \in Nodes : (Used(m)' /\ nodes'[m].data = nodes'[k].data) => m = k
    BY <1>2, <2>1 DEF Linked, Used, Zero
  <2>7. /\ before # Null => /\ before \in Nodes \ {n} /\ Used(before)
                            /\ nodes[before].next = n
        /\ behind # Null => /\ behind \in Nodes \ {n} /\ Used(behind)
                            /\ nodes[behind].previous = n
                            /\ ahead[nodes[behind].data] = ahead[c] \cup {c}
    <3>1. before # Null => before \in Nodes /\ Used(before) /\ nodes[before].next = n
      BY <2>1, <1>4 DEF Chained, NodeOrNull
    <3>2. behind # Null => /\ behind \in Nodes /\ Used(behind)
                           /\ nodes[behind].previous = n
                           /\ ahead[nodes[behind].data] = ahead[c] \cup {c}
      BY <2>1, <1>1, <1>4 DEF Chained, NodeOrNull
    <3>3. behind # n
      <4>1. c \notin ahead[c]
        BY DEF Ordered
      <4>2. ahead[nodes[n].data] # ahead[c] \cup {c}
        BY <4>1, <1>1
      <4> QED
        BY <4>2, <3>2, <1>4
    <3>4. before # n
      BY <3>1, <3>3, <1>4
    <3> QED
      BY <3>1, <3>2, <3>3, <3>4
  <2>8. \A m \in Nodes \ {n} : Used(m) =>
           /\ nodes[m].data \in Slots /\ nodes[m].data # c
           /\ ahead'[nodes'[m].data] = ahead[nodes[m].data] \ {c}
    <3>1. \A m \in Nodes \ {n} : Used(m) => nodes[m].data \in Slots /\ nodes[m].data # c
      BY <1>1, <1>4, NodeFields DEF Linked, Used
    <3> QED
      BY <3>1, <1>2, <1>3
  <2>4. ASSUME NEW m \in Nodes, Used(m)' PROVE Chained(m)'
    <3>0. m # n /\ Used(m) /\ Chained(m) /\ nodes'[m].data = nodes[m].data
      BY <2>1, <2>4, <1>2 DEF Linked
    <3>1. IF nodes'[m].next = Null
          THEN m = last' /\ Listed' = ahead'[nodes'[m].data] \cup {nodes'[m].data}
          ELSE /\ nodes'[nodes'[m].next].data # Null
               /\ nodes'[nodes'[m].next].previous = m
               /\ ahead'[nodes'[nodes'[m].next].data]
                    = ahead'[nodes'[m].data] \cup {nodes'[m].data}
      <4>1. CASE m = before
        <5>1. nodes'[m].next = behind /\ nodes[m].next = n
          BY <4>1, <3>0, <1>2, <2>7, NullFresh
        <5>2. ahead[c] = ahead[nodes[m].data] \cup {nodes[m].data}
          BY <5>1, <3>0, <1>1, <1>4 DEF Chained
        <5>3. ahead'[nodes'[m].data] \cup {nodes'[m].data} = ahead[c]
          BY <5>2, <3>0, <2>8, <1>4 DEF Ordered
        <5>4. CASE behind = Null
          <6>1. n = last /\ Listed = ahead[c] \cup {c} /\ c \notin ahead[c]
            BY <5>4, <2>1, <1>1 DEF Chained, Ordered
          <6>2. Listed' = ahead[c] /\ last' = m
            <7>1. Listed' = (ahead[c] \cup {c}) \ {c}
              BY <6>1, <1>2
            <7>2. last' = m
              BY <6>1, <4>1, <1>1
            <7> QED
              BY <6>1, <7>1, <7>2
          <6> QED
            BY <6>2, <5>1, <5>3, <5>4
        <5>5. CASE behind # Null
          <6>1. /\ nodes'[behind].data = nodes[behind].data /\ nodes[behind].data # Null
                /\ nodes'[behind].previous = m
            BY <5>5, <2>7, <1>2, <4>1 DEF Used
          <6>2. ahead'[nodes'[behind].data] = ahead[c] /\ c \notin ahead[c]
            <7>1. ahead'[nodes'[behind].data] = (ahead[c] \cup {c}) \ {c}
              BY <5>5, <2>7, <2>8
            <7>2. c \notin ahead[c]
              BY DEF Ordered
            <7> QED
              BY <7>1, <7>2
          <6> QED
            BY <6>1, <6>2, <5>1, <5>3, <5>5
        <5> QED
          BY <5>4, <5>5
      <4>2. CASE m # before
        <5>1. nodes'[m].next = nodes[m].next
          BY <4>2, <3>0, <1>2
        <5>2. nodes[m].data # c /\ ahead'[nodes'[m].data] = ahead[nodes[m].data] \ {c}
          BY <3>0, <2>8
        <5>3. CASE nodes[m].next = Null
          <6>1. m = last /\ Listed = ahead[nodes[m].data] \cup {nodes[m].data}
            BY <3>0, <5>3 DEF Chained
          <6>2. last' = m
            BY <6>1, <3>0, <1>1
          <6>3. Listed' = (ahead[nodes[m].data] \ {c}) \cup {nodes[m].data}
            BY <6>1, <5>2, <1>2
          <6> QED
            BY <6>2, <6>3, <5>1, <5>2, <5>3, <3>0
        <5>4. CASE nodes[m].next # Null
          <6> DEFINE k == nodes[m].next
          <6>1. /\ k \in Nodes /\ Used(k) /\ nodes[k].previous = m
                /\ ahead[nodes[k].data] = ahead[nodes[m].data] \cup {nodes[m].data}
            BY <3>0, <5>4, NodeFields DEF Chained, NodeOrNull
          <6>2. k # n /\ k # behind
            BY <6>1, <4>2, <2>7, <3>0, NullFresh
          <6>3. /\ nodes'[k].data = nodes[k].data /\ nodes'[k].previous = m
                /\ ahead'[nodes'[k].data] = ahead[nodes[k].data] \ {c}
            BY <6>1, <6>2, <1>2, <2>8
          <6> QED
            BY <6>1, <6>3, <5>1, <5>2, <5>4, <3>0 DEF Used
        <5> QED
          BY <5>3, <5>4
      <4> QED
        BY <4>1, <4>2
    <3>2. IF nodes'[m].previous = Null THEN m = first' /\ ahead'[nodes'[m].data] = {}
          ELSE /\ nodes'[nodes'[m].previous].data # Null
               /\ nodes'[nodes'[m].previous].next = m
      <4>0. nodes[m].data # c /\ ahead'[nodes'[m].data] = ahead[nodes[m].data] \ {c}
        BY <3>0, <2>8
      <4>1. CASE m = behind
        <5>1. nodes'[m].previous = before
          BY <4>1, <3>0, <1>2
        <5>2. CASE before = Null
          <6>1. n = first /\ ahead[c] = {}
            BY <5>2, <2>1, <1>1 DEF Chained
          <6>2. ahead[nodes[m].data] = {c}
            BY <6>1, <4>1, <2>7, NullFresh
          <6> QED
            BY <6>1, <6>2, <5>1, <5>2, <4>0, <4>1, <1>1
        <5>3. CASE before # Null
          <6>1. /\ nodes'[before].data = nodes[before].data /\ nodes[before].data # Null
                /\ nodes'[before].next = m
            BY <5>3, <2>7, <1>2, <4>1 DEF Used
          <6> QED
            BY <6>1, <5>1, <5>3
        <5> QED
          BY <5>2, <5>3
      <4>2. CASE m # behind
        <5>1. nodes'[m].previous = nodes[m].previous
          BY <4>2, <3>0, <1>2
        <5>2. CASE nodes[m].previous = Null
          <6>1. m = first /\ ahead[nodes[m].data] = {}
            BY <3>0, <5>2 DEF Chained
          <6> QED
            BY <6>1, <5>1, <5>2, <4>0, <3>0, <1>1
        <5>3. CASE nodes[m].previous # Null
          <6> DEFINE k == nodes[m].previous
          <6>1. k \in Nodes /\ Used(k) /\ nodes[k].next = m
            BY <3>0, <5>3, NodeFields DEF Chained, NodeOrNull
          <6>2. k # n /\ k # before
            BY <6>1, <4>2, <2>7, <3>0, NullFresh
          <6>3. nodes'[k].data = nodes[k].data /\ nodes'[k].next = m
            BY <6>1, <6>2, <1>2
          <6> QED
            BY <6>1, <6>3, <5>1, <5>3 DEF Used
        <5> QED
          BY <5>2, <5>3
      <4> QED
        BY <4>1, <4>2
    <3> QED
      BY <3>1, <3>2 DEF Chained, Used
  <2>5. /\ first' # Null => Used(first)' /\ nodes'[first'].previous = Null
        /\ (first' = Null) <=> (Listed' = {})
    <3>1. CASE n = first
      <4>1. first' = behind /\ before = Null /\ ahead[c] = {}
        <5>1. before = Null
          BY <3>1, NullFresh DEF Linked
        <5> QED
          BY <5>1, <3>1, <2>1, <1>1 DEF Chained
      <4>2. CASE behind = Null
        <5>1. Listed = {c}
          BY <4>1, <4>2, <2>1, <1>1 DEF Chained
        <5> QED
          BY <5>1, <4>1, <4>2, <1>2
      <4>3. CASE behind # Null
        <5>1. behind \in Nodes \ {n} /\ nodes'[behind].data # Null /\ nodes'[behind].previous = Null
          BY <4>1, <4>3, <2>7, <1>2 DEF Used
        <5>2. nodes[behind].data \in Listed'
          BY <4>3, <2>7, <2>8, <1>2, ListedUsed
        <5> QED
          BY <5>1, <5>2, <4>1, <4>3 DEF Used
      <4> QED
        BY <4>2, <4>3
    <3>2. CASE n # first
      <4>1. first' = first /\ first # Null
        BY <3>2, <1>1, <1>4 DEF Linked
      <4>2. first \in Nodes \ {n} /\ Used(first) /\ nodes[first].previous = Null
        BY <4>1, <3>2 DEF Linked, TypeOK, NodeOrNull
      <4>3. Used(first)' /\ nodes'[first].previous = Null
        <5>1. first # behind
          BY <4>2, <2>7, NullFresh
        <5>2. nodes'[first].previous = Null /\ nodes'[first].data # Null
          BY <5>1, <4>2, <1>2 DEF Used
        <5> QED
          BY <5>2, <4>1 DEF Used
      <4>4. nodes[first].data \in Listed'
        BY <4>2, <2>8, <1>2, ListedUsed
      <4> QED
        BY <4>1, <4>3, <4>4 DEF Used
    <3> QED
      BY <3>1, <3>2
  <2>6. /\ last' # Null => Used(last)' /\ nodes'[last'].next = Null
        /\ (last' = Null) <=> (Listed' = {})
    <3>1. CASE n = last
      <4>1. last' = before /\ behind = Null /\ Listed = ahead[c] \cup {c}
        <5>1. behind = Null
          BY <3>1, NullFresh DEF Linked
        <5> QED
          BY <5>1, <3>1, <2>1, <1>1 DEF Chained
      <4>2. CASE before = Null
        <5>1. Listed = {c}
          BY <4>1, <4>2, <2>1, <1>1 DEF Chained
        <5> QED
          BY <5>1, <4>1, <4>2, <1>2
      <4>3. CASE before # Null
        <5>1. before \in Nodes \ {n} /\ nodes'[before].data # Null /\ nodes'[before].next = Null
          BY <4>1, <4>3, <2>7, <1>2 DEF Used
        <5>2. nodes[before].data \in Listed'
          BY <4>3, <2>7, <2>8, <1>2, ListedUsed
        <5> QED
          BY <5>1, <5>2, <4>1, <4>3 DEF Used
      <4> QED
        BY <4>2, <4>3
    <3>2. CASE n # last
      <4>1. last' = last /\ last # Null
        BY <3>2, <1>1, <1>4 DEF Linked
      <4>2. last \in Nodes \ {n} /\ Used(last) /\ nodes[last].next = Null
        BY <4>1, <3>2 DEF Linked, TypeOK, NodeOrNull
      <4>3. Used(last)' /\ nodes'[last].next = Null
        <5>1. last # before
          BY <4>2, <2>7, NullFresh
        <5>2. nodes'[last].next = Null /\ nodes'[last].data # Null
          BY <5>1, <4>2, <1>2 DEF Used
        <5> QED
          BY <5>2, <4>1 DEF Used
      <4>4. nodes[last].data \in Listed'
        BY <4>2, <2>8, <1>2, ListedUsed
      <4> QED
        BY <4>1, <4>3, <4>4 DEF Used
    <3> QED
      BY <3>1, <3>2
  <2> QED
    BY <2>2, <2>3, <2>4, <2>5, <2>6 DEF Linked
<1> QED
  BY <1>5, <1>6, <1>7
-----------------------------------------------------------------------------
(* The invariant and the theorems. *)

LEMMA NextInv ==
  ASSUME ListInv, [Next]_vars
  PROVE  ListInv'
<1>1. ASSUME NEW c \in Slots, InsertAtHead(c) PROVE ListInv'
  BY <1>1, InsertInv
<1>2. ASSUME NEW c \in Slots, RemoveNode(c) PROVE ListInv'
  BY <1>2, RemoveInv
<1>3. ASSUME UNCHANGED <<nodes, first, last, fault, ahead>>, node' \in NodeOrNull
      PROVE  ListInv'
  <2>1. Listed' = Listed
    BY <1>3 DEF Listed
  <2>2. TypeOK'
    BY <1>3 DEF ListInv, TypeOK
  <2>3. Linked'
    BY <1>3, <2>1 DEF ListInv, Linked, Chained, Used
  <2>4. Ordered'
    BY <1>3, <2>1 DEF ListInv, Ordered
  <2> QED
    BY <2>2, <2>3, <2>4 DEF ListInv
<1>4. CASE StartWalk
  BY <1>3, <1>4 DEF StartWalk, ListInv, TypeOK
<1>5. CASE Advance
  <2>1. node \in Nodes
    BY <1>5 DEF Advance, ListInv, TypeOK, NodeOrNull
  <2>2. nodes[node].next \in NodeOrNull
    BY <2>1, NodeFields DEF ListInv
  <2> QED
    BY <1>3, <1>5, <2>2 DEF Advance
<1>6. CASE UNCHANGED vars
  BY <1>3, <1>6 DEF vars, ListInv, TypeOK
<1> QED
  BY <1>1, <1>2, <1>4, <1>5, <1>6 DEF Next

THEOREM ListInvariant == Spec => []ListInv
<1>1. Init => ListInv
  BY InitInv
<1>2. ListInv /\ [Next]_vars => ListInv'
  BY NextInv
<1> QED
  BY <1>1, <1>2, PTL DEF Spec

\* The pointers agree with the order of the list, whatever is inserted and
\* removed, during a walk or not (doublylinkedlist.c).
THEOREM ListLinked == Spec => []Linked
<1>1. ListInv => Linked
  BY DEF ListInv
<1> QED
  BY <1>1, ListInvariant, PTL
-----------------------------------------------------------------------------
(* The stored list implements the list of ActiveList. *)

\* Where the abstract walk stands.
Stand == IF node = Null THEN None
         ELSE IF nodes[node].data = Null THEN Freed
         ELSE nodes[node].data

LEMMA StandFacts ==
  ASSUME ListInv
  PROVE  /\ node = Null <=> Stand = None
         /\ node # Null => node \in Nodes /\ (Stand = Freed <=> ~Used(node))
         /\ node # Null /\ Used(node) => Stand = nodes[node].data /\ Stand \in Listed
<1>1. node # Null => node \in Nodes
  BY DEF ListInv, TypeOK, NodeOrNull
<1>2. node # Null /\ Used(node) => Stand = nodes[node].data /\ Stand \in Listed
  BY <1>1, ListedUsed DEF ListInv, Used, Stand
<1>3. None # Freed /\ None \notin Listed /\ Freed \notin Listed
  BY ListedUsed, ListAssumption DEF ListInv, ListAssumption
<1> QED
  BY <1>1, <1>2, <1>3 DEF Stand, Used

LEMMA InsertRefines ==
  ASSUME ListInv, NEW c \in Slots, InsertAtHead(c)
  PROVE  [Abstract!Next]_(Abstract!listVars)
<1>1. CASE Allocator = {} /\ fault' = TRUE /\ UNCHANGED <<nodes, first, last, ahead>>
  <2>1. Listed' = Listed
    BY <1>1 DEF Listed
  <2>2. UNCHANGED <<nodes, node, ahead>>
    BY <1>1 DEF InsertAtHead
  <2> QED
    BY <2>1, <2>2 DEF Abstract!listVars
<1>2. ASSUME NEW n \in Allocator,
             nodes' = [m \in Nodes |->
                         IF m = n THEN [Zero EXCEPT !.next = first, !.data = c]
                         ELSE IF m = first THEN [nodes[m] EXCEPT !.previous = n]
                         ELSE nodes[m]],
             ahead' = [d \in Slots |-> IF d \in Listed THEN ahead[d] \cup {c} ELSE {}]
      PROVE  [Abstract!Next]_(Abstract!listVars)
  <2>1. n \in Nodes /\ nodes[n] = Zero /\ c \notin Listed /\ node = Null /\ node' = Null
    BY DEF Allocator, InsertAtHead
  <2>2. Listed' = (Listed \ {}) \cup {c}
    BY <1>2, <2>1, InsertListed
  <2>3. ahead' = [d \in Slots |-> IF d \in {c} THEN {}
                                  ELSE IF d \in Listed \ {} THEN (ahead[d] \ {}) \cup {c}
                                  ELSE {}]
    <3>1. \A d \in Slots : (IF d \in Listed THEN ahead[d] \cup {c} ELSE {})
                             = IF d \in {c} THEN {}
                               ELSE IF d \in Listed \ {} THEN (ahead[d] \ {}) \cup {c}
                               ELSE {}
      BY <2>1
    <3> QED
      BY <1>2, <3>1
  <2>4. Abstract!Edit({}, {c})
    BY <2>2, <2>3 DEF Abstract!Edit
  <2>5. {c} \cap (Listed \ {}) = {} /\ {c} \in SUBSET Slots
    BY <2>1
  <2>6. Abstract!Handler
    BY <2>1, <2>4, <2>5 DEF Abstract!Handler
  <2> QED
    BY <2>6 DEF Abstract!Next
<1> QED
  BY <1>1, <1>2 DEF InsertAtHead

LEMMA RemoveRefines ==
  ASSUME ListInv, NEW c \in Slots, RemoveNode(c)
  PROVE  [Abstract!Next]_(Abstract!listVars)
<1>1. PICK n \in Nodes :
         /\ nodes[n].data = c
         /\ nodes' = [m \in Nodes |->
                        IF m = n THEN Zero
                        ELSE [nodes[m] EXCEPT
                                !.next = IF m = nodes[n].previous THEN nodes[n].next ELSE @,
                                !.previous = IF m = nodes[n].next THEN nodes[n].previous ELSE @]]
  BY DEF RemoveNode
<1>2. /\ nodes'[n].data = Null
      /\ \A m \in Nodes \ {n} : nodes'[m].data = nodes[m].data
      /\ Listed' = (Listed \ {c}) \cup {}
  <2>1. /\ nodes'[n] = Zero
        /\ \A m \in Nodes \ {n} :
             /\ nodes'[m].data = nodes[m].data
             /\ nodes'[m].next =
                  IF m = nodes[n].previous THEN nodes[n].next ELSE nodes[m].next
             /\ nodes'[m].previous =
                  IF m = nodes[n].next THEN nodes[n].previous ELSE nodes[m].previous
        /\ Listed' = Listed \ {c}
        /\ nodes' \in [Nodes -> [previous : NodeOrNull, next : NodeOrNull,
                                 data : Slots \cup {Null}]]
    BY <1>1, RemoveListed
  <2> QED
    BY <2>1 DEF Zero
<1>3. c \in Listed /\ c # Null /\ node' = node
  BY <1>1, ListedNode, NullFresh DEF RemoveNode
<1>4. ahead' = [d \in Slots |-> IF d \in {} THEN {}
                                ELSE IF d \in Listed \ {c} THEN (ahead[d] \ {c}) \cup {}
                                ELSE {}]
  <2>1. \A d \in Slots : (IF d = c THEN {} ELSE ahead[d] \ {c})
                           = IF d \in {} THEN {}
                             ELSE IF d \in Listed \ {c} THEN (ahead[d] \ {c}) \cup {}
                             ELSE {}
    BY DEF ListInv, Ordered
  <2> QED
    BY <2>1 DEF RemoveNode
<1>5. Abstract!Edit({c}, {})
  BY <1>2, <1>4 DEF Abstract!Edit
<1>6. CASE node = Null
  <2>1. {c} \in SUBSET Listed /\ {} \in SUBSET Slots
    BY <1>3
  <2>2. Abstract!Handler
    BY <2>1, <1>3, <1>5, <1>6 DEF Abstract!Handler
  <2> QED
    BY <2>2 DEF Abstract!Next
<1>7. CASE node # Null
  <2>1. node \in Nodes /\ Stand # None
    BY <1>7, StandFacts
  <2>2. Stand' = IF Stand \in {c} THEN Freed ELSE Stand
    <3>1. CASE node = n
      BY <3>1, <1>1, <1>2, <1>3, <1>7 DEF Stand
    <3>2. CASE node # n
      <4>1. nodes'[node].data = nodes[node].data
        BY <3>2, <2>1, <1>2
      <4>2. nodes[node].data # c
        BY <3>2, <1>1, <1>3, <2>1 DEF ListInv, Linked, Used
      <4>3. Stand # c
        BY <4>2, ListAssumption DEF Stand, ListAssumption
      <4> QED
        BY <4>1, <4>3, <1>3, <1>7 DEF Stand
    <3> QED
      BY <3>1, <3>2
  <2>3. Abstract!CloseDuringWalk
    BY <2>1, <2>2, <1>3, <1>5 DEF Abstract!CloseDuringWalk, Abstract!Place, Stand
  <2> QED
    BY <2>3 DEF Abstract!Next
<1> QED
  BY <1>6, <1>7

LEMMA StartWalkRefines ==
  ASSUME ListInv, StartWalk
  PROVE  [Abstract!Next]_(Abstract!listVars)
<1>1. UNCHANGED <<nodes, ahead>> /\ node = Null /\ first # Null /\ node' = first
  BY DEF StartWalk
<1>2. first \in Nodes /\ Used(first) /\ nodes[first].previous = Null
  BY <1>1 DEF ListInv, Linked, TypeOK, NodeOrNull
<1>3. ahead[nodes[first].data] = {} /\ nodes[first].data \in Listed
  <2>1. Chained(first)
    BY <1>2 DEF ListInv, Linked
  <2> QED
    BY <2>1, <1>2, ListedUsed DEF Chained, ListInv
<1>4. Listed' = Listed
  BY <1>1 DEF Listed
<1>5. Stand' = nodes[first].data
  BY <1>1, <1>2 DEF Stand, Used
<1>6. nodes[first].data \in Abstract!First(Listed)
  BY <1>3 DEF Abstract!First
<1>7. Abstract!StartWalk
  BY <1>1, <1>4, <1>5, <1>6 DEF Abstract!StartWalk, Stand
<1> QED
  BY <1>7 DEF Abstract!Next

LEMMA AdvanceRefines ==
  ASSUME ListInv, Advance
  PROVE  [Abstract!Next]_(Abstract!listVars)
<1>1. /\ UNCHANGED <<nodes, ahead>> /\ node # Null /\ node \in Nodes
      /\ node' = nodes[node].next
  BY DEF Advance, ListInv, TypeOK, NodeOrNull
<1>2. Listed' = (Listed \ {}) \cup {}
  BY <1>1 DEF Listed
<1>3. ahead' = [d \in Slots |-> IF d \in {} THEN {}
                                ELSE IF d \in Listed \ {} THEN (ahead[d] \ {}) \cup {}
                                ELSE {}]
  <2>1. \A d \in Slots : ahead[d] = IF d \in {} THEN {}
                                    ELSE IF d \in Listed \ {} THEN (ahead[d] \ {}) \cup {}
                                    ELSE {}
    BY DEF ListInv, Ordered
  <2>2. ahead = [d \in Slots |-> ahead[d]]
    BY DEF ListInv, TypeOK
  <2> QED
    BY <1>1, <2>1, <2>2
<1>4. Abstract!Edit({}, {})
  BY <1>2, <1>3 DEF Abstract!Edit
<1> DEFINE rest == {d \in Listed \ {} : Stand \in ahead[d]}
<1>5. Stand' \in IF rest = {} THEN {None} ELSE Abstract!First(rest)
  <2>1. CASE ~Used(node)
    <3>1. node' = Null /\ Stand = Freed
      BY <1>1, <2>1 DEF ListInv, Linked, Zero, Stand, Used
    <3>2. rest = {}
      BY <3>1, ListedUsed, ListAssumption DEF ListInv, Ordered, ListAssumption
    <3> QED
      BY <3>1, <3>2 DEF Stand
  <2>2. CASE Used(node)
    <3> DEFINE c == nodes[node].data
    <3>1. Stand = c /\ c \in Listed /\ c \in Slots /\ Chained(node)
      BY <1>1, <2>2, StandFacts, ListedUsed DEF ListInv, Linked
    <3>2. \A e \in ahead[c] \cup {c} : e \notin rest
      BY <3>1, ListedUsed DEF ListInv, Ordered
    <3>3. CASE nodes[node].next = Null
      <4>1. Listed = ahead[c] \cup {c}
        BY <3>1, <3>3 DEF Chained
      <4>2. rest = {}
        BY <4>1, <3>2
      <4> QED
        BY <4>2, <3>3, <1>1 DEF Stand
    <3>4. CASE nodes[node].next # Null
      <4> DEFINE d == nodes[nodes[node].next].data
      <4>1. /\ nodes[node].next \in Nodes /\ Used(nodes[node].next)
            /\ ahead[d] = ahead[c] \cup {c}
        BY <3>1, <3>4, <1>1, NodeFields DEF Chained, ListInv, NodeOrNull
      <4>2. d \in Listed /\ Stand' = d
        BY <4>1, <1>1, <3>4, ListedUsed DEF ListInv, Stand, Used
      <4>3. d \in rest
        BY <4>1, <4>2, <3>1
      <4>4. ahead[d] \cap rest = {}
        BY <4>1, <3>2
      <4> QED
        BY <4>2, <4>3, <4>4 DEF Abstract!First
    <3> QED
      BY <3>3, <3>4
  <2> QED
    BY <2>1, <2>2
<1>6. Stand' \in Abstract!Successor(Stand, {})
  BY <1>5 DEF Abstract!Successor, Abstract!Behind
<1>7. Abstract!Visit
  <2>1. Stand # None
    BY <1>1, StandFacts
  <2> QED
    BY <2>1, <1>4, <1>6 DEF Abstract!Visit, Stand
<1> QED
  BY <1>7 DEF Abstract!Next

\* Every step of the stored list is a step of the list the connection manager
\* works on, or changes nothing it can see.
THEOREM ListImplements == Spec => Implements
<1>1. Init => Abstract!Init
  <2> SUFFICES ASSUME Init PROVE Abstract!Init
    OBVIOUS
  <2>1. Listed = {}
    BY DEF Init, Listed, Zero
  <2> QED
    BY <2>1 DEF Init, Abstract!Init
<1>2. ListInv /\ [Next]_vars => [Abstract!Next]_(Abstract!listVars)
  <2> SUFFICES ASSUME ListInv, [Next]_vars PROVE [Abstract!Next]_(Abstract!listVars)
    OBVIOUS
  <2>1. CASE UNCHANGED vars
    <3>1. Listed' = Listed
      BY <2>1 DEF vars, Listed
    <3> QED
      BY <2>1, <3>1 DEF vars, Abstract!listVars
  <2> QED
    BY <2>1, InsertRefines, RemoveRefines, StartWalkRefines, AdvanceRefines DEF Next
<1> QED
  BY <1>1, <1>2, ListInvariant, PTL DEF Spec, Implements, Abstract!Spec
-----------------------------------------------------------------------------
(* What a walk still has to visit. *)

\* The connection the walk stands on and those behind it.
Unvisited == IF node = Null \/ ~Used(node) THEN {}
             ELSE {c \in Listed : \/ c = nodes[node].data
                                  \/ nodes[node].data \in ahead[c]}

WalkStep ==
  /\ StartWalk => Unvisited' = Listed
  /\ Advance => Unvisited' = Unvisited \ {nodes[node].data}
  /\ \A c \in Slots : (node # Null /\ RemoveNode(c)) =>
       Unvisited' = IF nodes[node].data = c THEN {} ELSE Unvisited \ {c}

LEMMA StartVisits ==
  ASSUME ListInv, StartWalk
  PROVE  Unvisited' = Listed
<1>1. UNCHANGED <<nodes, ahead>> /\ first # Null /\ node' = first
  BY DEF StartWalk
<1>2. first \in Nodes /\ Used(first) /\ nodes[first].previous = Null /\ Chained(first)
  BY <1>1 DEF ListInv, Linked, TypeOK, NodeOrNull
<1>3. ahead[nodes[first].data] = {} /\ nodes[first].data \in Listed
  BY <1>2, ListedUsed DEF Chained, ListInv
<1>4. \A c \in Listed : c = nodes[first].data \/ nodes[first].data \in ahead[c]
  BY <1>3 DEF ListInv, Ordered
<1>5. Listed' = Listed /\ Used(node)'
  BY <1>1, <1>2 DEF Listed, Used
<1> QED
  BY <1>1, <1>4, <1>5 DEF Unvisited

LEMMA AdvanceVisits ==
  ASSUME ListInv, Advance
  PROVE  Unvisited' = Unvisited \ {nodes[node].data}
<1>1. /\ UNCHANGED <<nodes, ahead>> /\ node # Null /\ node \in Nodes
      /\ node' = nodes[node].next
  BY DEF Advance, ListInv, TypeOK, NodeOrNull
<1>2. Listed' = Listed
  BY <1>1 DEF Listed
<1>3. CASE ~Used(node)
  <2>1. node' = Null
    BY <1>1, <1>3 DEF ListInv, Linked, Zero
  <2> QED
    BY <1>3, <2>1 DEF Unvisited
<1>4. CASE Used(node)
  <2> DEFINE c == nodes[node].data
  <2>1. c \in Listed /\ c \in Slots /\ c \notin ahead[c] /\ Chained(node)
    BY <1>1, <1>4, ListedUsed DEF ListInv, Linked, Ordered
  <2>2. Unvisited = {e \in Listed : e = c \/ c \in ahead[e]}
    BY <1>1, <1>4 DEF Unvisited
  <2>3. Unvisited \ {c} = {e \in Listed : c \in ahead[e]}
    BY <2>1, <2>2
  <2>4. CASE nodes[node].next = Null
    <3>1. Listed = ahead[c] \cup {c}
      BY <2>1, <2>4 DEF Chained
    <3>2. \A e \in Listed : c \notin ahead[e]
      BY <3>1, <2>1, ListedUsed DEF ListInv, Ordered
    <3>3. Unvisited' = {}
      BY <1>1, <2>4 DEF Unvisited
    <3> QED
      BY <2>3, <3>2, <3>3
  <2>5. CASE nodes[node].next # Null
    <3> DEFINE d == nodes[nodes[node].next].data
    <3>1. /\ nodes[node].next \in Nodes /\ Used(nodes[node].next)
          /\ ahead[d] = ahead[c] \cup {c}
      BY <2>1, <2>5, <1>1, NodeFields DEF Chained, ListInv, NodeOrNull
    <3>2. d \in Listed
      BY <3>1, ListedUsed DEF ListInv
    <3>3. Unvisited' = {e \in Listed : e = d \/ d \in ahead[e]}
      BY <3>1, <1>1, <1>2, <2>5 DEF Unvisited, Used
    <3>4. ASSUME NEW e \in Listed, e = d \/ d \in ahead[e] PROVE c \in ahead[e]
      BY <3>1, <3>2, <3>4 DEF ListInv, Ordered
    <3>5. ASSUME NEW e \in Listed, c \in ahead[e] PROVE e = d \/ d \in ahead[e]
      <4>1. e \notin ahead[d]
        BY <3>1, <3>5, <2>1, ListedUsed DEF ListInv, Ordered
      <4> QED
        BY <4>1, <3>2 DEF ListInv, Ordered
    <3> QED
      BY <2>3, <3>3, <3>4, <3>5
  <2> QED
    BY <2>4, <2>5
<1> QED
  BY <1>3, <1>4

LEMMA RemoveVisits ==
  ASSUME ListInv, node # Null, NEW c \in Slots, RemoveNode(c)
  PROVE  Unvisited' = IF nodes[node].data = c THEN {} ELSE Unvisited \ {c}
<1>1. PICK n \in Nodes :
         /\ nodes[n].data = c
         /\ nodes' = [m \in Nodes |->
                        IF m = n THEN Zero
                        ELSE [nodes[m] EXCEPT
                                !.next = IF m = nodes[n].previous THEN nodes[n].next ELSE @,
                                !.previous = IF m = nodes[n].next THEN nodes[n].previous ELSE @]]
  BY DEF RemoveNode
<1>2. /\ nodes'[n].data = Null
      /\ \A m \in Nodes \ {n} : nodes'[m].data = nodes[m].data
      /\ Listed' = Listed \ {c}
  <2>1. /\ nodes'[n] = Zero
        /\ \A m \in Nodes \ {n} :
             /\ nodes'[m].data = nodes[m].data
             /\ nodes'[m].next =
                  IF m = nodes[n].previous THEN nodes[n].next ELSE nodes[m].next
             /\ nodes'[m].previous =
                  IF m = nodes[n].next THEN nodes[n].previous ELSE nodes[m].previous
        /\ Listed' = Listed \ {c}
        /\ nodes' \in [Nodes -> [previous : NodeOrNull, next : NodeOrNull,
                                 data : Slots \cup {Null}]]
    BY <1>1, RemoveListed
  <2> QED
    BY <2>1 DEF Zero
<1>3. node \in Nodes /\ node' = node /\ c # Null
  BY NullFresh DEF RemoveNode, ListInv, TypeOK, NodeOrNull
<1>4. \A e \in Listed' : ahead'[e] = ahead[e] \ {c}
  BY <1>2, ListedUsed DEF RemoveNode, ListInv
<1>5. CASE nodes[node].data = c
  <2>1. node = n
    BY <1>1, <1>3, <1>5 DEF ListInv, Linked, Used
  <2>2. Unvisited' = {}
    BY <2>1, <1>2, <1>3 DEF Unvisited, Used
  <2> QED
    BY <2>2, <1>5
<1>6. CASE nodes[node].data # c
  <2>1. nodes'[node].data = nodes[node].data
    BY <1>1, <1>2, <1>3, <1>6
  <2>2. Used(node)' <=> Used(node)
    BY <2>1, <1>3 DEF Used
  <2>3. CASE ~Used(node)
    BY <2>2, <2>3, <1>3, <1>6 DEF Unvisited
  <2>4. CASE Used(node)
    <3>1. Unvisited' = {e \in Listed' : e = nodes[node].data \/ nodes[node].data \in ahead'[e]}
      BY <2>1, <2>2, <2>4, <1>3 DEF Unvisited
    <3>2. Unvisited = {e \in Listed : e = nodes[node].data \/ nodes[node].data \in ahead[e]}
      BY <2>4, <1>3 DEF Unvisited
    <3> QED
      BY <3>1, <3>2, <1>2, <1>4, <1>6
  <2> QED
    BY <2>3, <2>4
<1> QED
  BY <1>5, <1>6

\* A walk of ManageConnections deals with every connection once, in the order
\* of the list: it starts with all of them to visit, each step along the list
\* takes off the one it leaves, and one removed under the walk is taken off too.
\* Removing the connection it stands on is the exception: the node is zeroed, so
\* the ones behind it are not visited in this walk (cipconnectionmanager.c).
THEOREM WalkVisitsEachOnce == Spec => [][WalkStep]_vars
<1>1. ListInv /\ [Next]_vars => [WalkStep]_vars
  BY StartVisits, AdvanceVisits, RemoveVisits DEF WalkStep
<1> QED
  BY <1>1, ListInvariant, PTL DEF Spec
-----------------------------------------------------------------------------
(* The pool of nodes. *)

\* The allocator finds a node whenever one is free.
LEMMA AllocatorFinds ==
  ASSUME NEW n \in Nodes, nodes[n] = Zero
  PROVE  Allocator # {}
<1> DEFINE Below(m) == {k \in Nodes : k <= m}
           T == {Below(m) : m \in {k \in Nodes : nodes[k] = Zero}}
           R == StrictSubsetOrdering(Nodes)
<1>1. NodesAmount \in Nat
  BY ListAssumption DEF ListAssumption, NodesAmount
<1>2. IsFiniteSet(Nodes)
  BY <1>1, FS_Interval DEF Nodes
<1>3. IsWellFoundedOn(R, SUBSET Nodes)
  BY <1>2, FS_StrictSubsetOrderingWellFounded, FS_FiniteSubsetsOfFinite
<1>4. T \subseteq SUBSET Nodes /\ T # {}
  OBVIOUS
<1>5. PICK B \in T : \A C \in T : <<C, B>> \notin R
  <2> HIDE DEF T, R
  <2> QED
    BY <1>3, <1>4, WFMin
<1>6. PICK m \in Nodes : nodes[m] = Zero /\ B = Below(m)
  OBVIOUS
<1>7. ASSUME NEW k \in Nodes, k < m, nodes[k] = Zero PROVE FALSE
  <2>1. k \in Nat /\ m \in Nat
    BY <1>1 DEF Nodes
  <2>2. Below(k) \subseteq Below(m)
    BY <2>1, <1>1, <1>7 DEF Nodes
  <2>3. m \in Below(m) /\ m \notin Below(k)
    BY <2>1, <1>7
  <2>4. <<Below(k), Below(m)>> \in R
    BY <2>2, <2>3 DEF StrictSubsetOrdering
  <2>5. Below(k) \in T
    BY <1>7
  <2> QED
    BY <2>4, <2>5, <1>5, <1>6
<1> QED
  BY <1>6, <1>7 DEF Allocator

\* A pool with a node for every connection object is never short of one.
LEMMA PoolInsert ==
  ASSUME ListInv, NumSlots <= NodesAmount, NEW c \in Slots, c \notin Listed
  PROVE  Allocator # {}
<1> SUFFICES ASSUME \A n \in Nodes : nodes[n] # Zero PROVE FALSE
  BY AllocatorFinds
<1> DEFINE f == [n \in Nodes |-> nodes[n].data]
<1>1. NodesAmount \in Nat /\ NumSlots \in Nat
  BY ListAssumption DEF ListAssumption, NodesAmount, NumSlots
<1>2. /\ IsFiniteSet(Nodes) /\ Cardinality(Nodes) = NodesAmount
      /\ IsFiniteSet(Slots) /\ Cardinality(Slots) = NumSlots
  BY <1>1, FS_Interval DEF Nodes, Slots
<1>3. IsFiniteSet(Slots \ {c}) /\ Cardinality(Slots \ {c}) = NumSlots - 1
  BY <1>2, FS_RemoveElement
<1>4. \A n \in Nodes : Used(n) /\ nodes[n].data \in Slots \ {c}
  BY ListedUsed, ListedNode DEF ListInv, Linked
<1>5. f \in [Nodes -> Slots \ {c}]
  BY <1>4
<1>6. Cardinality(Slots \ {c}) < Cardinality(Nodes)
  BY <1>1, <1>2, <1>3
<1>7. PICK n, m \in Nodes : n # m /\ f[n] = f[m]
  <2> HIDE DEF f
  <2> QED
    BY <1>2, <1>3, <1>5, <1>6, FS_PigeonHole
<1> QED
  BY <1>4, <1>7 DEF ListInv, Linked

\* With a node for every connection object (one object for each path) the
\* allocator never returns a null pointer.  With the three input-only and
\* listen-only objects a path has in the sample it can: see CipPool.cfg.
THEOREM PoolSufficesPerSlot ==
  ASSUME NumSlots <= NodesAmount
  PROVE  Spec => []PoolSuffices
<1>1. Init => PoolSuffices
  BY DEF Init, PoolSuffices
<1>2. ASSUME ListInv, PoolSuffices, [Next]_vars PROVE PoolSuffices'
  <2>1. ASSUME NEW c \in Slots, InsertAtHead(c) PROVE PoolSuffices'
    <3>1. Allocator # {}
      BY <1>2, <2>1, PoolInsert DEF InsertAtHead
    <3> QED
      BY <3>1, <2>1, <1>2 DEF InsertAtHead, PoolSuffices
  <2>2. ASSUME NEW c \in Slots, RemoveNode(c) PROVE PoolSuffices'
    BY <2>2, <1>2 DEF RemoveNode, PoolSuffices
  <2>3. CASE StartWalk \/ Advance \/ UNCHANGED vars
    BY <2>3, <1>2 DEF StartWalk, Advance, vars, PoolSuffices
  <2> QED
    BY <1>2, <2>1, <2>2, <2>3 DEF Next
<1> QED
  BY <1>1, <1>2, ListInvariant, PTL DEF Spec
=============================================================================
