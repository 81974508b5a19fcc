------------------------ MODULE CipConnectionsProofs ------------------------
(***************************************************************************)
(* Proofs about CipConnections: the list and the objects agree, the list   *)
(* is the one ActiveList describes, triads are unique, an input assembly   *)
(* has one multicast socket, which is handed on when its holder goes, and  *)
(* no socket is counted twice.                                             *)
(***************************************************************************)
EXTENDS CipConnections, FiniteSetTheorems, TLAPS

-----------------------------------------------------------------------------
(* The list. *)

OrderedList == /\ list \subseteq Slots
               /\ ahead \in [Slots -> SUBSET Slots]
               /\ List!Ordered

\* Closing some connections and opening at most one keeps the list in order.
LEMMA EditOrdered ==
  ASSUME OrderedList, NEW S \in SUBSET list, NEW O \in SUBSET Slots,
         \A c, d \in O : c = d, O \cap (list \ S) = {}, List!Edit(S, O)
  PROVE  OrderedList' /\ list' = (list \ S) \cup O
<1>1. list' = (list \ S) \cup O
  BY DEF List!Edit
<1>2. ahead' = [c \in Slots |-> IF c \in O THEN {}
                                ELSE IF c \in list \ S THEN (ahead[c] \ S) \cup O
                                ELSE {}]
  BY DEF List!Edit
<1>3. list' \subseteq Slots /\ ahead' \in [Slots -> SUBSET Slots]
  BY <1>1, <1>2 DEF OrderedList
<1>4. \A c \in Slots : ahead'[c] = IF c \in O THEN {}
                                   ELSE IF c \in list \ S THEN (ahead[c] \ S) \cup O
                                   ELSE {}
  BY <1>2
<1>5. \A c \in Slots : /\ ahead'[c] \subseteq list'
                       /\ c \notin ahead'[c]
                       /\ c \notin list' => ahead'[c] = {}
  <2>1. ASSUME NEW c \in list \ S
        PROVE  ahead'[c] \subseteq list' /\ c \notin ahead'[c]
    <3>1. ahead'[c] = (ahead[c] \ S) \cup O /\ c \notin O /\ c \in Slots
      BY <1>4 DEF OrderedList
    <3>2. ahead[c] \subseteq list /\ c \notin ahead[c]
      BY <3>1 DEF OrderedList, List!Ordered
    <3> QED
      BY <3>1, <3>2, <1>1
  <2>2. \A c \in Slots : c \notin list \ S => ahead'[c] = {}
    BY <1>4
  <2> QED
    BY <2>1, <2>2, <1>1
<1>6. \A c, d \in list' : d \in ahead'[c] => ahead'[d] \subseteq ahead'[c]
  BY <1>1, <1>3, <1>4 DEF OrderedList, List!Ordered
<1>7. \A c, d \in list' : c = d \/ c \in ahead'[d] \/ d \in ahead'[c]
  BY <1>1, <1>3, <1>4 DEF OrderedList, List!Ordered
<1> QED
  BY <1>1, <1>3, <1>5, <1>6, <1>7 DEF OrderedList, List!Ordered

\* A search finds at most one member of a set,
LEMMA FirstUnique ==
  ASSUME OrderedList, NEW S \in SUBSET list
  PROVE  /\ List!First(S) \subseteq S
         /\ \A c, d \in List!First(S) : c = d
BY DEF OrderedList, List!Ordered, List!First

\* and it finds one unless the set is empty.
LEMMA FirstExists ==
  ASSUME OrderedList, NEW S \in SUBSET list, S # {}
  PROVE  List!First(S) # {}
<1> DEFINE T == {ahead[c] : c \in S}
           R == StrictSubsetOrdering(Slots)
<1>1. IsWellFoundedOn(R, SUBSET Slots)
  BY SlotAssumption, FS_StrictSubsetOrderingWellFounded, FS_FiniteSubsetsOfFinite
     DEF SlotAssumption
<1>2. T \subseteq SUBSET Slots /\ T # {}
  BY DEF OrderedList
<1>3. PICK B \in T : \A C \in T : <<C, B>> \notin R
  <2> HIDE DEF T, R
  <2> QED
    BY <1>1, <1>2, WFMin
<1>4. PICK c \in S : B = ahead[c]
  OBVIOUS
<1>5. ASSUME NEW d \in ahead[c] \cap S PROVE FALSE
  <2>1. c \in list /\ d \in list /\ d \in ahead[c] /\ d \in Slots /\ c \in Slots
    BY DEF OrderedList
  <2>2. ahead[d] \subseteq ahead[c] /\ d \notin ahead[d]
    BY <2>1 DEF OrderedList, List!Ordered
  <2>3. <<ahead[d], ahead[c]>> \in R
    <3>1. ahead[d] \in SUBSET Slots /\ ahead[c] \in SUBSET Slots
      BY <2>1 DEF OrderedList
    <3> QED
      BY <3>1, <2>1, <2>2 DEF StrictSubsetOrdering
  <2>4. ahead[d] \in T
    OBVIOUS
  <2> QED
    BY <2>3, <2>4, <1>3, <1>4
<1> QED
  BY <1>4, <1>5 DEF List!First

\* The walk goes on to a connection that is still in the list, or ends.
LEMMA WalkGoesOn ==
  ASSUME OrderedList, NEW c \in list, NEW S \in SUBSET list
  PROVE  List!Successor(c, S) \subseteq (list \ S) \cup {None}
BY DEF List!Successor, List!First, List!Behind
-----------------------------------------------------------------------------
(* The connection objects. *)

\* Two I/O connections of one input assembly.
Alike(c, d) == IsIo(c) /\ IsIo(d) /\ Point[Kind[c]] = Point[Kind[d]]

\* What holds of the objects K while those of L are in the list.
Core(K, L) ==
  /\ K \in [Slots -> Connection]
  /\ L \subseteq Slots
  /\ \A c \in Slots : c \in L <=> K[c].state # "NonExistent"
  /\ \A c \in Slots : c \notin L => ~K[c].consuming /\ ~K[c].producing
  /\ \A c \in Slots : ~IsIo(c) => ~K[c].consuming /\ ~K[c].producing
  /\ \A c, d \in L : (/\ Alike(c, d)
                      /\ K[c].multicast /\ K[c].producing
                      /\ K[d].multicast /\ K[d].producing) => c = d
  /\ \A c, d \in L : (/\ K[c].state = "Established" /\ K[d].state = "Established"
                      /\ K[c].originator = K[d].originator
                      /\ K[c].serial = K[d].serial) => c = d

\* The sockets the objects K hold are all open.
Held(K, u) ==
  /\ u \in 0..MaxSockets
  /\ Cardinality({c \in Slots : K[c].consuming})
       + Cardinality({c \in Slots : K[c].producing}) <= u

\* Records of connections.
LEMMA RecordFields ==
  ASSUME NEW r \in Connection
  PROVE  /\ r.state \in {"NonExistent", "Established", "TimedOut"}
         /\ r.multicast \in BOOLEAN /\ r.consuming \in BOOLEAN /\ r.producing \in BOOLEAN
         /\ r.watchdog \in 0..Watchdog /\ r.session \in 0..NumSessions
         /\ r.originator \in Originators \cup {None}
BY DEF Connection

LEMMA RecordProducing ==
  ASSUME NEW r \in Connection, NEW b \in BOOLEAN
  PROVE  LET q == [r EXCEPT !.producing = b]
         IN  /\ q \in Connection
             /\ q.state = r.state /\ q.originator = r.originator /\ q.serial = r.serial
             /\ q.multicast = r.multicast /\ q.consuming = r.consuming
             /\ q.producing = b
BY DEF Connection

LEMMA RecordWatchdog ==
  ASSUME NEW r \in Connection, NEW w \in 0..Watchdog
  PROVE  LET q == [r EXCEPT !.watchdog = w]
         IN  /\ q \in Connection
             /\ q.state = r.state /\ q.originator = r.originator /\ q.serial = r.serial
             /\ q.multicast = r.multicast /\ q.consuming = r.consuming
             /\ q.producing = r.producing
BY DEF Connection

LEMMA RecordTimedOut ==
  ASSUME NEW r \in Connection, NEW b \in BOOLEAN
  PROVE  LET q == [r EXCEPT !.state = "TimedOut", !.producing = b]
         IN  /\ q \in Connection
             /\ q.state = "TimedOut" /\ q.originator = r.originator /\ q.serial = r.serial
             /\ q.multicast = r.multicast /\ q.consuming = r.consuming
             /\ q.producing = b
BY DEF Connection

LEMMA EmptyFields ==
  /\ Empty \in Connection
  /\ Empty.state = "NonExistent" /\ Empty.multicast = FALSE
  /\ Empty.consuming = FALSE /\ Empty.producing = FALSE
BY BoundAssumption DEF BoundAssumption, Empty, Connection

LEMMA OpenedFields ==
  ASSUME NEW o \in Originators, NEW n \in Serials, NEW s \in Sessions,
         NEW m \in BOOLEAN, NEW b \in BOOLEAN, NEW p \in BOOLEAN
  PROVE  LET q == Opened(o, n, s, m, b, p)
         IN  /\ q \in Connection
             /\ q.state = "Established" /\ q.originator = o /\ q.serial = n
             /\ q.multicast = m /\ q.consuming = b /\ q.producing = p
<1>1. s \in 0..NumSessions /\ Watchdog \in 0..Watchdog
  BY BoundAssumption DEF BoundAssumption, Sessions
<1> QED
  BY <1>1 DEF Opened, Connection
-----------------------------------------------------------------------------
(* Closing connections. *)

\* The connections that close together, and those that take a socket over.
Closing(S, H) ==
  /\ S \subseteq list
  /\ H \subseteq list \ S
  /\ \A h \in H : IsIo(h) /\ ~conn[h].producing
  /\ H = {} \/ \E c \in S, h \in list : /\ H = {h}
                                        /\ Alike(c, h) /\ IsMaster(c)

LEMMA AfterFields ==
  ASSUME Core(conn, list), NEW S, NEW H, Closing(S, H), NEW d \in Slots
  PROVE  LET r == After(S, H)[d]
         IN  /\ r \in Connection
             /\ r.state = IF d \in S THEN "NonExistent" ELSE conn[d].state
             /\ d \notin S => /\ r.originator = conn[d].originator
                              /\ r.serial = conn[d].serial
                              /\ r.multicast = conn[d].multicast
             /\ r.consuming <=> d \notin S /\ conn[d].consuming
             /\ r.producing <=> d \notin S /\ (d \in H \/ conn[d].producing)
<1>1. conn[d] \in Connection
  BY DEF Core
<1>2. CASE d \in S
  BY <1>2, EmptyFields DEF After
<1>3. CASE d \notin S /\ d \in H
  <2>1. After(S, H)[d] = [conn[d] EXCEPT !.producing = TRUE]
    BY <1>3 DEF After
  <2>2. LET q == [conn[d] EXCEPT !.producing = TRUE]
        IN  /\ q \in Connection
            /\ q.state = conn[d].state /\ q.originator = conn[d].originator
            /\ q.serial = conn[d].serial
            /\ q.multicast = conn[d].multicast /\ q.consuming = conn[d].consuming
            /\ q.producing = TRUE
    BY <1>1, RecordProducing
  <2> QED
    BY <2>1, <2>2, <1>3
<1>4. CASE d \notin S /\ d \notin H
  <2>1. After(S, H)[d] = conn[d]
    BY <1>4 DEF After
  <2> QED
    BY <2>1, <1>1, <1>4
<1> QED
  BY <1>2, <1>3, <1>4

LEMMA CoreAfter ==
  ASSUME Core(conn, list), NEW S, NEW H, Closing(S, H)
  PROVE  Core(After(S, H), list \ S)
<1> DEFINE K == After(S, H)
           L == list \ S
<1>1. \A d \in Slots :
        /\ K[d] \in Connection
        /\ K[d].state = IF d \in S THEN "NonExistent" ELSE conn[d].state
        /\ d \notin S => /\ K[d].originator = conn[d].originator
                         /\ K[d].serial = conn[d].serial
                         /\ K[d].multicast = conn[d].multicast
        /\ K[d].consuming <=> d \notin S /\ conn[d].consuming
        /\ K[d].producing <=> d \notin S /\ (d \in H \/ conn[d].producing)
  BY AfterFields
<1>2. K = [d \in Slots |-> K[d]]
  BY DEF After
<1> HIDE DEF K
<1>3. K \in [Slots -> Connection]
  BY <1>1, <1>2
<1>4. L \subseteq Slots
  BY DEF Core
<1>5. \A c \in Slots : c \in L <=> K[c].state # "NonExistent"
  BY <1>1 DEF Core
<1>6. \A c \in Slots : c \notin L => ~K[c].consuming /\ ~K[c].producing
  BY <1>1 DEF Core, Closing
<1>7. \A c \in Slots : ~IsIo(c) => ~K[c].consuming /\ ~K[c].producing
  BY <1>1 DEF Core, Closing
<1>8. ASSUME NEW c \in L, NEW d \in L, Alike(c, d),
             K[c].multicast, K[c].producing, K[d].multicast, K[d].producing
      PROVE  c = d
  <2>1. c \in Slots /\ d \in Slots /\ conn[c].multicast /\ conn[d].multicast
    BY <1>1, <1>4, <1>8
  <2>2. (c \in H \/ conn[c].producing) /\ (d \in H \/ conn[d].producing)
    BY <1>1, <2>1, <1>8
  <2>3. CASE H = {}
    BY <2>1, <2>2, <2>3, <1>8 DEF Core
  <2>4. ASSUME NEW m \in S, NEW h \in list, H = {h}, Alike(m, h), IsMaster(m)
        PROVE  c = d
    <3>1. m \in list /\ m \notin L /\ conn[m].multicast /\ conn[m].producing
      BY <2>4 DEF Closing, IsMaster
    <3>2. \A e \in L : Alike(h, e) /\ conn[e].multicast => ~conn[e].producing
      <4> SUFFICES ASSUME NEW e \in L, Alike(h, e), conn[e].multicast, conn[e].producing
                   PROVE  FALSE
        OBVIOUS
      <4>1. Alike(m, e)
        BY <2>4 DEF Alike
      <4>2. m = e
        BY <4>1, <3>1 DEF Core
      <4> QED
        BY <4>2, <3>1
    <3>3. Alike(d, c)
      BY <1>8 DEF Alike
    <3> QED
      BY <3>2, <3>3, <2>1, <2>2, <2>4, <1>8 DEF Core
  <2> QED
    BY <2>3, <2>4 DEF Closing
<1>9. \A c, d \in L : (/\ K[c].state = "Established" /\ K[d].state = "Established"
                       /\ K[c].originator = K[d].originator
                       /\ K[c].serial = K[d].serial) => c = d
  BY <1>1, <1>4 DEF Core
<1>10. Core(K, L)
  BY <1>3, <1>4, <1>5, <1>6, <1>7, <1>8, <1>9 DEF Core
<1> QED
  BY <1>10 DEF K

\* No socket is closed twice and none is forgotten.
LEMMA HeldAfter ==
  ASSUME Core(conn, list), Held(conn, udp), NEW S, NEW H, Closing(S, H)
  PROVE  Held(After(S, H), UdpAfter(S, H))
<1> DEFINE C == {c \in Slots : conn[c].consuming}
           P == {c \in Slots : conn[c].producing}
<1>1. IsFiniteSet(C) /\ IsFiniteSet(P) /\ IsFiniteSet(H)
  <2>1. C \in SUBSET Slots /\ P \in SUBSET Slots /\ H \in SUBSET Slots
    BY DEF Core, Closing
  <2> QED
    BY <2>1, FS_Subset, SlotAssumption DEF SlotAssumption
<1>2. /\ {c \in Slots : After(S, H)[c].consuming} = C \ S
      /\ {c \in Slots : After(S, H)[c].producing} = (P \ S) \cup H
  <2>1. \A d \in Slots :
          /\ After(S, H)[d].consuming <=> d \notin S /\ conn[d].consuming
          /\ After(S, H)[d].producing <=> d \notin S /\ (d \in H \/ conn[d].producing)
    BY AfterFields
  <2> QED
    BY <2>1 DEF Core, Closing
<1>3. SocketsOf(S) = Cardinality(C \cap S) + Cardinality(P \cap S)
  <2>1. /\ {c \in S : conn[c].consuming} = C \cap S
        /\ {c \in S : conn[c].producing} = P \cap S
    BY DEF Core, Closing
  <2> QED
    BY <2>1 DEF SocketsOf
<1> DEFINE nC == Cardinality(C)
           nP == Cardinality(P)
           nCS == Cardinality(C \cap S)
           nPS == Cardinality(P \cap S)
           nH == Cardinality(H)
<1>4. /\ nC \in Nat /\ nP \in Nat /\ nCS \in Nat /\ nPS \in Nat /\ nH \in Nat
      /\ Cardinality(C \ S) = nC - nCS /\ Cardinality(C \ S) \in Nat
  <2>1. IsFiniteSet(C \cap S) /\ IsFiniteSet(P \cap S) /\ IsFiniteSet(C \ S)
    BY <1>1, FS_Intersection, FS_Difference
  <2> QED
    BY <2>1, <1>1, FS_CardinalityType, FS_Difference
<1>5. Cardinality((P \ S) \cup H) = (nP - nPS) + nH /\ nP - nPS \in Nat
  <2>1. IsFiniteSet(P \ S) /\ Cardinality(P \ S) = nP - nPS
    BY <1>1, FS_Difference
  <2>2. (P \ S) \cap H = {}
    BY DEF Closing
  <2>3. Cardinality((P \ S) \cap H) = 0
    BY <2>2, FS_EmptySet
  <2>4. nP - nPS \in Nat
    BY <2>1, FS_CardinalityType
  <2>5. Cardinality((P \ S) \cup H)
          = Cardinality(P \ S) + Cardinality(H) - Cardinality((P \ S) \cap H)
    BY <2>1, <1>1, FS_Union
  <2> QED
    BY <2>1, <2>3, <2>4, <2>5, <1>4
<1>6. nH <= nPS
  <2>1. CASE H = {}
    <3>1. nH = 0
      BY <2>1, FS_EmptySet
    <3> QED
      BY <3>1, <1>4
  <2>2. ASSUME NEW c \in S, NEW h, H = {h}, IsMaster(c) PROVE nH <= nPS
    <3>1. nH = 1
      BY <2>2, FS_Singleton
    <3>2. P \cap S # {}
      BY <2>2 DEF IsMaster, Closing, Core
    <3>3. nPS # 0
      BY <3>2, <1>1, FS_Intersection, FS_EmptySet
    <3> QED
      BY <3>1, <3>3, <1>4
  <2> QED
    BY <2>1, <2>2 DEF Closing
<1>7. nC + nP <= udp /\ udp \in 0..MaxSockets
  BY DEF Held
<1>8. UdpAfter(S, H) = (udp + nH) - (nCS + nPS)
  BY <1>3 DEF UdpAfter
<1> HIDE DEF C, P, nC, nP, nCS, nPS, nH
<1>9. /\ UdpAfter(S, H) \in 0..MaxSockets
      /\ (nC - nCS) + ((nP - nPS) + nH) <= UdpAfter(S, H)
  BY <1>4, <1>5, <1>6, <1>7, <1>8, BoundAssumption DEF BoundAssumption
<1> QED
  BY <1>2, <1>4, <1>5, <1>9 DEF Held
-----------------------------------------------------------------------------
(* Opening a connection: its record enters, and a socket may be taken over. *)

\* The objects K with the record r for c, the sockets of M taken away.
Enter(K, c, r, M) ==
  [d \in Slots |-> IF d = c THEN r
                   ELSE IF d \in M THEN [K[d] EXCEPT !.producing = FALSE]
                   ELSE K[d]]

LEMMA EnterFields ==
  ASSUME NEW K, NEW L, Core(K, L), NEW c \in Slots, NEW r \in Connection,
         NEW M, c \notin M, NEW d \in Slots
  PROVE  LET q == Enter(K, c, r, M)[d]
         IN  /\ q \in Connection
             /\ d = c => q = r
             /\ d # c => /\ q.state = K[d].state /\ q.originator = K[d].originator
                         /\ q.serial = K[d].serial /\ q.multicast = K[d].multicast
                         /\ q.consuming = K[d].consuming
                         /\ q.producing <=> d \notin M /\ K[d].producing
<1>1. K[d] \in Connection
  BY DEF Core
<1>2. CASE d = c
  BY <1>2 DEF Enter
<1>3. CASE d # c /\ d \in M
  <2>1. Enter(K, c, r, M)[d] = [K[d] EXCEPT !.producing = FALSE]
    BY <1>3 DEF Enter
  <2>2. LET q == [K[d] EXCEPT !.producing = FALSE]
        IN  /\ q \in Connection
            /\ q.state = K[d].state /\ q.originator = K[d].originator
            /\ q.serial = K[d].serial
            /\ q.multicast = K[d].multicast /\ q.consuming = K[d].consuming
            /\ q.producing = FALSE
    BY <1>1, RecordProducing
  <2> QED
    BY <2>1, <2>2, <1>3
<1>4. CASE d # c /\ d \notin M
  <2>1. Enter(K, c, r, M)[d] = K[d]
    BY <1>4 DEF Enter
  <2> QED
    BY <2>1, <1>1, <1>4
<1> QED
  BY <1>2, <1>3, <1>4

LEMMA CoreEnter ==
  ASSUME NEW K, NEW L, Core(K, L), NEW c \in Slots \ L, NEW r \in Connection,
         NEW M, M \subseteq L,
         r.state = "Established",
         IsIo(c) \/ (~r.consuming /\ ~r.producing),
         \A d \in L : ~(/\ K[d].state = "Established"
                        /\ K[d].originator = r.originator /\ K[d].serial = r.serial),
         r.multicast /\ r.producing =>
            \A d \in L \ M : Alike(c, d) => ~(K[d].multicast /\ K[d].producing)
  PROVE  Core(Enter(K, c, r, M), L \cup {c})
<1> DEFINE N == Enter(K, c, r, M)
<1>1. \A d \in Slots :
        /\ N[d] \in Connection
        /\ d = c => N[d] = r
        /\ d # c => /\ N[d].state = K[d].state /\ N[d].originator = K[d].originator
                    /\ N[d].serial = K[d].serial /\ N[d].multicast = K[d].multicast
                    /\ N[d].consuming = K[d].consuming
                    /\ N[d].producing <=> d \notin M /\ K[d].producing
  BY EnterFields
<1>2. N = [d \in Slots |-> N[d]]
  BY DEF Enter
<1> HIDE DEF N
<1>3. N \in [Slots -> Connection] /\ L \cup {c} \subseteq Slots
  BY <1>1, <1>2 DEF Core
<1>4. \A d \in Slots : d \in L \cup {c} <=> N[d].state # "NonExistent"
  BY <1>1 DEF Core
<1>5. \A d \in Slots : d \notin L \cup {c} => ~N[d].consuming /\ ~N[d].producing
  BY <1>1 DEF Core
<1>6. \A d \in Slots : ~IsIo(d) => ~N[d].consuming /\ ~N[d].producing
  BY <1>1 DEF Core
<1>7. ASSUME NEW d \in L \cup {c}, NEW e \in L \cup {c}, Alike(d, e),
             N[d].multicast, N[d].producing, N[e].multicast, N[e].producing
      PROVE  d = e
  <2>1. d \in Slots /\ e \in Slots
    BY <1>3
  <2>2. CASE d # c /\ e # c
    <3>1. d \in L /\ e \in L /\ K[d].multicast /\ K[d].producing
          /\ K[e].multicast /\ K[e].producing
      BY <2>1, <2>2, <1>1, <1>7
    <3> QED
      BY <3>1, <1>7 DEF Core
  <2>3. ASSUME NEW f \in L \cup {c}, f # c, Alike(c, f), N[f].multicast, N[f].producing,
               r.multicast, r.producing
        PROVE  FALSE
    <3>1. f \in L \ M /\ K[f].multicast /\ K[f].producing
      BY <2>3, <1>1, <1>3
    <3> QED
      BY <3>1, <2>3
  <2>4. Alike(e, d)
    BY <1>7 DEF Alike
  <2>5. CASE d = c /\ e # c
    BY <2>5, <2>3, <2>1, <1>1, <1>7
  <2>6. CASE d # c /\ e = c
    BY <2>6, <2>3, <2>4, <2>1, <1>1, <1>7
  <2> QED
    BY <2>2, <2>5, <2>6
<1>8. ASSUME NEW d \in L \cup {c}, NEW e \in L \cup {c},
             N[d].state = "Established", N[e].state = "Established",
             N[d].originator = N[e].originator, N[d].serial = N[e].serial
      PROVE  d = e
  <2>1. d \in Slots /\ e \in Slots
    BY <1>3
  <2>2. CASE d # c /\ e # c
    BY <2>1, <2>2, <1>1, <1>8 DEF Core
  <2>3. CASE d = c /\ e # c
    BY <2>1, <2>3, <1>1, <1>8
  <2>4. CASE d # c /\ e = c
    BY <2>1, <2>4, <1>1, <1>8
  <2> QED
    BY <2>2, <2>3, <2>4
<1>9. Core(N, L \cup {c})
  BY <1>3, <1>4, <1>5, <1>6, <1>7, <1>8 DEF Core
<1> QED
  BY <1>9 DEF N

\* The sockets of a connection that enters: created is the number of new ones.
LEMMA HeldEnter ==
  ASSUME NEW K, NEW L, Core(K, L), NEW u, Held(K, u), NEW c \in Slots \ L,
         NEW r \in Connection, NEW M, M \subseteq L, NEW created \in Nat,
         M = {} \/ \E m \in L : M = {m} /\ K[m].producing,
         u + created <= MaxSockets,
         created >= (IF r.consuming THEN 1 ELSE 0)
                    + (IF r.producing /\ M = {} THEN 1 ELSE 0)
  PROVE  Held(Enter(K, c, r, M), u + created)
<1> DEFINE C == {d \in Slots : K[d].consuming}
           P == {d \in Slots : K[d].producing}
           N == Enter(K, c, r, M)
           nC == Cardinality(C)
           nP == Cardinality(P)
<1>1. \A d \in Slots :
        /\ d = c => N[d] = r
        /\ d # c => /\ N[d].consuming = K[d].consuming
                    /\ N[d].producing <=> d \notin M /\ K[d].producing
  BY EnterFields
<1>2. c \notin C /\ c \notin P
  BY DEF Core
<1>3. IsFiniteSet(C) /\ IsFiniteSet(P)
  BY FS_Subset, SlotAssumption DEF SlotAssumption
<1>4. nC \in Nat /\ nP \in Nat /\ u \in Nat /\ nC + nP <= u
  <2>1. nC \in Nat /\ nP \in Nat
    BY <1>3, FS_CardinalityType
  <2> QED
    BY <2>1, BoundAssumption DEF Held, BoundAssumption
<1> DEFINE C2 == {d \in Slots : N[d].consuming}
           P2 == {d \in Slots : N[d].producing}
<1>5. /\ r.consuming => C2 = C \cup {c}
      /\ ~r.consuming => C2 = C
  BY <1>1, <1>2
<1>6. /\ r.producing => P2 = (P \ M) \cup {c}
      /\ ~r.producing => P2 = P \ M
  BY <1>1, <1>2
<1>7. M = {} \/ \E m \in P : M = {m}
  BY DEF Core
<1> HIDE DEF C, P, C2, P2, N
<1>8. Cardinality(C2) = nC + (IF r.consuming THEN 1 ELSE 0)
  <2>1. Cardinality(C \cup {c}) = nC + 1
    BY <1>2, <1>3, FS_AddElement
  <2>2. CASE r.consuming
    BY <2>1, <2>2, <1>5
  <2>3. CASE ~r.consuming
    BY <2>3, <1>4, <1>5
  <2> QED
    BY <2>2, <2>3
<1>9. Cardinality(P2) \in Nat
      /\ Cardinality(P2) <= nP + (IF r.producing /\ M = {} THEN 1 ELSE 0)
  <2>1. Cardinality(P \cup {c}) = nP + 1
    BY <1>2, <1>3, FS_AddElement
  <2>2. CASE M = {}
    <3>1. P \ M = P
      BY <2>2
    <3>2. CASE r.producing
      BY <3>1, <3>2, <2>1, <2>2, <1>4, <1>6
    <3>3. CASE ~r.producing
      BY <3>1, <3>3, <2>2, <1>4, <1>6
    <3> QED
      BY <3>2, <3>3
  <2>3. CASE M # {}
    <3>1. PICK m \in P : M = {m}
      BY <2>3, <1>7
    <3>2. IsFiniteSet(P \ M) /\ Cardinality(P \ M) = nP - 1 /\ c \notin P \ M
      BY <3>1, <1>2, <1>3, FS_RemoveElement
    <3>3. Cardinality((P \ M) \cup {c}) = (nP - 1) + 1
      BY <3>2, FS_AddElement
    <3>4. Cardinality(P \ M) \in Nat
      BY <3>2, FS_CardinalityType
    <3>5. CASE r.producing
      <4>1. Cardinality(P2) = (nP - 1) + 1
        BY <3>3, <3>5, <1>6
      <4> HIDE DEF nP
      <4> QED
        BY <4>1, <2>3, <3>5, <1>4
    <3>6. CASE ~r.producing
      <4>1. Cardinality(P2) = nP - 1 /\ Cardinality(P2) \in Nat
        BY <3>2, <3>4, <3>6, <1>6
      <4> HIDE DEF nP
      <4> QED
        BY <4>1, <2>3, <3>6, <1>4
    <3> QED
      BY <3>5, <3>6
  <2> QED
    BY <2>2, <2>3
<1>10. u + created \in 0..MaxSockets /\ Cardinality(C2) + Cardinality(P2) <= u + created
  <2> HIDE DEF nC, nP
  <2> QED
    BY <1>4, <1>8, <1>9, BoundAssumption DEF BoundAssumption
<1> QED
  BY <1>10 DEF Held, C2, P2, N
-----------------------------------------------------------------------------
(* Time-outs: c keeps its object, H takes its socket over. *)

Expire(K, c, H) ==
  [d \in Slots |-> IF d = c
                   THEN [K[c] EXCEPT !.state = "TimedOut", !.producing = K[c].producing /\ H = {}]
                   ELSE IF d \in H THEN [K[d] EXCEPT !.producing = TRUE]
                   ELSE K[d]]

\* Who takes the socket of c over.
Handing(K, L, c, H) ==
  /\ H \subseteq L \ {c}
  /\ \A h \in H : IsIo(h) /\ ~K[h].producing
  /\ H = {} \/ \E h \in L : /\ H = {h}
                            /\ Alike(c, h) /\ K[c].multicast /\ K[c].producing

LEMMA ExpireFields ==
  ASSUME NEW K, NEW L, Core(K, L), NEW c \in L, NEW H, Handing(K, L, c, H), NEW d \in Slots
  PROVE  LET q == Expire(K, c, H)[d]
         IN  /\ q \in Connection
             /\ q.state = IF d = c THEN "TimedOut" ELSE K[d].state
             /\ q.originator = K[d].originator
             /\ q.serial = K[d].serial /\ q.multicast = K[d].multicast
             /\ q.consuming = K[d].consuming
             /\ q.producing <=> \/ d = c /\ H = {} /\ K[d].producing
                                \/ d # c /\ (d \in H \/ K[d].producing)
<1>1. K[d] \in Connection
  BY DEF Core
<1>2. CASE d = c
  <2> DEFINE b == K[c].producing /\ H = {}
  <2>1. Expire(K, c, H)[d] = [K[d] EXCEPT !.state = "TimedOut", !.producing = b]
    BY <1>2 DEF Expire
  <2>2. b \in BOOLEAN
    OBVIOUS
  <2> HIDE DEF b
  <2>3. LET q == [K[d] EXCEPT !.state = "TimedOut", !.producing = b]
        IN  /\ q \in Connection
            /\ q.state = "TimedOut" /\ q.originator = K[d].originator
            /\ q.serial = K[d].serial
            /\ q.multicast = K[d].multicast /\ q.consuming = K[d].consuming
            /\ q.producing = b
    BY <1>1, <2>2, RecordTimedOut
  <2> QED
    BY <2>1, <2>3, <1>2 DEF b
<1>3. CASE d # c /\ d \in H
  <2>1. Expire(K, c, H)[d] = [K[d] EXCEPT !.producing = TRUE]
    BY <1>3 DEF Expire
  <2>2. LET q == [K[d] EXCEPT !.producing = TRUE]
        IN  /\ q \in Connection
            /\ q.state = K[d].state /\ q.originator = K[d].originator
            /\ q.serial = K[d].serial
            /\ q.multicast = K[d].multicast /\ q.consuming = K[d].consuming
            /\ q.producing = TRUE
    BY <1>1, RecordProducing
  <2> QED
    BY <2>1, <2>2, <1>3
<1>4. CASE d # c /\ d \notin H
  <2>1. Expire(K, c, H)[d] = K[d]
    BY <1>4 DEF Expire
  <2> QED
    BY <2>1, <1>1, <1>4
<1> QED
  BY <1>2, <1>3, <1>4

LEMMA CoreExpire ==
  ASSUME NEW K, NEW L, Core(K, L), NEW c \in L, IsIo(c), NEW H, Handing(K, L, c, H)
  PROVE  Core(Expire(K, c, H), L)
<1> DEFINE N == Expire(K, c, H)
<1>1. \A d \in Slots :
        /\ N[d] \in Connection
        /\ N[d].state = IF d = c THEN "TimedOut" ELSE K[d].state
        /\ N[d].originator = K[d].originator
        /\ N[d].serial = K[d].serial /\ N[d].multicast = K[d].multicast
        /\ N[d].consuming = K[d].consuming
        /\ N[d].producing <=> \/ d = c /\ H = {} /\ K[d].producing
                              \/ d # c /\ (d \in H \/ K[d].producing)
  BY ExpireFields
<1>2. N = [d \in Slots |-> N[d]]
  BY DEF Expire
<1> HIDE DEF N
<1>3. N \in [Slots -> Connection] /\ L \subseteq Slots
  BY <1>1, <1>2 DEF Core
<1>4. \A d \in Slots : d \in L <=> N[d].state # "NonExistent"
  BY <1>1 DEF Core
<1>5. \A d \in Slots : d \notin L => ~N[d].consuming /\ ~N[d].producing
  BY <1>1 DEF Core, Handing
<1>6. \A d \in Slots : ~IsIo(d) => ~N[d].consuming /\ ~N[d].producing
  BY <1>1 DEF Core, Handing
<1>7. ASSUME NEW d \in L, NEW e \in L, Alike(d, e),
             N[d].multicast, N[d].producing, N[e].multicast, N[e].producing
      PROVE  d = e
  <2>1. d \in Slots /\ e \in Slots /\ K[d].multicast /\ K[e].multicast
    BY <1>1, <1>3, <1>7
  <2>2. CASE H = {}
    <3>1. K[d].producing /\ K[e].producing
      BY <1>1, <2>1, <2>2, <1>7
    <3> QED
      BY <3>1, <2>1, <1>7 DEF Core
  <2>3. ASSUME NEW h \in L, H = {h}, Alike(c, h), K[c].multicast, K[c].producing
        PROVE  d = e
    <3>1. \A f \in L \ {c} : Alike(h, f) /\ K[f].multicast => ~K[f].producing
      <4> SUFFICES ASSUME NEW f \in L \ {c}, Alike(h, f), K[f].multicast, K[f].producing
                   PROVE  FALSE
        OBVIOUS
      <4>1. Alike(c, f)
        BY <2>3 DEF Alike
      <4> QED
        BY <4>1, <2>3 DEF Core
    <3>2. d # c /\ e # c /\ (d = h \/ K[d].producing) /\ (e = h \/ K[e].producing)
      BY <1>1, <2>1, <2>3, <1>7
    <3>3. Alike(e, d)
      BY <1>7 DEF Alike
    <3> QED
      BY <3>1, <3>2, <3>3, <2>1, <1>7 DEF Core
  <2> QED
    BY <2>2, <2>3 DEF Handing
<1>8. \A d, e \in L : (/\ N[d].state = "Established" /\ N[e].state = "Established"
                       /\ N[d].originator = N[e].originator
                       /\ N[d].serial = N[e].serial) => d = e
  BY <1>1, <1>3 DEF Core
<1>9. Core(N, L)
  BY <1>3, <1>4, <1>5, <1>6, <1>7, <1>8 DEF Core
<1> QED
  BY <1>9 DEF N

LEMMA HeldExpire ==
  ASSUME NEW K, NEW L, Core(K, L), NEW c \in L, NEW H, Handing(K, L, c, H),
         NEW u, Held(K, u)
  PROVE  Held(Expire(K, c, H), u)
<1> DEFINE C == {d \in Slots : K[d].consuming}
           P == {d \in Slots : K[d].producing}
           N == Expire(K, c, H)
           P2 == {d \in Slots : N[d].producing}
<1>1. \A d \in Slots :
        /\ N[d].consuming = K[d].consuming
        /\ N[d].producing <=> \/ d = c /\ H = {} /\ K[d].producing
                              \/ d # c /\ (d \in H \/ K[d].producing)
  BY ExpireFields
<1>2. {d \in Slots : N[d].consuming} = C
  BY <1>1
<1>3. IsFiniteSet(P)
  BY FS_Subset, SlotAssumption DEF SlotAssumption
<1>4. Cardinality(P2) = Cardinality(P)
  <2>1. CASE H = {}
    <3>1. P2 = P
      BY <2>1, <1>1
    <3> QED
      BY <3>1
  <2>2. ASSUME NEW h \in L, H = {h}, K[c].producing PROVE Cardinality(P2) = Cardinality(P)
    <3>1. P2 = (P \ {c}) \cup {h}
      BY <2>2, <1>1 DEF Core, Handing
    <3>2. c \in P /\ h \notin P \ {c}
      BY <2>2 DEF Core, Handing
    <3> HIDE DEF P, P2
    <3>3. IsFiniteSet(P \ {c}) /\ Cardinality(P \ {c}) = Cardinality(P) - 1
      BY <3>2, <1>3, FS_RemoveElement
    <3>4. Cardinality((P \ {c}) \cup {h}) = (Cardinality(P) - 1) + 1
      BY <3>2, <3>3, FS_AddElement
    <3>5. Cardinality(P) \in Nat
      BY <1>3, FS_CardinalityType
    <3> QED
      BY <3>1, <3>4, <3>5
  <2> QED
    BY <2>1, <2>2 DEF Handing
<1> HIDE DEF C, P, P2, N
<1> QED
  BY <1>2, <1>4 DEF Held, C, P, P2, N

\* Data and ticks change the watchdog only.
LEMMA WatchdogChanges ==
  ASSUME Core(conn, list), Held(conn, udp), NEW c \in Slots, NEW w \in 0..Watchdog,
         conn' = [conn EXCEPT ![c].watchdog = w]
  PROVE  /\ Core(conn', list) /\ Held(conn', udp)
         /\ \A d \in Slots : /\ conn'[d].state = conn[d].state
                             /\ conn'[d].originator = conn[d].originator
                             /\ conn'[d].multicast = conn[d].multicast
                             /\ conn'[d].producing = conn[d].producing
<1>0. conn \in [Slots -> Connection]
  BY DEF Core
<1>1. \A d \in Slots :
        /\ conn'[d] \in Connection
        /\ conn'[d].state = conn[d].state /\ conn'[d].originator = conn[d].originator
        /\ conn'[d].serial = conn[d].serial
        /\ conn'[d].multicast = conn[d].multicast /\ conn'[d].consuming = conn[d].consuming
        /\ conn'[d].producing = conn[d].producing
  <2> TAKE d \in Slots
  <2>1. conn'[d] = IF d = c THEN [conn[d] EXCEPT !.watchdog = w] ELSE conn[d]
    BY <1>0
  <2>2. LET q == [conn[d] EXCEPT !.watchdog = w]
        IN  /\ q \in Connection
            /\ q.state = conn[d].state /\ q.originator = conn[d].originator
            /\ q.serial = conn[d].serial
            /\ q.multicast = conn[d].multicast /\ q.consuming = conn[d].consuming
            /\ q.producing = conn[d].producing
    BY <1>0, RecordWatchdog
  <2> QED
    BY <2>1, <2>2, <1>0
<1>2. conn' \in [Slots -> Connection]
  BY <1>0, <1>1
<1>3. Core(conn', list)
  BY <1>1, <1>2 DEF Core
<1>4. /\ {d \in Slots : conn'[d].consuming} = {d \in Slots : conn[d].consuming}
      /\ {d \in Slots : conn'[d].producing} = {d \in Slots : conn[d].producing}
  BY <1>1
<1> QED
  BY <1>1, <1>3, <1>4 DEF Held
-----------------------------------------------------------------------------
(* The inductive invariant, and what every step must do. *)

IInv == /\ Core(conn, list)
        /\ Held(conn, udp)
        /\ OrderedList
        /\ node \in list \cup {None}
        /\ session \in [Sessions -> Originators \cup {None}]

Good == IInv' /\ Owned /\ [List!Next]_(List!listVars)

LEMMA InitInv == Init => IInv
<1> SUFFICES ASSUME Init PROVE IInv
  OBVIOUS
<1>1. list = {} /\ ahead = [c \in Slots |-> {}] /\ node = None
  BY DEF Init, List!Init
<1>2. Core(conn, list)
  BY <1>1, EmptyFields DEF Init, Core
<1>3. Held(conn, udp)
  <2>1. {c \in Slots : conn[c].consuming} = {} /\ {c \in Slots : conn[c].producing} = {}
    BY EmptyFields DEF Init
  <2>2. udp = 0 /\ 0 \in 0..MaxSockets
    BY BoundAssumption DEF Init, BoundAssumption
  <2> QED
    BY <2>1, <2>2, FS_EmptySet DEF Held
<1>4. OrderedList
  BY <1>1 DEF OrderedList, List!Ordered
<1> QED
  BY <1>1, <1>2, <1>3, <1>4 DEF IInv, Init

\* Handlers and steps of the walk, as ActiveList has them.
LEMMA HandlerStep ==
  ASSUME IInv, node = None, UNCHANGED node, NEW S \in SUBSET list, NEW O \in SUBSET Slots,
         \A c, d \in O : c = d, O \cap (list \ S) = {}, List!Edit(S, O)
  PROVE  /\ OrderedList' /\ list' = (list \ S) \cup O
         /\ node' \in list' \cup {None}
         /\ [List!Next]_(List!listVars)
<1>1. OrderedList' /\ list' = (list \ S) \cup O
  BY EditOrdered DEF IInv
<1>2. List!Handler
  BY DEF List!Handler
<1> QED
  BY <1>1, <1>2 DEF List!Next

LEMMA WalkStep ==
  ASSUME IInv, node # None, NEW S \in SUBSET list, List!Edit(S, {}),
         node' \in List!Successor(node, S)
  PROVE  /\ OrderedList' /\ list' = list \ S
         /\ node' \in list' \cup {None}
         /\ [List!Next]_(List!listVars)
<1>1. OrderedList' /\ list' = list \ S
  <2>1. {} \in SUBSET Slots /\ {} \cap (list \ S) = {}
    OBVIOUS
  <2>2. OrderedList' /\ list' = (list \ S) \cup {}
    BY <2>1, EditOrdered DEF IInv
  <2> QED
    BY <2>2
<1>2. List!Visit
  BY DEF List!Visit
<1>3. node' \in (list \ S) \cup {None}
  BY WalkGoesOn DEF IInv
<1> QED
  BY <1>1, <1>2, <1>3 DEF List!Next

\* A walk that closes nothing edits nothing.
LEMMA EditNothing ==
  ASSUME OrderedList, UNCHANGED <<list, ahead>>
  PROVE  List!Edit({}, {})
<1>1. \A c \in Slots : ahead[c] = IF c \in {} THEN {}
                                  ELSE IF c \in list \ {} THEN (ahead[c] \ {}) \cup {}
                                  ELSE {}
  BY DEF OrderedList, List!Ordered
<1>2. ahead = [c \in Slots |-> ahead[c]]
  BY DEF OrderedList
<1>3. ahead' = [c \in Slots |-> IF c \in {} THEN {}
                                ELSE IF c \in list \ {} THEN (ahead[c] \ {}) \cup {}
                                ELSE {}]
  BY <1>1, <1>2
<1> QED
  BY <1>3 DEF List!Edit

\* What may be closed together.
LEMMA ClosingAlone ==
  ASSUME NEW S \in SUBSET list
  PROVE  Closing(S, {})
BY DEF Closing

LEMMA ClosingWithHeirs ==
  ASSUME OrderedList, NEW c \in list
  PROVE  /\ Closing(ClosedWith(c), HeirsOfClosed(c))
         /\ c \in ClosedWith(c)
<1>1. ClosedWith(c) \subseteq list /\ c \in ClosedWith(c)
  BY DEF ClosedWith, Listeners, SamePoint
<1>2. CASE HeirsOfClosed(c) = {}
  BY <1>1, <1>2 DEF Closing
<1>3. CASE HeirsOfClosed(c) # {}
  <2>1. /\ Kind[c] \in {"owner", "input"} /\ IsMaster(c)
        /\ HeirsOfClosed(c) = Heirs(c)
    BY <1>3 DEF HeirsOfClosed
  <2>2. ClosedWith(c) = {c}
    BY <2>1, <1>3 DEF ClosedWith
  <2> DEFINE X == {d \in SamePoint(c) \ {c} : /\ Kind[d] # "listen"
                                              /\ conn[d].state = "Established"
                                              /\ conn[d].multicast
                                              /\ ~conn[d].producing}
  <2>3. X \in SUBSET list
    BY DEF SamePoint
  <2>4. Heirs(c) \subseteq X /\ \A d, e \in Heirs(c) : d = e
    <3>1. Heirs(c) = List!First(X)
      BY DEF Heirs
    <3> HIDE DEF X
    <3> QED
      BY <3>1, <2>3, FirstUnique
  <2>5. PICK h \in X : Heirs(c) = {h}
    BY <2>1, <2>4, <1>3
  <2>6. h \in list \ {c} /\ IsIo(h) /\ ~conn[h].producing /\ Alike(c, h)
    BY <2>1, <2>5 DEF SamePoint, Alike, IsIo
  <2> QED
    BY <2>1, <2>2, <2>5, <2>6, <1>1 DEF Closing
<1> QED
  BY <1>1, <1>2, <1>3

LEMMA Class3Listed ==
  ASSUME OrderedList, NEW T
  PROVE  /\ Class3Of(T) \in SUBSET list
         /\ \A d \in Class3Of(T) : Kind[d] = "explicit"
<1> SUFFICES ASSUME NEW d \in Class3Of(T) PROVE d \in list /\ Kind[d] = "explicit"
  OBVIOUS
<1>1. PICK s \in T :
        d \in List!First({c \in list : Kind[c] = "explicit" /\ conn[c].session = s})
  BY DEF Class3Of
<1> QED
  BY <1>1 DEF List!First

\* What closing does to the objects and the sockets.
LEMMA CloseEffect ==
  ASSUME IInv, NEW S, NEW H, Closing(S, H), conn' = After(S, H), udp' = UdpAfter(S, H)
  PROVE  Core(conn', list \ S) /\ Held(conn', udp') /\ Owned
<1>1. Core(conn', list \ S)
  BY CoreAfter DEF IInv
<1>2. Held(conn', udp')
  BY HeldAfter DEF IInv
<1>3. Owned
  <2>1. \A d \in Slots : /\ conn'[d].state = IF d \in S THEN "NonExistent" ELSE conn[d].state
                         /\ d \notin S => conn'[d].originator = conn[d].originator
    BY AfterFields DEF IInv
  <2> QED
    BY <2>1 DEF Owned
<1> QED
  BY <1>1, <1>2, <1>3
-----------------------------------------------------------------------------
(* One lemma for each kind of action. *)

\* Handlers that close: Forward Close, the end of a session, a reset.
LEMMA CloseGood ==
  ASSUME IInv, node = None, UNCHANGED node, NEW S, NEW H, Closing(S, H), Close(S, H),
         session' \in [Sessions -> Originators \cup {None}]
  PROVE  Good
<1>1. S \in SUBSET list /\ List!Edit(S, {}) /\ conn' = After(S, H) /\ udp' = UdpAfter(S, H)
  BY DEF Closing, Close
<1>2. Core(conn', list \ S) /\ Held(conn', udp') /\ Owned
  BY <1>1, CloseEffect
<1>3. {} \in SUBSET Slots /\ {} \cap (list \ S) = {}
  OBVIOUS
<1>4. /\ OrderedList' /\ list' = (list \ S) \cup {}
      /\ node' \in list' \cup {None}
      /\ [List!Next]_(List!listVars)
  BY <1>1, <1>3, HandlerStep
<1>5. list' = list \ S
  BY <1>4
<1>6. Core(conn, list)' /\ Held(conn, udp)'
  BY <1>2, <1>5 DEF Core, Held
<1> QED
  BY <1>2, <1>4, <1>6 DEF Good, IInv

\* Handlers that leave the list alone.
LEMMA SameGood ==
  ASSUME IInv, UNCHANGED <<conn, list, ahead, node, udp>>,
         session' \in [Sessions -> Originators \cup {None}]
  PROVE  Good
<1>1. Core(conn, list)' /\ Held(conn, udp)' /\ OrderedList'
  BY DEF IInv, Core, Held, OrderedList, List!Ordered
<1>2. Owned
  BY DEF Owned
<1> QED
  BY <1>1, <1>2 DEF Good, IInv, List!listVars

LEMMA DataGood ==
  ASSUME IInv, NEW c \in Slots, ReceiveData(c)
  PROVE  Good
<1>1. /\ conn' = [conn EXCEPT ![c].watchdog = Watchdog]
      /\ UNCHANGED <<list, ahead, node, session, udp>>
  BY DEF ReceiveData
<1>2. Watchdog \in 0..Watchdog
  BY BoundAssumption DEF BoundAssumption
<1>3. /\ Core(conn', list) /\ Held(conn', udp)
      /\ \A d \in Slots : conn'[d].state = conn[d].state
                          /\ conn'[d].originator = conn[d].originator
  BY <1>1, <1>2, WatchdogChanges DEF IInv
<1>4. Core(conn, list)' /\ Held(conn, udp)'
  BY <1>1, <1>3 DEF Core, Held
<1>5. OrderedList'
  BY <1>1 DEF IInv, OrderedList, List!Ordered
<1>6. Owned
  BY <1>3 DEF Owned
<1> QED
  BY <1>1, <1>4, <1>5, <1>6 DEF Good, IInv, List!listVars

LEMMA StartGood ==
  ASSUME IInv, StartTick
  PROVE  Good
<1>1. List!StartWalk /\ UNCHANGED <<conn, list, ahead, session, udp>>
  BY DEF StartTick, List!StartWalk
<1>2. node' \in list
  BY <1>1 DEF List!StartWalk, List!First
<1>3. Core(conn, list)' /\ Held(conn, udp)' /\ OrderedList'
  BY <1>1 DEF IInv, Core, Held, OrderedList, List!Ordered
<1>4. Owned
  BY <1>1 DEF Owned
<1> QED
  BY <1>1, <1>2, <1>3, <1>4 DEF Good, IInv, List!Next

\* A connection that ManageConnections leaves in the list.
LEMMA TickGood ==
  ASSUME IInv, PassOver \/ CountDown
  PROVE  Good
<1>1. /\ node # None /\ node \in Slots
      /\ node' \in List!Successor(node, {})
      /\ UNCHANGED <<list, ahead, session, udp>>
  BY DEF PassOver, CountDown, Leave, IInv, OrderedList
<1>2. List!Edit({}, {})
  BY <1>1, EditNothing DEF IInv
<1>3. /\ OrderedList' /\ list' = list \ {}
      /\ node' \in list' \cup {None}
      /\ [List!Next]_(List!listVars)
  <2>1. {} \in SUBSET list
    OBVIOUS
  <2> QED
    BY <2>1, <1>1, <1>2, WalkStep
<1>4. CASE PassOver
  <2>1. UNCHANGED <<conn, list, udp>>
    BY <1>4 DEF PassOver
  <2>2. Core(conn, list)' /\ Held(conn, udp)' /\ Owned
    BY <2>1 DEF IInv, Core, Held, Owned
  <2> QED
    BY <1>1, <1>3, <2>2 DEF Good, IInv
<1>5. CASE CountDown
  <2> DEFINE w == conn[node].watchdog - 1
  <2>1. conn' = [conn EXCEPT ![node].watchdog = w]
    BY <1>5 DEF CountDown
  <2>2. w \in 0..Watchdog
    <3>1. conn[node].watchdog \in 0..Watchdog
      BY <1>1, RecordFields DEF IInv, Core
    <3>2. conn[node].watchdog > 1
      BY <1>5 DEF CountDown
    <3> QED
      BY <3>1, <3>2, BoundAssumption DEF BoundAssumption
  <2> HIDE DEF w
  <2>3. /\ Core(conn', list) /\ Held(conn', udp)
        /\ \A d \in Slots : conn'[d].state = conn[d].state
                            /\ conn'[d].originator = conn[d].originator
    BY <1>1, <2>1, <2>2, WatchdogChanges DEF IInv
  <2>4. Core(conn, list)' /\ Held(conn, udp)' /\ Owned
    BY <1>1, <2>3 DEF Core, Held, Owned
  <2> QED
    BY <1>1, <1>3, <2>4 DEF Good, IInv
<1> QED
  BY <1>4, <1>5

LEMMA TimeOutExplicitGood ==
  ASSUME IInv, NEW c \in Slots, TimeOutExplicit(c)
  PROVE  Good
<1>1. /\ node = c /\ c # None /\ c \in list
      /\ Close({c}, {}) /\ node' \in List!Successor(node, {c})
  BY SlotAssumption DEF TimeOutExplicit, Expired, Leave, IInv, SlotAssumption
<1>2. session' \in [Sessions -> Originators \cup {None}]
  <2>1. CASE HasOther(c)
    BY <2>1 DEF TimeOutExplicit, IInv
  <2>2. CASE ~HasOther(c)
    <3> DEFINE s == conn[c].session
    <3>1. session' = [session EXCEPT ![s] = None]
      BY <2>2 DEF TimeOutExplicit
    <3> HIDE DEF s
    <3> QED
      BY <3>1 DEF IInv
  <2> QED
    BY <2>1, <2>2
<1>3. {c} \in SUBSET list /\ Closing({c}, {})
  BY <1>1, ClosingAlone
<1>4. List!Edit({c}, {}) /\ conn' = After({c}, {}) /\ udp' = UdpAfter({c}, {})
  BY <1>1 DEF Close
<1>5. Core(conn', list \ {c}) /\ Held(conn', udp') /\ Owned
  BY <1>3, <1>4, CloseEffect
<1>6. /\ OrderedList' /\ list' = list \ {c}
      /\ node' \in list' \cup {None}
      /\ [List!Next]_(List!listVars)
  BY <1>1, <1>3, <1>4, WalkStep
<1>7. Core(conn, list)' /\ Held(conn, udp)'
  BY <1>5, <1>6 DEF Core, Held
<1> QED
  BY <1>2, <1>5, <1>6, <1>7 DEF Good, IInv

\* What the time-out of c does: S is closed and H takes the socket of c over.
Expiry(c, S, H) ==
  /\ S \in SUBSET list
  /\ conn' = Expire(After(S, {}), c, H)
  /\ List!Edit(S, {})
  /\ c \in list \ S
  /\ Core(After(S, {}), list \ S)
  /\ Held(After(S, {}), udp')
  /\ Handing(After(S, {}), list \ S, c, H)
  /\ \A d \in list \ S : After(S, {})[d] = conn[d]
  /\ \A h \in H : conn[h].multicast
  /\ Kind[c] = "owner" => H = {}
  /\ \A d \in S : IsIo(d) => \/ Kind[d] = "listen"
                             \/ Kind[c] = "owner" /\ conn[c].multicast /\ Alike(c, d)
  /\ (Kind[c] = "owner" /\ conn[c].multicast) =>
        \A d \in list : Alike(c, d) /\ Kind[d] = "input" => d \in S
  /\ node' \in List!Successor(node, S)

LEMMA IoTimeOutIsExpiry ==
  ASSUME IInv, NEW c \in Slots, TimeOutIo(c)
  PROVE  \E S, H : Expiry(c, S, H)
<1>1. /\ node = c /\ node # None /\ c \in list /\ IsIo(c)
      /\ conn[c].state = "Established"
  BY SlotAssumption DEF TimeOutIo, Expired, IInv, SlotAssumption
<1>2. PICK silent \in BOOLEAN :
       LET peers == IF silent /\ ~HasOther(c)
                    THEN {s \in Sessions : session[s] = conn[c].originator} ELSE {}
           handing == Kind[c] = "input" /\ IsMaster(c)
           heirs == IF handing THEN Heirs(c) ELSE {}
           ended == IF Kind[c] = "owner" /\ conn[c].multicast
                    THEN {d \in SamePoint(c) : Kind[d] \in {"input", "listen"}}
                    ELSE IF handing /\ heirs = {} THEN Listeners(c) ELSE {}
           S == ended \cup Class3Of(peers)
       IN  /\ session' = [s \in Sessions |-> IF s \in peers THEN None ELSE session[s]]
           /\ conn' = [After(S, heirs) EXCEPT
                         ![c].state = "TimedOut",
                         ![c].producing = @ /\ heirs = {}]
           /\ List!Edit(S, {})
           /\ udp' = UdpAfter(S, {})
           /\ Leave(S)
  BY DEF TimeOutIo
<1> DEFINE peers == IF silent /\ ~HasOther(c)
                    THEN {s \in Sessions : session[s] = conn[c].originator} ELSE {}
           handing == Kind[c] = "input" /\ IsMaster(c)
           heirs == IF handing THEN Heirs(c) ELSE {}
           ended == IF Kind[c] = "owner" /\ conn[c].multicast
                    THEN {d \in SamePoint(c) : Kind[d] \in {"input", "listen"}}
                    ELSE IF handing /\ heirs = {} THEN Listeners(c) ELSE {}
           S == ended \cup Class3Of(peers)
           K == After(S, {})
           L == list \ S
<1>3. /\ session' = [s \in Sessions |-> IF s \in peers THEN None ELSE session[s]]
      /\ conn' = [After(S, heirs) EXCEPT ![c].state = "TimedOut",
                                         ![c].producing = @ /\ heirs = {}]
      /\ List!Edit(S, {})
      /\ udp' = UdpAfter(S, {})
      /\ node' \in List!Successor(node, S)
  BY <1>2 DEF Leave
<1>4. /\ Class3Of(peers) \in SUBSET list
      /\ \A d \in Class3Of(peers) : ~IsIo(d)
  BY Class3Listed DEF IInv, IsIo
<1>5. /\ ended \subseteq list /\ c \notin ended
      /\ heirs # {} => ended = {}
  BY DEF SamePoint, Listeners
<1>6. /\ heirs \subseteq list \ {c}
      /\ \A h \in heirs : IsIo(h) /\ ~conn[h].producing
      /\ heirs = {} \/ \E h \in list : heirs = {h} /\ Alike(c, h) /\ IsMaster(c)
  <2>1. CASE heirs = {}
    BY <2>1
  <2>2. CASE heirs # {}
    <3>1. handing /\ heirs = HeirsOfClosed(c) /\ HeirsOfClosed(c) # {}
      BY <2>2 DEF HeirsOfClosed
    <3>2. ClosedWith(c) = {c}
      BY <3>1 DEF ClosedWith, HeirsOfClosed
    <3>3. Closing({c}, heirs)
      BY <3>1, <3>2, <1>1, ClosingWithHeirs DEF IInv
    <3> QED
      BY <3>3, <2>2 DEF Closing
  <2> QED
    BY <2>1, <2>2
<1>7. S \in SUBSET list /\ c \in L /\ heirs \subseteq L \ {c}
  BY <1>1, <1>4, <1>5, <1>6
<1> HIDE DEF peers, heirs, ended, handing, S
<1>8. Closing(S, {})
  BY <1>7, ClosingAlone
<1>9. Core(K, L) /\ Held(K, UdpAfter(S, {}))
  BY <1>8, CoreAfter, HeldAfter DEF IInv
<1>10. \A d \in L : K[d] = conn[d]
  BY DEF After, IInv, Core
<1>11. Handing(K, L, c, heirs)
  BY <1>6, <1>7, <1>10 DEF Handing, IsMaster
<1>12. conn' = Expire(K, c, heirs)
  <2>1. After(S, heirs)[c] = conn[c] /\ K[c] = conn[c] /\ c \in Slots
    BY <1>7, <1>10 DEF After
  <2>2. conn' = [d \in Slots |->
                   IF d = c
                   THEN [After(S, heirs)[c] EXCEPT
                           !.state = "TimedOut",
                           !.producing = After(S, heirs)[c].producing /\ heirs = {}]
                   ELSE After(S, heirs)[d]]
    <3>1. conn[c] \in Connection
      BY DEF IInv, Core
    <3> QED
      BY <1>3, <2>1, <3>1 DEF After, Connection
  <2>3. \A d \in Slots : d # c => After(S, heirs)[d] = IF d \in heirs
                                                      THEN [K[d] EXCEPT !.producing = TRUE]
                                                      ELSE K[d]
    BY <1>7 DEF After
  <2>4. \A d \in Slots : conn'[d] = Expire(K, c, heirs)[d]
    BY <2>1, <2>2, <2>3 DEF Expire
  <2> HIDE DEF K
  <2> QED
    BY <2>2, <2>4 DEF Expire
<1>13. \A h \in heirs : conn[h].multicast
  BY DEF heirs, Heirs, List!First
<1>14. Kind[c] = "owner" => heirs = {}
  BY DEF heirs, handing
<1>15. \A d \in S : IsIo(d) => \/ Kind[d] = "listen"
                               \/ Kind[c] = "owner" /\ conn[c].multicast /\ Alike(c, d)
  BY <1>1, <1>4 DEF S, ended, SamePoint, Listeners, Alike
<1>16. (Kind[c] = "owner" /\ conn[c].multicast) =>
         \A d \in list : Alike(c, d) /\ Kind[d] = "input" => d \in S
  BY DEF S, ended, SamePoint, Alike
<1> HIDE DEF K, L
<1>17. Expiry(c, S, heirs)
  BY <1>1, <1>3, <1>7, <1>9, <1>10, <1>11, <1>12, <1>13, <1>14, <1>15, <1>16 DEF Expiry, K, L
<1> QED
  BY <1>17

LEMMA TimeOutIoGood ==
  ASSUME IInv, NEW c \in Slots, TimeOutIo(c)
  PROVE  Good
<1>1. node # None /\ IsIo(c)
  BY SlotAssumption DEF TimeOutIo, Expired, SlotAssumption
<1>2. PICK S, H : Expiry(c, S, H)
  BY IoTimeOutIsExpiry
<1> DEFINE K == After(S, {})
           L == list \ S
<1>3. /\ S \in SUBSET list /\ c \in L
      /\ conn' = Expire(K, c, H) /\ List!Edit(S, {})
      /\ Core(K, L) /\ Held(K, udp') /\ Handing(K, L, c, H)
      /\ node' \in List!Successor(node, S)
  BY <1>2 DEF Expiry
<1>4. Core(conn', L) /\ Held(conn', udp')
  <2> HIDE DEF K, L
  <2>1. Core(Expire(K, c, H), L)
    BY <1>1, <1>3, CoreExpire
  <2>2. Held(Expire(K, c, H), udp')
    BY <1>3, HeldExpire
  <2> QED
    BY <2>1, <2>2, <1>3
<1>5. Owned
  <2>1. \A d \in Slots : d \notin S => conn'[d].originator = K[d].originator
    BY <1>3, ExpireFields
  <2>2. \A d \in Slots : d \in S => conn'[d].state = "NonExistent"
    BY <1>4 DEF Core
  <2>3. \A d \in Slots : d \notin S => K[d] = conn[d]
    BY DEF After
  <2> QED
    BY <2>1, <2>2, <2>3 DEF Owned
<1>6. /\ OrderedList' /\ list' = L
      /\ node' \in list' \cup {None}
      /\ [List!Next]_(List!listVars)
  BY <1>1, <1>3, WalkStep
<1>7. session' \in [Sessions -> Originators \cup {None}]
  BY DEF TimeOutIo, IInv
<1>8. Core(conn, list)' /\ Held(conn, udp)'
  BY <1>4, <1>6 DEF Core, Held
<1> QED
  BY <1>5, <1>6, <1>7, <1>8 DEF Good, IInv
-----------------------------------------------------------------------------
(* Forward Open. *)

\* A handler that closes S, hands a socket to H and enters the record r for c,
\* with the sockets of M taken over and created new ones.
Opening(S, H, c, r, M, created) ==
  /\ r.state = "Established"
  /\ IsIo(c) \/ (~r.consuming /\ ~r.producing)
  /\ \A d \in list : ~(/\ conn[d].state = "Established"
                       /\ conn[d].originator = r.originator
                       /\ conn[d].serial = r.serial)
  /\ conn[c].state # "NonExistent" => conn[c].originator = r.originator
  /\ r.multicast /\ r.producing =>
       \A d \in (list \ S) \ M :
          Alike(c, d) => ~(After(S, H)[d].multicast /\ After(S, H)[d].producing)
  /\ M = {} \/ \E m \in list \ S : M = {m} /\ After(S, H)[m].producing
  /\ created >= (IF r.consuming THEN 1 ELSE 0) + (IF r.producing /\ M = {} THEN 1 ELSE 0)

LEMMA OpenGood ==
  ASSUME IInv, node = None, UNCHANGED <<node, session>>, NEW S, NEW H, Closing(S, H),
         NEW c \in Slots \ (list \ S), NEW r \in Connection,
         NEW M, M \subseteq list \ S, NEW created \in Nat,
         Opening(S, H, c, r, M, created),
         UdpAfter(S, H) + created <= MaxSockets,
         conn' = Enter(After(S, H), c, r, M),
         List!Edit(S, {c}),
         udp' = UdpAfter(S, H) + created
  PROVE  Good
<1> DEFINE K == After(S, H)
           L == list \ S
           u == UdpAfter(S, H)
<1>1. Core(K, L) /\ Held(K, u)
  BY CoreAfter, HeldAfter DEF IInv
<1>2. \A d \in Slots :
        /\ K[d].state = IF d \in S THEN "NonExistent" ELSE conn[d].state
        /\ d \notin S => /\ K[d].originator = conn[d].originator
                         /\ K[d].serial = conn[d].serial
  BY AfterFields DEF IInv
<1>3. S \in SUBSET list /\ L \subseteq Slots /\ {c} \in SUBSET Slots /\ {c} \cap L = {}
  BY <1>1 DEF Closing, Core
<1>4. \A d \in L : ~(/\ K[d].state = "Established"
                     /\ K[d].originator = r.originator /\ K[d].serial = r.serial)
  BY <1>2, <1>3 DEF Opening
<1>5. /\ OrderedList' /\ list' = L \cup {c}
      /\ node' \in list' \cup {None}
      /\ [List!Next]_(List!listVars)
  BY <1>3, HandlerStep
<1>6. Owned
  <2> SUFFICES ASSUME NEW d \in Slots,
                      conn[d].state # "NonExistent", conn'[d].state # "NonExistent"
               PROVE  conn'[d].originator = conn[d].originator
    BY DEF Owned
  <2>1. /\ d = c => conn'[d] = r
        /\ d # c => conn'[d].state = K[d].state /\ conn'[d].originator = K[d].originator
    <3>1. c \in Slots /\ c \notin M /\ conn' = Enter(K, c, r, M)
      BY <1>3
    <3> HIDE DEF K, L
    <3> QED
      BY <3>1, <1>1, EnterFields
  <2>2. CASE d = c
    BY <2>1, <2>2 DEF Opening
  <2>3. CASE d # c
    BY <2>1, <2>3, <1>2
  <2> QED
    BY <2>2, <2>3
<1> HIDE DEF K, L, u
<1>7. Core(conn', L \cup {c})
  <2>1. c \in Slots \ L /\ M \subseteq L /\ conn' = Enter(K, c, r, M)
    BY DEF K, L
  <2>2. /\ r.multicast /\ r.producing =>
               \A d \in L \ M : Alike(c, d) => ~(K[d].multicast /\ K[d].producing)
        /\ r.state = "Established"
        /\ IsIo(c) \/ (~r.consuming /\ ~r.producing)
    BY DEF K, L, Opening
  <2>3. \A d \in L : ~(/\ K[d].state = "Established"
                       /\ K[d].originator = r.originator /\ K[d].serial = r.serial)
    BY <1>4
  <2>4. Core(Enter(K, c, r, M), L \cup {c})
    BY <2>1, <2>2, <2>3, <1>1, CoreEnter
  <2> QED
    BY <2>1, <2>4
<1>8. Held(conn', udp')
  <2>1. c \in Slots \ L /\ M \subseteq L /\ conn' = Enter(K, c, r, M) /\ udp' = u + created
    BY DEF K, L, u
  <2>2. /\ M = {} \/ \E m \in L : M = {m} /\ K[m].producing
        /\ created >= (IF r.consuming THEN 1 ELSE 0)
                      + (IF r.producing /\ M = {} THEN 1 ELSE 0)
    BY DEF K, L, Opening
  <2>3. u + created <= MaxSockets
    BY DEF u
  <2> QED
    BY <2>1, <2>2, <2>3, <1>1, HeldEnter
<1>9. Core(conn, list)' /\ Held(conn, udp)'
  BY <1>5, <1>7, <1>8 DEF Core, Held
<1>10. session' \in [Sessions -> Originators \cup {None}]
  BY DEF IInv
<1> QED
  BY <1>5, <1>6, <1>9, <1>10 DEF Good, IInv

\* A triad that the search does not find is not there.
LEMMA TriadAbsent ==
  ASSUME OrderedList, NEW o, NEW n, WithTriad(o, n, {"Established"}) = {}
  PROVE  \A d \in list : ~(/\ conn[d].state = "Established"
                           /\ conn[d].originator = o /\ conn[d].serial = n)
<1> DEFINE T == {c \in list : /\ conn[c].state \in {"Established"}
                              /\ conn[c].originator = o /\ conn[c].serial = n}
<1>1. List!First(T) = {}
  BY DEF WithTriad
<1>2. T \in SUBSET list
  OBVIOUS
<1>3. T = {}
  <2> HIDE DEF T
  <2> QED
    BY <1>1, <1>2, FirstExists
<1> QED
  BY <1>3

LEMMA OpenExplicitGood ==
  ASSUME IInv, NEW o \in Originators, NEW n \in Serials, NEW s \in Sessions,
         ForwardOpenExplicit(o, n, s)
  PROVE  Good
<1> DEFINE r == Opened(o, n, s, FALSE, FALSE, FALSE)
<1>1. PICK c \in Free("explicit") :
        conn' = [conn EXCEPT ![c] = r] /\ List!Edit({}, {c})
  BY DEF ForwardOpenExplicit
<1>2. node = None /\ UNCHANGED <<node, session, udp>> /\ WithTriad(o, n, {"Established"}) = {}
  BY DEF ForwardOpenExplicit
<1>3. c \in Slots /\ Kind[c] = "explicit" /\ conn[c].state = "NonExistent"
  BY DEF Free, Lowest
<1>4. \A d \in list : ~(/\ conn[d].state = "Established"
                        /\ conn[d].originator = o /\ conn[d].serial = n)
  BY <1>2, TriadAbsent DEF IInv
<1>5. /\ r \in Connection
      /\ r.state = "Established" /\ r.originator = o /\ r.serial = n
      /\ r.multicast = FALSE /\ r.consuming = FALSE /\ r.producing = FALSE
  <2>1. \A m, b, p \in BOOLEAN :
          LET q == Opened(o, n, s, m, b, p)
          IN  /\ q \in Connection
              /\ q.state = "Established" /\ q.originator = o /\ q.serial = n
              /\ q.multicast = m /\ q.consuming = b /\ q.producing = p
    BY OpenedFields
  <2> QED
    BY <2>1
<1> HIDE DEF r
<1>6. /\ conn \in [Slots -> Connection] /\ c \notin list /\ list \subseteq Slots
      /\ udp \in Nat /\ udp <= MaxSockets
  BY <1>3, BoundAssumption DEF IInv, Core, Held, BoundAssumption
<1>7. After({}, {}) = conn
  BY <1>6 DEF After
<1>8. UdpAfter({}, {}) = udp
  <2>1. Cardinality({}) = 0
    BY FS_EmptySet
  <2>2. {x \in {} : conn[x].consuming} = {} /\ {x \in {} : conn[x].producing} = {}
    OBVIOUS
  <2>3. SocketsOf({}) = 0
    BY <2>1, <2>2 DEF SocketsOf
  <2> QED
    BY <2>1, <2>3, <1>6 DEF UdpAfter
<1>9. conn' = Enter(After({}, {}), c, r, {})
  BY <1>1, <1>6, <1>7 DEF Enter
<1>10. Closing({}, {})
  BY DEF Closing
<1>11. c \in Slots \ (list \ {}) /\ {} \subseteq list \ {}
  BY <1>3, <1>6
<1>12. UdpAfter({}, {}) + 0 <= MaxSockets /\ udp' = UdpAfter({}, {}) + 0
  BY <1>2, <1>6, <1>8
<1> QED
  <2>1. Opening({}, {}, c, r, {}, 0)
    BY <1>3, <1>4, <1>5 DEF Opening
  <2>2. 0 \in Nat
    OBVIOUS
  <2> QED
    BY <1>1, <1>2, <1>5, <1>9, <1>10, <1>11, <1>12, <2>1, <2>2, OpenGood

LEMMA CandidateFields ==
  ASSUME NEW o, NEW k \in Kinds \ {"explicit"}, NEW c \in Candidate(o, k)
  PROVE  /\ c \in Slots /\ Kind[c] = k /\ IsIo(c)
         /\ \/ conn[c].state = "NonExistent"
            \/ conn[c].state = "TimedOut" /\ conn[c].originator = o
<1>1. c \in Free(k) \cup Reusable(o, k)
  BY DEF Candidate, Kinds
<1>2. CASE c \in Free(k)
  BY <1>2 DEF Free, Lowest, IsIo
<1>3. CASE c \in Reusable(o, k)
  BY <1>3 DEF Reusable, Lowest, IsIo
<1> QED
  BY <1>1, <1>2, <1>3

\* The connections whose sockets would be taken over: all there are, at most one.
LEMMA MastersFields ==
  ASSUME IInv, NEW S, NEW H, Closing(S, H), NEW c, IsIo(c)
  PROVE  /\ Masters(c, S, H) = {} \/ \E m \in list \ S :
                 /\ Masters(c, S, H) = {m}
                 /\ After(S, H)[m].producing
         /\ \A d \in (list \ S) \ Masters(c, S, H) :
               Alike(c, d) => ~(After(S, H)[d].multicast /\ After(S, H)[d].producing)
<1> DEFINE K == After(S, H)
           X == {d \in SamePoint(c) \ S : K[d].multicast /\ K[d].producing}
<1>1. Masters(c, S, H) = List!First(X)
  BY DEF Masters
<1>2. X \in SUBSET list /\ X \in SUBSET (list \ S)
  BY DEF SamePoint
<1>3. \A d \in list \ S : Alike(c, d) /\ K[d].multicast /\ K[d].producing => d \in X
  BY DEF SamePoint, Alike
<1>4. \A d \in X : Alike(c, d) /\ K[d].multicast /\ K[d].producing
  BY DEF SamePoint, Alike
<1>5. \A d, e \in X : Alike(d, e)
  BY <1>4 DEF Alike
<1>6. Core(K, list \ S)
  BY CoreAfter DEF IInv
<1>7. \A d, e \in X : d = e
  BY <1>2, <1>4, <1>5, <1>6 DEF Core
<1>8. \A d \in X : K[d].producing
  BY <1>4
<1> HIDE DEF X
<1>9. List!First(X) \subseteq X
  BY <1>2, FirstUnique DEF IInv
<1>10. X # {} => List!First(X) # {}
  BY <1>2, FirstExists DEF IInv
<1>11. List!First(X) = X
  BY <1>7, <1>9, <1>10
<1>12. X = {} \/ \E m \in X : X = {m}
  BY <1>7
<1> QED
  BY <1>1, <1>2, <1>3, <1>8, <1>11, <1>12

\* A connection that is established, with its sockets.
LEMMA EstablishGood ==
  ASSUME IInv, node = None, UNCHANGED <<node, session>>,
         NEW o \in Originators, NEW n \in Serials, NEW s \in Sessions, NEW m \in BOOLEAN,
         NEW S, NEW H, Closing(S, H), NEW c \in Slots \ (list \ S), IsIo(c),
         WithTriad(o, n, {"Established"}) = {},
         conn[c].state # "NonExistent" => conn[c].originator = o,
         Establish(c, o, n, s, m, S, H)
  PROVE  Good
<1> DEFINE masters == IF m THEN Masters(c, S, H) ELSE {}
           stolen == IF Kind[c] = "owner" THEN masters ELSE {}
           created == IF masters = {} THEN 2 ELSE 1
           p == masters = {} \/ stolen # {}
           r == Opened(o, n, s, m, TRUE, p)
           K == After(S, H)
<1>1. /\ UdpAfter(S, H) + created <= MaxSockets
      /\ conn' = Enter(K, c, r, stolen)
      /\ List!Edit(S, {c})
      /\ udp' = UdpAfter(S, H) + created
  BY DEF Establish, Enter
<1>2. /\ masters = {} \/ \E d \in list \ S : masters = {d} /\ K[d].producing
      /\ m => \A d \in (list \ S) \ masters :
                 Alike(c, d) => ~(K[d].multicast /\ K[d].producing)
  BY MastersFields
<1>3. p \in BOOLEAN
  OBVIOUS
<1>4. stolen = {} \/ stolen = masters
  OBVIOUS
<1>5. created \in Nat /\ created >= 1 + (IF p /\ stolen = {} THEN 1 ELSE 0)
  OBVIOUS
<1>6. p => masters = {} \/ stolen = masters
  OBVIOUS
<1> HIDE DEF masters, stolen, created, p, r
<1>7. /\ r \in Connection
      /\ r.state = "Established" /\ r.originator = o /\ r.serial = n
      /\ r.multicast = m /\ r.consuming = TRUE /\ r.producing = p
  <2>1. \A b \in BOOLEAN :
          LET q == Opened(o, n, s, m, b, p)
          IN  /\ q \in Connection
              /\ q.state = "Established" /\ q.originator = o /\ q.serial = n
              /\ q.multicast = m /\ q.consuming = b /\ q.producing = p
    BY <1>3, OpenedFields
  <2> QED
    BY <2>1 DEF r
<1>8. \A d \in list : ~(/\ conn[d].state = "Established"
                        /\ conn[d].originator = r.originator /\ conn[d].serial = r.serial)
  BY <1>7, TriadAbsent DEF IInv
<1>9. /\ stolen \subseteq list \ S
      /\ stolen = {} \/ \E d \in list \ S : stolen = {d} /\ K[d].producing
  BY <1>2, <1>4
<1>10. r.multicast /\ r.producing =>
         \A d \in (list \ S) \ stolen : Alike(c, d) => ~(K[d].multicast /\ K[d].producing)
  BY <1>2, <1>4, <1>6, <1>7
<1>11. created >= (IF r.consuming THEN 1 ELSE 0)
                  + (IF r.producing /\ stolen = {} THEN 1 ELSE 0)
  BY <1>5, <1>7
<1>12. conn[c].state # "NonExistent" => conn[c].originator = r.originator
  BY <1>7
<1>13. Opening(S, H, c, r, stolen, created)
  BY <1>7, <1>8, <1>9, <1>10, <1>11, <1>12 DEF Opening
<1> QED
  BY <1>1, <1>5, <1>7, <1>9, <1>13, OpenGood

\* A connection that is refused for want of a socket.
LEMMA NoSocketGood ==
  ASSUME IInv, node = None, UNCHANGED <<node, session>>,
         NEW S, NEW H, Closing(S, H), NEW c, NEW m, NoSocket(c, m, S, H)
  PROVE  Good
<1>1. S \in SUBSET list /\ List!Edit(S, {}) /\ conn' = After(S, H) /\ udp' = MaxSockets
  BY DEF Closing, NoSocket
<1>2. Core(conn', list \ S)
  BY <1>1, CoreAfter DEF IInv
<1>3. Held(conn', udp')
  <2> DEFINE w == Cardinality({d \in Slots : conn'[d].consuming})
                    + Cardinality({d \in Slots : conn'[d].producing})
             u == UdpAfter(S, H)
  <2>1. Held(conn', u)
    BY <1>1, HeldAfter DEF IInv
  <2>2. IsFiniteSet({d \in Slots : conn'[d].consuming})
        /\ IsFiniteSet({d \in Slots : conn'[d].producing})
    BY FS_Subset, SlotAssumption DEF SlotAssumption
  <2>3. w \in Nat
    BY <2>2, FS_CardinalityType
  <2>4. w <= u /\ u \in 0..MaxSockets
    BY <2>1 DEF Held
  <2> HIDE DEF w, u
  <2>5. w <= MaxSockets /\ MaxSockets \in 0..MaxSockets
    BY <2>3, <2>4, BoundAssumption DEF BoundAssumption
  <2> QED
    BY <2>5, <1>1 DEF Held, w
<1>4. Owned
  <2>1. \A d \in Slots : /\ conn'[d].state = IF d \in S THEN "NonExistent" ELSE conn[d].state
                         /\ d \notin S => conn'[d].originator = conn[d].originator
    BY <1>1, AfterFields DEF IInv
  <2> QED
    BY <2>1 DEF Owned
<1>5. {} \in SUBSET Slots /\ {} \cap (list \ S) = {}
  OBVIOUS
<1>6. /\ OrderedList' /\ list' = (list \ S) \cup {}
      /\ node' \in list' \cup {None}
      /\ [List!Next]_(List!listVars)
  BY <1>1, <1>5, HandlerStep
<1>7. list' = list \ S
  BY <1>6
<1>8. Core(conn, list)' /\ Held(conn, udp)'
  BY <1>2, <1>3, <1>7 DEF Core, Held
<1>9. session' \in [Sessions -> Originators \cup {None}]
  BY DEF IInv
<1> QED
  BY <1>4, <1>6, <1>8, <1>9 DEF Good, IInv

LEMMA OpenIoGood ==
  ASSUME IInv, NEW o \in Originators, NEW n \in Serials, NEW s \in Sessions,
         NEW k \in Kinds \ {"explicit"}, NEW m \in BOOLEAN, ForwardOpenIo(o, n, k, s, m)
  PROVE  Good
<1>1. /\ node = None /\ UNCHANGED <<node, session>>
      /\ WithTriad(o, n, {"Established"}) = {}
  BY DEF ForwardOpenIo
<1>2. PICK c \in Candidate(o, k) :
       LET old == conn[c].state = "TimedOut"
           S == IF old THEN ClosedWith(c) ELSE {}
           H == IF old THEN HeirsOfClosed(c) ELSE {}
       IN  \/ Establish(c, o, n, s, m, S, H)
           \/ NoSocket(c, m, S, H)
           \/ old /\ Close(S, H)
  BY DEF ForwardOpenIo
<1> DEFINE old == conn[c].state = "TimedOut"
           S == IF old THEN ClosedWith(c) ELSE {}
           H == IF old THEN HeirsOfClosed(c) ELSE {}
<1>3. Establish(c, o, n, s, m, S, H) \/ NoSocket(c, m, S, H) \/ Close(S, H)
  BY <1>2
<1>4. /\ c \in Slots /\ IsIo(c)
      /\ \/ conn[c].state = "NonExistent"
         \/ conn[c].state = "TimedOut" /\ conn[c].originator = o
  BY CandidateFields
<1>5. Closing(S, H) /\ c \in Slots \ (list \ S)
  <2>1. CASE old
    <3>1. c \in list
      BY <2>1, <1>4 DEF IInv, Core
    <3>2. Closing(ClosedWith(c), HeirsOfClosed(c)) /\ c \in ClosedWith(c)
      BY <3>1, ClosingWithHeirs DEF IInv
    <3> QED
      BY <2>1, <3>2, <1>4
  <2>2. CASE ~old
    <3>1. c \notin list
      BY <2>2, <1>4 DEF IInv, Core
    <3> QED
      BY <2>2, <3>1, <1>4 DEF Closing
  <2> QED
    BY <2>1, <2>2
<1>6. session' \in [Sessions -> Originators \cup {None}]
  BY <1>1 DEF IInv
<1>7. conn[c].state # "NonExistent" => conn[c].originator = o
  BY <1>4
<1> HIDE DEF S, H
<1>8. CASE Establish(c, o, n, s, m, S, H)
  BY <1>1, <1>4, <1>5, <1>7, <1>8, EstablishGood
<1>9. CASE NoSocket(c, m, S, H)
  BY <1>1, <1>5, <1>9, NoSocketGood
<1>10. CASE Close(S, H)
  BY <1>1, <1>5, <1>6, <1>10, CloseGood
<1> QED
  BY <1>3, <1>8, <1>9, <1>10
-----------------------------------------------------------------------------
(* The other handlers, and every step. *)

LEMMA ForwardCloseGood ==
  ASSUME IInv, NEW o, NEW n, ForwardClose(o, n)
  PROVE  Good
<1>1. node = None /\ UNCHANGED <<node, session>>
  BY DEF ForwardClose
<1>2. PICK c \in WithTriad(o, n, {"Established", "TimedOut"}) :
        Close(ClosedWith(c), HeirsOfClosed(c))
  BY DEF ForwardClose
<1>3. c \in list
  BY DEF WithTriad, List!First
<1>4. Closing(ClosedWith(c), HeirsOfClosed(c))
  BY <1>3, ClosingWithHeirs DEF IInv
<1>5. session' \in [Sessions -> Originators \cup {None}]
  BY <1>1 DEF IInv
<1> QED
  BY <1>1, <1>2, <1>4, <1>5, CloseGood

LEMMA RegisterGood ==
  ASSUME IInv, NEW o \in Originators, RegisterSession(o)
  PROVE  Good
<1>1. UNCHANGED <<conn, list, ahead, node, udp>>
  BY DEF RegisterSession
<1>2. PICK s : session' = [session EXCEPT ![s] = o]
  BY DEF RegisterSession
<1>3. session' \in [Sessions -> Originators \cup {None}]
  BY <1>2 DEF IInv
<1> QED
  BY <1>1, <1>3, SameGood

LEMMA EndSessionGood ==
  ASSUME IInv, NEW s \in Sessions, EndSession(s)
  PROVE  Good
<1> DEFINE S == Class3Of({s})
<1>1. node = None /\ UNCHANGED node /\ Close(S, {})
  BY DEF EndSession
<1>2. session' \in [Sessions -> Originators \cup {None}]
  BY DEF EndSession, IInv
<1>3. S \in SUBSET list
  BY Class3Listed DEF IInv
<1> HIDE DEF S
<1>4. Closing(S, {})
  BY <1>3, ClosingAlone
<1> QED
  BY <1>1, <1>2, <1>4, CloseGood

LEMMA ResetGood ==
  ASSUME IInv, ResetDevice
  PROVE  Good
<1>1. node = None /\ UNCHANGED <<node, session>> /\ Close(list, {})
  BY DEF ResetDevice
<1>2. session' \in [Sessions -> Originators \cup {None}]
  BY <1>1 DEF IInv
<1>3. Closing(list, {})
  BY ClosingAlone
<1> QED
  BY <1>1, <1>2, <1>3, CloseGood

LEMMA NextGood == IInv /\ [Next]_vars => Good
<1> SUFFICES ASSUME IInv, [Next]_vars PROVE Good
  OBVIOUS
<1>1. ASSUME NEW o \in Originators, NEW n \in Serials, NEW s \in Sessions,
             NEW k \in Kinds \ {"explicit"}, NEW m \in BOOLEAN, ForwardOpenIo(o, n, k, s, m)
      PROVE  Good
  BY <1>1, OpenIoGood
<1>2. ASSUME NEW o \in Originators, NEW n \in Serials, NEW s \in Sessions,
             ForwardOpenExplicit(o, n, s)
      PROVE  Good
  BY <1>2, OpenExplicitGood
<1>3. ASSUME NEW o \in Originators, NEW n \in Serials, ForwardClose(o, n) PROVE Good
  BY <1>3, ForwardCloseGood
<1>4. ASSUME NEW o \in Originators, RegisterSession(o) PROVE Good
  BY <1>4, RegisterGood
<1>5. ASSUME NEW s \in Sessions, EndSession(s) PROVE Good
  BY <1>5, EndSessionGood
<1>6. CASE ResetDevice
  BY <1>6, ResetGood
<1>7. CASE StartTick
  BY <1>7, StartGood
<1>8. CASE PassOver \/ CountDown
  BY <1>8, TickGood
<1>9. ASSUME NEW c \in Slots, ReceiveData(c) PROVE Good
  BY <1>9, DataGood
<1>10. ASSUME NEW c \in Slots, TimeOutExplicit(c) PROVE Good
  BY <1>10, TimeOutExplicitGood
<1>11. ASSUME NEW c \in Slots, TimeOutIo(c) PROVE Good
  BY <1>11, TimeOutIoGood
<1>12. CASE UNCHANGED vars
  <2>1. UNCHANGED <<conn, list, ahead, node, udp>> /\ UNCHANGED session
    BY <1>12 DEF vars
  <2>2. session' \in [Sessions -> Originators \cup {None}]
    BY <2>1 DEF IInv
  <2> QED
    BY <2>1, <2>2, SameGood
<1> QED
  BY <1>1, <1>2, <1>3, <1>4, <1>5, <1>6, <1>7, <1>8, <1>9, <1>10, <1>11, <1>12 DEF Next
-----------------------------------------------------------------------------
(* The holder of a multicast socket. *)

\* There is one exclusive owner, it holds its multicast socket itself, and a
\* multicast input-only connection has a holder, of those of L.
Kept(K, L) ==
  /\ \A c, d \in L : Kind[c] = "owner" /\ Kind[d] = "owner" => c = d
  /\ \A c \in L : (/\ Kind[c] = "owner" /\ K[c].state = "Established"
                   /\ K[c].multicast) => K[c].producing
  /\ \A c \in L : (/\ Kind[c] = "input" /\ K[c].state = "Established" /\ K[c].multicast)
                    => \E d \in L : Alike(c, d) /\ K[d].multicast /\ K[d].producing

\* No search for a holder fails because of what is closed: the heir of a holder
\* that is closed is another one.
LEMMA KeptAfter ==
  ASSUME Core(conn, list), Kept(conn, list), NEW S, NEW H, Closing(S, H),
         \A e \in list \ S, d \in S :
            (/\ Kind[e] = "input" /\ conn[e].state = "Established" /\ conn[e].multicast
             /\ Alike(e, d) /\ IsMaster(d))
              => \E h \in H : Alike(d, h) /\ conn[h].multicast
  PROVE  Kept(After(S, H), list \ S)
<1> DEFINE K == After(S, H)
           L == list \ S
<1>1. \A d \in L : /\ K[d].state = conn[d].state /\ K[d].multicast = conn[d].multicast
                   /\ K[d].producing <=> d \in H \/ conn[d].producing
  <2>1. list \subseteq Slots
    BY DEF Core
  <2> QED
    BY <2>1, AfterFields
<1> HIDE DEF K
<1>2. \A c, d \in L : Kind[c] = "owner" /\ Kind[d] = "owner" => c = d
  BY DEF Kept
<1>3. \A c \in L : (/\ Kind[c] = "owner" /\ K[c].state = "Established"
                    /\ K[c].multicast) => K[c].producing
  BY <1>1 DEF Kept
<1>4. ASSUME NEW c \in L, Kind[c] = "input", K[c].state = "Established", K[c].multicast
      PROVE  \E d \in L : Alike(c, d) /\ K[d].multicast /\ K[d].producing
  <2>1. conn[c].state = "Established" /\ conn[c].multicast
    BY <1>1, <1>4
  <2>2. PICK d \in list : Alike(c, d) /\ conn[d].multicast /\ conn[d].producing
    BY <2>1, <1>4 DEF Kept
  <2>3. CASE d \notin S
    BY <2>2, <2>3, <1>1
  <2>4. CASE d \in S
    <3>1. IsMaster(d)
      BY <2>2 DEF IsMaster
    <3>2. PICK h \in H : Alike(d, h) /\ conn[h].multicast
      BY <2>1, <2>2, <2>4, <3>1, <1>4
    <3>3. h \in L /\ Alike(c, h)
      BY <2>2, <3>2 DEF Closing, Alike
    <3> QED
      BY <3>2, <3>3, <1>1
  <2> QED
    BY <2>3, <2>4
<1> QED
  BY <1>2, <1>3, <1>4 DEF Kept, K

\* Connections that hold no multicast socket may go, explicit ones among them.
LEMMA KeptWithout ==
  ASSUME Core(conn, list), Kept(conn, list), NEW S \in SUBSET list,
         \A d \in S : ~IsIo(d)
  PROVE  Kept(After(S, {}), list \ S)
<1>1. Closing(S, {})
  BY ClosingAlone
<1>2. \A e, d : d \in S => ~Alike(e, d)
  BY DEF Alike
<1> QED
  BY <1>1, <1>2, KeptAfter

\* CloseIoConnection, whatever the connection.
LEMMA KeptClosed ==
  ASSUME IInv, Kept(conn, list), NEW c \in list
  PROVE  Kept(After(ClosedWith(c), HeirsOfClosed(c)), list \ ClosedWith(c))
<1> DEFINE S == ClosedWith(c)
           H == HeirsOfClosed(c)
           X == {d \in SamePoint(c) \ {c} : /\ Kind[d] # "listen"
                                            /\ conn[d].state = "Established"
                                            /\ conn[d].multicast
                                            /\ ~conn[d].producing}
<1>1. Closing(S, H) /\ c \in S
  BY ClosingWithHeirs DEF IInv
<1>2. SUFFICES ASSUME NEW e \in list \ S, NEW d \in S,
                      Kind[e] = "input", conn[e].state = "Established", conn[e].multicast,
                      Alike(e, d), IsMaster(d)
               PROVE  \E h \in H : Alike(d, h) /\ conn[h].multicast
  BY <1>1, KeptAfter DEF IInv
<1>3. Kind[d] # "listen"
  BY <1>2, PointAssumption DEF Alike, PointAssumption
<1>4. d = c
  BY <1>3 DEF ClosedWith, Listeners
<1>5. Kind[c] \in {"owner", "input"} /\ IsMaster(c)
  <2>1. Kind[c] \in Kinds
    BY SlotAssumption DEF SlotAssumption, IInv, Core
  <2>2. Kind[c] # "explicit"
    BY <1>2, <1>4 DEF Alike, IsIo
  <2> QED
    BY <2>1, <2>2, <1>2, <1>3, <1>4 DEF Kinds
<1>6. e \in X
  <2>1. e # c /\ e \in SamePoint(c)
    BY <1>1, <1>2, <1>4 DEF SamePoint, Alike
  <2>2. ~conn[e].producing
    BY <2>1, <1>2, <1>4, <1>5 DEF IInv, Core, IsMaster
  <2> QED
    BY <2>1, <2>2, <1>2
<1>7. X \in SUBSET list
  BY DEF SamePoint
<1>8. H = List!First(X)
  BY <1>5 DEF HeirsOfClosed, Heirs
<1>9. \A h \in X : Alike(c, h) /\ conn[h].multicast
  BY <1>2, <1>4 DEF SamePoint, Alike, IsIo
<1> HIDE DEF X, S, H
<1>10. List!First(X) # {} /\ List!First(X) \subseteq X
  BY <1>6, <1>7, FirstExists, FirstUnique DEF IInv
<1> QED
  BY <1>4, <1>8, <1>9, <1>10

\* A connection that times out keeps its socket or hands it on.
LEMMA KeptExpire ==
  ASSUME NEW K, NEW L, Core(K, L), Kept(K, L), NEW c \in L, NEW H, Handing(K, L, c, H),
         \A h \in H : K[h].multicast,
         Kind[c] = "owner" => H = {}
  PROVE  Kept(Expire(K, c, H), L)
<1> DEFINE N == Expire(K, c, H)
<1>0. L \subseteq Slots
  BY DEF Core
<1>1. \A d \in L :
        /\ N[d].state = IF d = c THEN "TimedOut" ELSE K[d].state
        /\ N[d].multicast = K[d].multicast
        /\ N[d].producing <=> \/ d = c /\ H = {} /\ K[d].producing
                              \/ d # c /\ (d \in H \/ K[d].producing)
  BY <1>0, ExpireFields
<1> HIDE DEF N
<1>2. \A d \in L : (/\ Kind[d] = "owner" /\ N[d].state = "Established"
                    /\ N[d].multicast) => N[d].producing
  BY <1>1 DEF Kept
<1>3. ASSUME NEW e \in L, Kind[e] = "input", N[e].state = "Established", N[e].multicast
      PROVE  \E d \in L : Alike(e, d) /\ N[d].multicast /\ N[d].producing
  <2>1. PICK d \in L : Alike(e, d) /\ K[d].multicast /\ K[d].producing
    BY <1>1, <1>3 DEF Kept
  <2>2. CASE d # c \/ H = {}
    BY <2>1, <2>2, <1>1
  <2>3. CASE d = c /\ H # {}
    <3>1. PICK h \in L : H = {h} /\ Alike(c, h)
      BY <2>3 DEF Handing
    <3>2. h # c /\ K[h].multicast /\ Alike(e, h)
      BY <2>1, <2>3, <3>1 DEF Handing, Alike
    <3> QED
      BY <3>1, <3>2, <1>1
  <2> QED
    BY <2>2, <2>3
<1>4. \A d, e \in L : Kind[d] = "owner" /\ Kind[e] = "owner" => d = e
  BY DEF Kept
<1> QED
  BY <1>2, <1>3, <1>4 DEF Kept, N

\* A connection that is opened has a holder, and takes one away only by becoming one.
LEMMA KeptEnter ==
  ASSUME NEW K, NEW L, Core(K, L), Kept(K, L), NEW c \in Slots \ L, NEW r \in Connection,
         NEW M, M \subseteq L,
         Kind[c] = "owner" => \A d \in L : Kind[d] # "owner",
         Kind[c] = "owner" /\ r.multicast => r.producing,
         M # {} => Kind[c] = "owner" /\ r.multicast /\ \A d \in M : Alike(c, d),
         Kind[c] = "input" /\ r.multicast =>
            \/ r.producing
            \/ \E d \in L : Alike(c, d) /\ K[d].multicast /\ K[d].producing
  PROVE  Kept(Enter(K, c, r, M), L \cup {c})
<1> DEFINE N == Enter(K, c, r, M)
<1>1. L \subseteq Slots /\ c \notin L
  BY DEF Core
<1>2. /\ N[c] = r
      /\ \A d \in L : /\ N[d].state = K[d].state /\ N[d].multicast = K[d].multicast
                      /\ N[d].producing <=> d \notin M /\ K[d].producing
  BY <1>1, EnterFields
<1> HIDE DEF N
<1>3. \A d, e \in L \cup {c} : Kind[d] = "owner" /\ Kind[e] = "owner" => d = e
  BY DEF Kept
<1>4. \A d \in L \cup {c} : (/\ Kind[d] = "owner" /\ N[d].state = "Established"
                             /\ N[d].multicast) => N[d].producing
  BY <1>2 DEF Kept
<1>5. ASSUME NEW e \in L, Kind[e] = "input", N[e].state = "Established", N[e].multicast
      PROVE  \E d \in L \cup {c} : Alike(e, d) /\ N[d].multicast /\ N[d].producing
  <2>1. PICK d \in L : Alike(e, d) /\ K[d].multicast /\ K[d].producing
    BY <1>2, <1>5 DEF Kept
  <2>2. CASE d \notin M
    BY <2>1, <2>2, <1>2
  <2>3. CASE d \in M
    <3>1. r.multicast /\ r.producing /\ Alike(c, d)
      BY <2>3
    <3>2. Alike(e, c)
      BY <2>1, <3>1 DEF Alike
    <3> QED
      BY <3>1, <3>2, <1>2
  <2> QED
    BY <2>2, <2>3
<1>6. Kind[c] = "input" /\ N[c].multicast =>
        \E d \in L \cup {c} : Alike(c, d) /\ N[d].multicast /\ N[d].producing
  <2> SUFFICES ASSUME Kind[c] = "input", r.multicast
               PROVE  \E d \in L \cup {c} : Alike(c, d) /\ N[d].multicast /\ N[d].producing
    BY <1>2
  <2>1. M = {} /\ Alike(c, c)
    BY DEF Alike, IsIo
  <2>2. CASE r.producing
    BY <2>1, <2>2, <1>2
  <2>3. ASSUME NEW d \in L, Alike(c, d), K[d].multicast, K[d].producing
        PROVE  \E e \in L \cup {c} : Alike(c, e) /\ N[e].multicast /\ N[e].producing
    BY <2>1, <2>3, <1>2
  <2> QED
    BY <2>2, <2>3
<1> QED
  BY <1>3, <1>4, <1>5, <1>6 DEF Kept, N

\* The actions, for the holders.
LEMMA KeptIoTimeOut ==
  ASSUME IInv, Kept(conn, list), NEW c \in Slots, TimeOutIo(c)
  PROVE  Kept(conn', list')
<1>1. PICK S, H : Expiry(c, S, H)
  BY IoTimeOutIsExpiry
<1> DEFINE K == After(S, {})
           L == list \ S
<1>2. /\ S \subseteq list /\ c \in L /\ list' = L /\ conn' = Expire(K, c, H)
      /\ Core(K, L) /\ Handing(K, L, c, H)
      /\ \A d \in L : K[d] = conn[d]
      /\ \A h \in H : conn[h].multicast
      /\ Kind[c] = "owner" => H = {}
  BY <1>1 DEF Expiry, List!Edit
<1>3. \A h \in H : K[h].multicast
  BY <1>2 DEF Handing
<1>4. Kept(K, L)
  <2>1. Closing(S, {})
    BY <1>2, ClosingAlone
  <2>2. ASSUME NEW e \in L, NEW d \in S,
               Kind[e] = "input", conn[e].state = "Established", conn[e].multicast,
               Alike(e, d), IsMaster(d)
        PROVE  FALSE
    <3>1. Kind[d] # "listen"
      BY <2>2, PointAssumption DEF Alike, PointAssumption
    <3>2. Kind[c] = "owner" /\ conn[c].multicast /\ Alike(c, d)
      BY <2>2, <3>1, <1>1 DEF Expiry, Alike
    <3>3. Alike(c, e) /\ e \in list
      BY <2>2, <3>2 DEF Alike
    <3>4. e \in S
      BY <2>2, <3>2, <3>3, <1>1 DEF Expiry
    <3> QED
      BY <3>4
  <2> QED
    BY <2>1, <2>2, KeptAfter DEF IInv
<1> HIDE DEF K, L
<1> QED
  BY <1>2, <1>3, <1>4, KeptExpire

\* What a new owner finds: the one before it has been closed.
LEMMA CandidateAlone ==
  ASSUME Kept(conn, list), NEW o, NEW k \in Kinds \ {"explicit"}, NEW c \in Candidate(o, k),
         k = "owner", NEW S, conn[c].state = "TimedOut" => c \in S,
         c \in list <=> conn[c].state # "NonExistent", Kind[c] = k
  PROVE  \A d \in list \ S : Kind[d] # "owner"
<1>1. CASE Owners(k) = {}
  BY <1>1 DEF Owners
<1>2. CASE Owners(k) # {}
  <2>1. c \in Reusable(o, k)
    BY <1>2 DEF Candidate
  <2>2. conn[c].state = "TimedOut"
    BY <2>1 DEF Reusable, Lowest
  <2>3. c \in list /\ c \in S
    BY <2>2
  <2> QED
    BY <2>3 DEF Kept
<1> QED
  BY <1>1, <1>2

LEMMA KeptEstablish ==
  ASSUME IInv, NEW o \in Originators, NEW n \in Serials, NEW s \in Sessions, NEW m \in BOOLEAN,
         NEW S, NEW H, Closing(S, H), NEW c \in Slots \ (list \ S), IsIo(c),
         Kept(After(S, H), list \ S),
         Kind[c] = "owner" => \A d \in list \ S : Kind[d] # "owner",
         Establish(c, o, n, s, m, S, H)
  PROVE  Kept(conn', list')
<1> DEFINE masters == IF m THEN Masters(c, S, H) ELSE {}
           stolen == IF Kind[c] = "owner" THEN masters ELSE {}
           p == masters = {} \/ stolen # {}
           r == Opened(o, n, s, m, TRUE, p)
           K == After(S, H)
           L == list \ S
<1>1. /\ conn' = Enter(K, c, r, stolen)
      /\ list' = L \cup {c}
  BY DEF Establish, Enter, List!Edit
<1>2. \A d \in masters : d \in L /\ m /\ Alike(c, d) /\ K[d].multicast /\ K[d].producing
  BY DEF Masters, List!First, SamePoint, Alike
<1>3. p \in BOOLEAN /\ stolen \subseteq masters
  OBVIOUS
<1>4. Kind[c] = "owner" => stolen = masters /\ p
  OBVIOUS
<1>5. stolen # {} => Kind[c] = "owner"
  OBVIOUS
<1>6. ~p => masters # {}
  OBVIOUS
<1> HIDE DEF masters, stolen, p, r, K, L
<1>7. r \in Connection /\ r.multicast = m /\ r.producing = p
  <2>1. \A b \in BOOLEAN : LET q == Opened(o, n, s, m, b, p)
                           IN  q \in Connection /\ q.multicast = m /\ q.producing = p
    BY <1>3, OpenedFields
  <2> QED
    BY <2>1 DEF r
<1>8. /\ Core(K, L) /\ Kept(K, L) /\ c \in Slots \ L
      /\ Kind[c] = "owner" => \A d \in L : Kind[d] # "owner"
  BY CoreAfter DEF IInv, K, L
<1>9. /\ stolen \subseteq L
      /\ Kind[c] = "owner" /\ r.multicast => r.producing
      /\ stolen # {} => Kind[c] = "owner" /\ r.multicast /\ \A d \in stolen : Alike(c, d)
  BY <1>2, <1>3, <1>4, <1>5, <1>7
<1>10. Kind[c] = "input" /\ r.multicast =>
          \/ r.producing
          \/ \E d \in L : Alike(c, d) /\ K[d].multicast /\ K[d].producing
  BY <1>2, <1>6, <1>7
<1>11. Kept(Enter(K, c, r, stolen), L \cup {c})
  BY <1>7, <1>8, <1>9, <1>10, KeptEnter
<1> QED
  BY <1>1, <1>11

LEMMA KeptOpenIo ==
  ASSUME IInv, Kept(conn, list), NEW o \in Originators, NEW n \in Serials, NEW s \in Sessions,
         NEW k \in Kinds \ {"explicit"}, NEW m \in BOOLEAN, ForwardOpenIo(o, n, k, s, m)
  PROVE  Kept(conn', list')
<1>1. PICK c \in Candidate(o, k) :
       LET old == conn[c].state = "TimedOut"
           S == IF old THEN ClosedWith(c) ELSE {}
           H == IF old THEN HeirsOfClosed(c) ELSE {}
       IN  \/ Establish(c, o, n, s, m, S, H)
           \/ NoSocket(c, m, S, H)
           \/ old /\ Close(S, H)
  BY DEF ForwardOpenIo
<1> DEFINE old == conn[c].state = "TimedOut"
           S == IF old THEN ClosedWith(c) ELSE {}
           H == IF old THEN HeirsOfClosed(c) ELSE {}
<1>2. Establish(c, o, n, s, m, S, H) \/ NoSocket(c, m, S, H) \/ Close(S, H)
  BY <1>1
<1>3. /\ c \in Slots /\ IsIo(c) /\ Kind[c] = k
      /\ conn[c].state = "NonExistent" \/ old
  BY CandidateFields
<1>4. c \in list <=> conn[c].state # "NonExistent"
  BY <1>3 DEF IInv, Core
<1>5. Closing(S, H) /\ (old => c \in S) /\ Kept(After(S, H), list \ S)
  <2>1. CASE old
    <3>1. c \in list
      BY <2>1, <1>4
    <3>2. Closing(ClosedWith(c), HeirsOfClosed(c)) /\ c \in ClosedWith(c)
      BY <3>1, ClosingWithHeirs DEF IInv
    <3>3. Kept(After(ClosedWith(c), HeirsOfClosed(c)), list \ ClosedWith(c))
      BY <3>1, KeptClosed
    <3> QED
      BY <2>1, <3>2, <3>3
  <2>2. CASE ~old
    <3>1. S = {} /\ H = {} /\ Closing({}, {})
      BY <2>2 DEF Closing
    <3>2. {} \in SUBSET list
      OBVIOUS
    <3>3. Kept(After({}, {}), list \ {})
      BY <3>2, KeptWithout DEF IInv
    <3> QED
      BY <2>2, <3>1, <3>3
  <2> QED
    BY <2>1, <2>2
<1>6. c \in Slots \ (list \ S)
  BY <1>3, <1>4, <1>5
<1>7. Kind[c] = "owner" => \A d \in list \ S : Kind[d] # "owner"
  <2> HIDE DEF S, H
  <2> QED
    BY <1>3, <1>4, <1>5, CandidateAlone
<1> HIDE DEF S, H, old
<1>8. CASE Establish(c, o, n, s, m, S, H)
  BY <1>3, <1>5, <1>6, <1>7, <1>8, KeptEstablish
<1>9. CASE NoSocket(c, m, S, H) \/ Close(S, H)
  <2>1. conn' = After(S, H) /\ list' = (list \ S) \cup {}
    BY <1>9 DEF NoSocket, Close, List!Edit
  <2>2. list' = list \ S
    BY <2>1
  <2> QED
    BY <2>1, <2>2, <1>5
<1> QED
  BY <1>2, <1>8, <1>9

LEMMA KeptOpenExplicit ==
  ASSUME IInv, Kept(conn, list), NEW o \in Originators, NEW n \in Serials, NEW s \in Sessions,
         ForwardOpenExplicit(o, n, s)
  PROVE  Kept(conn', list')
<1> DEFINE r == Opened(o, n, s, FALSE, FALSE, FALSE)
<1>1. PICK c \in Free("explicit") : conn' = [conn EXCEPT ![c] = r] /\ List!Edit({}, {c})
  BY DEF ForwardOpenExplicit
<1>2. c \in Slots /\ Kind[c] = "explicit" /\ conn[c].state = "NonExistent"
  BY DEF Free, Lowest
<1>3. r \in Connection
  <2>1. FALSE \in BOOLEAN
    OBVIOUS
  <2> QED
    BY <2>1, OpenedFields
<1> HIDE DEF r
<1>4. list' = list \cup {c} /\ c \in Slots \ list
  BY <1>1, <1>2 DEF List!Edit, IInv, Core
<1>5. conn' = Enter(conn, c, r, {})
  BY <1>1 DEF Enter, IInv, Core
<1>6. Core(conn, list)
  BY DEF IInv
<1>7. Kept(Enter(conn, c, r, {}), list \cup {c})
  BY <1>2, <1>3, <1>4, <1>6, KeptEnter
<1> QED
  BY <1>4, <1>5, <1>7

LEMMA KeptSame ==
  ASSUME Core(conn, list), Kept(conn, list), list' = list,
         \A d \in Slots : /\ conn'[d].state = conn[d].state
                          /\ conn'[d].multicast = conn[d].multicast
                          /\ conn'[d].producing = conn[d].producing
  PROVE  Kept(conn', list')
<1>1. list \subseteq Slots
  BY DEF Core
<1>2. \A d \in list : /\ conn'[d].state = conn[d].state
                      /\ conn'[d].multicast = conn[d].multicast
                      /\ conn'[d].producing = conn[d].producing
  BY <1>1
<1> QED
  BY <1>2 DEF Kept

LEMMA KeptStep == IInv /\ Kept(conn, list) /\ [Next]_vars => Kept(conn, list)'
<1> SUFFICES ASSUME IInv, Kept(conn, list), [Next]_vars PROVE Kept(conn', list')
  BY DEF Kept
<1>1. ASSUME NEW o \in Originators, NEW n \in Serials, NEW s \in Sessions,
             NEW k \in Kinds \ {"explicit"}, NEW m \in BOOLEAN, ForwardOpenIo(o, n, k, s, m)
      PROVE  Kept(conn', list')
  BY <1>1, KeptOpenIo
<1>2. ASSUME NEW o \in Originators, NEW n \in Serials, NEW s \in Sessions,
             ForwardOpenExplicit(o, n, s)
      PROVE  Kept(conn', list')
  BY <1>2, KeptOpenExplicit
<1>3. ASSUME NEW o \in Originators, NEW n \in Serials, ForwardClose(o, n)
      PROVE  Kept(conn', list')
  <2>1. PICK c \in WithTriad(o, n, {"Established", "TimedOut"}) :
          Close(ClosedWith(c), HeirsOfClosed(c))
    BY <1>3 DEF ForwardClose
  <2>2. c \in list
    BY DEF WithTriad, List!First
  <2>3. conn' = After(ClosedWith(c), HeirsOfClosed(c)) /\ list' = list \ ClosedWith(c)
    BY <2>1 DEF Close, List!Edit
  <2> QED
    BY <2>2, <2>3, KeptClosed
<1>4. CASE \/ \E o \in Originators : RegisterSession(o)
           \/ StartTick \/ PassOver \/ UNCHANGED vars
  <2>1. conn' = conn /\ list' = list
    BY <1>4 DEF RegisterSession, StartTick, PassOver, vars, List!StartWalk
  <2> QED
    BY <2>1
<1>5. ASSUME NEW s \in Sessions, EndSession(s) PROVE Kept(conn', list')
  <2>1. conn' = After(Class3Of({s}), {}) /\ list' = list \ Class3Of({s})
    BY <1>5 DEF EndSession, Close, List!Edit
  <2>2. Class3Of({s}) \in SUBSET list /\ \A d \in Class3Of({s}) : ~IsIo(d)
    BY Class3Listed DEF IInv, IsIo
  <2> QED
    BY <2>1, <2>2, KeptWithout DEF IInv
<1>6. CASE ResetDevice
  <2>1. list' = {}
    BY <1>6 DEF ResetDevice, Close, List!Edit
  <2> QED
    BY <2>1 DEF Kept
<1>7. ASSUME NEW c \in Slots, TimeOutExplicit(c) PROVE Kept(conn', list')
  <2>1. /\ conn' = After({c}, {}) /\ list' = list \ {c}
        /\ {c} \in SUBSET list /\ \A d \in {c} : ~IsIo(d)
    BY <1>7, SlotAssumption
       DEF TimeOutExplicit, Expired, Close, List!Edit, IInv, SlotAssumption
  <2> QED
    BY <2>1, KeptWithout DEF IInv
<1>8. ASSUME NEW c \in Slots, TimeOutIo(c) PROVE Kept(conn', list')
  BY <1>8, KeptIoTimeOut
<1>9. ASSUME NEW c \in Slots, NEW w \in 0..Watchdog,
             conn' = [conn EXCEPT ![c].watchdog = w], list' = list
      PROVE  Kept(conn', list')
  BY <1>9, WatchdogChanges, KeptSame DEF IInv
<1>10. CASE CountDown
  <2>1. node \in Slots /\ list' = list
        /\ conn' = [conn EXCEPT ![node].watchdog = conn[node].watchdog - 1]
    BY <1>10 DEF CountDown, IInv, Core
  <2>2. conn[node].watchdog \in 0..Watchdog /\ conn[node].watchdog > 1
    BY <1>10, <2>1, RecordFields DEF CountDown, IInv, Core
  <2>3. conn[node].watchdog - 1 \in 0..Watchdog
    BY <2>2, BoundAssumption DEF BoundAssumption
  <2> QED
    BY <2>1, <2>3, <1>9
<1>11. ASSUME NEW c \in Slots, ReceiveData(c) PROVE Kept(conn', list')
  <2>1. Watchdog \in 0..Watchdog
    BY BoundAssumption DEF BoundAssumption
  <2> QED
    BY <1>11, <2>1, <1>9 DEF ReceiveData
<1> QED
  BY <1>1, <1>2, <1>3, <1>4, <1>5, <1>6, <1>7, <1>8, <1>10, <1>11 DEF Next
-----------------------------------------------------------------------------
(* The theorems. *)

\* The inductive invariant: list and objects agree, the list is in order, every
\* socket an object holds is open, masters and triads are unique.
THEOREM Invariant == Spec => []IInv
<1>1. Init => IInv
  BY InitInv
<1>2. IInv /\ [Next]_vars => IInv'
  BY NextGood DEF Good
<1> QED
  BY <1>1, <1>2, PTL DEF Spec

\* Every handler leaves objects, list, sessions and sockets within their types.
THEOREM TypeCorrect == Spec => []TypeOK
<1>1. IInv => TypeOK
  BY DEF IInv, TypeOK, Core, Held, OrderedList
<1> QED
  BY <1>1, Invariant, PTL

\* Whatever order connections are opened, closed and timed out in, the list holds
\* exactly the objects in use (AddNewActiveConnection, RemoveFromActiveConnections).
THEOREM ListIsExact == Spec => []ListExact
<1>1. IInv => ListExact
  BY DEF IInv, ListExact, Core
<1> QED
  BY <1>1, Invariant, PTL

\* No Forward Open duplicates a triad that is established
\* (CheckForExistingConnection searches the whole list).
THEOREM TriadsUnique == Spec => []TriadUnique
<1>1. IInv => TriadUnique
  BY DEF IInv, TriadUnique, Core
<1> QED
  BY <1>1, Invariant, PTL

\* The sockets of the connections are open: none is closed under its holder
\* when it is handed on or taken over.
THEOREM SocketsAreHeld == Spec => []SocketsHeld
<1>1. IInv => SocketsHeld
  <2> SUFFICES ASSUME IInv PROVE SocketsHeld
    OBVIOUS
  <2>1. /\ {c \in list : conn[c].consuming} = {c \in Slots : conn[c].consuming}
        /\ {c \in list : conn[c].producing} = {c \in Slots : conn[c].producing}
    BY DEF IInv, Core
  <2> QED
    BY <2>1 DEF IInv, Held, SocketsHeld, SocketsOf
<1> QED
  BY <1>1, Invariant, PTL

\* Each input assembly has at most one multicast producer
\* (GetExistingProducerIoConnection, GetNextNonControlMasterConnection).
THEOREM MasterIsUnique == Spec => []MasterUnique
<1>1. IInv => MasterUnique
  BY DEF IInv, MasterUnique, Core, Alike, SamePoint, IsMaster
<1> QED
  BY <1>1, Invariant, PTL

\* A multicast owner or input-only connection keeps a holder of its socket in the
\* list, however the connections of its assembly are closed, time out or take the
\* socket over (CloseIoConnection, HandleIoConnectionTimeOut,
\* OpenProducingMulticastConnection).
THEOREM MasterIsKept == Spec => []MasterKept
<1>1. Init => Kept(conn, list)
  BY DEF Init, List!Init, Kept
<1>2. IInv /\ Kept(conn, list) => MasterKept
  <2> SUFFICES ASSUME IInv, Kept(conn, list), NEW c \in list,
                      Kind[c] \in {"owner", "input"},
                      conn[c].state = "Established", conn[c].multicast
               PROVE  \E d \in SamePoint(c) : IsMaster(d)
    BY DEF MasterKept
  <2>1. PICK d \in list : Alike(c, d) /\ conn[d].multicast /\ conn[d].producing
    <3>1. Alike(c, c)
      BY DEF Alike, IsIo
    <3> QED
      BY <3>1 DEF Kept
  <2> QED
    BY <2>1 DEF SamePoint, IsMaster, Alike
<1> QED
  BY <1>1, <1>2, KeptStep, Invariant, PTL DEF Spec

\* An owner's object passes to another originator only after it was closed
\* (GetExclusiveOwnerConnection reuses the time-outs of the same originator).
THEOREM OwnershipIsKept == Spec => OwnershipKept
<1>1. IInv /\ [Next]_vars => [Owned]_vars
  BY NextGood DEF Good
<1> QED
  BY <1>1, Invariant, PTL DEF Spec, OwnershipKept

\* The refinement: what the handlers do to the list is what ActiveList allows.
THEOREM ListRefines == Spec => ListRefined
<1>1. Init => List!Init
  BY DEF Init
<1>2. IInv /\ [Next]_vars => [List!Next]_(List!listVars)
  BY NextGood DEF Good
<1> QED
  BY <1>1, <1>2, Invariant, PTL DEF Spec, ListRefined, List!Spec
=============================================================================
