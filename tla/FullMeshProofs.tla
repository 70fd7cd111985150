--------------------------- MODULE FullMeshProofs ---------------------------
(***************************************************************************)
(* Proofs about FullMesh, for any set of peers and any interleaving of     *)
(* their tasks.                                                            *)
(***************************************************************************)
EXTENDS FullMesh, TLAPS

LEMMA InitInvariant == Init => Invariant
<1> SUFFICES ASSUME Init PROVE Invariant
    OBVIOUS
<1>1. TypeOK
    <2>1. open \in [Peer -> BOOLEAN] /\ serial \in BOOLEAN
        BY ModesAssumption, Zenon DEF Init
    <2>2. QED
        BY <2>1 DEF Init, TypeOK, Resting
<1>2. InMap /\ ToldFits /\ KnownIsThere /\ NoGlare
    BY DEF Init, InMap, ToldFits, KnownIsThere, NoGlare
<1>3. OpenFits
    BY DEF Init, OpenFits
<1>4. OneAtATime /\ SerialMesh
    BY DEF Init, OneAtATime, SerialMesh, Steps
<1>5. QED
    BY <1>1, <1>2, <1>3, <1>4 DEF Invariant

LEMMA NextType == TypeOK /\ [Next]_vars => TypeOK'
<1> SUFFICES ASSUME TypeOK, [Next]_vars PROVE TypeOK'
    OBVIOUS
<1> USE DEF TypeOK, Resting, Steps, Goto
<1>1. ASSUME NEW p \in Peer, Connect(p) \/ Disconnect(p)
      PROVE  TypeOK'
    BY <1>1 DEF Connect, Disconnect
<1>2. ASSUME NEW p \in Peer, NEW q \in Peer, Relay(p, q)
      PROVE  TypeOK'
    BY <1>2 DEF Relay
<1>3. ASSUME NEW p \in Peer,
             \/ ListPeers(p) \/ Insert(p) \/ Close(p)
             \/ Remove(p) \/ ListRemaining(p) \/ Finish(p)
      PROVE  TypeOK'
    BY <1>3 DEF ListPeers, Insert, Close, Remove, ListRemaining, Finish
<1>4. ASSUME NEW p \in Peer, NEW q \in Peer, TellJoined(p, q)
      PROVE  TypeOK'
    BY <1>4 DEF TellJoined
<1>5. ASSUME NEW p \in Peer, NEW q \in Peer, TellLeft(p, q)
      PROVE  TypeOK'
    BY <1>5 DEF TellLeft
<1>6. CASE UNCHANGED vars
    BY <1>6 DEF vars
<1>7. QED
    BY <1>1, <1>2, <1>3, <1>4, <1>5, <1>6 DEF Next, TaskStep

\* The conjuncts of Invariant about every interleaving, action by action.
Shape == InMap /\ OpenFits /\ ToldFits /\ KnownIsThere /\ NoGlare

LEMMA EnvironmentShape ==
    ASSUME Invariant, NEW p \in Peer, Connect(p) \/ Disconnect(p)
    PROVE  Shape'
<1> USE DEF Invariant, TypeOK, Shape, Goto
<1>1. CASE Connect(p)
    <2>1. InMap' /\ OpenFits' /\ ToldFits' /\ NoGlare'
        BY <1>1 DEF Connect, InMap, OpenFits, ToldFits, NoGlare
    <2>2. KnownIsThere'
        \* p knows nobody yet, and nobody knows p, whose task is "new".
        BY <1>1 DEF Connect, KnownIsThere, ToldFits
    <2>3. QED
        BY <2>1, <2>2
<1>2. CASE Disconnect(p)
    BY <1>2 DEF Disconnect, InMap, OpenFits, ToldFits, KnownIsThere, NoGlare
<1>3. QED
    BY <1>1, <1>2

LEMMA JoinShape ==
    ASSUME Invariant, NEW p \in Peer,
           ListPeers(p) \/ Insert(p) \/ \E q \in Peer : TellJoined(p, q)
    PROVE  Shape'
<1> USE DEF Invariant, TypeOK, Shape, Goto
<1>1. CASE ListPeers(p)
    BY <1>1 DEF ListPeers, InMap, OpenFits, ToldFits, KnownIsThere, NoGlare
<1>2. CASE Insert(p)
    BY <1>2 DEF Insert, InMap, OpenFits, ToldFits, KnownIsThere, NoGlare
<1>3. ASSUME NEW q \in Peer, TellJoined(p, q)
      PROVE  Shape'
    <2>1. CASE ~CanHear(q)
        BY <1>3, <2>1
           DEF TellJoined, InMap, OpenFits, ToldFits, KnownIsThere, NoGlare
    <2>2. CASE CanHear(q)
        \* q is in the map and p is not: p has been told of nobody.
        <3>1. /\ pc[p] = "tellJoined" /\ pc[q] \in {"serve", "remove"}
              /\ told[p] = {} /\ p # q
            BY <1>3, <2>2 DEF TellJoined, CanHear, InMap, ToldFits
        <3>2. /\ told' = [told EXCEPT ![q] = @ \cup {p}]
              /\ met' = [met EXCEPT ![q] = @ \cup {p}]
              /\ UNCHANGED <<peers, open, pc>>
              /\ todo' = [todo EXCEPT ![p] = @ \ {q}]
            BY <1>3, <2>2 DEF TellJoined
        <3>3. InMap' /\ OpenFits'
            BY <3>2 DEF InMap, OpenFits
        <3>4. ToldFits' /\ NoGlare'
            BY <3>1, <3>2 DEF ToldFits, NoGlare
        <3>5. KnownIsThere'
            BY <3>1, <3>2 DEF KnownIsThere
        <3>6. QED
            BY <3>3, <3>4, <3>5
    <2>3. QED
        BY <2>1, <2>2
<1>4. QED
    BY <1>1, <1>2, <1>3

LEMMA RelayShape ==
    ASSUME Invariant, NEW p \in Peer, NEW q \in Peer, Relay(p, q)
    PROVE  Shape'
<1> USE DEF Invariant, TypeOK, Shape
<1>1. CASE ~CanHear(q)
    BY <1>1 DEF Relay, InMap, OpenFits, ToldFits, KnownIsThere, NoGlare
<1>2. CASE CanHear(q)
    <2>1. pc[p] = "serve" /\ pc[q] \in {"serve", "remove"}
        BY <1>2 DEF Relay, CanHear, InMap
    <2>2. /\ met' = [met EXCEPT ![q] = @ \cup {p}]
          /\ UNCHANGED <<peers, open, told, pc, todo>>
        BY <1>2 DEF Relay
    <2>3. QED
        BY <2>1, <2>2 DEF InMap, OpenFits, ToldFits, KnownIsThere, NoGlare
<1>3. QED
    BY <1>1, <1>2

LEMMA LeaveShape ==
    ASSUME Invariant, NEW p \in Peer,
           \/ Close(p) \/ Remove(p) \/ ListRemaining(p) \/ Finish(p)
           \/ \E q \in Peer : TellLeft(p, q)
    PROVE  Shape'
<1> USE DEF Invariant, TypeOK, Shape, Goto
<1>1. CASE Close(p)
    BY <1>1 DEF Close, InMap, OpenFits, ToldFits, KnownIsThere, NoGlare
<1>2. CASE Remove(p)
    BY <1>2 DEF Remove, InMap, OpenFits, ToldFits, KnownIsThere, NoGlare
<1>3. CASE ListRemaining(p)
    <2>1. /\ pc[p] = "listLeft" /\ pc' = [pc EXCEPT ![p] = "tellLeft"]
          /\ todo' = [todo EXCEPT ![p] = peers]
          /\ UNCHANGED <<peers, open, told, met>>
        BY <1>3 DEF ListRemaining
    <2>2. InMap' /\ OpenFits' /\ ToldFits' /\ NoGlare'
        BY <2>1 DEF InMap, OpenFits, ToldFits, NoGlare
    \* An open client that knows p is being served, so it is in the list.
    <2>3. ASSUME NEW q \in Peer, open[q], p \in met[q]
          PROVE  q \in peers
        BY <2>3 DEF OpenFits, ToldFits, InMap
    <2>4. KnownIsThere'
        BY <2>1, <2>3 DEF KnownIsThere
    <2>5. QED
        BY <2>2, <2>4
<1>4. ASSUME NEW q \in Peer, TellLeft(p, q)
      PROVE  Shape'
    <2>1. /\ pc[p] = "tellLeft" /\ todo' = [todo EXCEPT ![p] = @ \ {q}]
          /\ UNCHANGED <<peers, open, told, pc>>
        BY <1>4 DEF TellLeft
    <2>2. \A r \in Peer : met'[r] \subseteq met[r]
        BY <1>4 DEF TellLeft
    \* q is told, or it reads no more.
    <2>3. open[q] => p \notin met'[q]
        BY <1>4 DEF TellLeft, CanHear, OpenFits, ToldFits, InMap
    <2>4. InMap' /\ OpenFits' /\ ToldFits' /\ NoGlare'
        BY <2>1, <2>2 DEF InMap, OpenFits, ToldFits, NoGlare
    <2>5. KnownIsThere'
        BY <2>1, <2>2, <2>3 DEF KnownIsThere
    <2>6. QED
        BY <2>4, <2>5
<1>5. CASE Finish(p)
    BY <1>5 DEF Finish, InMap, OpenFits, ToldFits, KnownIsThere, NoGlare
<1>6. QED
    BY <1>1, <1>2, <1>3, <1>4, <1>5

-----------------------------------------------------------------------------
(* Requests that do not overlap. *)

\* A handler starts from rest, and no step of one makes another busy.
LEMMA NextOneAtATime == Invariant /\ [Next]_vars => OneAtATime'
<1> SUFFICES ASSUME Invariant, [Next]_vars, serial' PROVE OneAtATime'
    BY DEF OneAtATime
<1> USE DEF Invariant, TypeOK, OneAtATime, Goto, Steps, Resting
<1>1. serial
    BY DEF Next, TaskStep, Connect, Disconnect, Relay, ListPeers, Insert, Close,
       Remove, ListRemaining, Finish, TellJoined, TellLeft, vars
<1>2. ASSUME NEW p \in Peer, Connect(p) \/ Close(p)
      PROVE  OneAtATime'
    <2>1. \A q \in Peer : pc[q] \notin Steps
        BY <1>1, <1>2 DEF Connect, Close, MayStart, AtRest
    <2>2. \A q \in Peer \ {p} : pc'[q] = pc[q]
        BY <1>2 DEF Connect, Close
    <2>3. QED
        BY <2>1, <2>2
<1>3. ASSUME NEW p \in Peer,
             ListPeers(p) \/ Insert(p) \/ Remove(p) \/ ListRemaining(p) \/ Finish(p)
      PROVE  OneAtATime'
    <2>1. PICK step \in Steps \cup Resting : pc' = [pc EXCEPT ![p] = step]
        BY <1>3 DEF ListPeers, Insert, Remove, ListRemaining, Finish
    <2>2. pc[p] \in Steps
        BY <1>3 DEF ListPeers, Insert, Remove, ListRemaining, Finish
    <2>3. \A q \in Peer \ {p} : pc'[q] = pc[q]
        BY <2>1
    <2>4. QED
        BY <1>1, <2>2, <2>3
<1>4. CASE UNCHANGED pc
    BY <1>1, <1>4
<1>5. QED
    BY <1>2, <1>3, <1>4 DEF Next, TaskStep, Disconnect, Relay, TellJoined,
       TellLeft, vars

\* While p joins, whoever serves is on its list or has been told: nobody else
\* comes or goes meanwhile.  A departure only makes clients forget its own peer.
LEMMA NextSerialMesh == Invariant /\ [Next]_vars => SerialMesh'
<1> SUFFICES ASSUME Invariant, [Next]_vars, serial' PROVE SerialMesh'
    BY DEF SerialMesh
<1> USE DEF Invariant, TypeOK, Goto
<1>1. serial
    BY DEF Next, TaskStep, Connect, Disconnect, Relay, ListPeers, Insert, Close,
       Remove, ListRemaining, Finish, TellJoined, TellLeft, vars
<1>2. ASSUME NEW p \in Peer, Connect(p) \/ Disconnect(p) \/ Close(p)
      PROVE  SerialMesh'
    BY <1>1, <1>2 DEF Connect, Disconnect, Close, SerialMesh
<1>3. ASSUME NEW p \in Peer, NEW q \in Peer, Relay(p, q)
      PROVE  SerialMesh'
    BY <1>1, <1>3 DEF Relay, SerialMesh
<1>4. ASSUME NEW p \in Peer, ListPeers(p)
      PROVE  SerialMesh'
    <2>1. \A q \in Peer : pc[q] = "serve" => q \in peers
        BY DEF InMap
    <2>2. QED
        BY <1>1, <1>4, <2>1 DEF ListPeers, SerialMesh
<1>5. ASSUME NEW p \in Peer, NEW q \in Peer, TellJoined(p, q)
      PROVE  SerialMesh'
    <2>1. pc[q] = "serve" /\ open[q] => p \in met'[q]
        BY <1>5 DEF TellJoined, CanHear, InMap
    <2>2. \A r \in Peer : met[r] \subseteq met'[r]
        BY <1>5 DEF TellJoined
    <2>3. /\ UNCHANGED <<open, pc>>
          /\ todo' = [todo EXCEPT ![p] = @ \ {q}]
        BY <1>5 DEF TellJoined
    <2>4. QED
        BY <1>1, <2>1, <2>2, <2>3 DEF SerialMesh
<1>6. ASSUME NEW p \in Peer, Insert(p)
      PROVE  SerialMesh'
    \* No other join is under way that could miss p.
    <2>1. \A r \in Peer : r # p => pc[r] # "tellJoined"
        BY <1>1, <1>6 DEF Insert, OneAtATime, Steps
    <2>2. QED
        BY <1>1, <1>6, <2>1 DEF Insert, SerialMesh
<1>7. ASSUME NEW p \in Peer, Remove(p) \/ ListRemaining(p) \/ Finish(p)
      PROVE  SerialMesh'
    BY <1>1, <1>7 DEF Remove, ListRemaining, Finish, SerialMesh
<1>8. ASSUME NEW p \in Peer, NEW q \in Peer, TellLeft(p, q)
      PROVE  SerialMesh'
    <2>1. \A r, s \in Peer : s # p /\ s \in met[r] => s \in met'[r]
        BY <1>8 DEF TellLeft
    <2>2. UNCHANGED <<open, pc>> /\ todo' = [todo EXCEPT ![p] = @ \ {q}]
              /\ pc[p] = "tellLeft"
        BY <1>8 DEF TellLeft
    <2>3. QED
        BY <1>1, <2>1, <2>2 DEF SerialMesh
<1>9. CASE UNCHANGED vars
    BY <1>1, <1>9 DEF vars, SerialMesh
<1>10. QED
    BY <1>2, <1>3, <1>4, <1>5, <1>6, <1>7, <1>8, <1>9 DEF Next, TaskStep

LEMMA NextInvariant == Invariant /\ [Next]_vars => Invariant'
<1> SUFFICES ASSUME Invariant, [Next]_vars PROVE Invariant'
    OBVIOUS
<1>1. TypeOK'
    BY NextType DEF Invariant
<1>2. Shape'
    <2>1. CASE UNCHANGED vars
        BY <2>1 DEF vars, Invariant, Shape, InMap, OpenFits, ToldFits,
           KnownIsThere, NoGlare
    <2>2. CASE Next
        BY <2>2, EnvironmentShape, JoinShape, RelayShape, LeaveShape
           DEF Next, TaskStep
    <2>3. QED
        BY <2>1, <2>2
<1>3. QED
    BY <1>1, <1>2, NextOneAtATime, NextSerialMesh DEF Invariant, Shape

\* The map, the tasks and the views of the clients agree, always.
THEOREM MeshInvariantHolds == Spec => []Invariant
BY InitInvariant, NextInvariant, PTL DEF Spec

\* No pair of peers is ever told to offer to each other.
THEOREM NoGlareHolds == Spec => []NoGlare
<1>1. Invariant => NoGlare
    BY DEF Invariant
<1>2. QED
    BY <1>1, MeshInvariantHolds, PTL

\* A peer whose departure has been handled is known by no open client.
THEOREM NoGhostsHolds == Spec => []NoGhosts
<1>1. Invariant => NoGhosts
    BY DEF Invariant, KnownIsThere, NoGhosts
<1>2. QED
    BY <1>1, MeshInvariantHolds, PTL

\* Requests that do not overlap build a full mesh: between requests, of two open
\* clients in the map one was told of the other.
THEOREM MeshedWhenSerialHolds == Spec => []MeshedWhenSerial
<1>1. Invariant => MeshedWhenSerial
    BY DEF Invariant, InMap, AtRest, Resting, SerialMesh, MeshedWhenSerial
<1>2. QED
    BY <1>1, MeshInvariantHolds, PTL
=============================================================================
