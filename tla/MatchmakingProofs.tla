------------------------- MODULE MatchmakingProofs -------------------------
(***************************************************************************)
(* Proofs about Matchmaking, for any finite set of peers, any rooms and    *)
(* any interleaving of the tasks.                                          *)
(***************************************************************************)
EXTENDS Matchmaking, FiniteSetTheorems, TLAPS

\* A room is a finite set, so its size is a natural number.
LEMMA RoomIsFinite ==
    ASSUME TypeOK, NEW r \in Room
    PROVE  IsFiniteSet(members[r]) /\ Cardinality(members[r]) \in Nat
<1>1. members[r] \in SUBSET Peer
    BY DEF TypeOK
<1>2. IsFiniteSet(members[r])
    BY <1>1, PeerAssumption, FS_Subset
<1>3. QED
    BY <1>2, FS_CardinalityType

LEMMA InitInvariant == Init => Invariant
<1> SUFFICES ASSUME Init PROVE Invariant
    OBVIOUS
<1>1. next \in [Room -> Nat \cup {NoNext}] /\ room \in [Peer -> Room]
    BY SettingsAssumption, RequestsAssumption DEF Init
<1>2. open \in [Peer -> BOOLEAN]
    BY Zenon DEF Init
<1>3. TypeOK
    BY <1>1, <1>2 DEF Init, TypeOK, Resting
<1>4. MembersFit /\ Groups
    BY DEF Init, MembersFit, Groups, GroupsAreDisjoint
<1>5. RoomsBelowNext
    <2>1. ASSUME NEW r \in Room, next[r] \notin {NoNext, 0}
          PROVE  Cardinality(members[r]) < next[r]
        <3>1. next[r] \in Nat /\ next[r] # 0
            BY <1>1, <2>1
        <3>2. members[r] = {}
            BY DEF Init
        <3>3. QED
            BY <3>1, <3>2, FS_EmptySet
    <2>2. QED
        BY <2>1 DEF RoomsBelowNext
<1>6. OpenFits /\ KnownFit /\ TogetherKnow /\ KnownIsThere
    BY DEF Init, OpenFits, KnownFit, TogetherKnow, KnownIsThere, WillKnow
<1>7. QED
    BY <1>3, <1>4, <1>5, <1>6 DEF Invariant

LEMMA NextType == TypeOK /\ [Next]_vars => TypeOK'
<1> SUFFICES ASSUME TypeOK, [Next]_vars PROVE TypeOK'
    OBVIOUS
<1> USE DEF TypeOK, Resting, Steps, Goto
<1>0. ASSUME NEW p \in Peer, Connect(p) \/ Disconnect(p)
      PROVE  TypeOK'
    <2>1. open' \in [Peer -> BOOLEAN]
        BY <1>0 DEF Connect, Disconnect
    <2>2. QED
        BY <1>0, <2>1 DEF Connect, Disconnect
<1>1. ASSUME NEW p \in Peer, AddClient(p)
      PROVE  TypeOK'
    BY <1>1 DEF AddClient
<1>2. ASSUME NEW p \in Peer, EnterRoom(p)
      PROVE  TypeOK'
    <2>1. room[p] \in Room /\ members[room[p]] \in SUBSET Peer
        OBVIOUS
    <2>2. members' \in [Room -> SUBSET Peer]
        BY <1>2, <2>1 DEF EnterRoom
    <2>3. todo' \in [Peer -> SUBSET Peer]
        BY <1>2, <2>1 DEF EnterRoom
    <2>4. QED
        BY <1>2, <2>2, <2>3 DEF EnterRoom
<1>3. ASSUME NEW p \in Peer, CompleteGroup(p)
      PROVE  TypeOK'
    <2>1. room[p] \in Room /\ members[room[p]] \in SUBSET Peer
        OBVIOUS
    <2>2. members' \in [Room -> SUBSET Peer]
        BY <1>3, <2>1 DEF CompleteGroup
    <2>3. groups' \subseteq SUBSET Peer
        BY <1>3, <2>1 DEF CompleteGroup
    <2>4. todo' \in [Peer -> SUBSET Peer]
        BY <1>3, <2>1 DEF CompleteGroup
    <2>5. QED
        BY <1>3, <2>2, <2>3, <2>4 DEF CompleteGroup
<1>4. ASSUME NEW p \in Peer,
             Joined(p) \/ Close(p) \/ RemoveClient(p) \/ Finish(p)
      PROVE  TypeOK'
    BY <1>4 DEF Joined, Close, RemoveClient, Finish
<1>5. ASSUME NEW p \in Peer, LeaveRoom(p) \/ ListRoom(p)
      PROVE  TypeOK'
    <2>1. room[p] \in Room /\ members[room[p]] \in SUBSET Peer
        OBVIOUS
    <2>2. members' \in [Room -> SUBSET Peer]
        BY <1>5, <2>1 DEF LeaveRoom, ListRoom
    <2>3. todo' \in [Peer -> SUBSET Peer]
        BY <1>5, <2>1 DEF LeaveRoom, ListRoom
    <2>4. QED
        BY <1>5, <2>2, <2>3 DEF LeaveRoom, ListRoom
<1>6. ASSUME NEW p \in Peer, NEW q \in Peer,
             TellJoined(p, q) \/ Relay(p, q) \/ TellLeft(p, q)
      PROVE  TypeOK'
    BY <1>6 DEF TellJoined, Relay, TellLeft
<1>7. CASE UNCHANGED vars
    BY <1>7 DEF vars
<1>8. QED
    BY <1>0, <1>1, <1>2, <1>3, <1>4, <1>5, <1>6, <1>7 DEF Next

-----------------------------------------------------------------------------
(* Rooms and groups.                                                         *)

RoomsFit == MembersFit /\ RoomsBelowNext /\ Groups

InRoom == {"tellJoined", "serve", "removeClient", "leaveRoom"}

\* A task that takes a step which changes no room changes nothing for them.
LEMMA RoomsKept ==
    ASSUME TypeOK, RoomsFit, UNCHANGED <<next, room, members, groups>>,
           \A p \in Peer : /\ pc[p] \in InRoom => pc'[p] \in InRoom
                           /\ pc[p] \notin Outside => pc'[p] \notin Outside
    PROVE  RoomsFit'
<1>1. MembersFit'
    BY DEF RoomsFit, MembersFit, InRoom, TypeOK
<1>2. RoomsBelowNext'
    BY DEF RoomsFit, RoomsBelowNext
<1>3. GroupsAreDisjoint'
    BY DEF RoomsFit, Groups, GroupsAreDisjoint
<1>4. ASSUME NEW g \in groups
      PROVE  GroupFits(g)'
    <2>1. g \subseteq Peer
        BY DEF TypeOK
    <2>2. PICK r \in Room : /\ next[r] \in Nat
                            /\ Cardinality(g) = next[r]
                            /\ \A p \in g : room[p] = r /\ pc[p] \notin Outside
        BY DEF RoomsFit, Groups, GroupFits
    <2>3. QED
        BY <2>1, <2>2 DEF GroupFits
<1>5. QED
    BY <1>1, <1>2, <1>3, <1>4 DEF RoomsFit, Groups

LEMMA EnterRoomFits ==
    ASSUME TypeOK, RoomsFit, NEW p \in Peer, EnterRoom(p)
    PROVE  RoomsFit'
<1> DEFINE r == room[p]
<1>1. /\ r \in Room
      /\ members' = [members EXCEPT ![r] = members[r] \cup {p}]
      /\ pc[p] = "enterRoom"
      /\ pc' = [pc EXCEPT ![p] = "tellJoined"]
      /\ UNCHANGED <<next, room, groups>>
      /\ ~Completes(r)
    BY DEF EnterRoom, Goto, TypeOK
<1>2. MembersFit'
    BY <1>1 DEF RoomsFit, MembersFit, TypeOK
<1>3. p \notin members[r]
    BY <1>1 DEF RoomsFit, MembersFit
<1>4. RoomsBelowNext'
    <2>1. ASSUME NEW t \in Room, next[t] \notin {NoNext, 0}
          PROVE  Cardinality(members'[t]) < next[t]
        <3>1. next[t] \in Nat /\ Cardinality(members[t]) < next[t]
            BY <2>1 DEF RoomsFit, RoomsBelowNext, TypeOK
        <3>2. CASE t # r
            BY <1>1, <3>1, <3>2 DEF TypeOK
        <3>3. CASE t = r
            <4>1. members'[t] = members[r] \cup {p}
                BY <1>1, <3>3 DEF TypeOK
            <4>2. IsFiniteSet(members[r]) /\ Cardinality(members[r]) \in Nat
                BY <1>1, RoomIsFinite
            <4>3. Cardinality(members'[t]) = Cardinality(members[r]) + 1
                BY <1>3, <4>1, <4>2, FS_AddElement
            <4>4. Cardinality(members[r]) # next[r] - 1
                BY <1>1, <2>1, <3>3 DEF Completes
            <4>5. QED
                BY <3>1, <3>3, <4>2, <4>3, <4>4
        <3>4. QED
            BY <3>2, <3>3
    <2>2. QED
        BY <1>1, <2>1 DEF RoomsBelowNext
<1>5. \A g \in groups : p \notin g
    BY <1>1 DEF RoomsFit, Groups, GroupFits, Outside
<1>6. GroupsAreDisjoint'
    BY <1>1, <1>5 DEF RoomsFit, Groups, GroupsAreDisjoint, TypeOK
<1>7. \A g \in groups : GroupFits(g)'
    BY <1>1, <1>5 DEF RoomsFit, Groups, GroupFits, TypeOK
<1>8. QED
    BY <1>1, <1>2, <1>4, <1>6, <1>7 DEF RoomsFit, Groups

LEMMA CompleteGroupFits ==
    ASSUME TypeOK, RoomsFit, NEW p \in Peer, CompleteGroup(p)
    PROVE  RoomsFit'
<1> DEFINE r == room[p]
           new == members[r] \cup {p}
<1>1. /\ r \in Room
      /\ members' = [members EXCEPT ![r] = {}]
      /\ groups' = groups \cup {new}
      /\ pc[p] = "enterRoom"
      /\ pc' = [pc EXCEPT ![p] = "tellJoined"]
      /\ UNCHANGED <<next, room>>
      /\ next[r] \in Nat /\ next[r] # 0
      /\ Cardinality(members[r]) = next[r] - 1
    BY DEF CompleteGroup, Completes, Goto, TypeOK
<1>2. MembersFit'
    BY <1>1 DEF RoomsFit, MembersFit, TypeOK
<1>3. p \notin members[r]
    BY <1>1 DEF RoomsFit, MembersFit
<1>4. RoomsBelowNext'
    <2>1. ASSUME NEW t \in Room, next[t] \notin {NoNext, 0}
          PROVE  Cardinality(members'[t]) < next[t]
        <3>1. CASE t # r
            BY <1>1, <2>1, <3>1 DEF RoomsFit, RoomsBelowNext, TypeOK
        <3>2. CASE t = r
            <4>1. members'[t] = {}
                BY <1>1, <3>2 DEF TypeOK
            <4>2. QED
                BY <1>1, <3>2, <4>1, FS_EmptySet
        <3>3. QED
            BY <3>1, <3>2
    <2>2. QED
        BY <1>1, <2>1 DEF RoomsBelowNext
<1>5. \A g \in groups : p \notin g
    BY <1>1 DEF RoomsFit, Groups, GroupFits, Outside
<1>6. \A g \in groups : new \cap g = {}
    BY <1>1, <1>5 DEF RoomsFit, Groups, GroupsAreDisjoint
<1>7. \A t \in Room : new \cap members'[t] = {}
    BY <1>1 DEF RoomsFit, MembersFit, TypeOK
<1>8. GroupsAreDisjoint'
    <2>1. \A g, h \in groups' : g # h => g \cap h = {}
        BY <1>1, <1>6 DEF RoomsFit, Groups, GroupsAreDisjoint
    <2>2. \A g \in groups', t \in Room : g \cap members'[t] = {}
        BY <1>1, <1>7 DEF RoomsFit, Groups, GroupsAreDisjoint, TypeOK
    <2>3. QED
        BY <2>1, <2>2 DEF GroupsAreDisjoint
<1>9. \A g \in groups : GroupFits(g)'
    BY <1>1, <1>5 DEF RoomsFit, Groups, GroupFits, TypeOK
<1>10. ASSUME NEW g, g = new
       PROVE  GroupFits(g)'
    <2>1. IsFiniteSet(members[r]) /\ Cardinality(members[r]) \in Nat
        BY <1>1, RoomIsFinite
    <2>2. Cardinality(new) = next[r]
        <3>1. Cardinality(new) = Cardinality(members[r]) + 1
            BY <1>3, <2>1, FS_AddElement
        <3>2. QED
            BY <1>1, <2>1, <3>1
    <2>3. \A q \in new : room[q] = r /\ pc'[q] \notin Outside
        BY <1>1 DEF RoomsFit, MembersFit, Outside, TypeOK
    <2>4. Cardinality(g) = next'[r] /\ next'[r] \in Nat
        BY <1>1, <1>10, <2>2
    <2>5. \A q \in g : room'[q] = r /\ pc'[q] \notin Outside
        BY <1>1, <1>10, <2>3
    <2>6. QED
        BY <1>1, <2>4, <2>5 DEF GroupFits
<1>11. \A g \in groups' : GroupFits(g)'
    BY <1>1, <1>9, <1>10
<1>12. QED
    BY <1>2, <1>4, <1>8, <1>11 DEF RoomsFit, Groups

LEMMA LeaveRoomFits ==
    ASSUME TypeOK, RoomsFit, NEW p \in Peer, LeaveRoom(p)
    PROVE  RoomsFit'
<1> DEFINE r == room[p]
<1>1. /\ r \in Room
      /\ members' = [members EXCEPT ![r] = members[r] \ {p}]
      /\ pc[p] = "leaveRoom"
      /\ pc' = [pc EXCEPT ![p] = "listRoom"]
      /\ UNCHANGED <<next, room, groups>>
    BY DEF LeaveRoom, Goto, TypeOK
<1>2. MembersFit'
    BY <1>1 DEF RoomsFit, MembersFit, TypeOK
<1>3. RoomsBelowNext'
    <2>1. ASSUME NEW t \in Room, next[t] \notin {NoNext, 0}
          PROVE  Cardinality(members'[t]) < next[t]
        <3>1. next[t] \in Nat /\ Cardinality(members[t]) < next[t]
            BY <2>1 DEF RoomsFit, RoomsBelowNext, TypeOK
        <3>2. members'[t] \in SUBSET members[t]
            BY <1>1 DEF TypeOK
        <3>3. IsFiniteSet(members[t]) /\ Cardinality(members[t]) \in Nat
            BY RoomIsFinite
        <3>4. IsFiniteSet(members'[t])
              /\ Cardinality(members'[t]) <= Cardinality(members[t])
            BY <3>2, <3>3, FS_Subset
        <3>5. Cardinality(members'[t]) \in Nat
            BY <3>4, FS_CardinalityType
        <3>6. QED
            BY <3>1, <3>3, <3>4, <3>5
    <2>2. QED
        BY <1>1, <2>1 DEF RoomsBelowNext
<1>4. GroupsAreDisjoint'
    BY <1>1 DEF RoomsFit, Groups, GroupsAreDisjoint, TypeOK
<1>5. \A g \in groups : GroupFits(g)'
    BY <1>1 DEF RoomsFit, Groups, GroupFits, Outside, TypeOK
<1>6. QED
    BY <1>1, <1>2, <1>3, <1>4, <1>5 DEF RoomsFit, Groups

LEMMA NextRooms ==
    ASSUME TypeOK, RoomsFit, [Next]_vars
    PROVE  RoomsFit'
<1> USE DEF Goto, InRoom, Outside
<1>1. ASSUME NEW p \in Peer,
             \/ Connect(p) \/ AddClient(p) \/ Joined(p) \/ Close(p)
             \/ RemoveClient(p) \/ ListRoom(p) \/ Finish(p)
      PROVE  RoomsFit'
    <2>1. UNCHANGED <<next, room, members, groups>>
        BY <1>1 DEF Connect, AddClient, Joined, Close, RemoveClient,
           ListRoom, Finish
    <2>2. \A q \in Peer : /\ pc[q] \in InRoom => pc'[q] \in InRoom
                          /\ pc[q] \notin Outside => pc'[q] \notin Outside
        BY <1>1 DEF Connect, AddClient, Joined, Close, RemoveClient,
           ListRoom, Finish, TypeOK
    <2>3. QED
        BY <2>1, <2>2, RoomsKept
<1>2. ASSUME NEW p \in Peer, NEW q \in Peer,
             \/ Disconnect(p)
             \/ TellJoined(p, q) \/ Relay(p, q) \/ TellLeft(p, q)
      PROVE  RoomsFit'
    <2>1. UNCHANGED <<next, room, members, groups, pc>>
        BY <1>2 DEF Disconnect, TellJoined, Relay, TellLeft
    <2>2. QED
        BY <2>1, RoomsKept
<1>3. CASE UNCHANGED vars
    <2>1. UNCHANGED <<next, room, members, groups, pc>>
        BY <1>3 DEF vars
    <2>2. QED
        BY <2>1, RoomsKept
<1>4. QED
    BY <1>1, <1>2, <1>3, EnterRoomFits, CompleteGroupFits, LeaveRoomFits
       DEF Next

-----------------------------------------------------------------------------
(* Who is there.                                                             *)

LEMMA NextOpen ==
    ASSUME TypeOK, RoomsFit, OpenFits, [Next]_vars
    PROVE  OpenFits'
<1> USE DEF TypeOK, OpenFits, Outside, Goto
<1>1. ASSUME NEW p \in Peer,
             Connect(p) \/ Disconnect(p) \/ AddClient(p) \/ Joined(p)
      PROVE  OpenFits'
    BY <1>1 DEF Connect, Disconnect, AddClient, Joined
<1>2. ASSUME NEW p \in Peer, EnterRoom(p)
      PROVE  OpenFits'
    <2>1. /\ members' = [members EXCEPT ![room[p]] = members[room[p]] \cup {p}]
          /\ pc[p] = "enterRoom"
          /\ pc' = [pc EXCEPT ![p] = "tellJoined"]
          /\ UNCHANGED <<next, room, clients, open>>
        BY <1>2 DEF EnterRoom
    <2>2. \A q \in Peer : members[room[q]] \subseteq members'[room[q]]
        BY <2>1
    <2>3. p \in members'[room[p]]
        BY <2>1
    <2>4. QED
        BY <2>1, <2>2, <2>3
<1>3. ASSUME NEW p \in Peer, CompleteGroup(p)
      PROVE  OpenFits'
    BY <1>3 DEF CompleteGroup, Completes
<1>4. ASSUME NEW p \in Peer,
             Close(p) \/ RemoveClient(p) \/ ListRoom(p) \/ Finish(p)
      PROVE  OpenFits'
    BY <1>4 DEF Close, RemoveClient, ListRoom, Finish
<1>5. ASSUME NEW p \in Peer, LeaveRoom(p)
      PROVE  OpenFits'
    <2>1. /\ members' = [members EXCEPT ![room[p]] = members[room[p]] \ {p}]
          /\ pc[p] = "leaveRoom"
          /\ pc' = [pc EXCEPT ![p] = "listRoom"]
          /\ UNCHANGED <<next, room, clients, open>>
        BY <1>5 DEF LeaveRoom
    <2>2. ~open[p]
        BY <2>1
    <2>3. \A q \in Peer \ {p} :
              q \in members[room[q]] => q \in members'[room[q]]
        BY <2>1
    <2>4. QED
        BY <2>1, <2>2, <2>3
<1>6. ASSUME NEW p \in Peer, NEW q \in Peer,
             TellJoined(p, q) \/ Relay(p, q) \/ TellLeft(p, q)
      PROVE  OpenFits'
    BY <1>6 DEF TellJoined, Relay, TellLeft
<1>7. CASE UNCHANGED vars
    BY <1>7 DEF vars
<1>8. QED
    BY <1>1, <1>2, <1>3, <1>4, <1>5, <1>6, <1>7 DEF Next

-----------------------------------------------------------------------------
(* Who knows whom.                                                           *)

\* Two clients that are there stay together in every step, and two that were
\* not are brought together only by one of them that enters.
LEMMA TogetherKept ==
    ASSUME TypeOK, RoomsFit, OpenFits, [Next]_vars,
           NEW p \in Peer, NEW q \in Peer, open'[p], open'[q]
    PROVE  /\ Together(p, q) => Together(p, q)'
           /\ /\ ~EnterRoom(p) /\ ~CompleteGroup(p)
              /\ ~EnterRoom(q) /\ ~CompleteGroup(q)
              => (Together(p, q)' => Together(p, q))
<1> USE DEF TypeOK, Together
<1>1. ASSUME NEW x \in Peer, EnterRoom(x)
      PROVE  /\ Together(p, q) => Together(p, q)'
             /\ p # x /\ q # x => (Together(p, q)' => Together(p, q))
    <2>1. /\ members' = [members EXCEPT ![room[x]] = members[room[x]] \cup {x}]
          /\ UNCHANGED groups
        BY <1>1 DEF EnterRoom
    <2>2. \A r \in Room : /\ members[r] \subseteq members'[r]
                          /\ members'[r] \subseteq members[r] \cup {x}
        BY <2>1
    <2>3. QED
        BY <2>1, <2>2
<1>2. ASSUME NEW x \in Peer, CompleteGroup(x)
      PROVE  /\ Together(p, q) => Together(p, q)'
             /\ p # x /\ q # x => (Together(p, q)' => Together(p, q))
    <2>1. /\ members' = [members EXCEPT ![room[x]] = {}]
          /\ groups' = groups \cup {members[room[x]] \cup {x}}
          /\ room[x] \in Room
        BY <1>2 DEF CompleteGroup
    <2>2. \A r \in Room : \/ members'[r] = members[r]
                          \/ r = room[x] /\ members'[r] = {}
        BY <2>1
    <2>3. members[room[x]] \cup {x} \in groups' /\ groups \subseteq groups'
        BY <2>1
    <2>4. Together(p, q) => Together(p, q)'
        BY <2>2, <2>3
    <2>5. p # x /\ q # x => (Together(p, q)' => Together(p, q))
        BY <2>1, <2>2
    <2>6. QED
        BY <2>4, <2>5
<1>3. ASSUME NEW x \in Peer, LeaveRoom(x)
      PROVE  Together(p, q)' <=> Together(p, q)
    <2>1. /\ members' = [members EXCEPT ![room[x]] = members[room[x]] \ {x}]
          /\ pc[x] = "leaveRoom"
          /\ UNCHANGED <<groups, open>>
        BY <1>3 DEF LeaveRoom
    <2>2. p # x /\ q # x
        BY <2>1 DEF OpenFits
    <2>3. \A r \in Room :
              {p, q} \subseteq members'[r] <=> {p, q} \subseteq members[r]
        BY <2>1, <2>2
    <2>4. QED
        BY <2>1, <2>3
<1>4. ASSUME NEW x \in Peer, NEW y \in Peer,
             \/ Connect(x) \/ Disconnect(x) \/ AddClient(x) \/ Joined(x)
             \/ Close(x) \/ RemoveClient(x) \/ ListRoom(x) \/ Finish(x)
             \/ TellJoined(x, y) \/ Relay(x, y) \/ TellLeft(x, y)
             \/ UNCHANGED vars
      PROVE  Together(p, q)' <=> Together(p, q)
    <2>1. UNCHANGED <<members, groups>>
        BY <1>4 DEF Connect, Disconnect, AddClient, Joined, Close,
           RemoveClient, ListRoom, Finish, TellJoined, Relay, TellLeft, vars
    <2>2. QED
        BY <2>1
<1>5. QED
    BY <1>1, <1>2, <1>3, <1>4 DEF Next

\* Nobody comes to know a peer but from that peer itself: by the loop of its
\* join, or by a signal.
LEMMA KnowledgeKept ==
    ASSUME TypeOK, OpenFits, KnownFit, [Next]_vars,
           NEW p \in Peer, NEW q \in Peer, WillKnow(q, p)'
    PROVE  \/ WillKnow(q, p)
           \/ Relay(p, q) /\ WillKnow(p, q)
           \/ (EnterRoom(p) \/ CompleteGroup(p)) /\ q \in members[room[p]]
<1> USE DEF TypeOK, WillKnow, Goto
<1>1. ASSUME NEW x \in Peer, EnterRoom(x) \/ CompleteGroup(x)
      PROVE  \/ WillKnow(q, p)
             \/ /\ EnterRoom(p) \/ CompleteGroup(p)
                /\ q \in members[room[p]]
    <2>1. /\ UNCHANGED met
          /\ todo' = [todo EXCEPT ![x] = members[room[x]]]
          /\ pc' = [pc EXCEPT ![x] = "tellJoined"]
        BY <1>1 DEF EnterRoom, CompleteGroup
    <2>2. QED
        BY <1>1, <2>1
<1>2. ASSUME NEW x \in Peer, NEW y \in Peer, TellJoined(x, y)
      PROVE  WillKnow(q, p)
    BY <1>2 DEF TellJoined
<1>3. ASSUME NEW x \in Peer, NEW y \in Peer, Relay(x, y)
      PROVE  WillKnow(q, p) \/ (Relay(p, q) /\ WillKnow(p, q))
    <2>1. CASE x = p /\ y = q
        BY <1>3, <2>1 DEF Relay
    <2>2. CASE ~(x = p /\ y = q)
        BY <1>3, <2>2 DEF Relay
    <2>3. QED
        BY <2>1, <2>2
<1>4. ASSUME NEW x \in Peer, NEW y \in Peer, TellLeft(x, y)
      PROVE  WillKnow(q, p)
    <2>1. UNCHANGED pc /\ pc[x] = "tellLeft"
        BY <1>4 DEF TellLeft
    <2>2. met'[q] \subseteq met[q]
        BY <1>4 DEF TellLeft
    <2>3. pc[p] = "tellJoined" => todo'[p] = todo[p]
        BY <1>4 DEF TellLeft
    <2>4. QED
        BY <2>1, <2>2, <2>3
<1>5. ASSUME NEW x \in Peer,
             \/ Connect(x) \/ Disconnect(x) \/ AddClient(x) \/ Joined(x)
             \/ Close(x) \/ RemoveClient(x) \/ LeaveRoom(x) \/ Finish(x)
             \/ ListRoom(x)
      PROVE  WillKnow(q, p)
    <2>1. UNCHANGED met
        BY <1>5 DEF Connect, Disconnect, AddClient, Joined, Close,
           RemoveClient, LeaveRoom, Finish, ListRoom
    <2>2. pc'[p] = "tellJoined" => pc[p] = "tellJoined" /\ todo'[p] = todo[p]
        BY <1>5 DEF Connect, Disconnect, AddClient, Joined, Close,
           RemoveClient, LeaveRoom, Finish, ListRoom
    <2>3. QED
        BY <2>1, <2>2
<1>6. CASE UNCHANGED vars
    BY <1>6 DEF vars
<1>7. QED
    BY <1>1, <1>2, <1>3, <1>4, <1>5, <1>6 DEF Next

\* What every step leaves as it is: the rooms asked for, and who has entered.
\* A websocket is open when it was open, or has just been opened.
LEMMA StepKeeps ==
    ASSUME TypeOK, [Next]_vars, NEW p \in Peer
    PROVE  /\ UNCHANGED <<next, room>>
           /\ pc[p] \notin Outside => pc'[p] \notin Outside
           /\ open'[p] => open[p] \/ pc[p] = "new"
<1> USE DEF TypeOK, Outside, Goto
<1>1. ASSUME NEW x \in Peer,
             \/ Connect(x) \/ Disconnect(x) \/ AddClient(x) \/ Joined(x)
             \/ Close(x) \/ RemoveClient(x) \/ ListRoom(x) \/ Finish(x)
      PROVE  /\ UNCHANGED <<next, room>>
             /\ pc[p] \notin Outside => pc'[p] \notin Outside
             /\ open'[p] => open[p] \/ pc[p] = "new"
    BY <1>1 DEF Connect, Disconnect, AddClient, Joined, Close,
       RemoveClient, ListRoom, Finish
<1>2. ASSUME NEW x \in Peer, EnterRoom(x) \/ CompleteGroup(x) \/ LeaveRoom(x)
      PROVE  /\ UNCHANGED <<next, room, open>>
             /\ pc[p] \notin Outside => pc'[p] \notin Outside
    BY <1>2 DEF EnterRoom, CompleteGroup, LeaveRoom
<1>3. ASSUME NEW x \in Peer, NEW y \in Peer,
             \/ TellJoined(x, y) \/ Relay(x, y) \/ TellLeft(x, y)
             \/ UNCHANGED vars
      PROVE  UNCHANGED <<next, room, open, pc>>
    BY <1>3 DEF TellJoined, Relay, TellLeft, vars
<1>4. QED
    BY <1>1, <1>2, <1>3 DEF Next

LEMMA NextKnown ==
    ASSUME TypeOK, RoomsFit, OpenFits, KnownFit, [Next]_vars
    PROVE  KnownFit'
<1> SUFFICES ASSUME NEW p \in Peer, NEW q \in Peer, WillKnow(q, p)'
             PROVE  /\ pc'[p] \notin Outside /\ pc'[q] \notin Outside
                    /\ room'[p] = room'[q]
                    /\ open'[p] /\ open'[q] => Together(p, q)'
    BY DEF KnownFit
<1>1. ASSUME WillKnow(q, p) \/ WillKnow(p, q)
      PROVE  /\ pc'[p] \notin Outside /\ pc'[q] \notin Outside
             /\ room'[p] = room'[q]
             /\ open'[p] /\ open'[q] => Together(p, q)'
    <2>1. /\ pc[p] \notin Outside /\ pc[q] \notin Outside
          /\ room[p] = room[q]
          /\ open[p] /\ open[q] => Together(p, q)
        BY <1>1 DEF KnownFit, Together
    <2>2. open'[p] => open[p]
        BY <2>1, StepKeeps DEF Outside
    <2>3. open'[q] => open[q]
        BY <2>1, StepKeeps DEF Outside
    <2>4. QED
        BY <2>1, <2>2, <2>3, StepKeeps, TogetherKept
<1>2. ASSUME EnterRoom(p) \/ CompleteGroup(p), q \in members[room[p]]
      PROVE  /\ pc'[p] \notin Outside /\ pc'[q] \notin Outside
             /\ room'[p] = room'[q]
             /\ Together(p, q)'
    <2>1. /\ pc[p] = "enterRoom"
          /\ pc' = [pc EXCEPT ![p] = "tellJoined"]
          /\ UNCHANGED room
          /\ room[p] \in Room
        BY <1>2 DEF EnterRoom, CompleteGroup, Goto, TypeOK
    <2>2. room[q] = room[p] /\ pc[q] \notin Outside
        BY <1>2, <2>1 DEF RoomsFit, MembersFit, Outside
    <2>3. CASE EnterRoom(p)
        <3>1. {p, q} \subseteq members'[room[p]]
            BY <1>2, <2>1, <2>3 DEF EnterRoom, TypeOK
        <3>2. QED
            BY <2>1, <2>2, <3>1 DEF Together, Outside, TypeOK
    <2>4. CASE CompleteGroup(p)
        <3>1. members[room[p]] \cup {p} \in groups'
            BY <2>4 DEF CompleteGroup
        <3>2. QED
            BY <1>2, <2>1, <2>2, <3>1 DEF Together, Outside, TypeOK
    <2>5. QED
        BY <1>2, <2>3, <2>4
<1>3. QED
    BY <1>1, <1>2, KnowledgeKept

\* Two clients that are there do not forget each other.
LEMMA KnowledgeLasts ==
    ASSUME TypeOK, OpenFits, KnownFit, [Next]_vars,
           NEW p \in Peer, NEW q \in Peer,
           open[p], open[q], open'[p], open'[q], WillKnow(q, p)
    PROVE  WillKnow(q, p)'
<1> USE DEF TypeOK, WillKnow, Goto
<1>1. /\ pc[p] \in {"tellJoined", "serve"}
      /\ q \in clients
    BY DEF OpenFits, KnownFit, Outside
<1>2. ASSUME NEW x \in Peer, NEW y \in Peer, TellJoined(x, y)
      PROVE  WillKnow(q, p)'
    <2>1. CASE x = p /\ y = q
        BY <1>1, <1>2, <2>1 DEF TellJoined, CanHear
    <2>2. CASE ~(x = p /\ y = q)
        <3>1. met[q] \subseteq met'[q] /\ UNCHANGED pc
            BY <1>2 DEF TellJoined
        <3>2. q \in todo[p] => q \in todo'[p]
            BY <1>2, <2>2 DEF TellJoined
        <3>3. QED
            BY <3>1, <3>2
    <2>3. QED
        BY <2>1, <2>2
<1>3. ASSUME NEW x \in Peer, NEW y \in Peer, Relay(x, y)
      PROVE  WillKnow(q, p)'
    BY <1>3 DEF Relay
<1>4. ASSUME NEW x \in Peer, NEW y \in Peer, TellLeft(x, y)
      PROVE  WillKnow(q, p)'
    <2>1. x # p /\ UNCHANGED pc
        BY <1>1, <1>4 DEF TellLeft
    <2>2. p \in met[q] => p \in met'[q]
        BY <1>4, <2>1 DEF TellLeft
    <2>3. todo'[p] = todo[p]
        BY <1>4, <2>1 DEF TellLeft
    <2>4. QED
        BY <2>1, <2>2, <2>3
<1>5. ASSUME NEW x \in Peer,
             \/ Connect(x) \/ Disconnect(x) \/ AddClient(x)
             \/ EnterRoom(x) \/ CompleteGroup(x) \/ Close(x)
             \/ RemoveClient(x) \/ LeaveRoom(x) \/ ListRoom(x) \/ Finish(x)
      PROVE  WillKnow(q, p)'
    <2>1. UNCHANGED met
        BY <1>5 DEF Connect, Disconnect, AddClient, EnterRoom, CompleteGroup,
           Close, RemoveClient, LeaveRoom, ListRoom, Finish
    <2>2. pc[p] = "tellJoined" =>
             pc'[p] = "tellJoined" /\ todo'[p] = todo[p]
        BY <1>5 DEF Connect, Disconnect, AddClient, EnterRoom, CompleteGroup,
           Close, RemoveClient, LeaveRoom, ListRoom, Finish
    <2>3. QED
        BY <2>1, <2>2
<1>6. ASSUME NEW x \in Peer, Joined(x)
      PROVE  WillKnow(q, p)'
    BY <1>6 DEF Joined
<1>7. CASE UNCHANGED vars
    BY <1>7 DEF vars
<1>8. QED
    BY <1>2, <1>3, <1>4, <1>5, <1>6, <1>7 DEF Next

\* Whoever is together with somebody has entered.
LEMMA TogetherEntered ==
    ASSUME RoomsFit, NEW p \in Peer, NEW q \in Peer, Together(p, q)
    PROVE  pc[p] \notin Outside /\ pc[q] \notin Outside
BY DEF RoomsFit, MembersFit, Groups, GroupFits, Together, Outside

\* The peer that enters is together with those it found in its room only.
LEMMA EntererTells ==
    ASSUME TypeOK, RoomsFit, NEW p \in Peer, NEW q \in Peer, p # q,
           EnterRoom(p) \/ CompleteGroup(p), Together(p, q)'
    PROVE  WillKnow(q, p)'
<1> USE DEF TypeOK, Goto
<1>1. /\ pc[p] = "enterRoom"
      /\ pc' = [pc EXCEPT ![p] = "tellJoined"]
      /\ todo' = [todo EXCEPT ![p] = members[room[p]]]
      /\ room[p] \in Room
    BY DEF EnterRoom, CompleteGroup
<1>2. \A r \in Room : p \notin members[r]
    BY <1>1 DEF RoomsFit, MembersFit
<1>3. \A g \in groups : p \notin g
    BY <1>1 DEF RoomsFit, Groups, GroupFits, Outside
<1>4. q \in members[room[p]]
    <2>1. CASE EnterRoom(p)
        <3>1. /\ members' = [members EXCEPT
                                ![room[p]] = members[room[p]] \cup {p}]
              /\ UNCHANGED groups
            BY <2>1 DEF EnterRoom
        <3>2. QED
            BY <1>2, <1>3, <3>1 DEF Together
    <2>2. CASE CompleteGroup(p)
        <3>1. /\ members' = [members EXCEPT ![room[p]] = {}]
              /\ groups' = groups \cup {members[room[p]] \cup {p}}
            BY <2>2 DEF CompleteGroup
        <3>2. QED
            BY <1>2, <1>3, <3>1 DEF Together
    <2>3. QED
        BY <2>1, <2>2
<1>5. QED
    BY <1>1, <1>4 DEF WillKnow

LEMMA NextTogether ==
    ASSUME TypeOK, RoomsFit, OpenFits, KnownFit, TogetherKnow, [Next]_vars
    PROVE  TogetherKnow'
<1> SUFFICES ASSUME NEW p \in Peer, NEW q \in Peer, p # q,
                    open'[p], open'[q], Together(p, q)'
             PROVE  WillKnow(p, q)' \/ WillKnow(q, p)'
    BY DEF TogetherKnow
<1>1. CASE EnterRoom(p) \/ CompleteGroup(p)
    BY <1>1, EntererTells
<1>2. CASE EnterRoom(q) \/ CompleteGroup(q)
    <2>1. Together(q, p)'
        BY DEF Together
    <2>2. QED
        BY <1>2, <2>1, EntererTells
<1>3. CASE /\ ~EnterRoom(p) /\ ~CompleteGroup(p)
           /\ ~EnterRoom(q) /\ ~CompleteGroup(q)
    <2>1. Together(p, q)
        BY <1>3, TogetherKept
    <2>2. pc[p] \notin Outside /\ pc[q] \notin Outside
        BY <2>1, TogetherEntered
    <2>3. open[p] /\ open[q]
        BY <2>2, StepKeeps DEF Outside
    <2>4. WillKnow(p, q) \/ WillKnow(q, p)
        BY <2>1, <2>3 DEF TogetherKnow
    <2>5. QED
        BY <2>3, <2>4, KnowledgeLasts
<1>4. QED
    BY <1>1, <1>2, <1>3

-----------------------------------------------------------------------------
(* Who has left.                                                             *)

\* The steps at which a peer in a room without groups may still be known.
Known == {"tellJoined", "serve", "removeClient", "leaveRoom", "listRoom"}

\* The loop of p's departure tells everybody who knows p.
LEMMA LeaverTells ==
    ASSUME TypeOK, OpenFits, KnownFit, KnownIsThere,
           NEW p \in Peer, NEW q \in Peer,
           next[room[p]] = NoNext, open[q], p \in met[q],
           pc[p] \notin Known
    PROVE  /\ pc[p] = "tellLeft"
           /\ q \in todo[p]
           /\ CanHear(q)
<1>1. pc[p] = "tellLeft" /\ q \in todo[p]
    BY DEF KnownIsThere, Known
<1>2. pc[q] \notin Outside
    BY DEF KnownFit, WillKnow
<1>3. q \in clients
    BY <1>2 DEF OpenFits, Outside
<1>4. QED
    BY <1>1, <1>3 DEF CanHear

LEMMA NextThere ==
    ASSUME TypeOK, RoomsFit, OpenFits, KnownFit, KnownIsThere, [Next]_vars
    PROVE  KnownIsThere'
<1> SUFFICES ASSUME NEW p \in Peer, NEW q \in Peer,
                    next'[room'[p]] = NoNext, open'[q], p \in met'[q]
             PROVE  \/ pc'[p] \in Known
                    \/ pc'[p] = "tellLeft" /\ q \in todo'[p]
    BY DEF KnownIsThere, Known
<1> USE DEF TypeOK, Goto, Known
<1>1. next[room[p]] = NoNext
    BY StepKeeps
<1>2. ASSUME NEW x \in Peer, NEW y \in Peer, TellJoined(x, y) \/ Relay(x, y)
      PROVE  \/ pc'[p] \in Known
             \/ pc'[p] = "tellLeft" /\ q \in todo'[p]
    <2>1. UNCHANGED <<pc, open>> /\ pc[x] \in Known
        BY <1>2 DEF TellJoined, Relay
    <2>2. CASE p = x
        BY <2>1, <2>2
    <2>3. CASE p # x
        <3>1. p \in met[q] /\ todo'[p] = todo[p]
            BY <1>2, <2>3 DEF TellJoined, Relay
        <3>2. QED
            BY <1>1, <2>1, <3>1 DEF KnownIsThere
    <2>4. QED
        BY <2>2, <2>3
<1>3. ASSUME NEW x \in Peer, NEW y \in Peer, TellLeft(x, y)
      PROVE  \/ pc'[p] \in Known
             \/ pc'[p] = "tellLeft" /\ q \in todo'[p]
    <2>1. UNCHANGED <<pc, open>>
        BY <1>3 DEF TellLeft
    <2>2. p \in met[q]
        BY <1>3 DEF TellLeft
    <2>3. CASE pc[p] \in Known
        BY <2>1, <2>3
    <2>4. CASE pc[p] \notin Known
        <3>1. pc[p] = "tellLeft" /\ q \in todo[p] /\ CanHear(q)
            BY <1>1, <2>1, <2>2, <2>4, LeaverTells
        <3>2. ~(x = p /\ y = q)
            BY <1>3, <3>1 DEF TellLeft
        <3>3. q \in todo'[p]
            BY <1>3, <3>1, <3>2 DEF TellLeft
        <3>4. QED
            BY <2>1, <3>1, <3>3
    <2>5. QED
        BY <2>3, <2>4
<1>4. ASSUME NEW x \in Peer, ListRoom(x)
      PROVE  \/ pc'[p] \in Known
             \/ pc'[p] = "tellLeft" /\ q \in todo'[p]
    <2>1. /\ UNCHANGED <<met, open>>
          /\ pc[x] = "listRoom"
          /\ pc' = [pc EXCEPT ![x] = "tellLeft"]
          /\ todo' = [todo EXCEPT ![x] = members[room[x]] \ {x}]
        BY <1>4 DEF ListRoom
    <2>2. CASE p = x
        <3>1. p # q
            BY <2>1, <2>2 DEF OpenFits
        <3>2. pc[q] \notin Outside /\ room[p] = room[q]
            BY <2>1 DEF KnownFit, WillKnow
        <3>3. q \in members[room[p]]
            BY <1>1, <2>1, <3>2 DEF OpenFits
        <3>4. QED
            BY <2>1, <2>2, <3>1, <3>3
    <2>3. CASE p # x
        BY <1>1, <2>1, <2>3 DEF KnownIsThere
    <2>4. QED
        BY <2>2, <2>3
<1>5. ASSUME NEW x \in Peer,
             \/ Connect(x) \/ Disconnect(x) \/ AddClient(x) \/ EnterRoom(x)
             \/ CompleteGroup(x) \/ Joined(x) \/ Close(x) \/ RemoveClient(x)
             \/ LeaveRoom(x) \/ Finish(x)
      PROVE  \/ pc'[p] \in Known
             \/ pc'[p] = "tellLeft" /\ q \in todo'[p]
    <2>1. p \in met[q]
        BY <1>5 DEF Connect, Disconnect, AddClient, EnterRoom, CompleteGroup,
           Joined, Close, RemoveClient, LeaveRoom, Finish
    <2>2. pc[p] \notin Outside /\ pc[q] \notin Outside
        BY <2>1 DEF KnownFit, WillKnow
    <2>3. open[q]
        BY <2>2, StepKeeps DEF Outside
    <2>4. CASE pc[p] \in Known
        BY <1>5, <2>4 DEF Connect, Disconnect, AddClient, EnterRoom,
           CompleteGroup, Joined, Close, RemoveClient, LeaveRoom, Finish
    <2>5. CASE pc[p] \notin Known
        <3>1. pc[p] = "tellLeft" /\ q \in todo[p]
            BY <1>1, <2>1, <2>3, <2>5, LeaverTells
        <3>2. pc'[p] = pc[p] /\ todo'[p] = todo[p]
            BY <1>5, <3>1 DEF Connect, Disconnect, AddClient, EnterRoom,
               CompleteGroup, Joined, Close, RemoveClient, LeaveRoom, Finish
        <3>3. QED
            BY <3>1, <3>2
    <2>6. QED
        BY <2>4, <2>5
<1>6. CASE UNCHANGED vars
    BY <1>1, <1>6 DEF vars, KnownIsThere
<1>7. QED
    BY <1>2, <1>3, <1>4, <1>5, <1>6 DEF Next

-----------------------------------------------------------------------------

\* The inductive invariant of the matchmaking server holds in every state of
\* every interleaving of add_peer, remove_peer and the relay: groups have their
\* size and are disjoint, and who knows whom fits rooms and groups.
THEOREM MatchInvariantHolds == Spec => []Invariant
<1>1. Init => Invariant
    BY InitInvariant
<1>2. Invariant /\ [Next]_vars => Invariant'
    BY NextType, NextRooms, NextOpen, NextKnown, NextTogether, NextThere
       DEF Invariant, RoomsFit
<1>3. QED
    BY <1>1, <1>2, PTL DEF Spec

\* Of those who are still there nobody knows anybody across the border of a
\* completed group.
THEOREM GroupsAreSeparateHolds == Spec => []GroupsAreSeparate
<1>1. Invariant => GroupsAreSeparate
    <2> SUFFICES ASSUME Invariant, NEW g \in groups,
                        NEW p \in Peer, NEW q \in Peer,
                        open[p], open[q], q \in met[p]
                 PROVE  p \in g <=> q \in g
        BY DEF GroupsAreSeparate
    <2>1. Together(q, p)
        BY DEF Invariant, KnownFit, WillKnow
    <2>2. QED
        BY <2>1 DEF Invariant, Groups, GroupsAreDisjoint, Together
<1>2. QED
    BY <1>1, MatchInvariantHolds, PTL

\* Joins that overlap never miss each other: at rest, whoever is together in a
\* room or in a group has been introduced.
THEOREM AllIntroducedHolds == Spec => []AllIntroduced
<1>1. Invariant => AllIntroduced
    BY DEF Invariant, AllIntroduced, TogetherKnow, WillKnow, AtRest, Resting
<1>2. QED
    BY <1>1, MatchInvariantHolds, PTL

\* In a room without groups nobody who is there knows a peer whose departure
\* has been handled.
THEOREM NoGhostsHolds == Spec => []NoGhosts
<1>1. Invariant => NoGhosts
    BY DEF Invariant, NoGhosts, NoGhostsIn, KnownIsThere
<1>2. QED
    BY <1>1, MatchInvariantHolds, PTL
=============================================================================
