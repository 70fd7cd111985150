---------------------------- MODULE Matchmaking ----------------------------
(***************************************************************************)
(* The matchmaking server (matchbox_server).  A client asks for a room: an *)
(* id and, perhaps, the query parameter `next`.  Without `next` a room is  *)
(* a full mesh.  With next = n, every n peers that enter make a group: the *)
(* n-th empties the room, so that later peers start the next group.        *)
(*                                                                         *)
(* Every websocket has a task; `clients` and `rooms` have a mutex each and *)
(* a task takes them one at a time, so the tasks interleave in between.    *)
(***************************************************************************)
EXTENDS Naturals, FiniteSets

CONSTANTS
    Peer,     \* peer ids
    Room,     \* RequestedRoom: id and `next` together are the key
    NoNext,   \* None, the `next` of a room without groups
    Settings, \* the values `next` may take
    Requests  \* the rooms that the clients may ask for

ASSUME PeerAssumption == IsFiniteSet(Peer)
ASSUME NoNextAssumption == NoNext \notin Nat
ASSUME SettingsAssumption == Settings \subseteq [Room -> Nat \cup {NoNext}]
ASSUME RequestsAssumption == Requests \subseteq [Peer -> Room]

VARIABLES
    next,     \* a parameter: RequestedRoom.next of each room
    room,     \* Peer.room, which the client asks for
    clients,  \* ServerState.clients
    members,  \* ServerState.rooms: the peers in each room now
    groups,   \* history: the groups completed so far
    open,     \* client p's end of the websocket is open
    met,      \* met[q]: peers that q knows and has not been told left
    pc,       \* where task p is
    todo      \* peers that the running loop of task p still has to send to

vars == <<next, room, clients, members, groups, open, met, pc, todo>>

Resting == {"new", "serve", "done"}
Steps   == {"addClient", "enterRoom", "tellJoined",
            "removeClient", "leaveRoom", "listRoom", "tellLeft"}

Init ==
    /\ next \in Settings
    /\ room \in Requests
    /\ clients = {}
    /\ members = [r \in Room |-> {}]
    /\ groups = {}
    /\ open = [p \in Peer |-> FALSE]
    /\ met = [p \in Peer |-> {}]
    /\ pc = [p \in Peer |-> "new"]
    /\ todo = [p \in Peer |-> {}]

Goto(p, step) == pc' = [pc EXCEPT ![p] = step]

\* try_send finds q in the map, and q still reads.
CanHear(q) == q \in clients /\ open[q]

MutCompletesLate(r) ==
    /\ next[r] \notin {NoNext, 0}
    /\ Cardinality(members[r]) = next[r]

\* peers.len() == num_players - 1.  The subtraction is in usize: for next = 0
\* the release build wraps to a number that no room reaches.
Completes(r) ==
    /\ next[r] \notin {NoNext, 0}
    /\ Cardinality(members[r]) = next[r] - 1

-----------------------------------------------------------------------------

\* A client opens its websocket: on_connection_request notes the room it asks
\* for, on_id_assignment its id, remove_waiting_peer takes both up again.
Connect(p) ==
    /\ pc[p] = "new"
    /\ open' = [open EXCEPT ![p] = TRUE]
    /\ Goto(p, "addClient")
    /\ UNCHANGED <<next, room, clients, members, groups, met, todo>>

\* A client closes its websocket, or loses it.
Disconnect(p) ==
    /\ open[p]
    /\ open' = [open EXCEPT ![p] = FALSE]
    /\ UNCHANGED <<next, room, clients, members, groups, met, pc, todo>>

\* add_peer, the first lock.
AddClient(p) ==
    /\ pc[p] = "addClient"
    /\ clients' = clients \cup {p}
    /\ Goto(p, "enterRoom")
    /\ UNCHANGED <<next, room, members, groups, open, met, todo>>

MutEnterRoom(p) ==
    /\ pc[p] = "enterRoom"
    /\ ~Completes(room[p])
    /\ members' = [members EXCEPT ![room[p]] = @ \cup {p}]
    /\ todo' = [todo EXCEPT ![p] = {}]
    /\ Goto(p, "tellJoined")
    /\ UNCHANGED <<next, room, clients, groups, open, met>>

\* add_peer, the second lock: prev_peers, and p is put among them.
EnterRoom(p) ==
    /\ pc[p] = "enterRoom"
    /\ ~Completes(room[p])
    /\ members' = [members EXCEPT ![room[p]] = @ \cup {p}]
    /\ todo' = [todo EXCEPT ![p] = members[room[p]]]
    /\ Goto(p, "tellJoined")
    /\ UNCHANGED <<next, room, clients, groups, open, met>>

MutCompleteGroup(p) ==
    /\ pc[p] = "enterRoom"
    /\ Completes(room[p])
    /\ groups' = groups \cup {members[room[p]] \cup {p}}
    /\ todo' = [todo EXCEPT ![p] = members[room[p]]]
    /\ Goto(p, "tellJoined")
    /\ UNCHANGED <<next, room, clients, members, open, met>>

\* The same lock, by the last peer of a group: "room is complete".
CompleteGroup(p) ==
    /\ pc[p] = "enterRoom"
    /\ Completes(room[p])
    /\ members' = [members EXCEPT ![room[p]] = {}]
    /\ groups' = groups \cup {members[room[p]] \cup {p}}
    /\ todo' = [todo EXCEPT ![p] = members[room[p]]]
    /\ Goto(p, "tellJoined")
    /\ UNCHANGED <<next, room, clients, open, met>>

TellJoined(p, q) ==
    /\ pc[p] = "tellJoined"
    /\ q \in todo[p]
    /\ todo' = [todo EXCEPT ![p] = @ \ {q}]
    /\ met' = IF CanHear(q) THEN [met EXCEPT ![q] = @ \cup {p}] ELSE met
    /\ UNCHANGED <<next, room, clients, members, groups, open, pc>>

Joined(p) ==
    /\ pc[p] = "tellJoined"
    /\ todo[p] = {}
    /\ Goto(p, "serve")
    /\ UNCHANGED <<next, room, clients, members, groups, open, met, todo>>

\* PeerRequest::Signal: passed on, or ignored when the receiver is not there.
Relay(p, q) ==
    /\ pc[p] = "serve"
    /\ open[p]
    /\ q \in met[p]
    /\ met' = IF CanHear(q) THEN [met EXCEPT ![q] = @ \cup {p}] ELSE met
    /\ UNCHANGED <<next, room, clients, members, groups, open, pc, todo>>

\* The task finds its websocket closed.
Close(p) ==
    /\ pc[p] = "serve"
    /\ ~open[p]
    /\ Goto(p, "removeClient")
    /\ UNCHANGED <<next, room, clients, members, groups, open, met, todo>>

\* remove_peer, the first lock.
RemoveClient(p) ==
    /\ pc[p] = "removeClient"
    /\ clients' = clients \ {p}
    /\ Goto(p, "leaveRoom")
    /\ UNCHANGED <<next, room, members, groups, open, met, todo>>

\* remove_peer, the second lock.
LeaveRoom(p) ==
    /\ pc[p] = "leaveRoom"
    /\ members' = [members EXCEPT ![room[p]] = @ \ {p}]
    /\ Goto(p, "listRoom")
    /\ UNCHANGED <<next, room, clients, groups, open, met, todo>>

MutListMet(p) ==
    /\ pc[p] = "listRoom"
    /\ todo' = [todo EXCEPT ![p] = met[p]]
    /\ Goto(p, "tellLeft")
    /\ UNCHANGED <<next, room, clients, members, groups, open, met>>

\* get_room_peers: the room as it is now, which holds nobody of p's group.
ListRoom(p) ==
    /\ pc[p] = "listRoom"
    /\ todo' = [todo EXCEPT ![p] = members[room[p]] \ {p}]
    /\ Goto(p, "tellLeft")
    /\ UNCHANGED <<next, room, clients, members, groups, open, met>>

TellLeft(p, q) ==
    /\ pc[p] = "tellLeft"
    /\ q \in todo[p]
    /\ todo' = [todo EXCEPT ![p] = @ \ {q}]
    /\ met' = IF CanHear(q) THEN [met EXCEPT ![q] = @ \ {p}] ELSE met
    /\ UNCHANGED <<next, room, clients, members, groups, open, pc>>

Finish(p) ==
    /\ pc[p] = "tellLeft"
    /\ todo[p] = {}
    /\ Goto(p, "done")
    /\ UNCHANGED <<next, room, clients, members, groups, open, met, todo>>

Next ==
    \E p \in Peer :
        \/ Connect(p) \/ Disconnect(p)
        \/ AddClient(p) \/ EnterRoom(p) \/ CompleteGroup(p) \/ Joined(p)
        \/ Close(p) \/ RemoveClient(p) \/ LeaveRoom(p) \/ ListRoom(p)
        \/ Finish(p)
        \/ \E q \in Peer : TellJoined(p, q) \/ Relay(p, q) \/ TellLeft(p, q)

Spec == Init /\ [][Next]_vars

-----------------------------------------------------------------------------

TypeOK ==
    /\ next \in [Room -> Nat \cup {NoNext}]
    /\ room \in [Peer -> Room]
    /\ clients \subseteq Peer
    /\ members \in [Room -> SUBSET Peer]
    /\ groups \subseteq SUBSET Peer
    /\ open \in [Peer -> BOOLEAN]
    /\ met \in [Peer -> SUBSET Peer]
    /\ pc \in [Peer -> Resting \cup Steps]
    /\ todo \in [Peer -> SUBSET Peer]

\* Steps of a peer that has not entered its room yet.
Outside == {"new", "addClient", "enterRoom"}

\* Who is in a room asked for it, has entered, and will be taken out.
MembersFit ==
    \A r \in Room : \A p \in members[r] :
        /\ room[p] = r
        /\ pc[p] \in {"tellJoined", "serve", "removeClient", "leaveRoom"}

\* A room of next = n holds fewer than n peers: whoever enters as the n-th
\* takes the others along.
RoomsBelowNext ==
    \A r \in Room : next[r] \notin {NoNext, 0} =>
        Cardinality(members[r]) < next[r]

\* However the joins and departures overlap, a group has exactly as many
\* members as they all asked for, all of the same room, nobody is in two
\* groups, and nobody in a group still waits in a room.
GroupFits(g) ==
    \E r \in Room : /\ next[r] \in Nat
                     /\ Cardinality(g) = next[r]
                     /\ \A p \in g : room[p] = r /\ pc[p] \notin Outside

GroupsAreDisjoint ==
    /\ \A g, h \in groups : g # h => g \cap h = {}
    /\ \A g \in groups, r \in Room : g \cap members[r] = {}

Groups == GroupsAreDisjoint /\ \A g \in groups : GroupFits(g)

Together(p, q) ==
    \/ \E r \in Room : {p, q} \subseteq members[r]
    \/ \E g \in groups : {p, q} \subseteq g

\* A client whose websocket is open has a task that has not begun to end; it is
\* in the map before it enters, and stays in a room without groups.
OpenFits ==
    \A p \in Peer : open[p] =>
        /\ pc[p] \in {"addClient", "enterRoom", "tellJoined", "serve"}
        /\ pc[p] # "addClient" => p \in clients
        /\ pc[p] \notin Outside /\ next[room[p]] = NoNext
              => p \in members[room[p]]

\* q knows p, or is about to be told of p.
WillKnow(q, p) == p \in met[q] \/ (pc[p] = "tellJoined" /\ q \in todo[p])

\* Clients hear of nobody before both are in the same room, and while both are
\* there they stay together, in the room or in a group.
KnownFit ==
    \A p, q \in Peer : WillKnow(q, p) =>
        /\ pc[p] \notin Outside /\ pc[q] \notin Outside
        /\ room[p] = room[q]
        /\ open[p] /\ open[q] => Together(p, q)

\* Of two clients together one knows the other or is about to be told of it.
TogetherKnow ==
    \A p, q \in Peer : p # q /\ open[p] /\ open[q] /\ Together(p, q) =>
        WillKnow(p, q) \/ WillKnow(q, p)

\* In a room without groups, whom a client knows has not left, or is about to
\* tell it.
KnownIsThere ==
    \A p, q \in Peer : next[room[p]] = NoNext /\ open[q] /\ p \in met[q] =>
        \/ pc[p] \in {"tellJoined", "serve", "removeClient", "leaveRoom",
                      "listRoom"}
        \/ pc[p] = "tellLeft" /\ q \in todo[p]

\* The inductive invariant.
Invariant ==
    /\ TypeOK /\ MembersFit /\ RoomsBelowNext /\ Groups
    /\ OpenFits /\ KnownFit /\ TogetherKnow /\ KnownIsThere

AtRest == \A p \in Peer : pc[p] \in Resting

\* Joins that overlap do not miss each other: prev_peers is read and p put
\* among them under one lock, after p can be sent to.  Whoever is together in
\* a room or in a group has been introduced.
AllIntroduced ==
    AtRest => \A p, q \in Peer :
        p # q /\ Together(p, q) /\ open[p] /\ open[q]
            => p \in met[q] \/ q \in met[p]

\* Of those who are still there, nobody in a group knows anybody outside it,
\* and nobody outside knows anybody in it.
GroupsAreSeparate ==
    \A g \in groups : \A p, q \in Peer :
        open[p] /\ open[q] /\ q \in met[p] => (p \in g <=> q \in g)

\* When the handler of a departure has ended nobody who is still there knows
\* the peer that left.
NoGhostsIn(r) ==
    \A p, q \in Peer :
        room[p] = r /\ pc[p] = "done" /\ open[q] => p \notin met[q]

\* It holds of rooms without groups.
NoGhosts == \A r \in Room : next[r] = NoNext => NoGhostsIn(r)

\* "Tell each connected peer about the disconnected peer", of every room.
LeftIsTold == \A r \in Room : NoGhostsIn(r)
=============================================================================
