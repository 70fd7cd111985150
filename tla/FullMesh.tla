------------------------------ MODULE FullMesh ------------------------------
(***************************************************************************)
(* The full mesh topology of matchbox_signaling.  Every websocket has a    *)
(* task; add_peer and remove_peer take the mutex of the map `peers` once   *)
(* to copy its keys, once per message, and once to insert or remove, so    *)
(* the tasks interleave in between.                                        *)
(*                                                                         *)
(* A client offers a WebRTC connection to each peer a NewPeer event names, *)
(* and answers the peers it hears from (message_loop).                     *)
(***************************************************************************)
EXTENDS FiniteSets

CONSTANTS
    Peer,   \* peer ids
    Modes   \* the values `serial` may take

ASSUME ModesAssumption == Modes \subseteq BOOLEAN

VARIABLES
    serial,  \* a parameter: a handler starts only when no other one is running
    peers,   \* FullMeshState.peers
    open,    \* client p's end of the websocket is open
    told,    \* told[q]: the ids of the NewPeer events sent to q
    met,     \* met[q]: peers that q knows and has not been told left
    pc,      \* where task p is
    todo     \* peers that the running loop of task p still has to send to

vars == <<serial, peers, open, told, met, pc, todo>>

Resting == {"new", "serve", "done"}
Steps   == {"add", "tellJoined", "remove", "listLeft", "tellLeft"}

Init ==
    /\ serial \in Modes
    /\ peers = {}
    /\ open = [p \in Peer |-> FALSE]
    /\ told = [p \in Peer |-> {}]
    /\ met = [p \in Peer |-> {}]
    /\ pc = [p \in Peer |-> "new"]
    /\ todo = [p \in Peer |-> {}]

AtRest == \A p \in Peer : pc[p] \in Resting

MayStart == serial => AtRest

Goto(p, step) == pc' = [pc EXCEPT ![p] = step]

\* try_send_to_peer finds q in the map, and q still reads.
CanHear(q) == q \in peers /\ open[q]

-----------------------------------------------------------------------------

MutConnectInserted(p) ==
    /\ pc[p] = "new"
    /\ MayStart
    /\ open' = [open EXCEPT ![p] = TRUE]
    /\ peers' = peers \cup {p}
    /\ Goto(p, "add")
    /\ UNCHANGED <<serial, told, met, todo>>

\* A client opens its websocket and is sent IdAssigned; its task starts.
Connect(p) ==
    /\ pc[p] = "new"
    /\ MayStart
    /\ open' = [open EXCEPT ![p] = TRUE]
    /\ Goto(p, "add")
    /\ UNCHANGED <<serial, peers, told, met, todo>>

\* A client closes its websocket, or loses it.
Disconnect(p) ==
    /\ open[p]
    /\ open' = [open EXCEPT ![p] = FALSE]
    /\ UNCHANGED <<serial, peers, told, met, pc, todo>>

MutListMet(p) ==
    /\ pc[p] = "add"
    /\ todo' = [todo EXCEPT ![p] = met[p]]
    /\ Goto(p, "tellJoined")
    /\ UNCHANGED <<serial, peers, open, told, met>>

\* add_peer: the peers of this moment.
ListPeers(p) ==
    /\ pc[p] = "add"
    /\ todo' = [todo EXCEPT ![p] = peers]
    /\ Goto(p, "tellJoined")
    /\ UNCHANGED <<serial, peers, open, told, met>>

TellJoined(p, q) ==
    /\ pc[p] = "tellJoined"
    /\ q \in todo[p]
    /\ todo' = [todo EXCEPT ![p] = @ \ {q}]
    /\ told' = IF CanHear(q) THEN [told EXCEPT ![q] = @ \cup {p}] ELSE told
    /\ met' = IF CanHear(q) THEN [met EXCEPT ![q] = @ \cup {p}] ELSE met
    /\ UNCHANGED <<serial, peers, open, pc>>

Insert(p) ==
    /\ pc[p] = "tellJoined"
    /\ todo[p] = {}
    /\ peers' = peers \cup {p}
    /\ Goto(p, "serve")
    /\ UNCHANGED <<serial, open, told, met, todo>>

\* PeerRequest::Signal: the server passes it on, or drops it when the receiver
\* is not in the map.
Relay(p, q) ==
    /\ pc[p] = "serve"
    /\ MayStart
    /\ open[p]
    /\ q \in met[p]
    /\ met' = IF CanHear(q) THEN [met EXCEPT ![q] = @ \cup {p}] ELSE met
    /\ UNCHANGED <<serial, peers, open, told, pc, todo>>

\* The task finds its websocket closed.
Close(p) ==
    /\ pc[p] = "serve"
    /\ MayStart
    /\ ~open[p]
    /\ Goto(p, "remove")
    /\ UNCHANGED <<serial, peers, open, told, met, todo>>

MutRemoveNothing(p) ==
    /\ pc[p] = "remove"
    /\ Goto(p, "listLeft")
    /\ UNCHANGED <<serial, peers, open, told, met, todo>>

\* remove_peer
Remove(p) ==
    /\ pc[p] = "remove"
    /\ peers' = peers \ {p}
    /\ Goto(p, "listLeft")
    /\ UNCHANGED <<serial, open, told, met, todo>>

MutListRemaining(p) ==
    /\ pc[p] = "listLeft"
    /\ todo' = [todo EXCEPT ![p] = met[p]]
    /\ Goto(p, "tellLeft")
    /\ UNCHANGED <<serial, peers, open, told, met>>

ListRemaining(p) ==
    /\ pc[p] = "listLeft"
    /\ todo' = [todo EXCEPT ![p] = peers]
    /\ Goto(p, "tellLeft")
    /\ UNCHANGED <<serial, peers, open, told, met>>

TellLeft(p, q) ==
    /\ pc[p] = "tellLeft"
    /\ q \in todo[p]
    /\ todo' = [todo EXCEPT ![p] = @ \ {q}]
    /\ met' = IF CanHear(q) THEN [met EXCEPT ![q] = @ \ {p}] ELSE met
    /\ UNCHANGED <<serial, peers, open, told, pc>>

Finish(p) ==
    /\ pc[p] = "tellLeft"
    /\ todo[p] = {}
    /\ Goto(p, "done")
    /\ UNCHANGED <<serial, peers, open, told, met, todo>>

TaskStep(p) ==
    \/ ListPeers(p) \/ Insert(p) \/ Close(p)
    \/ Remove(p) \/ ListRemaining(p) \/ Finish(p)
    \/ \E q \in Peer : TellJoined(p, q) \/ TellLeft(p, q)

Next ==
    \E p \in Peer :
        \/ Connect(p) \/ Disconnect(p) \/ TaskStep(p)
        \/ \E q \in Peer : Relay(p, q)

\* The runtime polls every task that can run; clients do as they please.
Fairness == \A p \in Peer : WF_vars(TaskStep(p))

Spec == Init /\ [][Next]_vars /\ Fairness

-----------------------------------------------------------------------------

TypeOK ==
    /\ serial \in BOOLEAN
    /\ peers \subseteq Peer
    /\ open \in [Peer -> BOOLEAN]
    /\ told \in [Peer -> SUBSET Peer]
    /\ met \in [Peer -> SUBSET Peer]
    /\ pc \in [Peer -> Resting \cup Steps]
    /\ todo \in [Peer -> SUBSET Peer]

\* What the map, the tasks and the clients' views have to do with each other.
\* A peer is in the map exactly from the end of its join to its removal.
InMap == peers = {p \in Peer : pc[p] \in {"serve", "remove"}}

\* A client whose websocket is open has a task that has not begun to end.
OpenFits ==
    \A p \in Peer : open[p] => pc[p] \in {"add", "tellJoined", "serve"}

\* A client hears of nobody before it is in the map.
ToldFits ==
    \A p \in Peer : told[p] \cup met[p] # {} =>
        pc[p] \notin {"new", "add", "tellJoined"}

\* Whom a client knows has not left, or is about to tell it.
KnownIsThere ==
    \A p, q \in Peer : open[q] /\ p \in met[q] =>
        \/ pc[p] \in {"tellJoined", "serve", "remove", "listLeft"}
        \/ pc[p] = "tellLeft" /\ q \in todo[p]

\* Of two peers at most one is told to offer to the other, however their joins
\* overlap: two offers for one connection would leave both sides waiting for
\* an answer to their own.
NoGlare == \A p, q \in Peer : ~(p \in told[q] /\ q \in told[p])

\* When requests do not overlap, at most one task is inside a handler.
OneAtATime ==
    serial => \A p, q \in Peer : pc[p] \in Steps /\ pc[q] \in Steps => p = q

\* The mesh between requests, and half built inside a join.
SerialMesh ==
    serial => \A p, q \in Peer :
        pc[q] = "serve" /\ open[q] =>
            /\ pc[p] = "serve" /\ p # q /\ open[p] => p \in met[q] \/ q \in met[p]
            /\ pc[p] = "tellJoined" => q \in todo[p] \/ p \in met[q]

\* The inductive invariant: nobody is known by an open client for longer than
\* its own handler runs, nobody is told to offer before it is in the map, and
\* requests that do not overlap leave no two clients strangers.
Invariant ==
    /\ TypeOK /\ InMap /\ OpenFits /\ ToldFits /\ KnownIsThere /\ NoGlare
    /\ OneAtATime /\ SerialMesh

\* When the handler of a departure has ended nobody who is still there knows
\* the peer that left, whoever was joining or leaving meanwhile.
NoGhosts ==
    \A p, q \in Peer : pc[p] = "done" /\ open[q] => p \notin met[q]

\* A client that has gone is forgotten in the end by everybody else, for good.
Forgotten ==
    \A p \in Peer :
        pc[p] # "new" /\ ~open[p]
            ~> [](\A q \in Peer : open[q] => p \notin met[q])

\* Of two clients that are being served, one was told of the other: requests that
\* do not overlap build a full mesh, once the offers are made.  (Two joins that
\* overlap both copy the map before either is in it, and miss each other.)
MeshedWhenSerial ==
    serial /\ AtRest => \A p, q \in peers :
        p # q /\ open[p] /\ open[q] => p \in met[q] \/ q \in met[p]
=============================================================================
