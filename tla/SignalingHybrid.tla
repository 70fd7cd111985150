-------------------------- MODULE SignalingHybrid --------------------------
(***************************************************************************)
(* The hybrid topology of the library matchbox_signaling: at most two      *)
(* super peers are wanted, whoever joins later is the child of one, and    *)
(* the lowest child takes the place of a super peer that leaves.  Unlike   *)
(* matchbox_server_hybrid it keeps two maps behind a mutex each,           *)
(* `super_peers` and `child_peers`; a third kind of mutex, around the      *)
(* children of one super peer, is only taken inside `super_peers`, or      *)
(* after its super peer has left that map.  An action is what happens      *)
(* between one acquisition of a map and its release.                       *)
(***************************************************************************)
EXTENDS Integers, FiniteSets

CONSTANTS
    Peer,    \* peer ids; naturals, because the code orders ids
    NoPeer,  \* the None of Option<PeerId>
    Steady,  \* a bound: the clients that never go away
    Starts   \* where a behaviour starts, and whether its handlers overlap

ASSUME PeerAssumption == Peer \subseteq Nat /\ IsFiniteSet(Peer)
ASSUME NoPeerAssumption == NoPeer \notin Peer
ASSUME StartsAssumption ==
    /\ Starts \subseteq
           [serial : BOOLEAN, elders : SUBSET Peer, joiners : SUBSET Peer]
    /\ \A start \in Starts : start.serial => Cardinality(start.elders) <= 2

VARIABLES
    serial,      \* a parameter: a handler starts only when no other one runs
    superPeers,  \* the keys of super_peers
    children,    \* SuperPeer.children
    childPeers,  \* the keys of child_peers
    parent,      \* ChildPeer.parent_id
    superFlag,   \* the local `super_peer` of task p, read once
    open,        \* client p's end of the websocket is open
    links,       \* links[q]: peers that q knows and has not been told left
    pc,          \* where task p is
    todo,        \* recipients the running loop of task p still has to send to
    orphans,     \* remove_super_peer: the children not connected again yet
    target,      \* add_super_peer's peer, or connect_child's super_peer
    child        \* connect_child's child_peer

shape  == <<superPeers, children>>
locals == <<todo, orphans, target, child>>
vars   == <<serial, superPeers, children, childPeers, parent, superFlag, open,
            links, pc, todo, orphans, target, child>>

\* "refused" is the early return of a join, "done" the end of remove_*.
Resting == {"new", "serve", "done", "refused"}

\* The steps that take a map, by the map they take.
SuperSteps == {"join", "find", "listSupers", "announce", "insertSuper",
               "attach", "introduce", "check", "leaveSuper", "copySupers",
               "tellSupers", "tellParent", "forget"}
ChildSteps == {"addChild", "setParent", "tellChildren", "recruit",
               "leaveChild"}

Takes(step) == IF step \in SuperSteps THEN {"super_peers"}
               ELSE IF step \in ChildSteps THEN {"child_peers"} ELSE {}

MutHoldsBoth(step) ==
    IF step \in {"tellParent", "forget"} THEN {"child_peers"}
    ELSE IF step = "setParent" THEN {"super_peers"} ELSE {}

\* What a task already holds when it comes to a step: the `if let` of
\* remove_child_peer keeps its guard to the end, the one of connect_child is
\* closed before it takes the other map.
Holds(step) ==
    IF step \in {"tellParent", "forget"} THEN {"child_peers"} ELSE {}

CanTake(p) == \A q \in Peer \ {p} : Holds(pc[q]) \cap Takes(pc[p]) = {}

At(p, step) == pc[p] = step /\ CanTake(p)

Goto(p, step) == pc' = [pc EXCEPT ![p] = step]

AtRest == \A p \in Peer : pc[p] \in Resting

MayStart == serial => AtRest

\* The server starts empty, or is met when its first super peers have joined
\* one after the other, in the order of their ids; others are still to join,
\* or have been there and left.
StartsWith(elders, joiners) ==
    /\ superPeers = elders
    /\ superFlag = [p \in Peer |-> p \in elders]
    /\ open = [p \in Peer |-> p \in elders]
    /\ links = [p \in Peer |-> IF p \in elders THEN {q \in elders : q > p}
                                              ELSE {}]
    /\ pc = [p \in Peer |-> IF p \in elders THEN "serve"
                           ELSE IF p \in joiners THEN "new" ELSE "done"]

Init ==
    /\ \E start \in Starts :
          /\ serial = start.serial
          /\ StartsWith(start.elders, start.joiners)
    /\ children = [p \in Peer |-> {}]
    /\ childPeers = {}
    /\ parent = [p \in Peer |-> NoPeer]
    /\ todo = [p \in Peer |-> {}]
    /\ orphans = [p \in Peer |-> {}]
    /\ target = [p \in Peer |-> NoPeer]
    /\ child = [p \in Peer |-> NoPeer]

-----------------------------------------------------------------------------

\* An event for q, sent through the map m: it changes whom q knows when q is
\* in the map and still reads.
Tell(m, q, known) ==
    links' = IF q \in m /\ open[q] THEN [links EXCEPT ![q] = known] ELSE links

\* A client opens its websocket; its task starts.
Connect(p) ==
    /\ pc[p] = "new"
    /\ MayStart
    /\ open' = [open EXCEPT ![p] = TRUE]
    /\ Goto(p, "join")
    /\ UNCHANGED <<serial, shape, childPeers, parent, superFlag, links, locals>>

\* A client closes its websocket, or loses it.  Its own join does not look at
\* the websocket: one that goes away meanwhile is met when it has joined.
Disconnect(p) ==
    /\ pc[p] \in {"serve", "refused"}
    /\ open[p]
    /\ p \notin Steady
    /\ open' = [open EXCEPT ![p] = FALSE]
    /\ UNCHANGED <<serial, shape, childPeers, parent, superFlag, links, pc,
                   locals>>

\* state.get_num_super_peers() < 2
Join(p) ==
    /\ At(p, "join")
    /\ IF Cardinality(superPeers) < 2
       THEN /\ target' = [target EXCEPT ![p] = p]
            /\ Goto(p, "listSupers")
       ELSE /\ Goto(p, "addChild")
            /\ UNCHANGED target
    /\ UNCHANGED <<serial, shape, childPeers, parent, superFlag, open, links,
                   todo, orphans, child>>

-----------------------------------------------------------------------------
(* add_super_peer(target), for a peer that joins and for a recruit. *)

ListSupers(p) ==
    /\ At(p, "listSupers")
    /\ todo' = [todo EXCEPT ![p] = superPeers]
    /\ Goto(p, "announce")
    /\ UNCHANGED <<serial, shape, childPeers, parent, superFlag, open, links,
                   orphans, target, child>>

Announce(p, q) ==
    /\ At(p, "announce")
    /\ q \in todo[p]
    /\ Tell(superPeers, q, links[q] \cup {target[p]})
    /\ todo' = [todo EXCEPT ![p] = @ \ {q}]
    /\ UNCHANGED <<serial, shape, childPeers, parent, superFlag, open, pc,
                   orphans, target, child>>

\* A peer that joined is now told SuperIdAssigned, a recruit is not.
InsertSuper(p) ==
    /\ At(p, "announce")
    /\ todo[p] = {}
    /\ superPeers' = superPeers \cup {target[p]}
    /\ children' = [children EXCEPT ![target[p]] = {}]
    /\ Goto(p, IF target[p] = p THEN "check" ELSE "reattach")
    /\ UNCHANGED <<serial, childPeers, parent, superFlag, open, links, locals>>

-----------------------------------------------------------------------------
(* Joining as a child. *)

AddChild(p) ==
    /\ At(p, "addChild")
    /\ childPeers' = childPeers \cup {p}
    /\ Goto(p, "find")
    /\ UNCHANGED <<serial, shape, parent, superFlag, open, links, locals>>

\* find_super_peer: fewest children, then lowest id.
IsLeastLoaded(s) ==
    /\ s \in superPeers
    /\ \A t \in superPeers :
          LET n == Cardinality(children[s])
              m == Cardinality(children[t])
          IN  n < m \/ (n = m /\ s <= t)

Find(p) ==
    /\ At(p, "find")
    /\ \E s \in superPeers :
          /\ IsLeastLoaded(s)
          /\ target' = [target EXCEPT ![p] = s]
    /\ child' = [child EXCEPT ![p] = p]
    /\ Goto(p, "attach")
    /\ UNCHANGED <<serial, shape, childPeers, parent, superFlag, open, links,
                   todo, orphans>>

\* All super peers have left since the count: p serves on without a parent.
FindsNone(p) ==
    /\ At(p, "find")
    /\ superPeers = {}
    /\ Goto(p, "check")
    /\ UNCHANGED <<serial, shape, childPeers, parent, superFlag, open, links,
                   locals>>

-----------------------------------------------------------------------------
(* connect_child(child, target), for a peer that joins and for an orphan. *)

MutAttach(p) ==
    /\ At(p, "attach")
    /\ children' = [children EXCEPT ![target[p]] = @ \cup {child[p]}]
    /\ Goto(p, "setParent")
    /\ UNCHANGED <<serial, superPeers, childPeers, parent, superFlag, open,
                   links, locals>>

Attach(p) ==
    /\ At(p, "attach")
    /\ children' = IF target[p] \in superPeers
                   THEN [children EXCEPT ![target[p]] = @ \cup {child[p]}]
                   ELSE children
    /\ Goto(p, "setParent")
    /\ UNCHANGED <<serial, superPeers, childPeers, parent, superFlag, open,
                   links, locals>>

SetParent(p) ==
    /\ At(p, "setParent")
    /\ parent' = IF child[p] \in childPeers
                 THEN [parent EXCEPT ![child[p]] = target[p]] ELSE parent
    /\ Goto(p, "introduce")
    /\ UNCHANGED <<serial, shape, childPeers, superFlag, open, links, locals>>

\* A peer that joined is now told ParentAssigned, an orphan is not.
Introduce(p) ==
    /\ At(p, "introduce")
    /\ child[p] = p => target[p] \in superPeers
    /\ Tell(superPeers, target[p], links[target[p]] \cup {child[p]})
    /\ Goto(p, IF child[p] = p THEN "check" ELSE "reattach")
    /\ UNCHANGED <<serial, shape, childPeers, parent, superFlag, open, locals>>

\* The super peer has left, or its websocket is found closed: the task of a
\* peer that joins returns, and leaves that peer in child_peers.
IntroduceFails(p) ==
    /\ At(p, "introduce")
    /\ child[p] = p
    /\ target[p] \in superPeers => ~open[target[p]]
    /\ target' = [target EXCEPT ![p] = NoPeer]
    /\ child' = [child EXCEPT ![p] = NoPeer]
    /\ Goto(p, "refused")
    /\ UNCHANGED <<serial, shape, childPeers, parent, superFlag, open, links,
                   todo, orphans>>

-----------------------------------------------------------------------------

\* let super_peer = state.is_super_peer(&peer_id)
Check(p) ==
    /\ At(p, "check")
    /\ superFlag' = [superFlag EXCEPT ![p] = (p \in superPeers)]
    /\ target' = [target EXCEPT ![p] = NoPeer]
    /\ child' = [child EXCEPT ![p] = NoPeer]
    /\ Goto(p, "serve")
    /\ UNCHANGED <<serial, shape, childPeers, parent, open, links, todo,
                   orphans>>

\* PeerRequest::Signal: the receiver is looked up in one map or in the other.
Relay(p, q) ==
    /\ pc[p] = "serve"
    /\ MayStart
    /\ open[p]
    /\ q \in links[p]
    /\ Tell(superPeers \cup childPeers, q, links[q] \cup {p})
    /\ UNCHANGED <<serial, shape, childPeers, parent, superFlag, open, pc,
                   locals>>

MutClose(p) ==
    /\ pc[p] = "serve"
    /\ MayStart
    /\ ~open[p]
    /\ Goto(p, "leaveChild")
    /\ UNCHANGED <<serial, shape, childPeers, parent, superFlag, open, links,
                   locals>>

\* The task finds its websocket closed.
Close(p) ==
    /\ pc[p] = "serve"
    /\ MayStart
    /\ ~open[p]
    /\ Goto(p, IF superFlag[p] THEN "leaveSuper" ELSE "leaveChild")
    /\ UNCHANGED <<serial, shape, childPeers, parent, superFlag, open, links,
                   locals>>

-----------------------------------------------------------------------------
(* remove_child_peer: child_peers stays locked until the whole is done. *)

\* A peer that was recruited meanwhile is not in child_peers, and its task
\* ends without a trace.
RemoveChild(p) ==
    /\ At(p, "leaveChild")
    /\ childPeers' = childPeers \ {p}
    /\ IF p \in childPeers /\ parent[p] # NoPeer
       THEN /\ target' = [target EXCEPT ![p] = parent[p]]
            /\ Goto(p, "tellParent")
       ELSE Goto(p, "done") /\ UNCHANGED target
    /\ parent' = [parent EXCEPT ![p] = NoPeer]
    /\ UNCHANGED <<serial, shape, superFlag, open, links, todo, orphans, child>>

TellParent(p) ==
    /\ At(p, "tellParent")
    /\ Tell(superPeers, target[p], links[target[p]] \ {p})
    /\ Goto(p, "forget")
    /\ UNCHANGED <<serial, shape, childPeers, parent, superFlag, open, locals>>

MutForget(p) ==
    /\ At(p, "forget")
    /\ target' = [target EXCEPT ![p] = NoPeer]
    /\ Goto(p, "done")
    /\ UNCHANGED <<serial, shape, childPeers, parent, superFlag, open, links,
                   todo, orphans, child>>

Forget(p) ==
    /\ At(p, "forget")
    /\ children' = IF target[p] \in superPeers
                   THEN [children EXCEPT ![target[p]] = @ \ {p}] ELSE children
    /\ target' = [target EXCEPT ![p] = NoPeer]
    /\ Goto(p, "done")
    /\ UNCHANGED <<serial, superPeers, childPeers, parent, superFlag, open,
                   links, todo, orphans, child>>

-----------------------------------------------------------------------------
(* remove_super_peer *)

\* Out of the map, and its children with it: from here only task p sees them.
RemoveSuper(p) ==
    /\ At(p, "leaveSuper")
    /\ p \in superPeers
    /\ superPeers' = superPeers \ {p}
    /\ orphans' = [orphans EXCEPT ![p] = children[p]]
    /\ children' = [children EXCEPT ![p] = {}]
    /\ Goto(p, "copySupers")
    /\ UNCHANGED <<serial, childPeers, parent, superFlag, open, links, todo,
                   target, child>>

CopySupers(p) ==
    /\ At(p, "copySupers")
    /\ todo' = [todo EXCEPT ![p] = superPeers]
    /\ Goto(p, "tellSupers")
    /\ UNCHANGED <<serial, shape, childPeers, parent, superFlag, open, links,
                   orphans, target, child>>

TellSuper(p, q) ==
    /\ At(p, "tellSupers")
    /\ q \in todo[p]
    /\ Tell(superPeers, q, links[q] \ {p})
    /\ todo' = [todo EXCEPT ![p] = @ \ {q}]
    /\ UNCHANGED <<serial, shape, childPeers, parent, superFlag, open, pc,
                   orphans, target, child>>

SupersTold(p) ==
    /\ pc[p] = "tellSupers"
    /\ todo[p] = {}
    /\ todo' = [todo EXCEPT ![p] = orphans[p]]
    /\ Goto(p, "tellChildren")
    /\ UNCHANGED <<serial, shape, childPeers, parent, superFlag, open, links,
                   orphans, target, child>>

MutTellChild(p, q) ==
    /\ At(p, "tellChildren")
    /\ q \in todo[p]
    /\ Tell(superPeers, q, links[q] \ {p})
    /\ todo' = [todo EXCEPT ![p] = @ \ {q}]
    /\ UNCHANGED <<serial, shape, childPeers, parent, superFlag, open, pc,
                   orphans, target, child>>

TellChild(p, q) ==
    /\ At(p, "tellChildren")
    /\ q \in todo[p]
    /\ Tell(childPeers, q, links[q] \ {p})
    /\ todo' = [todo EXCEPT ![p] = @ \ {q}]
    /\ UNCHANGED <<serial, shape, childPeers, parent, superFlag, open, pc,
                   orphans, target, child>>

ChildrenTold(p) ==
    /\ pc[p] = "tellChildren"
    /\ todo[p] = {}
    /\ Goto(p, IF orphans[p] = {} THEN "done" ELSE "recruit")
    /\ UNCHANGED <<serial, shape, childPeers, parent, superFlag, open, links,
                   locals>>

MutRecruit(p) ==
    /\ At(p, "recruit")
    /\ \E r \in orphans[p] :
          /\ \A c \in orphans[p] : r <= c
          /\ IF r \in childPeers
             THEN /\ childPeers' = childPeers \ {r}
                  /\ target' = [target EXCEPT ![p] = r]
                  /\ Goto(p, "listSupers")
                  /\ UNCHANGED orphans
             ELSE /\ orphans' = [orphans EXCEPT ![p] = {}]
                  /\ Goto(p, "done")
                  /\ UNCHANGED <<childPeers, target>>
    /\ UNCHANGED <<serial, shape, parent, superFlag, open, links, todo, child>>

\* The lowest child moves to super_peers, by add_super_peer.  When it has left
\* meanwhile there is no recruit, and the others keep a parent that is gone.
Recruit(p) ==
    /\ At(p, "recruit")
    /\ \E r \in orphans[p] :
          /\ \A c \in orphans[p] : r <= c
          /\ IF r \in childPeers
             THEN /\ childPeers' = childPeers \ {r}
                  /\ target' = [target EXCEPT ![p] = r]
                  /\ orphans' = [orphans EXCEPT ![p] = @ \ {r}]
                  /\ Goto(p, "listSupers")
             ELSE /\ orphans' = [orphans EXCEPT ![p] = {}]
                  /\ Goto(p, "done")
                  /\ UNCHANGED <<childPeers, target>>
    /\ UNCHANGED <<serial, shape, parent, superFlag, open, links, todo, child>>

\* The next of the other children, in the order of the HashSet; its
\* connect_child begins with the acquisition at "attach".
Reattach(p, c) ==
    /\ pc[p] = "reattach"
    /\ c \in orphans[p]
    /\ child' = [child EXCEPT ![p] = c]
    /\ orphans' = [orphans EXCEPT ![p] = @ \ {c}]
    /\ Goto(p, "attach")
    /\ UNCHANGED <<serial, shape, childPeers, parent, superFlag, open, links,
                   todo, target>>

FinishLeave(p) ==
    /\ pc[p] = "reattach"
    /\ orphans[p] = {}
    /\ target' = [target EXCEPT ![p] = NoPeer]
    /\ child' = [child EXCEPT ![p] = NoPeer]
    /\ Goto(p, "done")
    /\ UNCHANGED <<serial, shape, childPeers, parent, superFlag, open, links,
                   todo, orphans>>

-----------------------------------------------------------------------------

JoinStep(p) ==
    \/ Join(p) \/ ListSupers(p) \/ InsertSuper(p)
    \/ \E q \in Peer : Announce(p, q)
    \/ AddChild(p) \/ Find(p) \/ FindsNone(p)
    \/ Attach(p) \/ SetParent(p) \/ Introduce(p) \/ IntroduceFails(p)
    \/ Check(p)

LeaveStep(p) ==
    \/ Close(p) \/ RemoveChild(p) \/ TellParent(p) \/ Forget(p)
    \/ RemoveSuper(p) \/ CopySupers(p) \/ SupersTold(p) \/ ChildrenTold(p)
    \/ \E q \in Peer : TellSuper(p, q) \/ TellChild(p, q) \/ Reattach(p, q)
    \/ Recruit(p) \/ FinishLeave(p)

TaskStep == \E p \in Peer : JoinStep(p) \/ LeaveStep(p)

Next ==
    \/ TaskStep
    \/ \E p \in Peer : Connect(p) \/ Disconnect(p)
    \/ \E p, q \in Peer : Relay(p, q)

\* The runtime polls the tasks as long as one can run.
Fairness == WF_vars(TaskStep)

Spec == Init /\ [][Next]_vars /\ Fairness

-----------------------------------------------------------------------------
(* Properties. *)

TypeOK ==
    /\ serial \in BOOLEAN
    /\ superPeers \subseteq Peer
    /\ children \in [Peer -> SUBSET Peer]
    /\ childPeers \subseteq Peer
    /\ parent \in [Peer -> Peer \cup {NoPeer}]
    /\ superFlag \in [Peer -> BOOLEAN]
    /\ open \in [Peer -> BOOLEAN]
    /\ links \in [Peer -> SUBSET Peer]
    /\ pc \in [Peer -> Resting \cup SuperSteps \cup ChildSteps \cup {"reattach"}]
    /\ todo \in [Peer -> SUBSET Peer]
    /\ orphans \in [Peer -> SUBSET Peer]
    /\ target \in [Peer -> Peer \cup {NoPeer}]
    /\ child \in [Peer -> Peer \cup {NoPeer}]

\* The peer that task p is just moving: an orphan on its way to a new parent,
\* or the recruit between the two maps.
Moved(p) ==
    (IF pc[p] = "attach" THEN {child[p]}
     ELSE IF pc[p] \in {"listSupers", "announce"} THEN {target[p]} ELSE {}) \ {p}

\* The peers that task p has taken out of a map, or out of a super peer's
\* children, and not put back yet.
Hand(p) == orphans[p] \cup Moved(p)

\* Every peer is in at most one place: among the children of one super peer, in
\* the hands of one task that leaves, or itself a super peer.  A join that
\* overlaps a handover, a second handover or the leaving of the child itself
\* gives no peer two parents, and only super peers have children.
InOnePlace(c) ==
    /\ \A s, t \in Peer : c \in children[s] /\ c \in children[t] => s = t
    /\ \A s, t \in Peer : c \in Hand(s) /\ c \in Hand(t) => s = t
    /\ \A s, t \in Peer : ~(c \in children[s] /\ c \in Hand(t))
    /\ c \in superPeers =>
          /\ c \notin childPeers
          /\ \A s \in Peer : c \notin children[s] /\ c \notin Hand(s)

Custody ==
    /\ \A c \in Peer : InOnePlace(c)
    /\ \A s \in Peer : children[s] # {} => s \in superPeers

\* A peer in no place, and on the way to none by another task.
Unplaced(c) ==
    /\ c \notin superPeers
    /\ \A s \in Peer : c \notin children[s] /\ c \notin Hand(s)

\* remove_super_peer runs for p, p being out of the map.
HandsOver(p) ==
    \/ pc[p] \in {"copySupers", "tellSupers", "tellChildren", "recruit", "reattach"}
    \/ pc[p] \in {"listSupers", "announce"} /\ target[p] # p
    \/ pc[p] \in {"attach", "setParent", "introduce"} /\ child[p] # p

\* A peer that joins, and one that hands over or has done so, is in no place.
Placeless(p) ==
    \/ pc[p] \in {"new", "join", "listSupers", "announce", "addChild", "find", "attach"}
    \/ HandsOver(p)
    \/ pc[p] = "done" /\ superFlag[p]

\* Steps at which p itself is not in child_peers.
NoChild(p) ==
    \/ pc[p] \in {"new", "join", "listSupers", "announce", "addChild",
                  "tellParent", "forget", "done"}
    \/ HandsOver(p)

\* What a handler carries from one acquisition to the next: an orphan or a
\* recruit only once, the recruit being in neither map.
LocalsFit(p) ==
    /\ pc[p] \in {"attach", "setParent", "introduce"} => child[p] \in Peer
    /\ pc[p] \in {"listSupers", "announce", "attach", "setParent", "introduce",
                  "reattach", "tellParent", "forget"} => target[p] \in Peer
    /\ Moved(p) \cap orphans[p] = {}
    /\ pc[p] \in {"listSupers", "announce"} => Moved(p) \cap childPeers = {}

\* The flag super_peer is set while p is in super_peers, and until p hands over.
FlagFits(p) ==
    /\ pc[p] = "leaveSuper" => superFlag[p]
    /\ superFlag[p] =>
          \/ pc[p] \in {"serve", "leaveSuper"} /\ p \in superPeers
          \/ HandsOver(p)
          \/ pc[p] = "done"

\* What Custody rests on: the step of a task says where its own peer can be.
TaskFits(p) ==
    /\ LocalsFit(p)
    /\ FlagFits(p)
    /\ Placeless(p) => Unplaced(p)
    /\ NoChild(p) => p \notin childPeers

\* The guard that is kept over several steps is kept by one task.
HeldOnce == \A p, q \in Peer : Holds(pc[p]) \cap Holds(pc[q]) # {} => p = q

\* What every interleaving keeps: a peer has no two places.
PlacesFit ==
    TypeOK /\ HeldOnce /\ Custody /\ \A p \in Peer : TaskFits(p)

\* Requests that do not overlap: the one handler that runs, and the peers in
\* child_peers that it has still to hang below a super peer.
OneAtATime ==
    \A p, q \in Peer : pc[p] \notin Resting /\ pc[q] \notin Resting => p = q

Detached(p) ==
    orphans[p] \cup (IF pc[p] = "find" THEN {p}
                     ELSE IF pc[p] \in {"attach", "setParent"} THEN {child[p]} ELSE {})

Forgets(c, s) == pc[c] \in {"tellParent", "forget"} /\ target[c] = s

\* The tree, but for what the handler has still to do.
SerialTree ==
    /\ Cardinality(superPeers) <= 2
    /\ \A c \in childPeers :
          \/ parent[c] \in superPeers /\ c \in children[parent[c]]
          \/ \E p \in Peer : c \in Detached(p)
    /\ \A s \in superPeers : \A c \in children[s] : c \in childPeers \/ Forgets(c, s)

\* What the steps of a handler rest on when no other one runs.
SerialTask(p) ==
    /\ Detached(p) \subseteq childPeers
    /\ orphans[p] # {} => HandsOver(p)
    /\ pc[p] \in {"listSupers", "announce", "copySupers", "tellSupers", "tellChildren",
                  "recruit"} => Cardinality(superPeers) <= 1
    /\ pc[p] \in {"addChild", "find"} => superPeers # {}
    /\ pc[p] \in {"attach", "setParent", "introduce", "reattach", "tellParent",
                  "forget"} => target[p] \in superPeers
    /\ pc[p] \in {"setParent", "introduce"} => child[p] \in children[target[p]]
    /\ pc[p] \in {"tellParent", "forget"} => p \in children[target[p]]
    /\ pc[p] \in {"check", "serve"} =>
          \/ p \in superPeers \cup childPeers
          \/ \E q \in Peer : pc[q] \in {"listSupers", "announce"} /\ target[q] = p

\* Peers that know nobody, but the super peer that leaves until they are told.
Waiting(p) ==
    Detached(p) \cup (IF pc[p] \in {"listSupers", "announce"} THEN {target[p]}
                      ELSE IF pc[p] \in {"new", "join", "addChild"} THEN {p} ELSE {})

StillKnown(p, c) ==
    IF \/ pc[p] \in {"copySupers", "tellSupers"}
       \/ pc[p] = "tellChildren" /\ c \in todo[p]
    THEN {p} ELSE {}

\* A peer that super peer s knows although it is neither its child nor a super
\* peer beside it: one that is being announced, or that is leaving.
Passing(s, q) ==
    \E p \in Peer :
        \/ pc[p] = "announce" /\ q = target[p] /\ s \notin todo[p]
        \/ pc[p] = "copySupers" /\ q = p
        \/ pc[p] = "tellSupers" /\ q = p /\ s \in todo[p]

\* A child that its super peer does not know: not yet, or not any more.
NotKnown(c) ==
    \/ pc[c] = "forget"
    \/ \E p \in Peer : pc[p] \in {"setParent", "introduce"} /\ child[p] = c

\* Who knows whom, but for what the handler has still to tell.
SerialLinks ==
    /\ \A s, t \in superPeers :
          open[s] /\ open[t] /\ s # t => s \in links[t] \/ t \in links[s]
    /\ \A p \in Peer : pc[p] = "announce" =>
          \A s \in superPeers \ todo[p] : open[s] => target[p] \in links[s]
    /\ \A s \in superPeers : open[s] =>
          /\ \A c \in children[s] : c \in links[s] \/ NotKnown(c)
          /\ \A q \in links[s] : \/ (q \in children[s] /\ pc[q] # "forget")
                                 \/ q \in superPeers \ {s}
                                 \/ Passing(s, q)
    /\ \A c \in childPeers : open[c] =>
          links[c] \subseteq {parent[c]} \/ \E p \in Peer : c \in Detached(p)
    /\ \A p \in Peer : \A c \in Waiting(p) :
          open[c] \/ pc[c] = "new" => links[c] \subseteq StillKnown(p, c)

SerialServer ==
    OneAtATime /\ SerialTree /\ (\A p \in Peer : SerialTask(p)) /\ SerialLinks

\* The inductive invariant: no interleaving gives a peer two places, and requests
\* that do not overlap leave a tree in which everybody is introduced.
Invariant == PlacesFit /\ (serial => SerialServer)

\* What a task that has ended leaves behind: no entry in child_peers, and one
\* in super_peers only if its flag was read before it was recruited.  (This
\* last case is real: nobody removes such a super peer any more.)
NoTrace ==
    \A p \in Peer : pc[p] = "done" =>
        /\ p \notin childPeers
        /\ superFlag[p] => p \notin superPeers

\* Every handler comes to an end, however the others interleave with it.
HandlersFinish == []<>AtRest

\* The shape of the topology, seen as a forest: the specification that the
\* server of matchbox_server_hybrid implements too.
Forest == INSTANCE PeerForest WITH
    supers <- superPeers,
    under  <- {e \in Peer \X Peer : e[2] \in children[e[1]]}

\* Every step of every interleaving is a step of PeerForest or leaves the
\* shape alone.
ImplementsForest == Forest!Spec

-----------------------------------------------------------------------------
(* Properties of the server when requests do not overlap. *)

\* Between requests there are at most two super peers, a recruit replacing the
\* one that left, and the two maps tell the same tree: a child's parent is a
\* super peer that lists it, and whoever is listed is such a child.
TreeWhenSerial ==
    serial /\ AtRest =>
        /\ Cardinality(superPeers) <= 2
        /\ \A c \in childPeers : /\ parent[c] \in superPeers
                                 /\ c \in children[parent[c]]
        /\ \A s \in superPeers : children[s] \subseteq childPeers

\* Between requests a super peer knows all its children, of any two super
\* peers one knows the other, and nobody knows a peer that is neither its
\* parent, nor its child, nor a super peer beside it.  Peers whose websocket
\* is closed are excepted.
IntroducedWhenSerial ==
    serial /\ AtRest =>
        /\ \A s, t \in superPeers :
              open[s] /\ open[t] /\ s # t => s \in links[t] \/ t \in links[s]
        /\ \A s \in superPeers : open[s] =>
              /\ \A c \in children[s] : pc[c] = "serve" => c \in links[s]
              /\ links[s] \subseteq children[s] \cup (superPeers \ {s})
        /\ \A c \in childPeers : open[c] => links[c] \subseteq {parent[c]}
=============================================================================
