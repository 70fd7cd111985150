---------------------------- MODULE HybridServer ----------------------------
(***************************************************************************)
(* The hybrid signaling server (matchbox_server_hybrid).  Every websocket  *)
(* has a task of its own on a multi-threaded runtime; the tasks share one  *)
(* map behind one mutex, `peers`.  A handler takes that mutex many times:  *)
(* an action below is what happens between one acquisition and the         *)
(* release, and the tasks interleave in between.                           *)
(*                                                                         *)
(* The websocket channels are unbounded and in order, so the events sent   *)
(* to a client are kept as what they add up to: whom the client has been   *)
(* introduced to (links), which SuperIdAssigned ids it was sent            *)
(* (announced), which parent it was last told (toldParent).                *)
(***************************************************************************)
EXTENDS LoadBalance

CONSTANTS
    Peer,        \* peer ids; naturals, because the code orders ids
    NoPeer,      \* the None of Option<PeerId>
    PEER_RATIO,  \* topology.rs: PEER_RATIO
    Serial       \* TRUE: a handler starts only when no other one is running

ASSUME PeerAssumption == Peer \subseteq Nat /\ IsFiniteSet(Peer)
ASSUME NoPeerAssumption == NoPeer \notin Peer
ASSUME RatioAssumption == PEER_RATIO \in Nat
ASSUME SerialAssumption == Serial \in BOOLEAN

VARIABLES
    \* HybridState.peers: the role of a peer in the map, or "absent"
    role,
    \* PeerRole::Child.parent_id
    parent,
    \* PeerRole::Super.children
    children,
    \* the std::sync::Mutex around the map is held for ever
    wedged,
    \* client p's end of the websocket is open
    open,
    \* links[p]: peers that p was introduced to and has not been told left
    links,
    \* announced[p]: the ids of the SuperIdAssigned events sent to p
    announced,
    \* the id of the last ParentAssigned event sent to p
    toldParent,
    \* where task p is: the lock acquisition or the send it does next
    pc,
    \* recipients that the running loop of task p still has to send to
    todo,
    \* remove_super_peer: former_children, until re-attached
    orphans,
    \* the super peer that task p's connect_child names, or the recruit
    target,
    \* the child that task p's connect_child names
    child,
    \* load_balance: target_info of task p, and the giver of the current move
    plan, giver

topology == <<role, parent, children>>
views    == <<links, announced, toldParent>>
locals   == <<todo, orphans, target, child, plan, giver>>
vars     == <<role, parent, children, wedged, open, links, announced,
              toldParent, pc, todo, orphans, target, child, plan, giver>>

Roles == {"absent", "child", "super"}

\* The states of a task in which it runs no handler.
Resting == {"new", "serve", "done"}

Steps == {"join", "addSuper", "announce", "balance", "move", "tellGiver",
          "tellMoved", "attachMoved", "introduceMoved", "addChild",
          "findParent", "attach", "introduce", "tellParent", "leaveChild",
          "tellLeft", "leaveSuper", "handOver", "promote", "reattach",
          "reintroduce"}

Init ==
    /\ role = [p \in Peer |-> "absent"]
    /\ parent = [p \in Peer |-> NoPeer]
    /\ children = [p \in Peer |-> {}]
    /\ wedged = FALSE
    /\ open = [p \in Peer |-> FALSE]
    /\ links = [p \in Peer |-> {}]
    /\ announced = [p \in Peer |-> {}]
    /\ toldParent = [p \in Peer |-> NoPeer]
    /\ pc = [p \in Peer |-> "new"]
    /\ todo = [p \in Peer |-> {}]
    /\ orphans = [p \in Peer |-> {}]
    /\ target = [p \in Peer |-> NoPeer]
    /\ child = [p \in Peer |-> NoPeer]
    /\ plan = [p \in Peer |-> <<>>]
    /\ giver = [p \in Peer |-> NoPeer]

-----------------------------------------------------------------------------
(* The map, read under the lock. *)

Supers   == {s \in Peer : role[s] = "super"}
Children == {c \in Peer : role[c] = "child"}

MutShouldAddOneLate ==
    \/ Supers = {}
    \/ Cardinality(Children) > PEER_RATIO * Cardinality(Supers)

\* should_add_super_peer
ShouldAddSuperPeer ==
    \/ Supers = {}
    \/ Cardinality(Children) >= PEER_RATIO * Cardinality(Supers)

Load == [s \in Peer |-> Cardinality(children[s])]

TotalLoad == Cardinality({e \in Peer \X Peer : e[2] \in children[e[1]]})

\* find_least_loaded_super_peer: fewest children, then lowest id.
IsLeastLoaded(s) ==
    /\ s \in Supers
    /\ \A q \in Supers : \/ Load[s] < Load[q]
                         \/ Load[s] = Load[q] /\ s <= q

\* children.iter().min()
IsLowest(c, S) == c \in S /\ \A d \in S : c <= d

-----------------------------------------------------------------------------
(* try_send_to_peer: what the receiving client makes of the event.  A peer   *)
(* that is not in the map gets nothing, and a client that has gone reads     *)
(* nothing.                                                                  *)

CanHear(q) == role[q] # "absent" /\ open[q]

\* The result of try_send_to_peer.  A client that has gone takes events until
\* its forwarding task has noticed, and refuses them from then on.
SendMayFail(q) == role[q] = "absent" \/ ~open[q]
SendMaySucceed(q) == role[q] # "absent"

SendNewPeer(q, p) ==
    links' = IF CanHear(q) THEN [links EXCEPT ![q] = @ \cup {p}] ELSE links

MutSendPeerLeftSwapped(q, p) ==
    links' = IF CanHear(q) THEN [links EXCEPT ![p] = @ \ {q}] ELSE links

SendPeerLeft(q, p) ==
    links' = IF CanHear(q) THEN [links EXCEPT ![q] = @ \ {p}] ELSE links

SendSuperId(q, p) ==
    announced' = IF CanHear(q) THEN [announced EXCEPT ![q] = @ \cup {p}]
                               ELSE announced

MutAttachIgnoringRole(c, s) ==
    /\ children' = [children EXCEPT ![s] = @ \cup {c}]
    /\ parent' = [parent EXCEPT ![c] = s]
    /\ UNCHANGED role

\* connect_child, the part under the lock: the super takes the child into its
\* set, and then the child is looked up; the first effect stays when the
\* second fails.
AttachUnderLock(c, s) ==
    /\ children' = IF role[s] = "super"
                   THEN [children EXCEPT ![s] = @ \cup {c}] ELSE children
    /\ parent' = IF role[s] = "super" /\ role[c] = "child"
                 THEN [parent EXCEPT ![c] = s] ELSE parent
    /\ UNCHANGED role

Attaches(c, s) == role[s] = "super" /\ role[c] = "child"

Goto(p, step) == pc' = [pc EXCEPT ![p] = step]

At(p, step) == pc[p] = step /\ ~wedged

\* A handler may start: always, or when no other one is running.
MayStart == ~wedged /\ (Serial => \A q \in Peer : pc[q] \in Resting)

-----------------------------------------------------------------------------
(* The environment. *)

\* A client opens its websocket; it is sent IdAssigned and its task starts.
Connect(p) ==
    /\ pc[p] = "new"
    /\ MayStart
    /\ open' = [open EXCEPT ![p] = TRUE]
    /\ Goto(p, "join")
    /\ UNCHANGED <<topology, wedged, views, locals>>

\* A client closes its websocket, or loses it.
Disconnect(p) ==
    /\ open[p]
    /\ open' = [open EXCEPT ![p] = FALSE]
    /\ UNCHANGED <<topology, wedged, views, pc, locals>>

-----------------------------------------------------------------------------
(* Joining as a super peer. *)

JoinAsSuper(p) ==
    /\ At(p, "join")
    /\ ShouldAddSuperPeer
    /\ Goto(p, "addSuper")
    /\ UNCHANGED <<topology, wedged, open, views, locals>>

\* add_super_peer: the super peers of this moment, and the event to itself.
ListSupers(p) ==
    /\ At(p, "addSuper")
    /\ todo' = [todo EXCEPT ![p] = Supers]
    /\ announced' = IF open[p] THEN [announced EXCEPT ![p] = @ \cup {p}]
                               ELSE announced
    /\ Goto(p, "announce")
    /\ UNCHANGED <<topology, wedged, open, links, toldParent,
                   orphans, target, child, plan, giver>>

AnnounceSuper(p, q) ==
    /\ At(p, "announce")
    /\ q \in todo[p]
    /\ SendSuperId(q, p)
    /\ todo' = [todo EXCEPT ![p] = @ \ {q}]
    /\ UNCHANGED <<topology, wedged, open, links, toldParent, pc,
                   orphans, target, child, plan, giver>>

InsertSuper(p) ==
    /\ At(p, "announce")
    /\ todo[p] = {}
    /\ role' = [role EXCEPT ![p] = "super"]
    /\ Goto(p, "balance")
    /\ UNCHANGED <<parent, children, wedged, open, views, locals>>

-----------------------------------------------------------------------------
(* load_balance and move_child. *)

TooFewSupers(p) ==
    /\ At(p, "balance")
    /\ Cardinality(Supers) < 2
    /\ Goto(p, "serve")
    /\ UNCHANGED <<topology, wedged, open, views, locals>>

\* The counts are read once; the moves below work from this copy.
PlanMoves(p) ==
    /\ At(p, "balance")
    /\ Cardinality(Supers) >= 2
    /\ \E ord \in Orders(Supers, Load) :
          plan' = [plan EXCEPT ![p] = PlanOf(ord, Load, TotalLoad)]
    /\ Goto(p, "move")
    /\ UNCHANGED <<topology, wedged, open, views,
                   todo, orphans, target, child, giver>>

FinishBalance(p) ==
    /\ At(p, "move")
    /\ ~MovesLeft(plan[p])
    /\ plan' = [plan EXCEPT ![p] = <<>>]
    /\ target' = [target EXCEPT ![p] = NoPeer]
    /\ child' = [child EXCEPT ![p] = NoPeer]
    /\ Goto(p, "serve")
    /\ UNCHANGED <<topology, wedged, open, views, todo, orphans, giver>>

\* The giver has a child to give: its lowest one.
TakeChildFor(p, i, j, c) ==
    /\ At(p, "move")
    /\ IsGiver(plan[p], i)
    /\ IsReceiver(plan[p], j)
    /\ role[plan[p][i].id] = "super"
    /\ IsLowest(c, children[plan[p][i].id])
    /\ plan' = [plan EXCEPT ![p] = BookMove(@, i, j)]
    /\ children' = [children EXCEPT ![plan[p][i].id] = @ \ {c}]
    /\ child' = [child EXCEPT ![p] = c]
    /\ giver' = [giver EXCEPT ![p] = plan[p][i].id]
    /\ target' = [target EXCEPT ![p] = plan[p][j].id]
    /\ Goto(p, "tellGiver")
    /\ UNCHANGED <<role, parent, wedged, open, views, todo, orphans>>

TakeChild(p) ==
    \E i, j \in 1..Len(plan[p]), c \in Peer : TakeChildFor(p, i, j, c)

\* The giver has left, or lost its children, since the counts were read.
NothingToTake(p) ==
    /\ At(p, "move")
    /\ \E i, j \in 1..Len(plan[p]) :
          /\ IsGiver(plan[p], i)
          /\ IsReceiver(plan[p], j)
          /\ plan' = [plan EXCEPT ![p] = BookMove(@, i, j)]
          /\ \/ role[plan[p][i].id] # "super"
             \/ children[plan[p][i].id] = {}
    /\ UNCHANGED <<topology, wedged, open, views, pc,
                   todo, orphans, target, child, giver>>

TellGiver(p) ==
    /\ At(p, "tellGiver")
    /\ SendPeerLeft(giver[p], child[p])
    /\ Goto(p, "tellMoved")
    /\ UNCHANGED <<topology, wedged, open, announced, toldParent, locals>>

TellMoved(p) ==
    /\ At(p, "tellMoved")
    /\ SendPeerLeft(child[p], giver[p])
    /\ giver' = [giver EXCEPT ![p] = NoPeer]
    /\ Goto(p, "attachMoved")
    /\ UNCHANGED <<topology, wedged, open, announced, toldParent,
                   todo, orphans, target, child, plan>>

\* connect_child(child, receiver), under the lock.  Its error is only logged.
AttachMoved(p) ==
    /\ At(p, "attachMoved")
    /\ AttachUnderLock(child[p], target[p])
    /\ Goto(p, IF Attaches(child[p], target[p]) THEN "introduceMoved"
                                                ELSE "move")
    /\ UNCHANGED <<wedged, open, views, locals>>

IntroduceMoved(p) ==
    /\ At(p, "introduceMoved")
    /\ SendNewPeer(target[p], child[p])
    /\ Goto(p, "move")
    /\ UNCHANGED <<topology, wedged, open, announced, toldParent, locals>>

-----------------------------------------------------------------------------
(* Joining as a child. *)

JoinAsChild(p) ==
    /\ At(p, "join")
    /\ ~ShouldAddSuperPeer
    /\ Goto(p, "addChild")
    /\ UNCHANGED <<topology, wedged, open, views, locals>>

AddChild(p) ==
    /\ At(p, "addChild")
    /\ role' = [role EXCEPT ![p] = "child"]
    /\ Goto(p, "findParent")
    /\ UNCHANGED <<parent, children, wedged, open, views, locals>>

FindParent(p) ==
    /\ At(p, "findParent")
    /\ \E s \in Supers :
          /\ IsLeastLoaded(s)
          /\ target' = [target EXCEPT ![p] = s]
    /\ Goto(p, "attach")
    /\ UNCHANGED <<topology, wedged, open, views,
                   todo, orphans, child, plan, giver>>

\* Every super peer has left since should_add_super_peer: the child serves on
\* without a parent.
NoParentFound(p) ==
    /\ At(p, "findParent")
    /\ Supers = {}
    /\ Goto(p, "serve")
    /\ UNCHANGED <<topology, wedged, open, views, locals>>

Attach(p) ==
    /\ At(p, "attach")
    /\ Attaches(p, target[p])
    /\ AttachUnderLock(p, target[p])
    /\ Goto(p, "introduce")
    /\ UNCHANGED <<wedged, open, views, locals>>

\* The chosen parent has left: state_machine returns, the map keeps the child.
AttachFails(p) ==
    /\ At(p, "attach")
    /\ ~Attaches(p, target[p])
    /\ AttachUnderLock(p, target[p])
    /\ target' = [target EXCEPT ![p] = NoPeer]
    /\ Goto(p, "done")
    /\ UNCHANGED <<wedged, open, views, todo, orphans, child, plan, giver>>

Introduce(p) ==
    /\ At(p, "introduce")
    /\ SendMaySucceed(target[p])
    /\ SendNewPeer(target[p], p)
    /\ Goto(p, "tellParent")
    /\ UNCHANGED <<topology, wedged, open, announced, toldParent, locals>>

\* As AttachFails, with the child already in its parent's set.
IntroduceFails(p) ==
    /\ At(p, "introduce")
    /\ SendMayFail(target[p])
    /\ target' = [target EXCEPT ![p] = NoPeer]
    /\ Goto(p, "done")
    /\ UNCHANGED <<topology, wedged, open, views,
                   todo, orphans, child, plan, giver>>

\* connect_child_parent sends on the task's own channel: no lock.
TellParent(p) ==
    /\ pc[p] = "tellParent"
    /\ toldParent' = IF open[p] THEN [toldParent EXCEPT ![p] = target[p]]
                                ELSE toldParent
    /\ target' = [target EXCEPT ![p] = NoPeer]
    /\ Goto(p, "serve")
    /\ UNCHANGED <<topology, wedged, open, links, announced,
                   todo, orphans, child, plan, giver>>

-----------------------------------------------------------------------------
(* Serving.  A client signals the peers it has been introduced to; the first *)
(* signal of an unknown peer makes the receiver its peer too (message_loop). *)

Relay(p, q) ==
    /\ At(p, "serve")
    /\ MayStart
    /\ open[p]
    /\ q \in links[p]
    /\ SendNewPeer(q, p)
    /\ UNCHANGED <<topology, wedged, open, announced, toldParent, pc, locals>>

\* The task finds its websocket closed; is_super_peer picks the handler.
Close(p) ==
    /\ At(p, "serve")
    /\ MayStart
    /\ ~open[p]
    /\ Goto(p, IF role[p] = "super" THEN "leaveSuper" ELSE "leaveChild")
    /\ UNCHANGED <<topology, wedged, open, views, locals>>

-----------------------------------------------------------------------------
(* remove_child_peer *)

RemoveChild(p) ==
    /\ At(p, "leaveChild")
    /\ role[p] = "child"
    /\ role' = [role EXCEPT ![p] = "absent"]
    /\ parent' = [parent EXCEPT ![p] = NoPeer]
    /\ children' = IF parent[p] # NoPeer
                   THEN [children EXCEPT ![parent[p]] = @ \ {p}] ELSE children
    /\ target' = [target EXCEPT ![p] = parent[p]]
    /\ Goto(p, IF parent[p] # NoPeer THEN "tellLeft" ELSE "done")
    /\ UNCHANGED <<wedged, open, views, todo, orphans, child, plan, giver>>

\* Promoted since is_super_peer: put back into the map, and the task ends.
RemoveChildFails(p) ==
    /\ At(p, "leaveChild")
    /\ role[p] = "super"
    /\ Goto(p, "done")
    /\ UNCHANGED <<topology, wedged, open, views, locals>>

TellLeft(p) ==
    /\ At(p, "tellLeft")
    /\ SendPeerLeft(target[p], p)
    /\ target' = [target EXCEPT ![p] = NoPeer]
    /\ Goto(p, "done")
    /\ UNCHANGED <<topology, wedged, open, announced, toldParent,
                   todo, orphans, child, plan, giver>>

-----------------------------------------------------------------------------
(* remove_super_peer *)

MutAllToReattach(r, S) == S

\* if child_id != recruit_id
OthersToReattach(r, S) == S \ {r}

RemoveSuper(p) ==
    /\ At(p, "leaveSuper")
    /\ role[p] = "super"
    /\ role' = [role EXCEPT ![p] = "absent"]
    /\ children' = [children EXCEPT ![p] = {}]
    /\ orphans' = [orphans EXCEPT ![p] = children[p]]
    \* the other super peers first, then the former children
    /\ todo' = [todo EXCEPT ![p] = (Supers \ {p}) \cup children[p]]
    /\ Goto(p, "handOver")
    /\ UNCHANGED <<parent, wedged, open, views, target, child, plan, giver>>

TellSuperLeft(p, q) ==
    /\ At(p, "handOver")
    /\ q \in todo[p] \ orphans[p]
    /\ SendPeerLeft(q, p)
    /\ todo' = [todo EXCEPT ![p] = @ \ {q}]
    /\ UNCHANGED <<topology, wedged, open, announced, toldParent, pc,
                   orphans, target, child, plan, giver>>

TellChildLeft(p, q) ==
    /\ At(p, "handOver")
    /\ todo[p] \subseteq orphans[p]
    /\ q \in todo[p]
    /\ SendPeerLeft(q, p)
    /\ todo' = [todo EXCEPT ![p] = @ \ {q}]
    /\ UNCHANGED <<topology, wedged, open, announced, toldParent, pc,
                   orphans, target, child, plan, giver>>

NoRecruit(p) ==
    /\ pc[p] = "handOver"
    /\ todo[p] = {}
    /\ orphans[p] = {}
    /\ Goto(p, "done")
    /\ UNCHANGED <<topology, wedged, open, views, locals>>

\* The lowest former child becomes a super peer, if it is still there.
Recruit(p) ==
    /\ At(p, "handOver")
    /\ todo[p] = {}
    /\ \E r \in orphans[p] :
          /\ IsLowest(r, orphans[p])
          /\ target' = [target EXCEPT ![p] = r]
          /\ orphans' = [orphans EXCEPT ![p] = OthersToReattach(r, @)]
          /\ IF role[r] # "absent"
             THEN /\ role' = [role EXCEPT ![r] = "super"]
                  /\ parent' = [parent EXCEPT ![r] = NoPeer]
                  /\ children' = [children EXCEPT ![r] = {}]
             ELSE UNCHANGED topology
    /\ Goto(p, "promote")
    /\ UNCHANGED <<wedged, open, views, todo, child, plan, giver>>

\* promote_child_to_super: the recruit is told.  Then the other super peers
\* are to be told by try_send_to_peer, which locks the mutex that this very
\* function still holds: it never returns.
Promote(p) ==
    /\ At(p, "promote")
    /\ SendSuperId(target[p], target[p])
    /\ wedged' = (role[target[p]] # "absent" /\ Supers \ {target[p]} # {})
    /\ Goto(p, IF wedged' THEN "promote" ELSE "reattach")
    /\ UNCHANGED <<topology, open, links, toldParent, locals>>

\* The other former children, in the order of the HashSet.
Reattach(p, c) ==
    /\ At(p, "reattach")
    /\ c \in orphans[p]
    /\ AttachUnderLock(c, target[p])
    /\ orphans' = [orphans EXCEPT ![p] = @ \ {c}]
    /\ child' = [child EXCEPT ![p] = c]
    /\ Goto(p, IF Attaches(c, target[p]) THEN "reintroduce" ELSE "reattach")
    /\ UNCHANGED <<wedged, open, views, todo, target, plan, giver>>

Reintroduce(p) ==
    /\ At(p, "reintroduce")
    /\ SendNewPeer(target[p], child[p])
    /\ Goto(p, "reattach")
    /\ UNCHANGED <<topology, wedged, open, announced, toldParent, locals>>

FinishLeave(p) ==
    /\ pc[p] = "reattach"
    /\ orphans[p] = {}
    /\ target' = [target EXCEPT ![p] = NoPeer]
    /\ child' = [child EXCEPT ![p] = NoPeer]
    /\ Goto(p, "done")
    /\ UNCHANGED <<topology, wedged, open, views, todo, orphans, plan, giver>>

-----------------------------------------------------------------------------

\* One step of task p's handler.
JoinStep(p) ==
    \/ JoinAsSuper(p) \/ ListSupers(p) \/ InsertSuper(p)
    \/ \E q \in Peer : AnnounceSuper(p, q)
    \/ JoinAsChild(p) \/ AddChild(p) \/ FindParent(p) \/ NoParentFound(p)
    \/ Attach(p) \/ AttachFails(p) \/ Introduce(p) \/ IntroduceFails(p)
    \/ TellParent(p)

BalanceStep(p) ==
    \/ TooFewSupers(p) \/ PlanMoves(p) \/ FinishBalance(p)
    \/ TakeChild(p) \/ NothingToTake(p) \/ TellGiver(p) \/ TellMoved(p)
    \/ AttachMoved(p) \/ IntroduceMoved(p)

LeaveStep(p) ==
    \/ Close(p)
    \/ RemoveChild(p) \/ RemoveChildFails(p) \/ TellLeft(p)
    \/ RemoveSuper(p) \/ NoRecruit(p) \/ Recruit(p) \/ Promote(p)
    \/ \E q \in Peer : TellSuperLeft(p, q) \/ TellChildLeft(p, q)
    \/ \E c \in Peer : Reattach(p, c)
    \/ Reintroduce(p) \/ FinishLeave(p)

TaskStep(p) == JoinStep(p) \/ BalanceStep(p) \/ LeaveStep(p)

Next ==
    \E p \in Peer :
        \/ Connect(p) \/ Disconnect(p) \/ TaskStep(p)
        \/ \E q \in Peer : Relay(p, q)

\* The runtime polls every task that can run; clients do as they please.
Fairness == \A p \in Peer : WF_vars(TaskStep(p))

Spec == Init /\ [][Next]_vars /\ Fairness

-----------------------------------------------------------------------------
(* Properties. *)

TypeOK ==
    /\ role \in [Peer -> Roles]
    /\ parent \in [Peer -> Peer \cup {NoPeer}]
    /\ children \in [Peer -> SUBSET Peer]
    /\ wedged \in BOOLEAN
    /\ open \in [Peer -> BOOLEAN]
    /\ links \in [Peer -> SUBSET Peer]
    /\ announced \in [Peer -> SUBSET Peer]
    /\ toldParent \in [Peer -> Peer \cup {NoPeer}]
    /\ pc \in [Peer -> Resting \cup Steps]
    /\ todo \in [Peer -> SUBSET Peer]
    /\ orphans \in [Peer -> SUBSET Peer]
    /\ target \in [Peer -> Peer \cup {NoPeer}]
    /\ child \in [Peer -> Peer \cup {NoPeer}]
    /\ plan \in [Peer -> Seq([id : Peer, excess : Int])]
    /\ giver \in [Peer -> Peer \cup {NoPeer}]

\* Steps at which a load balancer has a child in no super's set.
MovingSteps == {"tellGiver", "tellMoved", "attachMoved"}

\* The peers that task p has taken out of a super's set and not yet put back.
Hand(p) == orphans[p] \cup (IF pc[p] \in MovingSteps THEN {child[p]} ELSE {})

\* Steps at which a joining peer has not been put into a set yet.
UnplacedSteps == {"new", "join", "addSuper", "announce", "addChild",
                  "findParent", "attach"}

\* A peer that must be nobody's child: it is joining, or a super peer.
Unplaced(p) == pc[p] \in UnplacedSteps \/ role[p] = "super"

InOnePlace(c) ==
    /\ \A s, t \in Peer : c \in children[s] /\ c \in children[t] => s = t
    /\ \A s, t \in Peer : c \in Hand(s) /\ c \in Hand(t) => s = t
    /\ \A s, t \in Peer : ~(c \in children[s] /\ c \in Hand(t))
    /\ Unplaced(c) => \A s \in Peer : c \notin children[s] /\ c \notin Hand(s)

\* Every peer is in at most one place, the children of one super or the hands
\* of one task, and a super peer is in none: no interleaving of joins, moves
\* and handovers gives a peer two parents or puts a super below another.
Custody == \A c \in Peer : InOnePlace(c)

\* The two directions of the relation agree: only super peers have children,
\* and whoever is still in the map and in the set of s is a child whose
\* parent_id is s.
ParentAgrees ==
    \A s, c \in Peer : c \in children[s] =>
        /\ role[s] = "super"
        /\ role[c] # "absent" => role[c] = "child" /\ parent[c] = s

\* What is in the map while a task is at a given step.
RoleFits(step, r) ==
    /\ step \in {"new", "join", "addSuper", "announce", "addChild",
                 "tellLeft", "handOver", "promote", "reattach",
                 "reintroduce"} => r = "absent"
    /\ step \in {"findParent", "attach"} => r = "child"
    /\ step \in {"balance", "move", "tellGiver", "tellMoved", "attachMoved",
                 "introduceMoved", "leaveSuper"} => r = "super"
    /\ step \in {"introduce", "tellParent", "serve", "leaveChild"}
          => r # "absent"

RoleAtStep == \A p \in Peer : RoleFits(pc[p], role[p])

\* What a handler carries from one lock acquisition to the next: a child, a
\* super, and the orphans of a super peer that leaves.
LocalsFit(step, c, s, o) ==
    /\ step \in {"tellGiver", "tellMoved", "attachMoved", "introduceMoved",
                 "reintroduce"} => c \in Peer
    /\ step \in {"tellGiver", "tellMoved", "attachMoved", "attach",
                 "promote", "reattach", "reintroduce"} => s \in Peer
    /\ step \notin {"handOver", "promote", "reattach", "reintroduce"} => o = {}

LocalsAtStep ==
    \A p \in Peer : LocalsFit(pc[p], child[p], target[p], orphans[p])

\* The inductive invariant: Custody and ParentAgrees need each other, and both
\* need to know what a task at a given step relies on.
Invariant ==
    TypeOK /\ RoleAtStep /\ LocalsAtStep /\ Custody /\ ParentAgrees

\* The shape of the topology, seen as a forest.
Forest == INSTANCE PeerForest WITH
    supers <- Supers,
    under  <- {e \in Peer \X Peer : e[2] \in children[e[1]]}

\* Every step of every interleaving is a step of PeerForest or leaves the
\* shape alone.
ImplementsForest == Forest!Spec

\* Every handler comes to an end, however the others interleave with it,
\* unless the mutex is held for ever.
HandlersFinish == \A p \in Peer : []<>(pc[p] \in Resting \/ wedged)

-----------------------------------------------------------------------------
(* Properties of the server when requests do not overlap. *)

AtRest == ~wedged /\ \A p \in Peer : pc[p] \in Resting

\* Between requests every child hangs below a super peer that lists it, and the
\* introductions follow the tree: a super peer that is there has been introduced
\* to its children and to nobody else, a child to nobody but its parent.
RestTree ==
    AtRest =>
        /\ \A c \in Children : parent[c] \in Supers /\ c \in children[parent[c]]
        /\ \A s \in Supers : open[s] => links[s] = children[s]
        /\ \A c \in Children : open[c] => links[c] \subseteq {parent[c]}

\* No super peer ever has more than PEER_RATIO children.
LoadCap == \A s \in Peer : Cardinality(children[s]) <= PEER_RATIO

-----------------------------------------------------------------------------
(* What the repository says of the server, and the code does not do. *)

\* A super peer leaves and its lowest child takes its place: the handover
\* never stops the server.
HandoverCompletes == ~wedged

\* A client is told its status once.
StatusToldOnce == \A p \in Peer : Cardinality(announced[p]) <= 1
=============================================================================
