# Matchbox, modelled and proved

TLA+ modules, TLC configurations and TLAPS proofs for the part of matchbox that
decides who is connected to whom: the signaling servers (`matchbox_signaling`,
`matchbox_server_hybrid`, `matchbox_server`), the clients' socket with its message
loop and WebRTC handshakes (`matchbox_socket`), and the super client that runs on
top of it (`matchbox_super_client`). Everything is translated from the Rust
source; `PROJECT.json` maps each definition to the lines it stands for.

Contents: 1 the system, 2 the modules, 3 the runs, 4 the proofs,
5 disagreements found, 6 limits, 7 plan.

To repeat the work, in this directory:

    tlc -config MCHybridSerial.cfg MCHybridServer
    tlapm HybridServerProofs.tla

## 1. The system

A client opens a websocket to a signaling server, gets an id, learns of other
clients from the server, and exchanges offers, answers and ICE candidates with
them through the server until a WebRTC connection stands. A *topology* on the
server decides which clients learn of which.

| Component | State | Operations | Interacts through |
|---|---|---|---|
| Hybrid server `matchbox_server_hybrid` | `HybridState.peers`: one `HashMap` behind one `std::sync::Mutex`, of super peers (with a set of children) and children (with a parent) | join as super or child, `load_balance`, relay, leave as child, leave as super with promotion of a child | one task per websocket, the shared map, unbounded channels to the clients |
| Full mesh `topologies/full_mesh.rs` | map of peers behind a mutex | `add_peer`, relay, `remove_peer` | the same |
| Client/server `topologies/client_server.rs` | `host` and `clients`, a mutex each | become host or client, relay, `reset`, `remove_client` | the same |
| Hybrid topology of the library `topologies/hybrid.rs` | `super_peers`, `child_peers`, a mutex each, and a mutex in each super peer for its children | as the hybrid server, with at most two initial super peers | the same, with nested locks |
| Websocket handler, builder, callbacks | waiting clients by address, then by id | `ws_handler`: upgrade, `IdAssigned`, then the topology's `state_machine` | axum, user callbacks |
| Matchmaking server `matchbox_server` | rooms, clients, waiting and completed `next` groups | join a room, relay, leave | the same |
| Wire protocol `matchbox_protocol` | none | `PeerEvent`, `PeerRequest` | JSON |
| Message loop `webrtc_socket/mod.rs` | handshakes in progress, data channels, one-shot senders for the id, the super peer's status and the parent | `NewPeer` starts an offer, a first signal starts an answer, `PeerLeft` is reported, a finished handshake becomes a peer loop | the signaling loop, the handshakes, the socket API |
| Socket API `socket.rs` | connected peers, channels | `update_peers`, `send`, `receive`, `close`, builder with retries | the message loop |
| Handshakes `native.rs`, `wasm.rs` | offer, answer, candidates | offer and accept, candidate relay, data channels | the WebRTC library |
| Super client `matchbox_super_client` | parent, children, last-seen times, handshake attempts | handshake with retries, timeouts, flooding between super peers | a matchbox socket |
| GGRS adapter, Bevy plugin, examples, website | none of their own | type conversion, resources, demos | the socket |

### What is hard

*Every handler is many critical sections.* A handler takes the mutex, copies
what it needs, releases the mutex, sends, takes it again. Tokio runs the tasks
of different websockets on several threads, so between any two acquisitions
anything may happen: the super peer chosen as parent may leave, the child about
to be promoted may leave, two clients may both find the room empty.

*A handler that fails half way* returns without undoing: a child whose parent
cannot be told of it stays in the map with nobody to serve its websocket.

*Moving and handing over.* Load balancing takes a child out of one super's set
and puts it into another's; a super peer that leaves takes all its children out
of the map and re-attaches them below one of them. In between, a child is in no
set, known to a local variable of one task.

*Events in order.* A client learns the topology from events only. What it
believes must come to agree with the map.

*One task, many futures.* `message_loop` is a single task, but its events,
handshakes and peer loops interleave at every `await`, and the callbacks of the
WebRTC stack run beside it. State looked at before an `await` may be old after
it, and a panic in one handshake ends all connections.

*Timers against answers.* The super client repeats a handshake while its answer
may be under way, forgets who was silent for five seconds, and decides its role
by what has arrived when it looks.

*The mutex is not re-entrant.* A method that holds the guard and calls another
that locks stops the server.

### What makes each component correct

- Hybrid server: nobody has two parents or is parent of itself; the map's two
  directions agree; nobody is lost by a move or a handover; the loads end even
  and below the ratio; clients know their parent or their children, and nobody
  else; handlers end.
- Full mesh: every two clients get to know each other, exactly one of the two
  makes the offer, a client that left is forgotten by everybody.
- Client/server: one host at a time, its clients around it, and neither seat is
  held for a client that has gone.
- Library hybrid: as the hybrid server, and no deadlock among three kinds of lock.
- Matchmaking: a group has exactly `next` members, everybody hears of exactly
  the members of its own room and group.
- Socket: a pair that is introduced gets connected; one connection per peer is
  ever reported; no panic whatever the order of events, packets and departures,
  but for the two causes section 5 names; a peer that is gone is not reported
  connected; retries end.
- Super client: a handshake is acknowledged truly and retried until it is; info
  reaches everybody and the flood ends; whoever leaves, or is silent, is
  forgotten; a promoted child becomes a super peer.

`PROJECT.json` lists, under "hazards", every place where one of these could go
wrong, with the properties that guard it, or why none does yet.

## 2. The modules

| Module | What it is |
|---|---|
| `LoadBalance` | the arithmetic of `load_balance`, operators only |
| `BalanceLoop` | `load_balance` alone, over every distribution of children |
| `HybridServer` | the hybrid server: every handler, interleaved |
| `PeerForest` | what the hybrid server promises about the shape of the topology |
| `FullMesh` | the full mesh topology |
| `ClientServer` | the client/server topology |
| `Matchmaking` | the matchmaking server's rooms and groups |
| `SignalingHybrid` | the hybrid topology of the library, with its nested locks |
| `WebRtcSocket` | the client: socket, message loop, handshakes |
| `SuperClient` | the super client's loop over its data channels |
| `BalanceLoopProofs`, `HybridServerProofs`, `FullMeshProofs`, `ClientServerProofs`, `MatchmakingProofs`, `SignalingHybridProofs`, `WebRtcSocketProofs`, `SuperClientProofs` | theorems |
| `MC...` | instances for TLC |

`HybridServer` extends `LoadBalance`, as `BalanceLoop` does. `HybridServer` and
`SignalingHybrid`, two servers written apart from each other, each instantiate
`PeerForest` under a refinement mapping. A definition whose name begins with
`Mut` is a plausible wrong version of the definition after it; nothing uses
these but the experiments that show that each property can fail.

### How code becomes actions

One task per client is a program counter `pc[p]`. **An action is one
acquisition of the mutex, from lock to unlock, or one send.** `try_send_to_peer`
takes the mutex for itself, so every send of a loop is an action, and the loop's
remaining recipients are in `todo[p]`. Where the code iterates over a `HashMap`
or a `HashSet`, the action takes any element. Local variables which live from
one acquisition to the next are variables indexed by the task.

The channels to the clients are unbounded and in order, so an event is modelled
by its effect on what the client has been told: `links` (or `met`) is the set of
peers a client has heard of by `NewPeer` or by a first
signal (which makes `message_loop` accept it as a peer), minus those it heard
`PeerLeft` of. A client that has closed its websocket hears nothing more. Where
the code looks at the result of a send, the model lets the send to a closed
client fail or succeed, because its forwarding task notices later; where a
result is only logged, nothing depends on it.

A client connects once and gets a fresh id each time, as in the code; a
reconnecting client is another id. Ids are naturals in `HybridServer`, because
the code takes minima of ids, and model values elsewhere.

`Serial` (`serial` in the other topologies) is a parameter of the environment, not of
the code: when it is TRUE a handler starts only when no other handler runs. The
properties that only hold so say what a sequence of requests leads to; those
that hold without it say what no interleaving can break.

### HybridServer

| Code | Actions |
|---|---|
| `ws_handler`, a client that goes | `Connect`, `Disconnect` |
| `state_machine`, choice of role by `should_add_super_peer` | `JoinAsSuper`, `JoinAsChild` |
| `add_super_peer` | `ListSupers`, `AnnounceSuper` per super, `InsertSuper` |
| `load_balance`, `move_child` | `TooFewSupers`, `PlanMoves`, then per move `TakeChild` or `NothingToTake`, `TellGiver`, `TellMoved`, `AttachMoved`, `IntroduceMoved`; `FinishBalance` |
| `add_child_peer`, `find_least_loaded_super_peer`, `connect_child`, `connect_child_parent` | `AddChild`, `FindParent` or `NoParentFound`, `Attach` or `AttachFails`, `Introduce` or `IntroduceFails`, `TellParent` |
| `PeerRequest::Signal` | `Relay` |
| end of the websocket, `is_super_peer` | `Close` |
| `remove_child_peer` | `RemoveChild` or `RemoveChildFails`, `TellLeft` |
| `remove_super_peer`, `promote_child_to_super` | `RemoveSuper`, `TellSuperLeft` and `TellChildLeft` per recipient, `NoRecruit` or `Recruit`, `Promote`, `Reattach` and `Reintroduce` per orphan, `FinishLeave` |

`Promote` sets `wedged` when the code would lock a mutex it holds: from then on
no action that takes the mutex is enabled.

### PeerForest

The abstract specification: a set of super peers and a relation that puts peers
below them. It has four steps: `Rise`, a peer below nobody becomes a super peer
(by joining or by promotion); `Fall`, a super peer leaves and all its edges go
with it; `Hang`, a peer below nobody is hung below a super peer; `TakeOff`, one
edge goes. That the relation is then always a forest of height one (`IsForest`)
is `HybridServerProofs!AlwaysForest`. `HybridServer` implements it with
`supers <- Supers` and `under <-` the pairs in `children`; a move of the load
balancer is a `TakeOff` and later a `Hang`, a handover is a `Fall`, a `Rise` and
one `Hang` per orphan.

### FullMesh, ClientServer and Matchmaking

`add_peer` is `ListPeers`, `TellJoined` per peer and `Insert`; `remove_peer` is
`Remove`, `ListRemaining`, `TellLeft` per peer and `Finish`. In `ClientServer`,
joining is `GetHost`, then `SetHost` or `TellHost` (or `TellHostFails`) and
`AddClient`, then `CheckHost`, which reads `is_host` once for the task's life;
`reset` is `TakeHost`, `ListClients`, `TellClient` per client, `AllTold`,
`ClearClients`; `remove_client` is `TellHostLeft` and `RemoveClient`.

In `Matchmaking`, the two maps of clients that wait for their upgrade are folded
into `Connect`, and the room a client asks for is a parameter of the client.
`ServerState::add_peer` is `AddClient`, then under the lock of `rooms`
`EnterRoom` or, for the last peer of a group, `CompleteGroup`; the loop of
`NewPeer` events is `TellJoined` and `Joined`. Leaving is `RemoveClient`,
`LeaveRoom`, `ListRoom`, `TellLeft` per peer and `Finish`. `groups` is a history
variable, the set of groups completed so far; no action reads it. For `next=0`
the subtraction in `add_peer` wraps, as in the release build of the Dockerfile,
and the room never completes.

### SignalingHybrid

Here an action is one acquisition of one of the two maps. The mutex around a
super peer's children is only taken inside the lock of `super_peers`, or, in
`remove_super_peer`, by the only task that still holds that super peer, so it
adds no interleaving and no way to wait. What a task holds when it comes to a
step is `Holds`: the `if let` of `remove_child_peer` keeps the guard of
`child_peers` over the send to the parent and the removal from its set, while
the `if let` of `connect_child` ends before it takes the other map. `CanTake`
says that no other task holds what a step takes.

| Code | Actions |
|---|---|
| `state_machine`, choice of role | `Join`, then `add_super_peer` or `AddChild` |
| `add_super_peer` | `ListSupers`, `Announce` per super, `InsertSuper` |
| `find_super_peer`, `connect_child` | `Find` or `FindsNone`, `Attach`, `SetParent`, `Introduce` or `IntroduceFails` |
| `is_super_peer`; `Signal`; the end of the websocket | `Check`; `Relay`; `Close` |
| `remove_child_peer` | `RemoveChild`, `TellParent`, `Forget` |
| `remove_super_peer` | `RemoveSuper`, `CopySupers`, `TellSuper`, `SupersTold`, `TellChild`, `ChildrenTold`, `Recruit` and `add_super_peer` for the recruit, `Reattach` per orphan, `FinishLeave` |

### WebRtcSocket

`shake[p][q]` is the list of handshakes that `p` has had with `q`: each has the
function it runs (`role`: `offer_handshake` or `accept_handshake`), the place it
waits at (`at`), the signals in its channel (`box`), what it knows of
the other side's connection (`remote`, `cands`), what has become of its own
candidate (`local`) and of its data channel (`link`). The maps of
`message_loop` are `feeds` (`handshake_signals`) and `channel` (`data_channels`);
both only say which handshake they lead to. `run` is the state of `run_socket`.

| Code | Actions |
|---|---|
| `Signaller::new`, `signaling_loop` | `AttemptFails`, `AttemptSucceeds`, `WebSocketEnds` |
| `message_loop`: events | `NewPeer`, `PeerLeft`, `Signalled` |
| `offer_handshake`, `accept_handshake`, native and wasm | `MakeOffer`, `AwaitAnswer`; `AwaitOffer`, `SetLocalDescription` |
| `complete_handshake` | `SendPending`, `ListenForCandidates`, `SignalsEnd`, `HandshakeDone` |
| `on_local_candidate` (its own task on native) | `LocalCandidate`, `StoreCandidate` |
| `peer_loop`, outgoing packets | `PeerLoopDone`, `SendPacket` |
| callbacks of the data channel | `OnOpen`, `OnClose` |
| the socket the application holds | `UpdatePeers`, `Send`, `Drop` |

External are the server (`Introduce`, `TellLeft`; signals are relayed at once)
and ICE (`Link`: it gets through when the two descriptions match and one side
knows a candidate of the other). The platforms differ where the code does: wasm
waits for its candidates before it sends a description and keeps candidates that
come early; native sends candidates by themselves and ignores early ones. One
candidate and one data channel stand for all.

### SuperClient

The loop awaits nothing between its 100 ms timer and the next wait, and pages
share nothing but queues, so one turn, from the timer to the received packets,
is one action, `Turn`. Its parts are operators on the client's maps, in the
order of the code: `Retry`, `Expire`, `FindRole`, `ReadNews` for each change of
`update_peers`, `SendInfo`, `Receive` for each sender, `OnPacket` for each of its
packets. The loops are `Fold`, a recursive function over the positions of a
sequence. `RemovePeer` is the call
a page's script may make. External are the server's events (`Assign`), the data
channels (`ComeUp`, `Leave`) and time (`FallSilent`: more than five seconds
without info of a peer). The code's timer only looks at when the last info was
read (`lib.rs:330`, `489`), so silence has two causes. `CutOff`: no info of the
peer comes any more, because it is gone, or because it, or a super peer on the
way, does not send to the next one. `Hearers(o)` are all to whom info of `o`
comes: its `Audience`, which is what `SendInfo` uses, and then whoever super
peers pass it on to. `Lapse`: info would come, but timers or packets are held
back for so long. `calm` is a variable of the model: it is true until a peer is
dropped that is still there, by either kind of silence or by `remove_peer`. All packets sent so far are there at the next turn, one
that takes longer being one that is sent later, and a packet that is equal to
one already under way is not counted twice.

`scene` is a parameter: which peers are super peers, who is whose child, which
connections come up, who may leave and who is then promoted, how many lapses
and calls of `remove_peer` may happen, and whether the server has done its part at the
start. `IsDistance(scene, o, d)` says that its connections, the earlier and the
later ones together, form a forest in which `d` is the distance from `o`, and
`IsShallow(scene)` that no distance is more than three, as in a full tree below
two super peers. `MovesAway(o, d)` is what an info does in a forest. These three
model no code; the theorem about `FloodEnds` is stated with them.

## 3. The runs

| Run | Asks | Properties |
|---|---|---|
| `balance` | does the greedy loop spread the children evenly, without waste, and end? | `EvenWhenDone` `FewWastedMoves` `OneWay` `Ends` |
| `concurrent` | what does no interleaving of handlers break? | `Invariant` `Custody` `ImplementsForest` `HandlersFinish` |
| `serial` | what do requests one after the other lead to? | `RestTree` `LoadCap` |
| `wedge` | does a handover always complete? No | `HandoverCompletes` (violated) |
| `status` | is a client told its status once? No | `StatusToldOnce` (violated) |
| `mesh` | who knows whom in a full mesh? | `Invariant` `NoGlare` `NoGhosts` `MeshedWhenSerial` `Forgotten` |
| `star` | who holds the seats in client/server? | `Invariant` `GoneIsForgotten` `Star` `SeatIsFreed` |
| `match` | do rooms and groups keep apart whom they should, and introduce the others? | `Invariant` `AllIntroduced` `GroupsAreSeparate` `NoGhosts` |
| `match_left` | is every departure told to those who know the peer? No | `LeftIsTold` (violated) |
| `siglib` | what does the library's hybrid topology keep, with its nested locks? | `Invariant` `NoTrace` `HandlersFinish` `ImplementsForest` `TreeWhenSerial` `IntroducedWhenSerial` |
| `socket` | do two clients get connected, once, and survive what may happen meanwhile? | `Invariant` `PanicsHaveCause` `GoneIsDropped` `Rendezvous` `AttemptsEnd` |
| `super` | do super clients find each other, spread their info and forget who left? | `Invariant` `AckIsTrue` `FloodEnds` `InfoSpreads` `KnownSettles` `RecruitRises` |

An `Invariant` is inductive and is what the proofs of section 4 use: the module's types, what every interleaving keeps, and
what a step of a task says about the server's state. The one of
`HybridServer` contains `Custody` and `ParentAgrees`, that of `SignalingHybrid`
its own `Custody`; those of `FullMesh` and `ClientServer` also
say what each step of a handler that runs alone has to show for itself
(`SerialMesh`, `SerialStar`), and so does the one of `SignalingHybrid`
(`SerialServer`); the one of `WebRtcSocket` contains `OneConnection`
and ties the handshakes of two peers to each other; the one of `SuperClient` says
what role, socket and connections say of each other, and what each packet of a
handshake says of both ends. `KnownSettles` is `IsKnownWhereHeard` for every
page from some time on.

**Bounds.** `balance` takes four super peers with zero to four children each,
all 625 distributions and every order of equal loads: every remainder 0 to 3
occurs, both cursors pass several positions, and it has instances that need
several givers and several receivers. `moves` counts up to `MoveBound`, one
more than there are children; `LoopCannotStick` shows that it never gets there. `concurrent` takes three peers and
`PEER_RATIO = 1` (4 in the code), so that the third peer to join becomes a
second super peer and balances, or a super peer with a child leaves while
another task moves or joins; with three tasks any two handlers overlap while a
third peer is the object of both. The bound is on the number of websockets ever
opened, and each peer may leave at any moment. `serial` takes four peers and
ratio 2, where a super peer with two children leaves (one is promoted, the other
re-attached), and the fourth peer becomes a super peer that takes over a child.
`mesh` and `star` take three peers, both values of `serial` in one run: two
that race and one that is told, or that leaves meanwhile. `match` takes four
peers (as a symmetric set: the module does not order ids, and the run has no
liveness property) and two rooms, in three settings: a mesh and pairs, `next` 1
and 3, `next` 0 and 1; at most three peers ask for the first room, which keeps
the room where everybody knows everybody small. Two groups of two form side by
side, or one forms while a member of it leaves. None of these has
another bound: no queue is cut and no counter capped.

`siglib` starts three peers on an empty server at once, or two
super peers with two more to join, with overlapping handlers and without (132
thousand states). With no overlap all four may go; with overlap the constant
`Steady` says that one super peer, peer 5, stays: both joiners may then become
children of peer 1, which leaves (one is recruited, the other redistributed, to
peer 5 or to the recruit) while either child leaves too. `Steady` keeps the run
within minutes; the theorems hold for every `Steady`, the empty set too. `socket`
takes one pair, since nothing in `message_loop` relates two peers to each other
but a panic, in the scenes of `SomeScenes`: every combination of platforms, with
one or two introductions, a farewell, or two packets (79 thousand states). Its
bounds are `intros`, `lefts` and `packets` of the scene, and two attempts to
connect, which reach both branches. `super` takes the scenes of a tree with two
super peers that comes up in any order and may lose a peer meanwhile, a full
tree, a lapse or a call of `remove_peer`, and a
handover to one of two children (233 thousand states), with two handshake
attempts (5 in the code): one is lost, the second counts. `HopLimit` is three, one more than a
flood over two super peers needs; `FloodEnds` says it is not reached.
`ShallowAssumption` of `MCSuperClient`, which TLC evaluates, says that all scenes
but the handover meet the premise of the theorem about `FloodEnds`.

**View.** `concurrent` uses the view `MapView`, which leaves out `links`,
`announced` and `toldParent`. No guard and no other variable's next value reads
those three, except `Relay`, which changes nothing but `links`; so two states
with the same view have the same behaviours of map and tasks, and the run's
properties look at nothing else but, in `Invariant`, the types of those three
variables, which `serial`'s properties and the theorem `TypeCorrect` cover. The
runs `serial` and `status` have no view. `siglib` has a view of its own, which
leaves out `links` when handlers overlap, for the same reason: only the
properties of the serial server read it.

**Deadlock.** `CHECK_DEADLOCK FALSE` everywhere: every peer may have come and
gone, `load_balance` ends, a wedged server does stop, and so does a client whose
socket has ended. That handlers do not wait for ever on each other is
`HandlersFinish`: in `concurrent` it excepts only the wedge, in `siglib`, which has
nested locks to wait for, nothing.

**Fairness.** Weak fairness of each task's step: tokio polls a task that can
run, and a task of these servers waits for nothing but the mutex, which is held
for a bounded time (the wedge aside, which is a state of the model), and its
websocket. Nothing is assumed of clients: they connect, signal and leave as they
please, or not. The weak fairness of `TaskStep` covers a mutex that is fought
over, because the model's actions hold it only during themselves and the code's
critical sections do no waiting; `siglib`, where a guard is kept over several
actions, has one condition for all tasks, that some task goes on as long as one
can.

`socket` has one weak fairness condition for the executor, ICE, the
application's polling and the end of an attempt together: no step of theirs
repeats for ever, so none of them is starved by the others. Nothing is assumed
of the websocket, the server or the application otherwise. `super` assumes that
each page's timer fires again (`WF_last(TakesTurn(p))`, per page: a turn that
changes nothing still counts), that the server and the connections complete
what the scene says, and that five seconds go by some time for whoever is not
heard any more (`CutOff`), gone or not: the timer of `lib.rs:489` compares clocks
and asks nothing else. A browser may hold back the timers of a hidden page: then
the others find it silent, which is the step `Lapse` of the model, and need not
happen.

### What they show

- *Custody*: whatever joins, balances and handovers overlap, a peer is at any
  moment in at most one super's set or in the hands of one task, and a super
  peer in none. Two load balancers that run at once move the same child only
  one after the other, because the child is removed under the lock.
- *ParentAgrees*: `PeerRole::Child.parent_id` and `PeerRole::Super.children`
  are written under the lock in one go, and no task can leave them disagreeing.
  The set of a super may still name a peer that has left the map while its task
  was attaching it elsewhere; that is why it speaks of peers in the map.
- *ImplementsForest*: each step of each interleaving is an abstract step or leaves the shape alone.
- *HandlersFinish*: no loop of a handler runs for ever.
- *RestTree, LoadCap*: after each request, if requests do not overlap, every
  child hangs below a super peer, clients know exactly the peers they should,
  and no super peer has more children than the ratio.
- *FewWastedMoves*: the remainder goes to the least loaded super peers, so the
  loop can make moves that an even spread does not need; never more of them than
  the remainder or its complement, whichever is less. *OneWay*: nobody both
  gives and receives.
- *NoGlare*: of two clients at most one is told to make the offer, also when
  the joins overlap. *NoGhosts*, *Forgotten*: a client that left is known to
  nobody who is still there, although the list of those to tell is a copy and
  others join and signal meanwhile.
- *AllIntroduced*: in the matchmaking server overlapping joins do not miss each
  other, in contrast to the full mesh topology: the copy of the room and the
  insertion are one critical section, and the client is in the map before it.
- *GroupsAreSeparate*: although a group is a set of peers only while it fills,
  nobody in a completed group ever knows anybody of the next.
- The second *HandlersFinish* and *Custody*: although the library's hybrid
  topology nests its locks, in the only circle of two maps nobody waits inside
  `super_peers` for `child_peers`, and no peer gets two parents. *NoTrace* shows by its exception what the
  cached flag costs: a recruit's task never removes it from `super_peers`.
- *PanicsHaveCause*: everything the server may send, in any order, and whatever
  the application sends to peers it was told of, ends no message loop, but for
  the two causes of section 5: a packet answered too early, and a `NewPeer` for a
  peer with which there was another introduction, in whichever direction. *OneConnection*: a pair has at most one
  connection, however often it is introduced. *Rendezvous*: an undisturbed pair
  gets connected on all four combinations of platforms, although candidates may
  be lost on the way, because each side has another way to learn the other's.
- *AckIsTrue*: an acknowledgement means that the other side has the peer in the
  map it is used from, also if it came before the receiver knew its own role.
  *InfoSpreads*, *FloodEnds*: info reaches everybody and is passed on at most
  twice. *KnownSettles*: late packets bring a leaver back for five seconds at
  most, a page that is still heard is known whatever happened between, and
  whoever is not heard is dropped everywhere. The last is what a handover leads
  to for the orphans, see section 5.
- *GoneIsForgotten*, *SeatIsFreed*: though `is_host` is read once and hosts can
  replace each other, a task that has ended has left no trace in `host` and
  `clients`.

What does *not* hold when requests overlap, and is not promised by the code:
`RestTree` and `LoadCap` (a parent may leave between choice and
attachment, which leaves a child in the map without a task or without a parent;
two joins may choose the same parent); `Star`, because two first connections
may both become host; `MeshedWhenSerial` without `serial`, because two joins
that overlap miss each other; the two `WhenSerial` properties of `siglib`.

## 4. The proofs

All by `tlapm` to the last leaf, for every set of peers (any finite set of
naturals in `HybridServer`, any finite set in `Matchmaking`, with any rooms and
any values of `next`), every `PEER_RATIO`, both values of `Serial`.
Assumptions: the named `ASSUME`s of the modules, nothing else. The one with
content is `StartsAssumption` of `SignalingHybrid`: a start whose requests do not
overlap has at most two super peers, which is what joins one after the other
lead to from an empty server.

| Theorem | Says |
|---|---|
| `HybridServerProofs!InvariantHolds`, `TypeCorrect`, `CustodyHolds`, `ParentAgreesHolds` | `Spec => []` of the named invariant |
| `HybridServerProofs!HybridImplementsForest` | `Spec => ImplementsForest` |
| `HybridServerProofs!SerialInvariantHolds`, `RestTreeHolds`, `LoadInvariantHolds`, `LoadCapHolds` | `Spec => []` of the named invariant; the second and the fourth for `Serial`, which the invariants of the others have as a premise |
| `BalanceLoopProofs!InvariantHolds`, `EvenWhenDoneHolds`, `FewWastedMovesHolds`, `OneWayHolds` | `Spec => []` of the named invariant, `Spec => OneWay`; for any finite non-empty set of super peers |
| `HybridServerProofs!AlwaysForest`, `ServerIsForest` | `Forest!Spec => []Forest!IsForest`: the abstract specification keeps a forest; therefore `Spec => []Forest!IsForest` |
| `HybridServerProofs!WedgeHasCauseHolds` | `Spec => []WedgeHasCause`: the mutex is held for ever only if a super peer has promoted a child in the map, while there is another super peer |
| `HybridServerProofs!WedgeIsFinalHolds` | `Spec => WedgeIsFinal`: from then on no map and no client's knowledge of the others changes |
| `BalanceLoopProofs!LoopCannotStick` | `Spec => [](CursorsFound /\ MovesBounded)`: while moves are left both cursors find their super peers, and there are no more moves than children |
| `FullMeshProofs!MeshInvariantHolds`, `NoGlareHolds`, `NoGhostsHolds`, `MeshedWhenSerialHolds` | `Spec => []` of the named invariant |
| `ClientServerProofs!SeatsHold`, `GoneIsForgottenHolds`, `StarHolds` | `Spec => []` of the named invariant |
| `SignalingHybridProofs!InvariantHolds`, `CustodyHolds`, `NoTraceHolds`, `TreeWhenSerialHolds`, `IntroducedWhenSerialHolds` | `Spec => []` of the named invariant |
| `SignalingHybridProofs!LibraryImplementsForest`, `LibraryIsForest` | `Spec => ImplementsForest`, `Spec => []Forest!IsForest` |
| `WebRtcSocketProofs!InvariantHolds`, `PanicsHaveCauseHolds` | `Spec => []` of the named invariant |
| `SuperClientProofs!InvariantHolds`, `AckIsTrueHolds` | `Spec => []` of the named invariant |
| `SuperClientProofs!InfosMoveAway` | `Spec => [](IsDistance(scene, o, d) => MovesAway(o, d))` for every `o` and `d` |
| `SuperClientProofs!FloodEndsHolds` | `Spec => [](IsShallow(scene) => FloodEnds)` |
| `MatchmakingProofs!MatchInvariantHolds`, `AllIntroducedHolds`, `GroupsAreSeparateHolds`, `NoGhostsHolds` | `Spec => []` of the named invariant |

**Hybrid server.** `Custody` alone is not inductive: `Attach(p)` puts `p` into a
set, and that nobody else has it follows only because a peer at "attach" has not
been placed before (`Unplaced`). `AttachMoved` needs that the child came out of
its giver's set and stayed in this task's hand (`Hand`). `RemoveSuper` needs that
the sets are disjoint already. And which role a task has in the map at a step
(`RoleAtStep`) is needed wherever a handler relies on an earlier look at the map;
`ParentAgrees` gives that a peer in a set is no super peer, without which
`Recruit` could promote someone else's child. So `Invariant` is the conjunction,
proved with one lemma per action and one step per conjunct that the action can
disturb. The forest theorem is a step simulation on top of it, one lemma per
kind of step: the steps that touch `role` or `children` map to one abstract step
each, and all others leave both alone.

`RestTree` and `LoadCap` speak of requests that do not overlap, and of the
moments between them. The proof looks at the server through its lone handler `p`
(`Solo(p)`, the same with all others at rest), which holds unless the mutex is
held for ever. `SerialInvariant` says what the step of `p` leaves unfinished:
whom it has still to hang below somebody, who must not be known yet, who is just
coming or going. Balancing takes children from several super peers at once; all
the proof needs of the plan is that its ids stay super peers while it is carried
out. `LoadCap` needs besides how much room there is: `RoomLeft(p)` gives, for each
step, what the handler found when it last counted and what it has done since. A
newcomer is attached to the least loaded of the super peers, which has room
because all children together are fewer than `PEER_RATIO` times the super peers;
a plan gives to a super peer only what that one lacks (`PlanFits`); a recruit
gets the orphans it was chosen from, who had one parent. The counts of children
of all super peers are cardinalities of sets of pairs (`PairsAtMost`,
`PairsAtLeast`), bounded by injections. After the wedge no children change.

Finding 1 (section 5) shows that the mutex can be held for ever; `WedgeHasCause`
is its converse, for any number of peers and any interleaving. What has to be
shown is that the recruit is a super peer when it is told so, or gone: between
`Recruit` and `Promote` other tasks run, the recruit's own among them.
`RecruitFits` says so, since a peer that has been an orphan is past its join and
nobody makes a child of it again (`Custody` gives the first, `StaysNoChild` the
second).

**load_balance.** What the super peers have is summed up as a set of numbered
units, so a move takes one unit from one super peer and adds one to another
(`UnitMore`), and a sum is no smaller if no part is (`TotalMonotone`). `Invariant`
says that every super peer is on its way from its load before to its target
(`UnderWay`, from which `OneWay` follows), and that the moves booked are what has
been given and what has been received (`Booked`). When one cursor is at its end
all super peers are at or below their targets, or all are at or above them; the
targets add up to what there is (`TargetsTotal`: the average for everybody, and
one more for the first `remainder` positions), so all are at their targets
(`AtTargets`). Evenness follows, and the number of moves: what was given exceeds
what lies above the ceiling by at most one for each super peer whose target is
the average, and what was received exceeds what lacks to the average by at most
one for each of the others.

**Full mesh.** `NoGlare` follows from `ToldFits`: when `p` is told of `q`, `q`
is still joining, so nobody told `q` of anyone yet. `NoGhosts` follows from
`KnownIsThere`: whoever is in `met[q]` of an open `q` is present, or its leaving
task still has `q` on its list; at `ListRemaining` an open client that knows the
leaver is in the map because of `InMap` and `ToldFits`. `MeshedWhenSerial` needs
to know what a lone handler has done so far: `OneAtATime` says that there is only
one, `SerialMesh` that all who are served know each other and the joining peer is
known by those in the map who are not in `todo` any more.

**Client/server.** `HostFits` and `ClientFits` say that whoever is named in the
server's state is at a step that leads to the handler that removes it; the
cached `isHost` has to agree with that, which is the point of the proof. `Star`
follows from `SerialStar`, which has a clause for each seat: at which steps of
the only handler the host may be gone while clients are left, whom the host
knows, and whom a client knows; it is not inductive without `OneAtATime`, and
with it each action disturbs one clause only.

**Matchmaking.** The size of a group is a fact about cardinalities: a room of
`next = n` holds fewer than `n` peers, so the test for equality with `n - 1` is
reached by adding one at a time (`RoomsBelowNext`). The other three properties
rest on one relation: `WillKnow(q, p)`, `q` knows `p` or is on the list of `p`'s
running join. `KnownFit` and `TogetherKnow` say that for two clients that are
there this is, in one direction or the other, the same as being together in a
room or in a group. It is inductive because a group completes as a whole, and a
peer that leaves its room is not there any more (`OpenFits`).

**Library hybrid.** A peer joins without a place, and the steps at which its own
task may be the one that puts it somewhere are `Placeless`: there it is in no
super peer's children and in nobody's hand. `Hand` has two parts, the orphans a
leaving task still holds and the one it is just moving (`Moved`); a handover
keeps them apart (`LocalsFit`). That a recruit is in neither map while it is
announced (`NoChild`, `LocalsFit`) is what `Recruit`, in the other map than
`InsertSuper`, has to hand on. `FlagFits` says what the flag of a task, read once,
is still worth: for a peer that was recruited it is FALSE for ever, which is why
`NoTrace` excepts it. `HeldOnce` is the mutual exclusion of the one guard that is
kept over several steps. `LibraryImplementsForest` maps each of the six actions
that touch `superPeers` or `children` to one abstract step.

`TreeWhenSerial` and `IntroducedWhenSerial` speak of the moments between requests;
the induction needs what holds in the middle of one. A handler that runs alone
leaves the tree and the acquaintances incomplete in ways that its step tells:
`Detached` are the peers in `child_peers` that it has still to hang below
somebody, `Waiting` those that must know nobody until it does (who is announced
or hung up later must not be known by a super peer of before), `StillKnown` and
`Passing` the leaving or arriving peer that part of the server has been told of.
`SerialTree` and `SerialLinks` are the two properties with these exceptions, and
`SerialTask` is what each step rests on: that there is at most one super peer
while one is added, that whoever is attached to is still one, that orphans are
in hand only during a handover. At rest there are no exceptions left. The proof
looks at the server through the lone handler `p` (`Solo(p)`, the same with the
others at rest): `SoloOf` and `SoloGives` lead there and back, and between them
is one lemma per action.

**Socket.** The obstacle is that two lists of handshakes grow and are read
asynchronously, by index. What ties them together: a peer that has started any
handshake never accepts another, so an `accept_handshake` is number 1 of its list
(`HandshakeFits`) and only one of the two sides has one (`PairFits`); an answer
is therefore `of` number 1, wherever it is: in the server's queue (`EventFits`),
in the channel of a handshake, or read (`SignalFits`, `PartnerFits`). A data
channel opens only between two handshakes whose descriptions match, so whatever
offer is linked, its partner is number 1 and remembers that very offer
(`PartnerFits`); two handshakes that complete would both be in the memory of one
`accept_handshake`. That is `OneConnection`, and it is why a later offer cannot
connect a pair again. For `PanicsHaveCause`, `ChannelsFit` says that a packet in
`out` has a channel unless it was sent early, and `IntroducedFits` counts what
one introduction can lead to: one unread `NewPeer` or one `offer_handshake`. A
handshake whose sender was replaced is not the last of its list, and then the
counts say that the pair was introduced twice. A panic is final and both causes
are, so the theorem goes from the step that ends the loop to all later states.

**Super client.** An acknowledgement is read in a later turn than the one that
sent it, so the invariant says what each packet under way means while its
connection is up (`PacketFits`): a `child_handshake` to `q` that the sender is a
child of `q`; an acknowledgement that its sender has the receiver in the map, and
for a child that the receiver is still its child. From the last, what an
acknowledged handshake says (`AckFits`) follows when it is read. It stays true
because nobody is taken out of a map as long as nobody is dropped who is still
there (`calm`), and
because a role is decided again only when the parent is gone (`RoleFits`), which
in turn needs that news of a loss come of peers that are gone only (`NewsFit`) and
that the socket keeps to what the server said first (`SocketFits`). Two pages that
a new connection joins have nothing of each other yet (`Apart`). A turn is an
action of many steps on one client: `Working(p, t)` is what every part of it
preserves, `t` being the client so far and all others being as they were, and
there is one lemma for each part. That a whole loop preserves it is proved for
`Fold` without induction over data: the positions at which a run of the loop has
left the set have a first one (`FirstCounterexample`, from the well-foundedness
of the natural numbers), and the recursive function exists because such a run
does (`RunExists`). The provers cannot instantiate a lemma with an operator, so
there is one such lemma for each of the three loops.

`FloodEnds` is a matter of the way an info has come, of which a packet carries
only the length. In a forest that is enough, with the peer the info is about:
the number of hops is the distance of the sender from that peer, and the
receiver is one further (`MovesAway`). It stays so when a super peer passes the
info on to all but the one it came from: no other neighbour is nearer to the
origin, so all of them are one further again (`InfoFlowsOn`). `Flood` says this
of all packets under way, for all origins and distances at once, with what it
needs: whoever has a connection or a packet under way meets the other in the
scene. It is inductive only together with `Invariant`, and every part of a turn
preserves both (`Flowing` is a conjunct of `Working`). `InfosMoveAway` holds for
forests of any depth, with three super peers in a row too; what goes round for
ever with three (section 5) needs them all connected to each other. Where no distance is more than three, the sender of an
info is at most two hops from its origin: that is `FloodEndsHolds`. Its premise
speaks of all connections of the scene together, whatever the time at which they
are open. The handover is outside it, since the two children connect when their
connections with the old parent are closed, and the three together are a cycle;
there `FloodEnds` is only model-checked, in the scene `Handover`.

**Only model-checked**:

- all liveness (`HandlersFinish`, `Ends`, `Forgotten`, `SeatIsFreed`,
  `GoneIsDropped`, `Rendezvous`, `AttemptsEnd`, `InfoSpreads`, `KnownSettles` and
  `RecruitRises`), which needs fairness and `ENABLED`; of `Ends`, that the loop
  neither sticks nor goes on for ever is `LoopCannotStick`;
- `FloodEnds` while a super peer hands over to a child, see above. Where three
  super peers that are all connected are open at a time it is not true.

## 5. Disagreements found

Each is a run that TLC finds violated, listed under "findings".

1. `wedge`. `promote_child_to_super` calls `try_send_to_peer` while it holds the
   guard of the same mutex. With a second super peer present, the first one's
   departure stops the server.
2. `status`. A second super peer's `SuperIdAssigned` is also sent to the first,
   whose `message_loop` panics: it takes its one-shot sender for the status at
   the first such event.
3. `match_left`. A completed group's members are in no room any more, so the
   departure of one of them is not told to the others, but to peers that wait in
   the same room for the next group.

Others came up while modelling. They have no run of their own; the properties
named are stated so that they hold in spite of them, and say by which condition.

- *Full mesh*: two overlapping joins miss each other for good
  (`full_mesh.rs:135`; `MeshedWhenSerial`). *Client/server*: two connections that
  both find no host both become host, the second replacing the first
  (`client_server.rs:74`; `Star`).
- *Library hybrid*: a recruit's task keeps the flag "child" (`hybrid.rs:117`), so
  when it leaves it stays in `super_peers`; later children are attached to it, and
  their join ends at line 109 with their entry left in `child_peers` (`NoTrace`).
  The recruit is not sent `SuperIdAssigned` and the orphans no `ParentAssigned`.
  Joins that overlap make more than two super peers (`TreeWhenSerial`). If
  the lowest child has left already nobody is recruited (`TreeWhenSerial`).
- *Socket*: a second `NewPeer` for a peer drops the sender of a running
  handshake, which panics at the `expect` of `native.rs:151` or `wasm.rs:146`, or
  on wasm spins in the `select` of `wasm.rs:342` (`PanicsHaveCause`). An
  application that answers a packet before `update_peers` has reported its sender
  may end the loop at `mod.rs:275` (the same). A later offer of a peer that was
  connected goes to the finished handshake and is ignored: a child that is moved
  away and back is never connected again (`OneConnection`). `Connected` can follow
  the `Disconnected` of `PeerLeft` (`mod.rs:218`), against the comment at
  `socket.rs:263`; `GoneIsDropped` says that it does not last. Candidates stored
  after `send_pending_candidates` are never sent (`native.rs:386`; `Rendezvous`).
  The loss of the websocket ends all connections to peers.
- *Super client*: an orphan keeps its dead parent, since `parent_peer` returns the
  first value for ever; a promotion that arrives after the loss of the parent was
  read is never noticed (`lib.rs:215`, `267`; `RecruitRises`). A
  `child_handshake` read after `Disconnected` leaves a ghost in `child_peers`
  (`lib.rs:401`). A living peer that was silent for five seconds loses its
  handshake state for good: whoever dropped it sends it nothing any more, is
  dropped by it in turn five seconds later, and then neither sends to the other.
  A handover ends in the same way for the orphans without any lapse. An orphan
  has no parent to send its info to (`lib.rs:301`), so a recruit that knew it
  through the old parent drops it after five seconds (`lib.rs:495`), handshake
  state included, and stops sending to it; five seconds later the orphan drops the
  recruit. Only a recruit that had never heard of the orphan keeps sending to it.
  `KnownSettles` says what is left: everybody knows exactly whom it hears.
  Forwarded info would go round for ever between three super peers that are all
  connected to each other. The hybrid server connects no two super peers: its
  `add_super_peer` (`state.rs:145`) sends `SuperIdAssigned` only, which starts no
  handshake. The library's topology introduces all its super peers to each
  other, and joins that overlap can make more than two of them there
  (`TreeWhenSerial`; `FloodEnds` is about two).

## 6. Limits

- User callbacks, logging, JSON, the health route, command lines and CORS are
  left out: they do not change the server's state.
- In the topologies' modules the client is what it makes of events. The server
  in `WebRtcSocket` and the connections in `SuperClient` are environments that
  may do all that the modelled parts may do, in more orders than those do;
  `WebRtcSocket` and a topology are not composed in one state space.
- A WebRTC connection itself, ICE and data channels are a library's. Data
  channels lose no packet of an open connection in the model; a super client
  uses one reliable channel, as in the code, and sees no packet before the
  `Connected` of its connection.
- `IdAssigned`, `SuperIdAssigned` and `ParentAssigned` are not events of
  `WebRtcSocket`: the one that can come twice is finding 2, and `SuperClient`
  has what the socket makes of them. The panic of finding 2 is not followed by
  the client's disconnection.
- Of the socket API, taking channels and the `Stream`, `Sink` and raw byte
  adapters are not modelled; they hand packets on. Of the super client, neither
  the forwarding of packets it never sends itself (`lib.rs:424`) nor the setters
  by which a page's script writes the maps.
- Not modelled: the GGRS adapter, the Bevy plugin, the examples and the website,
  which convert types or demonstrate; the waiting maps of the matchmaking
  server's upgrade (`matchbox_server/src/state.rs:53`), which are axum's to call.
- Clients only signal peers they have been introduced to; other `Signal`
  requests are relayed to whoever is named and are outside the model.
- In `HybridServer` a new websocket is not accepted after the wedge; its task
  would block at its first acquisition.

## 7. Plan

Done, in this order: `LoadBalance`, `BalanceLoop`, `HybridServer` with
`PeerForest` and its proofs, `FullMesh`, `ClientServer`, `Matchmaking` with
theirs, `WebRtcSocket`, `SignalingHybrid`, `SuperClient`.

Every module with actions has proofs, and every invariant that a run checks is
stated by a theorem. What is left:

1. `FloodEnds` through a handover: what a connection that comes up late can still
   carry when the earlier ones are closed.
2. What crosses two modules: `WebRtcSocket` under the introductions of a topology
   instead of any introductions.
