---------------------------- MODULE SuperClient ----------------------------
(***************************************************************************)
(* The super client (matchbox_super_client): what each page makes of the   *)
(* data channels of the hybrid topology.  Super peers and children shake   *)
(* hands, and everybody's info is flooded over the tree: a child sends its *)
(* own to its parent, a super peer passes on what it hears.                *)
(*                                                                         *)
(* A page runs one loop.  Between its 100 ms timer and the next wait it    *)
(* awaits nothing, and peers share nothing but queues: one turn of the     *)
(* loop, from the timer to the received packets, is one action, Turn.  The *)
(* operators below say what each part of it makes of the client.           *)
(***************************************************************************)
EXTENDS Integers, SequencesExt, Functions

CONSTANTS
    Peer,      \* peer ids
    NoPeer,    \* None
    MAX_HANDSHAKE_ATTEMPTS,
    HopLimit,  \* bound of the model: packets forwarded so often go no further
    Scenes     \* what the server and the pages do; see SceneType

ASSUME PeerAssumption == IsFiniteSet(Peer) /\ NoPeer \notin Peer
ASSUME BoundAssumption == MAX_HANDSHAKE_ATTEMPTS \in Nat \ {0} /\ HopLimit \in Nat

\* Connections between two different pages.
Pairs == {l \in Peer \X Peer : l[1] # l[2]}

SceneType ==
    [supers  : SUBSET Peer,                  \* told SuperIdAssigned
     parent  : [Peer -> Peer \cup {NoPeer}], \* told ParentAssigned
     links   : SUBSET Pairs,                 \* connections that come up
     leavers : SUBSET Peer,                  \* may leave
     heir    : Peer \cup {NoPeer},           \* recruited when a super leaves,
     later   : SUBSET Pairs,                 \*   and these come up
     lapses  : Nat,                          \* silences of more than 5 s
     settled : BOOLEAN]                      \* the server has done its part

ASSUME ScenesAssumption == \A s \in Scenes : s \in SceneType

VARIABLES
    scene,   \* a parameter
    client,  \* the variables of a page's loop, its maps, and what it has sent
    socket,  \* what super_peer() and parent_peer() of the socket return
    news,    \* peer state changes that update_peers has not returned yet
    links,   \* the connections that are up
    gone,    \* pages that have been closed
    lapses,  \* how many silences of pages that go on sending may still happen
    calm,    \* nobody has been dropped who is still there
    last     \* the page whose loop has turned last

vars == <<scene, client, socket, news, links, gone, lapses, calm, last>>

NewClient ==
    [ready |-> FALSE,   \* initialized
     role |-> "none",   \* self_role
     parent |-> NoPeer, \* parent_id
     supers |-> {},     \* super_peers
     kids |-> {},       \* child_peers
     shake |-> <<>>,    \* peer_handshake_states
     known |-> {},      \* the keys of peer_info
     seen |-> {},       \* the keys of last_seen
     old |-> {},        \* those of them that are more than 5 seconds back
     out |-> [q \in Peer |-> <<>>]]  \* packets to q that q has not received yet

Linked(p, q) == <<p, q>> \in links \/ <<q, p>> \in links

Change(q, state) == [peer |-> q, state |-> state]

\* The pages that are opened.
IsMember(p) == p \in scene.supers \/ scene.parent[p] # NoPeer

Members == {p \in Peer : IsMember(p)}

\* What the server tells p, from the first page on that leaves its heir too.
Assigned(p) ==
    [super  |-> p \in scene.supers \/ (p = scene.heir /\ gone # {}),
     parent |-> scene.parent[p]]

Init ==
    /\ gone = {}
    /\ scene \in Scenes
    /\ client = [p \in Peer |-> NewClient]
    /\ socket = [p \in Peer |-> IF scene.settled THEN Assigned(p) ELSE
                                [super |-> FALSE, parent |-> NoPeer]]
    /\ links = IF scene.settled THEN scene.links ELSE {}
    /\ news = [p \in Peer |-> SetToSeq(
                  {Change(q, "Connected") : q \in {r \in Peer : Linked(p, r)}})]
    /\ lapses = scene.lapses
    /\ calm = TRUE
    /\ last = NoPeer

-----------------------------------------------------------------------------
(* The parts of a turn work on t, a client.                                  *)

\* Op applied to t and one element of s after the other.
Fold(Op(_, _), t, s) ==
    LET After[n \in 0..Len(s)] == IF n = 0 THEN t ELSE Op(After[n - 1], s[n])
    IN  After[Len(s)]

Handshake(kind)  == [kind |-> kind, of |-> NoPeer, hops |-> 0]
Info(origin, n)  == [kind |-> "info", of |-> origin, hops |-> n]

\* A packet that is already on the way to q is not put there twice.
Send(t, S, packet) ==
    [t EXCEPT !.out = [q \in Peer |->
        IF q \in S /\ ~Contains(@[q], packet) THEN Append(@[q], packet)
                                              ELSE @[q]]]

Forget(f, S) == Restrict(f, DOMAIN f \ S)

Acked(t, q) == q \in DOMAIN t.shake /\ t.shake[q].acked

\* send_handshake, to all peers of S
SendHandshake(t, S, kind) ==
    LET T == S \cap DOMAIN t.shake
        Tried(q) == [attempts |-> t.shake[q].attempts + 1, acked |-> t.shake[q].acked]
    IN  Send([t EXCEPT !.shake = [q \in DOMAIN t.shake |->
                                     IF q \in T THEN Tried(q) ELSE t.shake[q]]],
             T, Handshake(kind))

\* The role: what the socket says first, until a parent is lost.
FindRole(t, s) ==
    IF t.ready THEN t
    ELSE IF s.super THEN [t EXCEPT !.role = "super", !.ready = TRUE]
    ELSE IF s.parent # NoPeer
         THEN [t EXCEPT !.role = "child", !.parent = s.parent, !.ready = TRUE]
    ELSE t

Connected(t, q) ==
    LET u == [t EXCEPT !.shake = [r \in DOMAIN t.shake \cup {q} |->
                 IF r = q THEN [attempts |-> 0, acked |-> FALSE] ELSE t.shake[r]]]
    IN  IF t.role = "super" THEN SendHandshake(u, {q}, "super_handshake")
        ELSE IF t.parent = q THEN SendHandshake(u, {q}, "child_handshake")
        ELSE u

MutDisconnected(t, q) ==
    [t EXCEPT !.supers = @ \ {q}, !.kids = @ \ {q}, !.known = @ \ {q},
              !.shake = Forget(@, {q})]

Disconnected(t, q) ==
    [t EXCEPT !.supers = @ \ {q}, !.kids = @ \ {q}, !.known = @ \ {q},
              !.shake = Forget(@, {q}), !.ready = @ /\ t.parent # q]

\* update_peers
ReadNews(t, change) ==
    IF change.state = "Connected" THEN Connected(t, change.peer)
                                  ELSE Disconnected(t, change.peer)

\* Whom the page sends its own info to, in every turn.
Audience(t) ==
    LET S == IF t.role = "super" THEN t.supers \cup t.kids
             ELSE IF t.role = "child" THEN {t.parent} ELSE {}
    IN  {q \in S : Acked(t, q)}

SendInfo(p, t) == Send(t, Audience(t), Info(p, 0))

MutOnInfo(t, from, packet) ==
    LET u == [t EXCEPT !.known = @ \cup {packet.of},
                       !.seen = @ \cup {packet.of}, !.old = @ \ {packet.of}]
    IN  IF t.role = "super" /\ packet.hops < HopLimit
        THEN Send(u, t.kids \cup t.supers, Info(packet.of, packet.hops + 1))
        ELSE u

OnInfo(t, from, packet) ==
    LET u == [t EXCEPT !.known = @ \cup {packet.of},
                       !.seen = @ \cup {packet.of}, !.old = @ \ {packet.of}]
    IN  IF t.role = "super" /\ packet.hops < HopLimit
        THEN Send(u, (t.kids \cup t.supers) \ {from},
                  Info(packet.of, packet.hops + 1))
        ELSE u

\* Whatever its own role is.
OnSuperHandshake(t, from) ==
    Send([t EXCEPT !.supers = @ \cup {from}], {from},
         Handshake("super_handshake_ack"))

\* An entry of peer_handshake_states is acknowledged, and answered with info.
Acknowledge(p, t, from) ==
    IF from \in DOMAIN t.shake
    THEN Send([t EXCEPT !.shake[from].acked = TRUE], {from}, Info(p, 0))
    ELSE t

OnSuperAck(p, t, from) ==
    IF t.role = "super"
    THEN [Acknowledge(p, t, from) EXCEPT !.supers = @ \cup {from}] ELSE t

MutOnChildHandshake(t, from) ==
    Send([t EXCEPT !.kids = IF t.role = "super" THEN @ \cup {from} ELSE @],
         {from}, Handshake("child_handshake_ack"))

OnChildHandshake(t, from) ==
    Send([t EXCEPT !.kids = @ \cup {from}], {from},
         Handshake("child_handshake_ack"))

OnPacket(p, t, from, packet) ==
    CASE packet.kind = "info" -> OnInfo(t, from, packet)
      [] packet.kind = "super_handshake" -> OnSuperHandshake(t, from)
      [] packet.kind = "super_handshake_ack" -> OnSuperAck(p, t, from)
      [] packet.kind = "child_handshake" -> OnChildHandshake(t, from)
      [] packet.kind = "child_handshake_ack" -> Acknowledge(p, t, from)

\* The packets of one sender, in the order they were sent.
Receive(p, t, from) ==
    Fold(LAMBDA u, packet : OnPacket(p, u, from, packet), t, client[from].out[p])

MutRetryTried(t) ==
    LET late == {q \in DOMAIN t.shake :
                    /\ t.shake[q].attempts \in 1..(MAX_HANDSHAKE_ATTEMPTS - 1)
                    /\ ~t.shake[q].acked}
    IN  IF t.role = "super" THEN SendHandshake(t, late, "super_handshake")
        ELSE IF t.role = "child"
             THEN SendHandshake(t, late \cap {t.parent}, "child_handshake")
        ELSE t

\* The timer: a handshake that is not acknowledged is sent again.
Retry(t) ==
    LET late == {q \in DOMAIN t.shake :
                    /\ t.shake[q].attempts < MAX_HANDSHAKE_ATTEMPTS
                    /\ ~t.shake[q].acked}
    IN  IF t.role = "super" THEN SendHandshake(t, late, "super_handshake")
        ELSE IF t.role = "child"
             THEN SendHandshake(t, late \cap {t.parent}, "child_handshake")
        ELSE t

MutExpire(t) ==
    [t EXCEPT !.supers = @ \ t.old, !.kids = @ \ t.old,
              !.shake = Forget(@, t.old), !.seen = @ \ t.old, !.old = {}]

\* The timer: peers of whom nothing was heard for 5 seconds.
Expire(t) ==
    [t EXCEPT !.supers = @ \ t.old, !.kids = @ \ t.old, !.known = @ \ t.old,
              !.shake = Forget(@, t.old), !.seen = @ \ t.old, !.old = {}]

-----------------------------------------------------------------------------

\* The packets that leave a page reach the peers it is connected to.
Arrive(p, row) == [q \in Peer |-> IF Linked(p, q) THEN row[q] ELSE <<>>]

Senders(p) == {q \in Peer : client[q].out[p] # <<>>}

\* One turn of p's loop.  All packets sent so far have arrived: one that takes
\* longer is one that is sent later.
Turn(p) ==
    /\ p \in Members \ gone
    /\ LET t1 == FindRole(Expire(Retry(client[p])), socket[p])
           t2 == SendInfo(p, Fold(ReadNews, t1, news[p]))
           t3 == Fold(LAMBDA t, q : Receive(p, t, q), t2, SetToSeq(Senders(p)))
       IN  client' = [q \in Peer |->
                         IF q = p THEN [t3 EXCEPT !.out = Arrive(p, @)]
                                  ELSE [client[q] EXCEPT !.out[p] = <<>>]]
    /\ news' = [news EXCEPT ![p] = <<>>]
    /\ last' = p
    /\ UNCHANGED <<scene, socket, links, gone, lapses, calm>>

\* remove_peer, called by the script of the page.
RemovePeer(p, q) ==
    /\ lapses > 0
    /\ q \in client[p].known
    /\ lapses' = lapses - 1
    /\ calm' = FALSE
    /\ client' = [client EXCEPT ![p].supers = @ \ {q}, ![p].kids = @ \ {q},
                                ![p].known = @ \ {q},
                                ![p].shake = Forget(@, {q})]
    /\ UNCHANGED <<scene, socket, news, links, gone, last>>

-----------------------------------------------------------------------------
(* The server, the connections, time, and people who close a page: external. *)

Assign(p) ==
    /\ p \notin gone
    /\ socket[p] # Assigned(p)
    /\ socket' = [socket EXCEPT ![p] = Assigned(p)]
    /\ UNCHANGED <<news, links>>

ComeUp(p, q) ==
    /\ <<p, q>> \in scene.links \/ (<<p, q>> \in scene.later /\ gone # {})
    /\ ~Linked(p, q)
    /\ {p, q} \cap gone = {}
    /\ links' = links \cup {<<p, q>>}
    /\ news' = [news EXCEPT ![p] = Append(@, Change(q, "Connected")),
                            ![q] = Append(@, Change(p, "Connected"))]
    /\ UNCHANGED socket

Leave(p) ==
    /\ p \in scene.leavers
    /\ gone = {}
    /\ gone' = {p}
    /\ links' = {l \in links : p \notin {l[1], l[2]}}
    /\ client' = [q \in Peer |-> IF q = p THEN [NewClient EXCEPT !.out = client[p].out]
                                 ELSE [client[q] EXCEPT !.out[p] = <<>>]]
    /\ news' = [q \in Peer |-> IF q = p THEN <<>>
                               ELSE IF Linked(p, q)
                               THEN Append(news[q], Change(p, "Disconnected"))
                               ELSE news[q]]
    /\ UNCHANGED <<scene, socket, lapses, calm, last>>

Passes(p, from) ==
    IF client[p].role = "super"
    THEN {q \in (client[p].kids \cup client[p].supers) \ {from} : Linked(p, q)} ELSE {}

\* Everybody to whom the info of o comes, as long as all maps stay as they are:
\* its audience, and whoever it is passed on to.
Hearers(o) ==
    LET Behind[p \in Peer, from \in Peer, n \in 0..HopLimit] ==
            {p} \cup IF n = HopLimit THEN {}
                     ELSE UNION {Behind[q, p, n + 1] : q \in Passes(p, from)}
    IN  UNION {Behind[q, o, 0] : q \in {r \in Audience(client[o]) : Linked(o, r)}}

\* 5 seconds go by in which p hears nothing of q.
FallSilent(p, q) ==
    /\ q \in client[p].seen \ client[p].old
    /\ calm' = (calm /\ q \in gone)
    /\ client' = [client EXCEPT ![p].old = @ \cup {q}]

\* Because no info of q comes to p any more: q is gone, or cut off from p.
CutOff ==
    /\ UNCHANGED <<last, scene, socket, news, links, gone, lapses>>
    /\ \E q \in Peer : \E p \in Peer \ Hearers(q) : FallSilent(p, q)

\* Because the timers of a page, or packets, are held back for so long.
Lapse ==
    /\ lapses > 0
    /\ lapses' = lapses - 1
    /\ \E p, q \in Peer : FallSilent(p, q)
    /\ UNCHANGED <<scene, socket, news, links, gone, last>>

ServerStep ==
    /\ UNCHANGED <<last, scene, client, gone, lapses, calm>>
    /\ \/ \E p \in Peer : Assign(p)
       \/ \E l \in scene.links \cup scene.later : ComeUp(l[1], l[2])

Next ==
    \/ ServerStep
    \/ \E p \in Peer : Turn(p) \/ Leave(p)
    \/ CutOff \/ Lapse
    \/ \E p, q \in Peer : RemovePeer(p, q)

TakesTurn(p) == last' = p /\ p \notin gone /\ IsMember(p)

\* Every page's timer fires again, the server completes what it has begun, and
\* whoever is not heard of any more is silent for 5 seconds in the end.
Fairness ==
    /\ \A p \in Peer : WF_last(TakesTurn(p))
    /\ WF_vars(ServerStep)
    /\ WF_vars(CutOff)

Spec == Init /\ [][Next]_vars /\ Fairness

-----------------------------------------------------------------------------
(* Properties. *)

Packets ==
    [kind : {"super_handshake", "super_handshake_ack", "child_handshake",
             "child_handshake_ack"}, of : {NoPeer}, hops : {0}]
      \cup [kind : {"info"}, of : Peer, hops : 0..HopLimit]

HandshakeState == [attempts : 0..MAX_HANDSHAKE_ATTEMPTS, acked : BOOLEAN]

Client ==
    [ready : BOOLEAN, role : {"none", "super", "child"}, parent : Peer \cup {NoPeer},
     supers : SUBSET Peer, kids : SUBSET Peer, known : SUBSET Peer,
     seen : SUBSET Peer, old : SUBSET Peer,
     shake : UNION {[S -> HandshakeState] : S \in SUBSET Peer},
     out : [Peer -> Seq(Packets)]]

TypeOK ==
    /\ scene \in Scenes
    /\ client \in [Peer -> Client]
    /\ socket \in [Peer -> [super : BOOLEAN, parent : Peer \cup {NoPeer}]]
    /\ news \in [Peer -> Seq([peer : Peer, state : {"Connected", "Disconnected"}])]
    /\ links \subseteq Pairs
    /\ gone \subseteq Peer
    /\ lapses \in 0..scene.lapses
    /\ calm \in BOOLEAN
    /\ last \in Peer \cup {NoPeer}

\* The socket of p says what the server said first.
SocketFits(p) ==
    /\ socket[p].super => Assigned(p).super
    /\ socket[p].parent \in {NoPeer, scene.parent[p]}

\* What the role of p's page means for the parent: a child has one, and decides
\* anew only when it is gone; a super peer has none, or had one that is gone.
RoleFits(p, c) ==
    /\ c.parent \in {NoPeer, scene.parent[p]}
    /\ c.role = "none" => ~c.ready /\ c.parent = NoPeer
    /\ c.role = "child" => c.parent # NoPeer /\ (c.ready \/ c.parent \in gone)
    /\ c.role = "super" => socket[p].super /\ c.parent \in {NoPeer} \cup gone

\* News come of connections that are up, or of peers that are gone.
NewsFit(p) ==
    \A change \in Range(news[p]) :
        change.peer \in gone \/ (change.state = "Connected" /\ Linked(p, change.peer))

\* Two pages that are not connected have nothing of each other.
Apart(p, q) ==
    {p, q} \cap gone = {} /\ ~Linked(p, q) =>
        client[p].out[q] = <<>> /\ q \notin DOMAIN client[p].shake

IsChildOf(c, q) == c.role = "child" /\ c.parent = q

\* What a packet on its way from p to q says of both.
PacketFits(p, q, packet) ==
    CASE packet.kind = "child_handshake" -> IsChildOf(client[p], q)
      [] packet.kind = "super_handshake_ack" -> q \in client[p].supers
      [] packet.kind = "child_handshake_ack" ->
            q \in client[p].kids /\ IsChildOf(client[q], p)
      [] OTHER -> TRUE

AckFits(p, q) ==
    Acked(client[p], q) =>
        \/ client[p].role = "super" /\ p \in client[q].supers
        \/ IsChildOf(client[p], q) /\ p \in client[q].kids

HandshakesFit(p, q) ==
    Linked(p, q) => /\ \A packet \in Range(client[p].out[q]) : PacketFits(p, q, packet)
                    /\ AckFits(p, q)

\* An acknowledged handshake is one that the other end has acted on: a parent
\* has its child among its children, and a peer has the super peer that
\* greeted it among its super peers, whatever each knew of its own role then.
\* (As long as nobody has been dropped who is still there.)
AckIsTrue ==
    calm =>
        \A p, q \in Peer :
            Acked(client[p], q) /\ Linked(p, q) =>
                IF client[p].role = "super" THEN p \in client[q].supers
                                            ELSE p \in client[q].kids

\* What every interleaving keeps: the types, what role, news and connections say
\* of each other, and what a handshake says at each of its steps; therefore
\* AckIsTrue.
Invariant ==
    /\ TypeOK
    /\ \A p \in Peer : SocketFits(p) /\ RoleFits(p, client[p]) /\ NewsFit(p)
    /\ \A p, q \in Peer : Linked(p, q) => p \notin gone
    /\ \A p, q \in Peer : Apart(p, q)
    /\ calm => /\ \A p \in Peer : client[p].old \subseteq gone
               /\ \A p, q \in Peer : HandshakesFit(p, q)

\* With two super peers the flood of an info ends: it is forwarded at most
\* twice, and never comes back to the peer it is about.
FloodEnds ==
    \A p, q \in Peer : \A packet \in Range(client[p].out[q]) :
        packet.kind = "info" => packet.hops <= 2 /\ packet.of # q

\* p and q are connected at some time of the scene s.
Meet(s, p, q) == {<<p, q>>, <<q, p>>} \cap (s.links \cup s.later) # {}

\* The connections of s form a forest, in which d is the distance from o: one
\* connection leads towards o, from every other peer of the tree.
IsDistance(s, o, d) ==
    /\ d[o] = 0
    /\ \A p, q \in Peer : Meet(s, p, q) => d[p] = d[q] + 1 \/ d[q] = d[p] + 1
    /\ \A p, q, r \in Peer :
          /\ Meet(s, p, r) /\ d[r] = d[p] + 1
          /\ Meet(s, q, r) /\ d[r] = d[q] + 1
          => p = q

\* At most three connections between any two peers, as between the children of
\* two super peers.
IsShallow(s) ==
    \A o \in Peer : \E d \in [Peer -> 0..3] : IsDistance(s, o, d)

\* In a forest of any depth an info about o moves away from o with every hop,
\* and the number it carries is the distance it has come.
MovesAway(o, d) ==
    \A p, q \in Peer : \A packet \in Range(client[p].out[q]) :
        packet.kind = "info" /\ packet.of = o =>
            packet.hops = d[p] /\ d[q] = d[p] + 1

\* As long as nobody leaves or falls silent everybody comes to know everybody's
\* info, in whatever order roles, connections and turns come.
InfoSpreads ==
    <>[](gone = {} /\ calm => \A p, q \in Members : p # q => q \in client[p].known)

IsSuper(p) == client[p].role = "super"

IsKnownWhereHeard(q) ==
    LET hearers == Hearers(q) IN
    \A p \in Peer \ (gone \cup {q}) : q \in client[p].known <=> p \in hearers

\* What clients know settles on whose info still comes to them: whoever leaves
\* is forgotten by everybody, also when its last packets are read after the
\* news that it has gone or are still passed on by others; a page that was
\* silent for a while but is still heard is known again; and whoever lost the
\* way to the others with its parent is dropped by them, and drops whoever then
\* stops sending to it.
KnownSettles == <>[](\A q \in Peer : IsKnownWhereHeard(q))

ParentLost(p) == Change(client[p].parent, "Disconnected") \in Range(news[p])

HeirIs(Condition(_)) == \E h \in Peer : h = scene.heir /\ Condition(h)

MustRise(p) ==
    /\ socket[p].super
    /\ client[p].role = "child"
    /\ client[p].ready => ParentLost(p)

\* A child that is recruited before its loop has taken notice of the loss of
\* its parent becomes a super peer.  (One that is told later stays the child
\* of a parent that is gone.)
RecruitRises == HeirIs(MustRise) ~> HeirIs(IsSuper)
=============================================================================
