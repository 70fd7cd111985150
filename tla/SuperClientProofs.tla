------------------------- MODULE SuperClientProofs -------------------------
(***************************************************************************)
(* Proofs about SuperClient: any set of pages, any scenes.                 *)
(***************************************************************************)
EXTENDS SuperClient, FiniteSetTheorems, FunctionTheorems, WellFoundedInduction, TLAPS

(* Folds.  What the recursive function of a Fold computes is found by the    *)
(* first position at which it would be wrong, so there is no induction over  *)
(* data.                                                                     *)

LEMMA FirstCounterexample ==
    ASSUME NEW n \in Nat, NEW S \in SUBSET (0..n), 0 \in S,
           \A i \in 1..n : i - 1 \in S => i \in S
    PROVE  S = 0..n
<1> DEFINE T == (0..n) \ S
           R == OpToRel(<, Nat)
<1>1. SUFFICES ASSUME T # {} PROVE FALSE
    OBVIOUS
<1>2. IsWellFoundedOn(R, Nat)
    BY NatLessThanWellFounded
<1>3. T \subseteq Nat
    OBVIOUS
<1>4. PICK x \in T : \A y \in T : ~(<<y, x>> \in R)
    <2> HIDE DEF T, R
    <2>1. QED
        BY <1>1, <1>2, <1>3, WFMin
<1>5. x \in Nat /\ x # 0 /\ x \in 1..n /\ x \notin S
    <2>1. x \in 0..n /\ x \notin S
        BY <1>4
    <2>2. QED
        BY <2>1
<1>6. x - 1 \in T
    <2>1. x - 1 \notin S
        BY <1>5
    <2>2. QED
        BY <1>5, <2>1
<1>7. <<x - 1, x>> \in R
    BY <1>5 DEF OpToRel
<1>8. QED
    BY <1>4, <1>6, <1>7

\* A run of n steps that stays in X, step i as G[i] says.
HasRun(n, X, x, G) ==
    \E f \in [0..n -> X] : f[0] = x /\ \A i \in 1..n : f[i] = G[i][f[i - 1]]

LEMMA RunExists ==
    ASSUME NEW n \in Nat, NEW X, NEW x \in X, NEW G \in [1..n -> [X -> X]]
    PROVE  HasRun(n, X, x, G)
<1> DEFINE Good(f, k) == f[0] = x /\ \A i \in 1..k : f[i] = G[i][f[i - 1]]
           S == {k \in 0..n : \E f \in [0..k -> X] : Good(f, k)}
<1>1. 0 \in S
    <2>1. [i \in 0..0 |-> x] \in [0..0 -> X] /\ Good([i \in 0..0 |-> x], 0)
        OBVIOUS
    <2> HIDE DEF Good
    <2>2. QED
        BY <2>1
<1>2. ASSUME NEW i \in 1..n, i - 1 \in S PROVE i \in S
    <2>1. PICK f \in [0..(i - 1) -> X] : Good(f, i - 1)
        BY <1>2
    <2> DEFINE g == [k \in 0..i |-> IF k = i THEN G[i][f[i - 1]] ELSE f[k]]
    <2>2. g \in [0..i -> X]
        OBVIOUS
    <2>3. Good(g, i)
        BY <2>1
    <2> HIDE DEF Good, g
    <2>4. QED
        BY <2>2, <2>3
<1>3. S \in SUBSET (0..n)
    OBVIOUS
<1> HIDE DEF S
<1>4. S = 0..n
    BY <1>1, <1>2, <1>3, FirstCounterexample
<1>5. n \in S
    BY <1>4
<1>6. QED
    BY <1>5 DEF S, HasRun

LEMMA StaysIn ==
    ASSUME NEW n, n \in Nat, NEW X, NEW f, f[0] \in X,
           \A i \in 1..n : f[i - 1] \in X => f[i] \in X
    PROVE  f[n] \in X
<1> DEFINE S == {i \in 0..n : f[i] \in X}
<1>1. S \in SUBSET (0..n) /\ 0 \in S /\ \A i \in 1..n : i - 1 \in S => i \in S
    OBVIOUS
<1> HIDE DEF S
<1>2. S = 0..n
    BY <1>1, FirstCounterexample
<1>3. n \in S
    BY <1>2
<1>4. QED
    BY <1>3 DEF S

\* Therefore: reading changes keeps to a set if reading each of them does.
LEMMA FoldNews ==
    ASSUME NEW X, NEW t \in X, NEW s, Len(s) \in Nat,
           \A u \in X : \A i \in 1..Len(s) : ReadNews(u, s[i]) \in X
    PROVE  Fold(ReadNews, t, s) \in X
<1> DEFINE Body(g) == [n \in 0..Len(s) |-> IF n = 0 THEN t ELSE ReadNews(g[n - 1], s[n])]
           After == CHOOSE g : g = Body(g)
           G == [i \in 1..Len(s) |-> [u \in X |-> ReadNews(u, s[i])]]
<1>1. Fold(ReadNews, t, s) = After[Len(s)]
    BY DEF Fold
<1>2. G \in [1..Len(s) -> [X -> X]]
    OBVIOUS
<1>3. PICK f \in [0..Len(s) -> X] : f[0] = t /\ \A i \in 1..Len(s) : f[i] = G[i][f[i - 1]]
    <2>1. PICK n \in Nat : n = Len(s)
        OBVIOUS
    <2> HIDE DEF G
    <2>2. G \in [1..n -> [X -> X]]
        BY <1>2, <2>1
    <2>3. HasRun(n, X, t, G)
        BY <2>2, RunExists
    <2>4. QED
        BY <2>1, <2>3 DEF HasRun
<1>4. f = Body(f)
    <2>1. ASSUME NEW n \in 0..Len(s), n # 0 PROVE f[n] = ReadNews(f[n - 1], s[n])
        <3>1. n \in 1..Len(s) /\ n - 1 \in 0..Len(s)
            BY <2>1
        <3>2. f[n - 1] \in X
            BY <3>1
        <3>3. QED
            BY <1>3, <3>1, <3>2
    <2>2. QED
        BY <1>3, <2>1
<1>5. After = Body(After)
    <2> HIDE DEF Body
    <2>1. QED
        BY <1>4
<1>6. /\ After[0] = t
      /\ \A i \in 1..Len(s) : After[i] = ReadNews(After[i - 1], s[i])
    <2> HIDE DEF After
    <2>1. QED
        BY <1>5
<1> HIDE DEF After
<1>7. \A i \in 1..Len(s) : After[i - 1] \in X => After[i] \in X
    BY <1>6
<1>8. After[Len(s)] \in X
    BY <1>6, <1>7, StaysIn
<1>9. QED
    BY <1>1, <1>8

\* The same for the packets of one sender.
LEMMA FoldPackets ==
    ASSUME NEW p, NEW from, NEW X, NEW t \in X,
           NEW s, Len(s) \in Nat,
           \A u \in X : \A i \in 1..Len(s) : OnPacket(p, u, from, s[i]) \in X
    PROVE  s = client[from].out[p] => Receive(p, t, from) \in X
<1> DEFINE Body(g) == [n \in 0..Len(s) |-> IF n = 0 THEN t ELSE OnPacket(p, g[n - 1], from, s[n])]
           After == CHOOSE g : g = Body(g)
           G == [i \in 1..Len(s) |-> [u \in X |-> OnPacket(p, u, from, s[i])]]
<1>1. s = client[from].out[p] => Receive(p, t, from) = After[Len(s)]
    BY DEF Receive, Fold
<1>2. G \in [1..Len(s) -> [X -> X]]
    OBVIOUS
<1>3. PICK f \in [0..Len(s) -> X] : f[0] = t /\ \A i \in 1..Len(s) : f[i] = G[i][f[i - 1]]
    <2>1. PICK n \in Nat : n = Len(s)
        OBVIOUS
    <2> HIDE DEF G
    <2>2. G \in [1..n -> [X -> X]]
        BY <1>2, <2>1
    <2>3. HasRun(n, X, t, G)
        BY <2>2, RunExists
    <2>4. QED
        BY <2>1, <2>3 DEF HasRun
<1>4. f = Body(f)
    <2>1. ASSUME NEW n \in 0..Len(s), n # 0 PROVE f[n] = OnPacket(p, f[n - 1], from, s[n])
        <3>1. n \in 1..Len(s) /\ n - 1 \in 0..Len(s)
            BY <2>1
        <3>2. f[n - 1] \in X
            BY <3>1
        <3>3. QED
            BY <1>3, <3>1, <3>2
    <2>2. QED
        BY <1>3, <2>1
<1>5. After = Body(After)
    <2> HIDE DEF Body
    <2>1. QED
        BY <1>4
<1>6. /\ After[0] = t
      /\ \A i \in 1..Len(s) : After[i] = OnPacket(p, After[i - 1], from, s[i])
    <2> HIDE DEF After
    <2>1. QED
        BY <1>5
<1> HIDE DEF After
<1>7. \A i \in 1..Len(s) : After[i - 1] \in X => After[i] \in X
    BY <1>6
<1>8. After[Len(s)] \in X
    BY <1>6, <1>7, StaysIn
<1>9. QED
    BY <1>1, <1>8

\* The same for the senders.
LEMMA FoldSenders ==
    ASSUME NEW p, NEW X, NEW t \in X, NEW s, Len(s) \in Nat,
           \A u \in X : \A i \in 1..Len(s) : Receive(p, u, s[i]) \in X
    PROVE  Fold(LAMBDA u, q : Receive(p, u, q), t, s) \in X
<1> DEFINE Body(g) == [n \in 0..Len(s) |-> IF n = 0 THEN t ELSE Receive(p, g[n - 1], s[n])]
           After == CHOOSE g : g = Body(g)
           G == [i \in 1..Len(s) |-> [u \in X |-> Receive(p, u, s[i])]]
<1>1. Fold(LAMBDA u, q : Receive(p, u, q), t, s) = After[Len(s)]
    BY DEF Fold
<1>2. G \in [1..Len(s) -> [X -> X]]
    OBVIOUS
<1>3. PICK f \in [0..Len(s) -> X] : f[0] = t /\ \A i \in 1..Len(s) : f[i] = G[i][f[i - 1]]
    <2>1. PICK n \in Nat : n = Len(s)
        OBVIOUS
    <2> HIDE DEF G
    <2>2. G \in [1..n -> [X -> X]]
        BY <1>2, <2>1
    <2>3. HasRun(n, X, t, G)
        BY <2>2, RunExists
    <2>4. QED
        BY <2>1, <2>3 DEF HasRun
<1>4. f = Body(f)
    <2>1. ASSUME NEW n \in 0..Len(s), n # 0 PROVE f[n] = Receive(p, f[n - 1], s[n])
        <3>1. n \in 1..Len(s) /\ n - 1 \in 0..Len(s)
            BY <2>1
        <3>2. f[n - 1] \in X
            BY <3>1
        <3>3. QED
            BY <1>3, <3>1, <3>2
    <2>2. QED
        BY <1>3, <2>1
<1>5. After = Body(After)
    <2> HIDE DEF Body
    <2>1. QED
        BY <1>4
<1>6. /\ After[0] = t
      /\ \A i \in 1..Len(s) : After[i] = Receive(p, After[i - 1], s[i])
    <2> HIDE DEF After
    <2>1. QED
        BY <1>5
<1> HIDE DEF After
<1>7. \A i \in 1..Len(s) : After[i - 1] \in X => After[i] \in X
    BY <1>6
<1>8. After[Len(s)] \in X
    BY <1>6, <1>7, StaysIn
<1>9. QED
    BY <1>1, <1>8

-----------------------------------------------------------------------------
(* The parts of a turn: types, and what each of them sends.                  *)

LEMMA ShakeType ==
    ASSUME NEW t \in Client
    PROVE  /\ DOMAIN t.shake \subseteq Peer
           /\ t.shake \in [DOMAIN t.shake -> HandshakeState]
           /\ \A q \in DOMAIN t.shake : /\ t.shake[q] \in HandshakeState
                                        /\ t.shake[q].attempts \in 0..MAX_HANDSHAKE_ATTEMPTS
                                        /\ t.shake[q].acked \in BOOLEAN
<1>1. PICK S \in SUBSET Peer : t.shake \in [S -> HandshakeState]
    BY DEF Client
<1>2. DOMAIN t.shake = S
    BY <1>1
<1>3. \A q \in S : t.shake[q] \in HandshakeState
    BY <1>1
<1>4. QED
    BY <1>1, <1>2, <1>3 DEF HandshakeState

Shakes == UNION {[S -> HandshakeState] : S \in SUBSET Peer}

LEMMA ShakeIs ==
    ASSUME NEW S \in SUBSET Peer, NEW f \in [S -> HandshakeState]
    PROVE  f \in Shakes
BY DEF Shakes

LEMMA ClientType ==
    ASSUME NEW t \in Client
    PROVE  /\ t.ready \in BOOLEAN /\ t.role \in {"none", "super", "child"}
           /\ t.parent \in Peer \cup {NoPeer}
           /\ t.supers \subseteq Peer /\ t.kids \subseteq Peer /\ t.known \subseteq Peer
           /\ t.seen \subseteq Peer /\ t.old \subseteq Peer
           /\ t.shake \in Shakes /\ t.out \in [Peer -> Seq(Packets)]
BY DEF Client, Shakes

LEMMA AppendRange ==
    ASSUME NEW S, NEW s \in Seq(S), NEW e
    PROVE  \A x \in Range(Append(s, e)) : x \in Range(s) \/ x = e
BY DEF Range

\* The maps by which others are judged.
SameMaps(t, u) ==
    /\ u.ready = t.ready /\ u.role = t.role /\ u.parent = t.parent
    /\ u.supers = t.supers /\ u.kids = t.kids /\ u.old = t.old

SameShakes(t, u) ==
    /\ DOMAIN u.shake = DOMAIN t.shake
    /\ \A q \in DOMAIN t.shake : u.shake[q].acked = t.shake[q].acked

\* u is t, which has sent packet to some of S.
Sends(t, u, S, packet) ==
    /\ u \in Client
    /\ SameMaps(t, u)
    /\ SameShakes(t, u)
    /\ \A q \in Peer : \A e \in Range(u.out[q]) :
          e \in Range(t.out[q]) \/ (q \in S /\ e = packet)

LEMMA SendIs ==
    ASSUME NEW t \in Client, NEW S, NEW packet \in Packets
    PROVE  /\ Sends(t, Send(t, S, packet), S, packet)
           /\ Send(t, S, packet).shake = t.shake
<1> DEFINE out == [q \in Peer |-> IF q \in S /\ ~Contains(t.out[q], packet)
                                  THEN Append(t.out[q], packet) ELSE t.out[q]]
           u == [t EXCEPT !.out = out]
<1>1. Send(t, S, packet) = u
    BY DEF Send
<1>2. t.out \in [Peer -> Seq(Packets)]
    BY ClientType
<1>3. out \in [Peer -> Seq(Packets)]
    <2>1. \A q \in Peer : Append(t.out[q], packet) \in Seq(Packets) /\ t.out[q] \in Seq(Packets)
        BY <1>2
    <2>2. QED
        BY <2>1
<1>4. \A q \in Peer : \A e \in Range(out[q]) :
          e \in Range(t.out[q]) \/ (q \in S /\ e = packet)
    <2>1. SUFFICES ASSUME NEW q \in Peer, NEW e \in Range(out[q])
                   PROVE  e \in Range(t.out[q]) \/ (q \in S /\ e = packet)
        OBVIOUS
    <2>2. CASE q \in S /\ ~Contains(t.out[q], packet)
        <3>1. t.out[q] \in Seq(Packets) /\ out[q] = Append(t.out[q], packet)
            BY <1>2, <2>2
        <3>2. QED
            BY <2>1, <2>2, <3>1, AppendRange
    <2>3. CASE ~(q \in S /\ ~Contains(t.out[q], packet))
        BY <2>1, <2>3
    <2>4. QED
        BY <2>2, <2>3
<1> HIDE DEF out
<1>5. /\ u \in Client /\ u.out = out /\ u.shake = t.shake
      /\ SameMaps(t, u)
    BY <1>3 DEF Client, SameMaps
<1> HIDE DEF u
<1>6. QED
    BY <1>1, <1>4, <1>5 DEF Sends, SameShakes

LEMMA PacketTypes ==
    /\ \A kind \in {"super_handshake", "super_handshake_ack", "child_handshake",
                    "child_handshake_ack"} :
          Handshake(kind) \in Packets /\ Handshake(kind).kind = kind
    /\ \A q \in Peer : \A n \in 0..HopLimit : Info(q, n) \in Packets /\ Info(q, n).kind = "info"
BY DEF Handshake, Info, Packets

LEMMA SendHandshakeIs ==
    ASSUME NEW t \in Client, NEW S, NEW kind \in {"super_handshake", "child_handshake"},
           \A q \in S \cap DOMAIN t.shake : t.shake[q].attempts < MAX_HANDSHAKE_ATTEMPTS
    PROVE  Sends(t, SendHandshake(t, S, kind), S, Handshake(kind))
<1> DEFINE T == S \cap DOMAIN t.shake
           Tried(q) == [attempts |-> t.shake[q].attempts + 1, acked |-> t.shake[q].acked]
           shake == [q \in DOMAIN t.shake |-> IF q \in T THEN Tried(q) ELSE t.shake[q]]
           u == [t EXCEPT !.shake = shake]
           v == Send(u, T, Handshake(kind))
<1>1. SendHandshake(t, S, kind) = v
    BY DEF SendHandshake
<1>2. /\ DOMAIN t.shake \in SUBSET Peer
      /\ \A q \in DOMAIN t.shake : /\ t.shake[q] \in HandshakeState
                                   /\ t.shake[q].attempts \in 0..MAX_HANDSHAKE_ATTEMPTS
                                   /\ t.shake[q].acked \in BOOLEAN
    BY ShakeType
<1>3. \A q \in T : Tried(q) \in HandshakeState /\ Tried(q).acked = t.shake[q].acked
    BY <1>2, BoundAssumption DEF HandshakeState
<1> HIDE DEF Tried
<1>4. /\ DOMAIN shake = DOMAIN t.shake /\ shake \in [DOMAIN t.shake -> HandshakeState]
      /\ \A q \in DOMAIN t.shake : shake[q].acked = t.shake[q].acked
    BY <1>2, <1>3
<1> HIDE DEF shake, T
<1>5. shake \in Shakes
    BY <1>2, <1>4, ShakeIs
<1>6. u \in Client /\ u.shake = shake /\ u.out = t.out /\ SameMaps(t, u)
    BY <1>5, ClientType DEF Client, Shakes, SameMaps
<1> HIDE DEF u
<1>7. Handshake(kind) \in Packets
    BY PacketTypes
<1>8. Sends(u, v, T, Handshake(kind)) /\ v.shake = shake
    BY <1>6, <1>7, SendIs
<1> HIDE DEF v
<1>9. Sends(t, v, S, Handshake(kind))
    BY <1>4, <1>6, <1>8 DEF Sends, SameMaps, SameShakes, T
<1>10. QED
    BY <1>1, <1>9

-----------------------------------------------------------------------------
(* What every part of a turn of p keeps.                                     *)

\* What a packet that p has just sent to q says of both.
Sent(p, q, t, packet) ==
    CASE packet.kind = "child_handshake" -> IsChildOf(t, q)
      [] packet.kind = "super_handshake_ack" -> q \in t.supers
      [] packet.kind = "child_handshake_ack" -> q \in t.kids /\ IsChildOf(client[q], p)
      [] OTHER -> TRUE

LinkKept(p, q, t) ==
    /\ q \in client[p].supers => q \in t.supers
    /\ q \in client[p].kids => q \in t.kids
    /\ \A packet \in Range(t.out[q]) : Sent(p, q, t, packet)
    /\ Acked(t, q) => \/ t.role = "super" /\ p \in client[q].supers
                      \/ IsChildOf(t, q) /\ p \in client[q].kids

RoleKept(p, t) ==
    /\ RoleFits(p, t)
    /\ client[p].role = "super" => t.role = "super"
    /\ client[p].role = "child" => IsChildOf(t, client[p].parent) \/ client[p].parent \in gone

\* What an info that goes from p to q tells: how far it has come from its
\* origin, and that q is farther.
Flows(p, q, packet) ==
    packet.kind = "info" =>
        \A d \in [Peer -> Nat] :
            IsDistance(scene, packet.of, d) => packet.hops = d[p] /\ d[q] = d[p] + 1

Flowing(p, t) ==
    \A q \in Peer : Linked(p, q) => \A packet \in Range(t.out[q]) : Flows(p, q, packet)

Working(p, t) ==
    /\ t \in Client
    /\ Flowing(p, t)
    /\ RoleKept(p, t)
    /\ \A q \in DOMAIN t.shake : Linked(p, q) \/ q \in gone
    /\ calm => t.old \subseteq gone /\ \A q \in Peer : Linked(p, q) => LinkKept(p, q, t)

\* What the parts of a turn rely on.
Ready(p) ==
    /\ p \in Peer
    /\ scene.parent[p] \in Peer \cup {NoPeer}
    /\ socket[p] \in [super : BOOLEAN, parent : Peer \cup {NoPeer}]
    /\ socket[p].parent \in {NoPeer, scene.parent[p]}
    /\ gone \subseteq Peer
    /\ \A q \in Peer : Linked(p, q) => q \notin gone /\ p # q /\ Meet(scene, p, q)

LEMMA SentKept ==
    ASSUME NEW p, NEW q, NEW t, NEW u, SameMaps(t, u), NEW packet
    PROVE  Sent(p, q, u, packet) = Sent(p, q, t, packet)
BY DEF SameMaps, Sent, IsChildOf

LEMMA WorkingSends ==
    ASSUME NEW p, NEW t, NEW u, NEW S, NEW packet,
           Working(p, t), Sends(t, u, S, packet),
           \A q \in Peer : calm /\ q \in S /\ Linked(p, q) => Sent(p, q, t, packet),
           \A q \in Peer : q \in S /\ Linked(p, q) => Flows(p, q, packet)
    PROVE  Working(p, u)
<1>1. /\ u \in Client /\ SameMaps(t, u) /\ SameShakes(t, u)
      /\ \A q \in Peer : \A e \in Range(u.out[q]) :
            e \in Range(t.out[q]) \/ (q \in S /\ e = packet)
    BY DEF Sends
<1>2. RoleKept(p, u)
    BY <1>1 DEF Working, RoleKept, RoleFits, SameMaps, IsChildOf
<1>3. \A q \in DOMAIN u.shake : Linked(p, q) \/ q \in gone
    BY <1>1 DEF Working, SameShakes
<1>4. ASSUME calm, NEW q \in Peer, Linked(p, q) PROVE LinkKept(p, q, u)
    <2>1. LinkKept(p, q, t)
        BY <1>4 DEF Working
    <2>2. \A e \in Range(u.out[q]) : Sent(p, q, u, e)
        <3>1. \A e \in Range(u.out[q]) : Sent(p, q, t, e)
            BY <1>1, <1>4, <2>1 DEF LinkKept
        <3>2. QED
            BY <1>1, <3>1, SentKept
    <2>3. Acked(u, q) = Acked(t, q)
        BY <1>1 DEF Acked, SameShakes
    <2>4. QED
        BY <1>1, <2>1, <2>2, <2>3 DEF LinkKept, SameMaps, IsChildOf
<1>5. calm => u.old \subseteq gone
    BY <1>1 DEF Working, SameMaps
<1>6. Flowing(p, u)
    BY <1>1 DEF Working, Flowing
<1>7. QED
    BY <1>1, <1>2, <1>3, <1>4, <1>5, <1>6 DEF Working

LEMMA SameOut ==
    ASSUME NEW p, NEW t, NEW u, Working(p, t), u.out = t.out
    PROVE  Flowing(p, u)
BY DEF Working, Flowing

LEMMA HandshakeFlows ==
    \A kind \in {"super_handshake", "super_handshake_ack", "child_handshake",
                 "child_handshake_ack"} :
        \A p, q : Flows(p, q, Handshake(kind))
BY PacketTypes DEF Flows

\* The two ends of a connection differ by one.
LEMMA OwnInfoFlows ==
    ASSUME NEW p, Ready(p), NEW q \in Peer, Linked(p, q)
    PROVE  Flows(p, q, Info(p, 0))
<1>1. p \in Peer /\ Meet(scene, p, q)
    BY DEF Ready
<1>2. Info(p, 0).of = p /\ Info(p, 0).hops = 0
    BY DEF Info
<1>3. ASSUME NEW d \in [Peer -> Nat], IsDistance(scene, p, d)
      PROVE  0 = d[p] /\ d[q] = d[p] + 1
    <2>1. d[p] = 0 /\ (d[p] = d[q] + 1 \/ d[q] = d[p] + 1)
        BY <1>1, <1>3 DEF IsDistance
    <2>2. QED
        BY <2>1
<1>4. QED
    BY <1>2, <1>3 DEF Flows

\* One connection leads towards the origin, and the info has come by it.
LEMMA InfoFlowsOn ==
    ASSUME NEW p, Ready(p), NEW from \in Peer, Meet(scene, from, p),
           NEW packet \in Packets, packet.kind = "info", Flows(from, p, packet),
           NEW q \in Peer, q # from, Linked(p, q)
    PROVE  Flows(p, q, Info(packet.of, packet.hops + 1))
<1>1. p \in Peer /\ Meet(scene, p, q) /\ Meet(scene, q, p)
    BY DEF Ready, Meet
<1> DEFINE next == Info(packet.of, packet.hops + 1)
<1>2. next.of = packet.of /\ next.hops = packet.hops + 1
    BY DEF Info
<1>3. ASSUME NEW d \in [Peer -> Nat], IsDistance(scene, packet.of, d)
      PROVE  packet.hops + 1 = d[p] /\ d[q] = d[p] + 1
    <2>1. packet.hops = d[from] /\ d[p] = d[from] + 1
        BY <1>3 DEF Flows
    <2>2. d[p] = d[q] + 1 \/ d[q] = d[p] + 1
        BY <1>1, <1>3 DEF IsDistance
    <2>3. ~(d[p] = d[q] + 1)
        BY <1>1, <1>3, <2>1 DEF IsDistance
    <2>4. QED
        BY <2>1, <2>2, <2>3
<1> HIDE DEF next
<1>4. Flows(p, q, next)
    BY <1>2, <1>3 DEF Flows
<1>5. QED
    BY <1>4 DEF next

\* Handshakes that are sent again.
LEMMA WorkingRetry ==
    ASSUME NEW p, Ready(p), NEW t, Working(p, t)
    PROVE  Working(p, Retry(t))
<1> DEFINE late == {q \in DOMAIN t.shake : /\ t.shake[q].attempts < MAX_HANDSHAKE_ATTEMPTS
                                          /\ ~t.shake[q].acked}
<1>1. t \in Client
    BY DEF Working
<1>2. /\ \A q \in late \cap DOMAIN t.shake : t.shake[q].attempts < MAX_HANDSHAKE_ATTEMPTS
      /\ \A q \in (late \cap {t.parent}) \cap DOMAIN t.shake :
            t.shake[q].attempts < MAX_HANDSHAKE_ATTEMPTS
    OBVIOUS
<1>3. Retry(t) = IF t.role = "super" THEN SendHandshake(t, late, "super_handshake")
                 ELSE IF t.role = "child"
                      THEN SendHandshake(t, late \cap {t.parent}, "child_handshake")
                 ELSE t
    BY DEF Retry
<1> HIDE DEF late
<1>4. CASE t.role = "super"
    <2>1. Sends(t, SendHandshake(t, late, "super_handshake"), late,
                Handshake("super_handshake"))
        BY <1>1, <1>2, SendHandshakeIs
    <2>2. \A q \in Peer : Sent(p, q, t, Handshake("super_handshake"))
        BY PacketTypes DEF Sent
    <2>3. QED
        BY <1>3, <1>4, <2>1, <2>2, WorkingSends, HandshakeFlows
<1>5. CASE t.role = "child"
    <2>1. Sends(t, SendHandshake(t, late \cap {t.parent}, "child_handshake"),
                late \cap {t.parent}, Handshake("child_handshake"))
        BY <1>1, <1>2, SendHandshakeIs
    <2>2. \A q \in Peer : q \in late \cap {t.parent}
                             => Sent(p, q, t, Handshake("child_handshake"))
        BY <1>5, PacketTypes DEF Sent, IsChildOf
    <2>3. QED
        BY <1>3, <1>5, <2>1, <2>2, WorkingSends, HandshakeFlows
<1>6. QED
    BY <1>3, <1>4, <1>5

LEMMA ForgetShake ==
    ASSUME NEW t \in Client, NEW S
    PROVE  /\ Forget(t.shake, S) \in Shakes
           /\ DOMAIN Forget(t.shake, S) = DOMAIN t.shake \ S
           /\ \A q \in DOMAIN t.shake \ S : Forget(t.shake, S)[q] = t.shake[q]
<1>1. Forget(t.shake, S) = [q \in DOMAIN t.shake \ S |-> t.shake[q]]
    BY DEF Forget, Restrict
<1>2. \A q \in DOMAIN t.shake : t.shake[q] \in HandshakeState
    BY ShakeType
<1>3. Forget(t.shake, S) \in [DOMAIN t.shake \ S -> HandshakeState]
    BY <1>1, <1>2
<1>4. DOMAIN t.shake \ S \in SUBSET Peer
    BY ShakeType
<1>5. QED
    BY <1>1, <1>3, <1>4, ShakeIs

\* u is t without some peers that are gone, or, with silences, without any.
Loses(t, u, S) ==
    /\ u \in Client
    /\ u.role = t.role /\ u.parent = t.parent /\ u.out = t.out
    /\ u.ready = t.ready \/ t.parent \in gone
    /\ u.ready => t.ready
    /\ u.supers = t.supers \ S /\ u.kids = t.kids \ S
    /\ DOMAIN u.shake = DOMAIN t.shake \ S
    /\ \A q \in DOMAIN u.shake : u.shake[q] = t.shake[q]
    /\ u.old \subseteq t.old

LEMMA WorkingLoses ==
    ASSUME NEW p, Ready(p), NEW t, NEW u, NEW S, Working(p, t), Loses(t, u, S),
           calm => S \subseteq gone
    PROVE  Working(p, u)
<1>1. RoleKept(p, u)
    BY DEF Working, Loses, RoleKept, RoleFits, IsChildOf
<1>2. \A q \in DOMAIN u.shake : Linked(p, q) \/ q \in gone
    BY DEF Working, Loses
<1>3. ASSUME calm, NEW q \in Peer, Linked(p, q) PROVE LinkKept(p, q, u)
    <2>1. LinkKept(p, q, t)
        BY <1>3 DEF Working
    <2>2. q \notin S
        BY <1>3 DEF Ready
    <2>3. (q \in u.supers <=> q \in t.supers) /\ (q \in u.kids <=> q \in t.kids)
        BY <2>2 DEF Loses
    <2>4. Acked(u, q) => Acked(t, q)
        BY DEF Acked, Loses
    <2>5. \A e : Sent(p, q, t, e) => Sent(p, q, u, e)
        BY <2>3 DEF Sent, IsChildOf, Loses
    <2>6. QED
        BY <2>1, <2>3, <2>4, <2>5 DEF LinkKept, Loses, IsChildOf
<1>4. calm => u.old \subseteq gone
    BY DEF Working, Loses
<1>5. Flowing(p, u)
    BY SameOut DEF Loses
<1>6. QED
    BY <1>1, <1>2, <1>3, <1>4, <1>5 DEF Working, Loses

LEMMA WorkingExpire ==
    ASSUME NEW p, Ready(p), NEW t, Working(p, t)
    PROVE  Working(p, Expire(t))
<1>1. t \in Client
    BY DEF Working
<1>2. PICK shake \in Shakes :
          /\ shake = Forget(t.shake, t.old)
          /\ DOMAIN shake = DOMAIN t.shake \ t.old
          /\ \A q \in DOMAIN t.shake \ t.old : shake[q] = t.shake[q]
    BY <1>1, ForgetShake
<1>3. Expire(t) = [t EXCEPT !.supers = t.supers \ t.old, !.kids = t.kids \ t.old,
                            !.known = t.known \ t.old, !.shake = shake,
                            !.seen = t.seen \ t.old, !.old = {}]
    BY <1>2 DEF Expire
<1>4. Loses(t, Expire(t), t.old)
    <2> DEFINE u == Expire(t)
    <2>1. /\ u.role = t.role /\ u.parent = t.parent /\ u.out = t.out /\ u.ready = t.ready
          /\ u.supers = t.supers \ t.old /\ u.kids = t.kids \ t.old
          /\ u.shake = shake /\ u.old = {}
        BY <1>1, <1>3 DEF Client
    <2>2. /\ t.supers \ t.old \subseteq Peer /\ t.kids \ t.old \subseteq Peer
          /\ t.known \ t.old \subseteq Peer /\ t.seen \ t.old \subseteq Peer
        BY <1>1, ClientType
    <2>3. u \in Client
        <3>1. PICK supers, kids, known, seen \in SUBSET Peer :
                 /\ supers = t.supers \ t.old /\ kids = t.kids \ t.old
                 /\ known = t.known \ t.old /\ seen = t.seen \ t.old
            BY <2>2
        <3>2. u = [t EXCEPT !.supers = supers, !.kids = kids, !.known = known,
                            !.shake = shake, !.seen = seen, !.old = {}]
            BY <1>3, <3>1
        <3>3. QED
            BY <1>1, <3>2 DEF Client, Shakes
    <2> HIDE DEF u
    <2>4. QED
        BY <1>2, <2>1, <2>3 DEF Loses, u
<1>5. calm => t.old \subseteq gone
    BY DEF Working
<1>6. QED
    BY <1>4, <1>5, WorkingLoses

\* The role: a role that is taken anew was lost with a parent that is gone.
LEMMA WorkingFindRole ==
    ASSUME NEW p, Ready(p), NEW t, Working(p, t)
    PROVE  Working(p, FindRole(t, socket[p]))
<1> DEFINE s == socket[p]
           u == FindRole(t, s)
<1>1. t \in Client /\ RoleFits(p, t)
    BY DEF Working, RoleKept
<1>2. CASE t.ready \/ (~s.super /\ s.parent = NoPeer)
    BY <1>2 DEF FindRole
<1>3. CASE ~t.ready /\ s.super
    <2>1. u = [t EXCEPT !.role = "super", !.ready = TRUE]
        BY <1>3 DEF FindRole
    <2>2. /\ u \in Client /\ u.role = "super" /\ u.ready = TRUE /\ u.parent = t.parent
          /\ u.supers = t.supers /\ u.kids = t.kids /\ u.shake = t.shake /\ u.out = t.out
          /\ u.old = t.old
        BY <1>1, <2>1 DEF Client
    <2> HIDE DEF u
    <2>3. RoleKept(p, u)
        <3>1. t.parent = NoPeer \/ t.parent \in gone
            BY <1>1, <1>3 DEF RoleFits, Client
        <3>2. client[p].role = "child" => client[p].parent \in gone
            BY <1>1, <1>3 DEF Working, RoleKept, RoleFits, IsChildOf
        <3>3. QED
            BY <1>1, <1>3, <2>2, <3>1, <3>2 DEF RoleKept, RoleFits
    <2>4. ASSUME calm, NEW q \in Peer, Linked(p, q) PROVE LinkKept(p, q, u)
        <3>1. LinkKept(p, q, t) /\ q \notin gone
            BY <2>4 DEF Working, Ready
        <3>2. ~IsChildOf(t, q)
            BY <1>1, <1>3, <3>1 DEF RoleFits, IsChildOf
        <3>3. \A e : Sent(p, q, t, e) => Sent(p, q, u, e)
            BY <2>2, <3>2 DEF Sent
        <3>4. Acked(u, q) = Acked(t, q)
            BY <2>2 DEF Acked
        <3>5. QED
            BY <2>2, <3>1, <3>2, <3>3, <3>4 DEF LinkKept
    <2>5. Flowing(p, u)
        BY <2>2, SameOut
    <2>6. QED
        BY <2>2, <2>3, <2>4, <2>5 DEF Working, u
<1>4. CASE ~t.ready /\ ~s.super /\ s.parent # NoPeer
    <2>1. u = [t EXCEPT !.role = "child", !.parent = s.parent, !.ready = TRUE]
        BY <1>4 DEF FindRole
    <2>2. /\ u \in Client /\ u.role = "child" /\ u.ready = TRUE /\ u.parent = s.parent
          /\ u.supers = t.supers /\ u.kids = t.kids /\ u.shake = t.shake /\ u.out = t.out
          /\ u.old = t.old /\ s.parent = scene.parent[p] /\ s.parent \in Peer
        BY <1>1, <1>4, <2>1 DEF Client, Ready
    <2> HIDE DEF u
    <2>3. t.role # "super"
        BY <1>1, <1>4 DEF RoleFits
    <2>4. t.role = "child" => t.parent = s.parent /\ t.parent \in gone
        BY <1>1, <1>4, <2>2 DEF RoleFits
    <2>5. RoleKept(p, u)
        <3>1. client[p].role = "super" => u.role = "super"
            BY <2>3 DEF Working, RoleKept
        <3>2. client[p].role = "child" => IsChildOf(u, client[p].parent)
                                          \/ client[p].parent \in gone
            BY <2>4 DEF Working, RoleKept, IsChildOf
        <3>3. RoleFits(p, u)
            BY <2>2, PeerAssumption DEF RoleFits
        <3>4. QED
            BY <3>1, <3>2, <3>3 DEF RoleKept
    <2>6. ASSUME calm, NEW q \in Peer, Linked(p, q) PROVE LinkKept(p, q, u)
        <3>1. LinkKept(p, q, t) /\ q \notin gone
            BY <2>6 DEF Working, Ready
        <3>2. ~IsChildOf(t, q)
            BY <2>4, <3>1 DEF IsChildOf
        <3>3. \A e : Sent(p, q, t, e) => Sent(p, q, u, e)
            BY <2>2, <3>2 DEF Sent
        <3>4. ~Acked(u, q)
            BY <2>2, <2>3, <3>1, <3>2 DEF Acked, LinkKept
        <3>5. QED
            BY <2>2, <3>1, <3>3, <3>4 DEF LinkKept
    <2>7. Flowing(p, u)
        BY <2>2, SameOut
    <2>8. QED
        BY <2>2, <2>5, <2>6, <2>7 DEF Working, u
<1>5. QED
    BY <1>2, <1>3, <1>4

LEMMA WorkingConnected ==
    ASSUME NEW p, Ready(p), NEW t, Working(p, t), NEW q \in Peer,
           Linked(p, q) \/ q \in gone
    PROVE  Working(p, Connected(t, q))
<1> DEFINE new == [attempts |-> 0, acked |-> FALSE]
           shake == [r \in DOMAIN t.shake \cup {q} |-> IF r = q THEN new ELSE t.shake[r]]
           u == [t EXCEPT !.shake = shake]
<1>1. t \in Client
    BY DEF Working
<1>2. /\ Connected(t, q) = IF t.role = "super" THEN SendHandshake(u, {q}, "super_handshake")
                           ELSE IF t.parent = q THEN SendHandshake(u, {q}, "child_handshake")
                           ELSE u
    BY DEF Connected
<1>3. new \in HandshakeState /\ new.acked = FALSE /\ new.attempts = 0
    BY BoundAssumption DEF HandshakeState
<1> HIDE DEF new
<1>4. /\ DOMAIN t.shake \cup {q} \in SUBSET Peer
      /\ shake \in [DOMAIN t.shake \cup {q} -> HandshakeState]
    BY <1>1, <1>3, ShakeType
<1>5. /\ shake[q] = new /\ \A r \in DOMAIN t.shake : r # q => shake[r] = t.shake[r]
      /\ DOMAIN shake = DOMAIN t.shake \cup {q}
    OBVIOUS
<1> HIDE DEF shake
<1>6. shake \in Shakes
    BY <1>4, ShakeIs
<1>7. u \in Client /\ u.shake = shake /\ u.out = t.out /\ SameMaps(t, u)
    BY <1>1, <1>6, ClientType DEF Client, Shakes, SameMaps
<1> HIDE DEF u
<1>8. Working(p, u)
    <2>1. RoleKept(p, u)
        BY <1>7 DEF Working, RoleKept, RoleFits, SameMaps, IsChildOf
    <2>2. \A r \in DOMAIN u.shake : Linked(p, r) \/ r \in gone
        BY <1>5, <1>7 DEF Working
    <2>3. ASSUME calm, NEW r \in Peer, Linked(p, r) PROVE LinkKept(p, r, u)
        <3>1. LinkKept(p, r, t)
            BY <2>3 DEF Working
        <3>2. Acked(u, r) => Acked(t, r)
            BY <1>3, <1>5, <1>7 DEF Acked
        <3>3. \A e : Sent(p, r, t, e) => Sent(p, r, u, e)
            BY <1>7, SentKept
        <3>4. QED
            BY <1>7, <3>1, <3>2, <3>3 DEF LinkKept, SameMaps, IsChildOf
    <2>4. Flowing(p, u)
        BY <1>7, SameOut
    <2>5. QED
        BY <1>7, <2>1, <2>2, <2>3, <2>4 DEF Working, SameMaps
<1>9. \A r \in {q} \cap DOMAIN u.shake : u.shake[r].attempts < MAX_HANDSHAKE_ATTEMPTS
    BY <1>3, <1>5, <1>7, BoundAssumption
<1>10. CASE t.role = "super"
    <2>1. Sends(u, SendHandshake(u, {q}, "super_handshake"), {q}, Handshake("super_handshake"))
        BY <1>7, <1>9, SendHandshakeIs
    <2>2. \A r \in Peer : Sent(p, r, u, Handshake("super_handshake"))
        BY PacketTypes DEF Sent
    <2>3. QED
        BY <1>2, <1>8, <1>10, <2>1, <2>2, WorkingSends, HandshakeFlows
<1>11. CASE t.role # "super" /\ t.parent = q
    <2>1. Sends(u, SendHandshake(u, {q}, "child_handshake"), {q}, Handshake("child_handshake"))
        BY <1>7, <1>9, SendHandshakeIs
    <2>2. IsChildOf(u, q)
        <3>1. t.role = "child"
            BY <1>1, <1>11, PeerAssumption DEF Working, RoleKept, RoleFits, Client
        <3>2. QED
            BY <1>7, <1>11, <3>1 DEF IsChildOf, SameMaps
    <2>3. \A r \in Peer : r \in {q} => Sent(p, r, u, Handshake("child_handshake"))
        BY <2>2, PacketTypes DEF Sent
    <2>4. QED
        BY <1>2, <1>8, <1>11, <2>1, <2>3, WorkingSends, HandshakeFlows
<1>12. CASE t.role # "super" /\ t.parent # q
    BY <1>2, <1>8, <1>12
<1>13. QED
    BY <1>10, <1>11, <1>12

LEMMA WorkingDisconnected ==
    ASSUME NEW p, Ready(p), NEW t, Working(p, t), NEW q \in gone
    PROVE  Working(p, Disconnected(t, q))
<1>1. t \in Client
    BY DEF Working
<1>2. PICK shake \in Shakes :
          /\ shake = Forget(t.shake, {q})
          /\ DOMAIN shake = DOMAIN t.shake \ {q}
          /\ \A r \in DOMAIN t.shake \ {q} : shake[r] = t.shake[r]
    BY <1>1, ForgetShake
<1>3. PICK ready \in BOOLEAN : ready = (t.ready /\ t.parent # q)
    OBVIOUS
<1>4. Disconnected(t, q) = [t EXCEPT !.supers = t.supers \ {q}, !.kids = t.kids \ {q},
                                     !.known = t.known \ {q}, !.shake = shake,
                                     !.ready = ready]
    BY <1>2, <1>3 DEF Disconnected
<1> DEFINE u == Disconnected(t, q)
<1>5. /\ u.role = t.role /\ u.parent = t.parent /\ u.out = t.out /\ u.ready = ready
      /\ u.supers = t.supers \ {q} /\ u.kids = t.kids \ {q}
      /\ u.shake = shake /\ u.old = t.old
    BY <1>1, <1>4 DEF Client
<1>6. u \in Client
    <2>1. PICK supers, kids, known \in SUBSET Peer :
             supers = t.supers \ {q} /\ kids = t.kids \ {q} /\ known = t.known \ {q}
        <3>1. t.supers \subseteq Peer /\ t.kids \subseteq Peer /\ t.known \subseteq Peer
            BY <1>1, ClientType
        <3>2. QED
            BY <3>1
    <2>2. u = [t EXCEPT !.supers = supers, !.kids = kids, !.known = known,
                        !.shake = shake, !.ready = ready]
        BY <1>4, <2>1
    <2> HIDE DEF u
    <2>3. QED
        BY <1>1, <2>2 DEF Client, Shakes
<1> HIDE DEF u
<1>7. u.ready = t.ready \/ t.parent \in gone
    <2>1. CASE t.parent = q
        BY <2>1
    <2>2. CASE t.parent # q
        <3>1. ready = t.ready
            BY <1>1, <1>3, <2>2, ClientType
        <3>2. QED
            BY <1>5, <3>1
    <2>3. QED
        BY <2>1, <2>2
<1>8. u.ready => t.ready
    BY <1>3, <1>5
<1>9. Loses(t, u, {q})
    BY <1>2, <1>5, <1>6, <1>7, <1>8 DEF Loses
<1>10. QED
    BY <1>9, WorkingLoses DEF u

LEMMA WorkingReadNews ==
    ASSUME NEW p, Ready(p), NEW t, Working(p, t),
           NEW change, change.peer \in Peer,
           change.peer \in gone \/ (change.state = "Connected" /\ Linked(p, change.peer))
    PROVE  Working(p, ReadNews(t, change))
BY WorkingConnected, WorkingDisconnected DEF ReadNews

LEMMA WorkingSendInfo ==
    ASSUME NEW p, Ready(p), NEW t, Working(p, t)
    PROVE  Working(p, SendInfo(p, t))
<1> DEFINE T == Audience(t)
<1>1. SendInfo(p, t) = Send(t, T, Info(p, 0))
    BY DEF SendInfo
<1>2. Info(p, 0) \in Packets /\ Info(p, 0).kind = "info"
    BY PacketTypes, BoundAssumption DEF Ready
<1> HIDE DEF T
<1>3. Sends(t, Send(t, T, Info(p, 0)), T, Info(p, 0))
    BY <1>2, SendIs DEF Working
<1>4. \A q \in Peer : Sent(p, q, t, Info(p, 0))
    BY <1>2 DEF Sent
<1>5. \A q \in Peer : Linked(p, q) => Flows(p, q, Info(p, 0))
    BY OwnInfoFlows
<1>6. QED
    BY <1>1, <1>3, <1>4, <1>5, WorkingSends

\* What u has in addition to t is learnt from a packet.
Learns(t, u) ==
    /\ u \in Client
    /\ u.ready = t.ready /\ u.role = t.role /\ u.parent = t.parent /\ u.out = t.out
    /\ t.supers \subseteq u.supers /\ t.kids \subseteq u.kids /\ u.old \subseteq t.old
    /\ DOMAIN u.shake = DOMAIN t.shake

\* What an acknowledged handshake of p and q says.
Answered(p, q, t) ==
    \/ t.role = "super" /\ p \in client[q].supers
    \/ IsChildOf(t, q) /\ p \in client[q].kids

LEMMA WorkingLearns ==
    ASSUME NEW p, NEW t, NEW u, Working(p, t), Learns(t, u),
           \A q \in Peer : calm /\ Linked(p, q) /\ Acked(u, q)
                              => Acked(t, q) \/ Answered(p, q, t)
    PROVE  Working(p, u)
<1>1. RoleKept(p, u)
    BY DEF Working, Learns, RoleKept, RoleFits, IsChildOf
<1>2. \A q \in DOMAIN u.shake : Linked(p, q) \/ q \in gone
    BY DEF Working, Learns
<1>3. ASSUME calm, NEW q \in Peer, Linked(p, q) PROVE LinkKept(p, q, u)
    <2>1. LinkKept(p, q, t)
        BY <1>3 DEF Working
    <2>2. Acked(u, q) => Answered(p, q, t)
        BY <1>3, <2>1 DEF LinkKept, Answered
    <2>3. \A e : Sent(p, q, t, e) => Sent(p, q, u, e)
        BY DEF Sent, IsChildOf, Learns
    <2>4. QED
        BY <2>1, <2>2, <2>3 DEF LinkKept, Learns, IsChildOf, Answered
<1>4. calm => u.old \subseteq gone
    BY DEF Working, Learns
<1>5. Flowing(p, u)
    BY SameOut DEF Learns
<1>6. QED
    BY <1>1, <1>2, <1>3, <1>4, <1>5 DEF Working, Learns

LEMMA WorkingOnInfo ==
    ASSUME NEW p, Ready(p), NEW t, Working(p, t), NEW from \in Peer, Meet(scene, from, p),
           NEW packet \in Packets, packet.kind = "info", Flows(from, p, packet)
    PROVE  Working(p, OnInfo(t, from, packet))
<1> DEFINE u == [t EXCEPT !.known = t.known \cup {packet.of},
                          !.seen = t.seen \cup {packet.of}, !.old = t.old \ {packet.of}]
           S == (t.kids \cup t.supers) \ {from}
           next == Info(packet.of, packet.hops + 1)
<1>1. t \in Client
    BY DEF Working
<1>2. packet.of \in Peer /\ packet.hops \in 0..HopLimit
    BY DEF Packets
<1>3. OnInfo(t, from, packet) = IF t.role = "super" /\ packet.hops < HopLimit
                                THEN Send(u, S, next) ELSE u
    BY DEF OnInfo
<1>4. u \in Client
    <2>1. PICK known, seen, old \in SUBSET Peer :
             /\ known = t.known \cup {packet.of} /\ seen = t.seen \cup {packet.of}
             /\ old = t.old \ {packet.of}
        BY <1>1, <1>2, ClientType
    <2>2. u = [t EXCEPT !.known = known, !.seen = seen, !.old = old]
        BY <2>1
    <2>3. QED
        BY <1>1, <2>2 DEF Client
<1>5. /\ u.ready = t.ready /\ u.role = t.role /\ u.parent = t.parent /\ u.out = t.out
      /\ u.supers = t.supers /\ u.kids = t.kids /\ u.old = t.old \ {packet.of}
      /\ u.shake = t.shake
    BY <1>1 DEF Client
<1> HIDE DEF u
<1>6. Working(p, u)
    <2>1. Learns(t, u)
        BY <1>4, <1>5 DEF Learns
    <2>2. \A q : Acked(u, q) => Acked(t, q)
        BY <1>5 DEF Acked
    <2>3. QED
        BY <2>1, <2>2, WorkingLearns
<1>7. CASE packet.hops < HopLimit
    <2>1. packet.hops + 1 \in 0..HopLimit
        BY <1>2, <1>7, BoundAssumption
    <2>2. next \in Packets /\ next.kind = "info"
        BY <1>2, <2>1, PacketTypes
    <2>3. \A q \in Peer : q \in S /\ Linked(p, q) => Flows(p, q, next)
        BY InfoFlowsOn
    <2> HIDE DEF next, S
    <2>4. Sends(u, Send(u, S, next), S, next)
        BY <1>4, <2>2, SendIs
    <2>5. \A q \in Peer : Sent(p, q, u, next)
        BY <2>2 DEF Sent
    <2>6. Working(p, Send(u, S, next))
        BY <1>6, <2>3, <2>4, <2>5, WorkingSends
    <2>7. QED
        BY <1>3, <1>6, <2>6
<1>8. CASE ~(packet.hops < HopLimit)
    BY <1>3, <1>6, <1>8
<1>9. QED
    BY <1>7, <1>8

LEMMA WorkingOnSuperHandshake ==
    ASSUME NEW p, NEW t, Working(p, t), NEW from \in Peer
    PROVE  Working(p, OnSuperHandshake(t, from))
<1> DEFINE u == [t EXCEPT !.supers = t.supers \cup {from}]
           ack == Handshake("super_handshake_ack")
<1>1. t \in Client
    BY DEF Working
<1>2. OnSuperHandshake(t, from) = Send(u, {from}, ack)
    BY DEF OnSuperHandshake
<1>3. u \in Client
    BY <1>1 DEF Client
<1>4. /\ u.ready = t.ready /\ u.role = t.role /\ u.parent = t.parent /\ u.out = t.out
      /\ u.supers = t.supers \cup {from} /\ u.kids = t.kids /\ u.old = t.old
      /\ u.shake = t.shake
    BY <1>1 DEF Client
<1> HIDE DEF u
<1>5. Working(p, u)
    <2>1. Learns(t, u)
        BY <1>3, <1>4 DEF Learns
    <2>2. \A q : Acked(u, q) => Acked(t, q)
        BY <1>4 DEF Acked
    <2>3. QED
        BY <2>1, <2>2, WorkingLearns
<1>6. ack \in Packets /\ ack.kind = "super_handshake_ack"
    BY PacketTypes
<1>7. \A q : Flows(p, q, ack)
    BY HandshakeFlows
<1> HIDE DEF ack
<1>8. Sends(u, Send(u, {from}, ack), {from}, ack)
    BY <1>3, <1>6, SendIs
<1>9. \A q \in Peer : q \in {from} => Sent(p, q, u, ack)
    BY <1>4, <1>6 DEF Sent
<1>10. QED
    BY <1>2, <1>5, <1>7, <1>8, <1>9, WorkingSends

LEMMA WorkingOnChildHandshake ==
    ASSUME NEW p, NEW t, Working(p, t), NEW from \in Peer,
           calm /\ Linked(p, from) => IsChildOf(client[from], p)
    PROVE  Working(p, OnChildHandshake(t, from))
<1> DEFINE u == [t EXCEPT !.kids = t.kids \cup {from}]
           ack == Handshake("child_handshake_ack")
<1>1. t \in Client
    BY DEF Working
<1>2. OnChildHandshake(t, from) = Send(u, {from}, ack)
    BY DEF OnChildHandshake
<1>3. u \in Client
    BY <1>1 DEF Client
<1>4. /\ u.ready = t.ready /\ u.role = t.role /\ u.parent = t.parent /\ u.out = t.out
      /\ u.kids = t.kids \cup {from} /\ u.supers = t.supers /\ u.old = t.old
      /\ u.shake = t.shake
    BY <1>1 DEF Client
<1> HIDE DEF u
<1>5. Working(p, u)
    <2>1. Learns(t, u)
        BY <1>3, <1>4 DEF Learns
    <2>2. \A q : Acked(u, q) => Acked(t, q)
        BY <1>4 DEF Acked
    <2>3. QED
        BY <2>1, <2>2, WorkingLearns
<1>6. ack \in Packets /\ ack.kind = "child_handshake_ack"
    BY PacketTypes
<1>7. \A q : Flows(p, q, ack)
    BY HandshakeFlows
<1> HIDE DEF ack
<1>8. Sends(u, Send(u, {from}, ack), {from}, ack)
    BY <1>3, <1>6, SendIs
<1>9. \A q \in Peer : calm /\ q \in {from} /\ Linked(p, q) => Sent(p, q, u, ack)
    BY <1>4, <1>6 DEF Sent
<1>10. QED
    BY <1>2, <1>5, <1>7, <1>8, <1>9, WorkingSends

LEMMA WorkingAcknowledge ==
    ASSUME NEW p \in Peer, Ready(p), NEW t, Working(p, t), NEW from \in Peer,
           calm /\ Linked(p, from) => Answered(p, from, t)
    PROVE  Working(p, Acknowledge(p, t, from))
<1>1. t \in Client
    BY DEF Working
<1>2. CASE from \notin DOMAIN t.shake
    BY <1>2 DEF Acknowledge
<1>3. CASE from \in DOMAIN t.shake
    <2>1. /\ t.shake \in [DOMAIN t.shake -> HandshakeState] /\ DOMAIN t.shake \in SUBSET Peer
          /\ t.shake[from] \in HandshakeState
        BY <1>1, <1>3, ShakeType
    <2>2. PICK new \in HandshakeState :
             [t.shake EXCEPT ![from].acked = TRUE] = [t.shake EXCEPT ![from] = new]
        <3>1. PICK old \in HandshakeState : old = t.shake[from]
            BY <2>1
        <3>2. [old EXCEPT !.acked = TRUE] \in HandshakeState
            BY DEF HandshakeState
        <3>3. [t.shake EXCEPT ![from].acked = TRUE]
                 = [t.shake EXCEPT ![from] = [old EXCEPT !.acked = TRUE]]
            BY <3>1
        <3>4. QED
            BY <3>2, <3>3
    <2> DEFINE shake == [t.shake EXCEPT ![from] = new]
               u == [t EXCEPT !.shake = shake]
    <2>3. Acknowledge(p, t, from) = Send(u, {from}, Info(p, 0))
        BY <1>3, <2>2 DEF Acknowledge
    <2>4. /\ shake \in [DOMAIN t.shake -> HandshakeState]
          /\ \A q \in DOMAIN t.shake : q # from => shake[q] = t.shake[q]
          /\ DOMAIN shake = DOMAIN t.shake
        BY <2>1
    <2> HIDE DEF shake
    <2>5. shake \in Shakes
        BY <2>1, <2>4, ShakeIs
    <2>6. u \in Client /\ u.shake = shake /\ u.out = t.out /\ SameMaps(t, u)
        BY <1>1, <2>5, ClientType DEF Client, Shakes, SameMaps
    <2> HIDE DEF u
    <2>7. Working(p, u)
        <3>1. Learns(t, u)
            BY <2>4, <2>6 DEF Learns, SameMaps
        <3>2. \A q : Acked(u, q) => Acked(t, q) \/ q = from
            BY <2>4, <2>6 DEF Acked
        <3>3. QED
            BY <3>1, <3>2, WorkingLearns
    <2>8. Info(p, 0) \in Packets /\ Info(p, 0).kind = "info"
        BY PacketTypes, BoundAssumption
    <2>9. Sends(u, Send(u, {from}, Info(p, 0)), {from}, Info(p, 0))
        BY <2>6, <2>8, SendIs
    <2>10. \A q \in Peer : Sent(p, q, u, Info(p, 0))
        BY <2>8 DEF Sent
    <2>11. \A q \in Peer : Linked(p, q) => Flows(p, q, Info(p, 0))
        BY OwnInfoFlows
    <2>12. QED
        BY <2>3, <2>7, <2>9, <2>10, <2>11, WorkingSends
<1>4. QED
    BY <1>2, <1>3

LEMMA WorkingOnSuperAck ==
    ASSUME NEW p \in Peer, Ready(p), NEW t, Working(p, t), NEW from \in Peer,
           calm /\ Linked(p, from) => p \in client[from].supers
    PROVE  Working(p, OnSuperAck(p, t, from))
<1>1. CASE t.role # "super"
    BY <1>1 DEF OnSuperAck
<1>2. CASE t.role = "super"
    <2> DEFINE v == Acknowledge(p, t, from)
               u == [v EXCEPT !.supers = v.supers \cup {from}]
    <2>1. OnSuperAck(p, t, from) = u
        BY <1>2 DEF OnSuperAck
    <2>2. Working(p, v)
        BY <1>2, WorkingAcknowledge DEF Answered
    <2> HIDE DEF v
    <2>3. v \in Client
        BY <2>2 DEF Working
    <2>4. u \in Client
        BY <2>3 DEF Client
    <2>5. /\ u.ready = v.ready /\ u.role = v.role /\ u.parent = v.parent /\ u.out = v.out
          /\ u.supers = v.supers \cup {from} /\ u.kids = v.kids /\ u.old = v.old
          /\ u.shake = v.shake
        BY <2>3 DEF Client
    <2> HIDE DEF u
    <2>6. Learns(v, u)
        BY <2>4, <2>5 DEF Learns
    <2>7. \A q : Acked(u, q) => Acked(v, q)
        BY <2>5 DEF Acked
    <2>8. QED
        BY <2>1, <2>2, <2>6, <2>7, WorkingLearns
<1>3. QED
    BY <1>1, <1>2

\* A packet that fits what both ends are when the turn begins.
LEMMA WorkingOnPacket ==
    ASSUME NEW p \in Peer, Ready(p), NEW t, Working(p, t), NEW from \in Peer,
           NEW packet \in Packets, Meet(scene, from, p), Flows(from, p, packet),
           calm /\ Linked(p, from) => PacketFits(from, p, packet)
    PROVE  Working(p, OnPacket(p, t, from, packet))
<1>1. CASE packet.kind = "info"
    <2>1. OnPacket(p, t, from, packet) = OnInfo(t, from, packet)
        BY <1>1 DEF OnPacket
    <2>2. QED
        BY <1>1, <2>1, WorkingOnInfo
<1>2. CASE packet.kind = "super_handshake"
    <2>1. OnPacket(p, t, from, packet) = OnSuperHandshake(t, from)
        BY <1>2 DEF OnPacket
    <2>2. QED
        BY <2>1, WorkingOnSuperHandshake
<1>3. CASE packet.kind = "super_handshake_ack"
    <2>1. OnPacket(p, t, from, packet) = OnSuperAck(p, t, from)
        BY <1>3 DEF OnPacket
    <2>2. calm /\ Linked(p, from) => p \in client[from].supers
        BY <1>3 DEF PacketFits
    <2>3. QED
        BY <2>1, <2>2, WorkingOnSuperAck
<1>4. CASE packet.kind = "child_handshake"
    <2>1. OnPacket(p, t, from, packet) = OnChildHandshake(t, from)
        BY <1>4 DEF OnPacket
    <2>2. calm /\ Linked(p, from) => IsChildOf(client[from], p)
        BY <1>4 DEF PacketFits
    <2>3. QED
        BY <2>1, <2>2, WorkingOnChildHandshake
<1>5. CASE packet.kind = "child_handshake_ack"
    <2>1. OnPacket(p, t, from, packet) = Acknowledge(p, t, from)
        BY <1>5 DEF OnPacket
    <2>2. ASSUME calm, Linked(p, from) PROVE Answered(p, from, t)
        <3>1. p \in client[from].kids /\ IsChildOf(client[p], from)
            BY <1>5, <2>2 DEF PacketFits
        <3>2. from \notin gone
            BY <2>2 DEF Ready
        <3>3. IsChildOf(t, from)
            BY <3>1, <3>2 DEF Working, RoleKept, IsChildOf
        <3>4. QED
            BY <3>1, <3>3 DEF Answered
    <2>3. QED
        BY <2>1, <2>2, WorkingAcknowledge
<1>6. QED
    BY <1>1, <1>2, <1>3, <1>4, <1>5 DEF Packets

-----------------------------------------------------------------------------
(* A whole turn.                                                             *)

LEMMA SetToSeqIs ==
    ASSUME NEW S, IsFiniteSet(S)
    PROVE  SetToSeq(S) \in Seq(S) /\ Range(SetToSeq(S)) \subseteq S
<1>1. PICK n \in Nat : n = Cardinality(S) /\ ExistsBijection(1..n, S)
    BY FS_CardinalityType
<1>2. PICK g \in Bijection(1..n, S) : TRUE
    BY <1>1 DEF ExistsBijection
<1>3. g \in [1..n -> S] /\ IsInjective(g)
    BY <1>2 DEF Bijection, Injection
<1>4. SetToSeq(S) \in [1..n -> S]
    BY <1>1, <1>3 DEF SetToSeq
<1>5. QED
    BY <1>4 DEF Range

\* What a turn of p finds on its way to p.
Heard(p) ==
    \A q \in Peer :
        /\ client[q].out[p] \in Seq(Packets)
        /\ \A packet \in Range(client[q].out[p]) : Meet(scene, q, p) /\ Flows(q, p, packet)
        /\ calm /\ Linked(p, q)
              => \A packet \in Range(client[q].out[p]) : PacketFits(q, p, packet)

LEMMA WorkingReceive ==
    ASSUME NEW p \in Peer, Ready(p), Heard(p), NEW t, Working(p, t), NEW from \in Peer
    PROVE  Working(p, Receive(p, t, from))
<1> DEFINE X == {u \in Client : Working(p, u)}
<1>1. PICK s \in Seq(Packets) : s = client[from].out[p]
    BY DEF Heard
<1>2. t \in X
    BY DEF Working
<1>3. ASSUME NEW u \in X, NEW i \in 1..Len(s) PROVE OnPacket(p, u, from, s[i]) \in X
    <2>1. s[i] \in Packets /\ s[i] \in Range(s)
        BY <1>1, <1>3 DEF Range
    <2>2. calm /\ Linked(p, from) => PacketFits(from, p, s[i])
        BY <1>1, <2>1 DEF Heard
    <2>3. Meet(scene, from, p) /\ Flows(from, p, s[i])
        BY <1>1, <2>1 DEF Heard
    <2>4. Working(p, OnPacket(p, u, from, s[i]))
        BY <1>3, <2>1, <2>2, <2>3, WorkingOnPacket
    <2>5. QED
        BY <2>4 DEF Working
<1>4. Len(s) \in Nat
    BY <1>1
<1> HIDE DEF X
<1>5. Receive(p, t, from) \in X
    BY <1>1, <1>2, <1>3, <1>4, FoldPackets
<1>6. QED
    BY <1>5 DEF X

LEMMA WorkingReceiveAll ==
    ASSUME NEW p \in Peer, Ready(p), Heard(p), NEW t, Working(p, t)
    PROVE  Working(p, Fold(LAMBDA u, q : Receive(p, u, q), t, SetToSeq(Senders(p))))
<1> DEFINE X == {u \in Client : Working(p, u)}
<1>1. IsFiniteSet(Senders(p)) /\ Senders(p) \subseteq Peer
    <2>1. Senders(p) \in SUBSET Peer
        BY DEF Senders
    <2>2. QED
        BY <2>1, PeerAssumption, FS_Subset
<1>2. PICK s \in Seq(Peer) : s = SetToSeq(Senders(p))
    BY <1>1, SetToSeqIs
<1>3. t \in X
    BY DEF Working
<1>4. ASSUME NEW u \in X, NEW i \in 1..Len(s) PROVE Receive(p, u, s[i]) \in X
    <2>1. s[i] \in Peer
        BY <1>2, <1>4
    <2>2. Working(p, Receive(p, u, s[i]))
        BY <1>4, <2>1, WorkingReceive
    <2>3. QED
        BY <2>2 DEF Working
<1>5. Len(s) \in Nat
    BY <1>2
<1> HIDE DEF X
<1>6. Fold(LAMBDA u, q : Receive(p, u, q), t, s) \in X
    BY <1>3, <1>4, <1>5, FoldSenders
<1>7. QED
    BY <1>2, <1>6 DEF X

LEMMA WorkingReadAll ==
    ASSUME NEW p \in Peer, Ready(p), NEW t, Working(p, t), NEW s,
           s \in Seq([peer : Peer, state : {"Connected", "Disconnected"}]),
           \A change \in Range(s) :
              change.peer \in gone \/ (change.state = "Connected" /\ Linked(p, change.peer))
    PROVE  Working(p, Fold(ReadNews, t, s))
<1> DEFINE X == {u \in Client : Working(p, u)}
<1>1. t \in X
    BY DEF Working
<1>2. ASSUME NEW u \in X, NEW i \in 1..Len(s) PROVE ReadNews(u, s[i]) \in X
    <2>1. s[i].peer \in Peer /\ s[i] \in Range(s)
        <3> DEFINE Changes == [peer : Peer, state : {"Connected", "Disconnected"}]
        <3>1. s[i] \in Changes
            <4>1. s \in Seq(Changes)
                OBVIOUS
            <4> HIDE DEF Changes
            <4>2. QED
                BY <4>1
        <3>2. s[i] \in Range(s)
            BY DEF Range
        <3>3. QED
            BY <3>1, <3>2
    <2>2. Working(p, ReadNews(u, s[i]))
        BY <1>2, <2>1, WorkingReadNews
    <2>3. QED
        BY <2>2 DEF Working
<1>3. Len(s) \in Nat
    OBVIOUS
<1> HIDE DEF X
<1>4. Fold(ReadNews, t, s) \in X
    BY <1>1, <1>2, <1>3, FoldNews
<1>5. QED
    BY <1>4 DEF X

LEMMA SceneIs ==
    ASSUME TypeOK
    PROVE  /\ scene \in SceneType
           /\ scene.supers \subseteq Peer /\ scene.parent \in [Peer -> Peer \cup {NoPeer}]
           /\ scene.links \subseteq Pairs /\ scene.later \subseteq Pairs
           /\ scene.leavers \subseteq Peer /\ scene.lapses \in Nat
           /\ \A l \in Pairs : l[1] \in Peer /\ l[2] \in Peer /\ l[1] # l[2]
BY ScenesAssumption DEF TypeOK, SceneType, Pairs

LEMMA LinkedTwo ==
    ASSUME TypeOK, NEW p, NEW q, Linked(p, q)
    PROVE  Linked(q, p) /\ p # q
BY DEF TypeOK, Linked, Pairs

\* The invariant of the flood: connections are those of the scene, packets go
\* from one end of one to the other, and infos go away from their origin.
Flood ==
    /\ links \subseteq scene.links \cup scene.later
    /\ \A p, q \in Peer : \A packet \in Range(client[p].out[q]) :
          Meet(scene, p, q) /\ Flows(p, q, packet)

LEMMA LinkedMeet ==
    ASSUME Flood, NEW p, NEW q, Linked(p, q)
    PROVE  Meet(scene, p, q)
BY DEF Flood, Linked, Meet

\* The parts of the invariant that a turn relies on.
LEMMA TurnBegins ==
    ASSUME Invariant, Flood, NEW p \in Peer, p \notin gone
    PROVE  Ready(p) /\ Heard(p) /\ Working(p, client[p])
<1>1. TypeOK
    BY DEF Invariant
<1>2. \A q \in Peer : client[q] \in Client
    BY <1>1 DEF TypeOK
<1>3. \A q \in Peer : Linked(p, q) => /\ Linked(q, p) /\ p # q /\ q \notin gone
                                      /\ Meet(scene, p, q)
    BY <1>1, LinkedTwo, LinkedMeet DEF Invariant
<1>4. Ready(p)
    <2>1. socket[p] \in [super : BOOLEAN, parent : Peer \cup {NoPeer}] /\ gone \subseteq Peer
        BY <1>1 DEF TypeOK
    <2>2. scene.parent[p] \in Peer \cup {NoPeer}
        BY <1>1, SceneIs
    <2>3. socket[p].parent \in {NoPeer, scene.parent[p]}
        BY DEF Invariant, SocketFits
    <2>4. QED
        BY <1>3, <2>1, <2>2, <2>3 DEF Ready
<1>5. Heard(p)
    <2>1. ASSUME NEW q \in Peer PROVE client[q].out[p] \in Seq(Packets)
        BY <1>2, ClientType
    <2>2. ASSUME NEW q \in Peer, calm, Linked(p, q)
          PROVE  \A packet \in Range(client[q].out[p]) : PacketFits(q, p, packet)
        BY <1>3, <2>2 DEF Invariant, HandshakesFit
    <2>3. \A q \in Peer : \A packet \in Range(client[q].out[p]) :
             Meet(scene, q, p) /\ Flows(q, p, packet)
        BY DEF Flood
    <2>4. QED
        BY <2>1, <2>2, <2>3 DEF Heard
<1>6. Working(p, client[p])
    <2>1. RoleKept(p, client[p])
        BY DEF Invariant, RoleKept, IsChildOf
    <2>2. \A q \in DOMAIN client[p].shake : Linked(p, q) \/ q \in gone
        <3>1. DOMAIN client[p].shake \subseteq Peer
            BY <1>2, ShakeType
        <3>2. QED
            BY <3>1 DEF Invariant, Apart
    <2>3. ASSUME calm, NEW q \in Peer, Linked(p, q) PROVE LinkKept(p, q, client[p])
        <3>1. HandshakesFit(p, q)
            BY <2>3 DEF Invariant
        <3>2. \A e : PacketFits(p, q, e) => Sent(p, q, client[p], e)
            BY DEF PacketFits, Sent
        <3>3. QED
            BY <2>3, <3>1, <3>2 DEF HandshakesFit, LinkKept, AckFits
    <2>4. calm => client[p].old \subseteq gone
        BY DEF Invariant
    <2>5. Flowing(p, client[p])
        BY DEF Flood, Flowing
    <2>6. QED
        BY <1>2, <2>1, <2>2, <2>3, <2>4, <2>5 DEF Working
<1>7. QED
    BY <1>4, <1>5, <1>6

\* t is what p's client has become, but for the packets that have no connection.
TurnMakes(p, t) ==
    client' = [q \in Peer |-> IF q = p THEN [t EXCEPT !.out = Arrive(p, t.out)]
                              ELSE [client[q] EXCEPT !.out[p] = <<>>]]

LEMMA TurnWorks ==
    ASSUME Invariant, Flood, NEW p \in Peer, Turn(p)
    PROVE  \E t : Working(p, t) /\ TurnMakes(p, t)
<1>1. p \notin gone
    BY DEF Turn
<1>2. Ready(p) /\ Heard(p) /\ Working(p, client[p])
    BY <1>1, TurnBegins
<1> DEFINE t1 == FindRole(Expire(Retry(client[p])), socket[p])
           n1 == Fold(ReadNews, t1, news[p])
           t2 == SendInfo(p, n1)
           t3 == Fold(LAMBDA t, q : Receive(p, t, q), t2, SetToSeq(Senders(p)))
<1>3. TurnMakes(p, t3)
    BY DEF Turn, TurnMakes
<1>4. Working(p, t1)
    BY <1>2, WorkingRetry, WorkingExpire, WorkingFindRole
<1> HIDE DEF t1
<1>5. Working(p, n1)
    <2>1. news[p] \in Seq([peer : Peer, state : {"Connected", "Disconnected"}])
        BY DEF Invariant, TypeOK
    <2>2. \A change \in Range(news[p]) :
             change.peer \in gone \/ (change.state = "Connected" /\ Linked(p, change.peer))
        BY DEF Invariant, NewsFit
    <2>3. QED
        BY <1>2, <1>4, <2>1, <2>2, WorkingReadAll
<1> HIDE DEF n1
<1>6. Working(p, t2)
    BY <1>2, <1>5, WorkingSendInfo
<1> HIDE DEF t2
<1>7. Working(p, t3)
    BY <1>2, <1>6, WorkingReceiveAll
<1> HIDE DEF t3
<1>8. QED
    BY <1>3, <1>7

Emptied(c, p) == [c EXCEPT !.out[p] = <<>>]

LEMMA EmptyRow ==
    ASSUME NEW c \in Client, NEW p \in Peer
    PROVE  LET d == Emptied(c, p)
           IN  /\ d \in Client
               /\ SameMaps(c, d) /\ d.shake = c.shake
               /\ \A q \in Peer : d.out[q] = IF q = p THEN <<>> ELSE c.out[q]
<1> DEFINE d == Emptied(c, p)
<1>1. c.out \in [Peer -> Seq(Packets)]
    BY ClientType
<1>2. PICK row \in [Peer -> Seq(Packets)] : row = [c.out EXCEPT ![p] = <<>>]
    <2>1. <<>> \in Seq(Packets)
        OBVIOUS
    <2>2. QED
        BY <1>1, <2>1
<1>3. d = [c EXCEPT !.out = row]
    BY <1>2 DEF Emptied
<1> HIDE DEF d
<1>4. d \in Client /\ SameMaps(c, d) /\ d.shake = c.shake /\ d.out = row
    BY <1>3 DEF Client, SameMaps
<1>5. \A q \in Peer : row[q] = IF q = p THEN <<>> ELSE c.out[q]
    BY <1>1, <1>2
<1>6. QED
    BY <1>4, <1>5 DEF d

Arrived(p, t) == [t EXCEPT !.out = Arrive(p, t.out)]

LEMMA ArriveIs ==
    ASSUME NEW p, NEW t \in Client
    PROVE  LET d == Arrived(p, t)
           IN  /\ d \in Client
               /\ SameMaps(t, d) /\ d.shake = t.shake
               /\ \A q \in Peer : d.out[q] = IF Linked(p, q) THEN t.out[q] ELSE <<>>
<1> DEFINE d == Arrived(p, t)
<1>1. t.out \in [Peer -> Seq(Packets)]
    BY ClientType
<1>2. PICK row \in [Peer -> Seq(Packets)] :
         row = Arrive(p, t.out) /\ \A q \in Peer : row[q] = IF Linked(p, q) THEN t.out[q] ELSE <<>>
    <2>1. <<>> \in Seq(Packets)
        OBVIOUS
    <2>2. \A q \in Peer : (IF Linked(p, q) THEN t.out[q] ELSE <<>>) \in Seq(Packets)
        BY <1>1, <2>1
    <2> DEFINE row == [q \in Peer |-> IF Linked(p, q) THEN t.out[q] ELSE <<>>]
    <2>3. row \in [Peer -> Seq(Packets)]
        BY <2>2
    <2>4. /\ row = Arrive(p, t.out)
          /\ \A q \in Peer : row[q] = IF Linked(p, q) THEN t.out[q] ELSE <<>>
        BY DEF Arrive
    <2> HIDE DEF row
    <2>5. QED
        BY <2>3, <2>4
<1>3. d = [t EXCEPT !.out = row]
    BY <1>2 DEF Arrived
<1> HIDE DEF d
<1>4. d \in Client /\ SameMaps(t, d) /\ d.shake = t.shake /\ d.out = row
    BY <1>3 DEF Client, SameMaps
<1>5. QED
    BY <1>2, <1>4 DEF d

-----------------------------------------------------------------------------
(* The invariant.                                                            *)

LEMMA NewsType ==
    ASSUME NEW s, s \in Seq([peer : Peer, state : {"Connected", "Disconnected"}]),
           NEW q \in Peer, NEW state \in {"Connected", "Disconnected"}
    PROVE  /\ Append(s, Change(q, state))
                \in Seq([peer : Peer, state : {"Connected", "Disconnected"}])
           /\ \A c \in Range(Append(s, Change(q, state))) :
                c \in Range(s) \/ c = Change(q, state)
           /\ Change(q, state).peer = q /\ Change(q, state).state = state
<1> DEFINE Changes == [peer : Peer, state : {"Connected", "Disconnected"}]
<1>1. Change(q, state) \in Changes
    BY DEF Change
<1>2. s \in Seq(Changes)
    OBVIOUS
<1> HIDE DEF Changes
<1>3. Append(s, Change(q, state)) \in Seq(Changes)
    BY <1>1, <1>2
<1>4. \A c \in Range(Append(s, Change(q, state))) : c \in Range(s) \/ c = Change(q, state)
    BY <1>2, AppendRange
<1>5. QED
    BY <1>3, <1>4 DEF Changes, Change

\* A client that is NewClient but for what it has sent.
Fresh(out) ==
    [ready |-> FALSE, role |-> "none", parent |-> NoPeer, supers |-> {},
     kids |-> {}, shake |-> <<>>, known |-> {}, seen |-> {}, old |-> {},
     out |-> out]

LEMMA FreshIs ==
    ASSUME NEW out \in [Peer -> Seq(Packets)]
    PROVE  LET c == Fresh(out)
           IN  /\ c \in Client /\ c.out = out
               /\ c.ready = FALSE /\ c.role = "none" /\ c.parent = NoPeer
               /\ c.supers = {} /\ c.kids = {} /\ c.old = {}
               /\ DOMAIN c.shake = {}
<1>1. <<>> \in Shakes /\ DOMAIN <<>> = {}
    <2>1. DOMAIN <<>> = {}
        OBVIOUS
    <2>2. <<>> \in [{} -> HandshakeState]
        OBVIOUS
    <2>3. QED
        BY <2>1, <2>2, ShakeIs
<1> DEFINE c == Fresh(out)
<1>2. c.out = out
    BY DEF Fresh
<1>3. c.ready = FALSE
    BY DEF Fresh
<1>4. c.role = "none" /\ c.parent = NoPeer
    BY DEF Fresh
<1>5. c.supers = {} /\ c.kids = {} /\ c.old = {}
    BY DEF Fresh
<1>6. c.shake = <<>>
    BY DEF Fresh
<1>7. c \in Client
    BY <1>1 DEF Fresh, Client, Shakes
<1> HIDE DEF c
<1>8. QED
    BY <1>1, <1>2, <1>3, <1>4, <1>5, <1>6, <1>7 DEF c

LEMMA InvInit ==
    Init => Invariant
<1> SUFFICES ASSUME Init PROVE Invariant
    OBVIOUS
<1> DEFINE Changes == [peer : Peer, state : {"Connected", "Disconnected"}]
           row == [q \in Peer |-> <<>>]
           S(p) == {Change(q, "Connected") : q \in {r \in Peer : Linked(p, r)}}
<1>1. /\ gone = {} /\ scene \in Scenes /\ client = [p \in Peer |-> NewClient]
      /\ lapses = scene.lapses /\ calm = TRUE /\ last = NoPeer
      /\ socket = [p \in Peer |-> IF scene.settled THEN Assigned(p) ELSE
                                  [super |-> FALSE, parent |-> NoPeer]]
      /\ links = IF scene.settled THEN scene.links ELSE {}
      /\ news = [p \in Peer |-> SetToSeq(S(p))]
    BY DEF Init
<1>2. scene \in SceneType
    BY <1>1, ScenesAssumption
<1>3. /\ scene.parent \in [Peer -> Peer \cup {NoPeer}] /\ scene.links \subseteq Pairs
      /\ scene.lapses \in Nat
    BY <1>2 DEF SceneType
<1>4. /\ NewClient \in Client /\ NewClient.out = row
      /\ NewClient.ready = FALSE /\ NewClient.role = "none" /\ NewClient.parent = NoPeer
      /\ NewClient.old = {} /\ DOMAIN NewClient.shake = {}
    <2>1. row \in [Peer -> Seq(Packets)]
        OBVIOUS
    <2>2. NewClient = Fresh(row)
        BY DEF NewClient, Fresh
    <2> HIDE DEF row
    <2>3. QED
        BY <2>1, <2>2, FreshIs
<1>5. ASSUME NEW p \in Peer
      PROVE  news[p] \in Seq(Changes) /\ Range(news[p]) \subseteq S(p) /\ S(p) \subseteq Changes
    <2>1. S(p) \subseteq Changes
        BY DEF Change
    <2>2. IsFiniteSet(S(p))
        <3> DEFINE T == {r \in Peer : Linked(p, r)}
                   f == [q \in T |-> Change(q, "Connected")]
        <3>1. IsFiniteSet(T)
            BY PeerAssumption, FS_Subset
        <3>2. f \in [T -> S(p)] /\ \A c \in S(p) : \E q \in T : f[q] = c
            OBVIOUS
        <3> HIDE DEF T, f, S
        <3>3. f \in Surjection(T, S(p))
            BY <3>2, Fun_IsSurj
        <3>4. QED
            BY <3>1, <3>3, FS_Surjection
    <2> HIDE DEF S, Changes
    <2>3. SetToSeq(S(p)) \in Seq(S(p)) /\ Range(SetToSeq(S(p))) \subseteq S(p)
        BY <2>2, SetToSeqIs
    <2>4. Seq(S(p)) \subseteq Seq(Changes)
        BY <2>1
    <2>5. QED
        BY <1>1, <2>1, <2>3, <2>4
<1>6. TypeOK
    <2>1. client \in [Peer -> Client]
        BY <1>1, <1>4
    <2>2. news \in [Peer -> Seq([peer : Peer, state : {"Connected", "Disconnected"}])]
        <3>1. news \in [Peer -> Seq(Changes)]
            BY <1>1, <1>5
        <3>2. QED
            BY <3>1
    <2>3. socket \in [Peer -> [super : BOOLEAN, parent : Peer \cup {NoPeer}]]
        BY <1>1, <1>3 DEF Assigned
    <2>4. links \subseteq Pairs
        BY <1>1, <1>3
    <2>5. lapses \in 0..scene.lapses
        BY <1>1, <1>3
    <2>6. QED
        BY <1>1, <2>1, <2>2, <2>3, <2>4, <2>5 DEF TypeOK
<1>7. ASSUME NEW p \in Peer PROVE SocketFits(p) /\ RoleFits(p, client[p]) /\ NewsFit(p)
    <2>1. client[p] = NewClient
        BY <1>1
    <2>2. RoleFits(p, client[p])
        BY <1>4, <2>1 DEF RoleFits
    <2>3. SocketFits(p)
        BY <1>1 DEF SocketFits, Assigned
    <2>4. NewsFit(p)
        BY <1>5 DEF NewsFit, Change
    <2>5. QED
        BY <2>2, <2>3, <2>4
<1>8. ASSUME NEW p \in Peer, NEW q \in Peer
      PROVE  /\ Linked(p, q) => p \notin gone
             /\ Apart(p, q)
             /\ HandshakesFit(p, q)
    <2>1. client[p] = NewClient /\ NewClient.out[q] = <<>>
        BY <1>1, <1>4
    <2>2. Range(client[p].out[q]) = {} /\ ~Acked(client[p], q)
        BY <1>4, <2>1 DEF Range, Acked
    <2>3. QED
        BY <1>1, <1>4, <2>1, <2>2 DEF Apart, HandshakesFit, AckFits
<1>9. \A p \in Peer : client[p].old \subseteq gone
    BY <1>1, <1>4
<1>10. QED
    BY <1>6, <1>7, <1>8, <1>9 DEF Invariant

LEMMA InvTurn ==
    ASSUME Invariant, Flood, NEW p \in Peer, Turn(p)
    PROVE  Invariant'
<1>1. PICK t : Working(p, t) /\ TurnMakes(p, t)
    BY TurnWorks
<1>2. /\ news' = [news EXCEPT ![p] = <<>>] /\ last' = p /\ p \notin gone
      /\ UNCHANGED <<scene, socket, links, gone, lapses, calm>>
    BY DEF Turn
<1>3. TypeOK /\ t \in Client
    BY <1>1 DEF Invariant, Working
<1>4. \A q \in Peer : client[q] \in Client
    BY <1>3 DEF TypeOK
<1>5. /\ client'[p] \in Client /\ SameMaps(t, client'[p]) /\ client'[p].shake = t.shake
      /\ \A q \in Peer : client'[p].out[q] = IF Linked(p, q) THEN t.out[q] ELSE <<>>
    <2>1. client'[p] = Arrived(p, t)
        BY <1>1 DEF TurnMakes, Arrived
    <2>2. QED
        BY <1>3, <2>1, ArriveIs
<1>6. ASSUME NEW q \in Peer, q # p
      PROVE  /\ client'[q] \in Client /\ SameMaps(client[q], client'[q])
             /\ client'[q].shake = client[q].shake
             /\ \A r \in Peer : client'[q].out[r] = IF r = p THEN <<>> ELSE client[q].out[r]
    <2>1. client'[q] = Emptied(client[q], p)
        BY <1>1, <1>6 DEF TurnMakes, Emptied
    <2>2. QED
        BY <1>4, <2>1, EmptyRow
<1>7. \A a, b : Linked(a, b)' = Linked(a, b)
    BY <1>2 DEF Linked
<1>8. TypeOK'
    <2>1. client' \in [Peer -> Client]
        <3>1. \A q \in Peer : client'[q] \in Client
            BY <1>5, <1>6
        <3>2. client' = [q \in Peer |-> client'[q]]
            BY <1>1 DEF TurnMakes
        <3>3. QED
            BY <3>1, <3>2
    <2>2. news' \in [Peer -> Seq([peer : Peer, state : {"Connected", "Disconnected"}])]
        <3> DEFINE Changes == [peer : Peer, state : {"Connected", "Disconnected"}]
        <3>1. news \in [Peer -> Seq(Changes)]
            BY <1>3 DEF TypeOK
        <3> HIDE DEF Changes
        <3>2. <<>> \in Seq(Changes)
            OBVIOUS
        <3>3. news' \in [Peer -> Seq(Changes)]
            BY <1>2, <3>1, <3>2
        <3>4. QED
            BY <3>3 DEF Changes
    <2>3. QED
        BY <1>2, <1>3, <2>1, <2>2 DEF TypeOK
<1>9. ASSUME NEW q \in Peer
      PROVE  SocketFits(q)' /\ RoleFits(q, client[q])' /\ NewsFit(q)'
    <2>1. SocketFits(q) /\ RoleFits(q, client[q]) /\ NewsFit(q)
        BY DEF Invariant
    <2>2. SocketFits(q)'
        BY <1>2, <2>1 DEF SocketFits, Assigned
    <2>3. NewsFit(q)'
        <3>1. Range(news'[q]) \subseteq Range(news[q])
            BY <1>2, <1>3 DEF TypeOK, Range
        <3>2. QED
            BY <1>2, <1>7, <2>1, <3>1 DEF NewsFit
    <2>4. RoleFits(q, client[q])'
        <3>1. CASE q = p
            <4>1. RoleFits(p, t)
                BY <1>1 DEF Working, RoleKept
            <4>2. QED
                BY <1>2, <1>5, <3>1, <4>1 DEF RoleFits, SameMaps
        <3>2. CASE q # p
            BY <1>2, <1>6, <2>1, <3>2 DEF RoleFits, SameMaps
        <3>3. QED
            BY <3>1, <3>2
    <2>5. QED
        BY <2>2, <2>3, <2>4
<1>10. ASSUME NEW a \in Peer, NEW b \in Peer PROVE (Linked(a, b) => a \notin gone)'
    BY <1>2, <1>7 DEF Invariant
<1>11. ASSUME NEW a \in Peer, NEW b \in Peer PROVE Apart(a, b)'
    <2>1. SUFFICES ASSUME {a, b} \cap gone = {}, ~Linked(a, b)
                   PROVE  client'[a].out[b] = <<>> /\ b \notin DOMAIN client'[a].shake
        BY <1>2, <1>7 DEF Apart
    <2>2. client[a].out[b] = <<>> /\ b \notin DOMAIN client[a].shake
        BY <2>1 DEF Invariant, Apart
    <2>3. CASE a = p
        BY <1>1, <1>5, <2>1, <2>3 DEF Working
    <2>4. CASE a # p
        BY <1>6, <2>2, <2>4
    <2>5. QED
        BY <2>3, <2>4
<1>12. ASSUME calm, NEW q \in Peer PROVE client'[q].old \subseteq gone
    <2>1. client[q].old \subseteq gone /\ t.old \subseteq gone
        BY <1>1, <1>12 DEF Invariant, Working
    <2>2. QED
        BY <1>5, <1>6, <2>1 DEF SameMaps
<1>13. ASSUME calm, NEW a \in Peer, NEW b \in Peer, Linked(a, b) PROVE HandshakesFit(a, b)'
    <2>1. Linked(b, a) /\ a # b
        BY <1>3, <1>13, LinkedTwo
    <2>2. HandshakesFit(a, b)
        BY <1>13 DEF Invariant
    <2>3. CASE a = p
        <3>1. LinkKept(p, b, t)
            BY <1>1, <1>13, <2>3 DEF Working
        <3>2. client'[p].out[b] = t.out[b] /\ SameMaps(t, client'[p])
              /\ SameMaps(client[b], client'[b])
            BY <1>5, <1>6, <1>13, <2>1, <2>3
        <3>3. \A e \in Range(client'[p].out[b]) : PacketFits(p, b, e)'
            <4>1. \A e : Sent(p, b, t, e) => PacketFits(p, b, e)'
                BY <3>2 DEF Sent, PacketFits, SameMaps, IsChildOf
            <4>2. QED
                BY <3>1, <3>2, <4>1 DEF LinkKept
        <3>4. AckFits(p, b)'
            <4>1. Acked(client'[p], b) => Acked(t, b)
                BY <1>5 DEF Acked
            <4>2. QED
                BY <3>1, <3>2, <4>1 DEF AckFits, LinkKept, SameMaps, IsChildOf
        <3>5. QED
            BY <2>3, <3>3, <3>4 DEF HandshakesFit
    <2>4. CASE b = p
        <3>1. LinkKept(p, a, t)
            BY <1>1, <1>13, <2>1, <2>4 DEF Working
        <3>2. /\ client'[a].out[p] = <<>> /\ client'[a].shake = client[a].shake
              /\ SameMaps(t, client'[p]) /\ SameMaps(client[a], client'[a])
            BY <1>5, <1>6, <2>1, <2>4
        <3>3. Range(client'[a].out[p]) = {}
            BY <3>2 DEF Range
        <3>4. AckFits(a, p)'
            <4>1. Acked(client'[a], p) => Acked(client[a], p)
                BY <3>2 DEF Acked
            <4>2. AckFits(a, p)
                BY <1>13, <2>2, <2>4 DEF HandshakesFit
            <4>3. QED
                BY <3>1, <3>2, <4>1, <4>2 DEF AckFits, LinkKept, SameMaps, IsChildOf
        <3>5. QED
            BY <2>4, <3>3, <3>4 DEF HandshakesFit
    <2>5. CASE a # p /\ b # p
        <3>1. /\ client'[a].out[b] = client[a].out[b] /\ client'[a].shake = client[a].shake
              /\ SameMaps(client[a], client'[a]) /\ SameMaps(client[b], client'[b])
            BY <1>6, <2>5
        <3>2. \A e : PacketFits(a, b, e) => PacketFits(a, b, e)'
            BY <3>1 DEF PacketFits, SameMaps, IsChildOf
        <3>3. AckFits(a, b) => AckFits(a, b)'
            <4>1. Acked(client'[a], b) => Acked(client[a], b)
                BY <3>1 DEF Acked
            <4>2. QED
                BY <3>1, <4>1 DEF AckFits, SameMaps, IsChildOf
        <3>4. QED
            BY <1>13, <2>2, <3>1, <3>2, <3>3 DEF HandshakesFit
    <2>6. QED
        BY <2>3, <2>4, <2>5
<1>14. ASSUME calm'
       PROVE  /\ \A q \in Peer : client'[q].old \subseteq gone'
              /\ \A a, b \in Peer : HandshakesFit(a, b)'
    <2>1. calm
        BY <1>2, <1>14
    <2>2. \A a, b \in Peer : HandshakesFit(a, b)'
        <3>1. \A a, b \in Peer : ~Linked(a, b) => HandshakesFit(a, b)'
            BY <1>7 DEF HandshakesFit
        <3>2. QED
            BY <1>13, <2>1, <3>1
    <2>3. QED
        BY <1>2, <1>12, <2>1, <2>2
<1>15. QED
    BY <1>8, <1>9, <1>10, <1>11, <1>14 DEF Invariant

\* What a step of the server leaves alone.
ServerFrame == UNCHANGED <<scene, client, gone, lapses, calm, last>>

LEMMA InvAssign ==
    ASSUME Invariant, ServerFrame, NEW p \in Peer, Assign(p)
    PROVE  Invariant'
<1>1. /\ socket' = [socket EXCEPT ![p] = Assigned(p)] /\ TypeOK
      /\ UNCHANGED <<scene, client, news, links, gone, lapses, calm, last>>
    BY DEF Invariant, Assign, ServerFrame
<1>2. \A a, b : Linked(a, b)' = Linked(a, b)
    BY <1>1 DEF Linked
<1>3. Assigned(p) \in [super : BOOLEAN, parent : Peer \cup {NoPeer}]
    BY <1>1, SceneIs DEF Assigned
<1>4. TypeOK'
    BY <1>1, <1>3 DEF TypeOK
<1>5. ASSUME NEW q \in Peer
      PROVE  SocketFits(q)' /\ RoleFits(q, client[q])' /\ NewsFit(q)'
    <2>1. SocketFits(q) /\ RoleFits(q, client[q]) /\ NewsFit(q)
        BY DEF Invariant
    <2>2. socket'[q] = socket[q] \/ socket'[q] = Assigned(q)
        BY <1>1 DEF TypeOK
    <2>3. Assigned(q)' = Assigned(q)
        BY <1>1 DEF Assigned
    <2>4. SocketFits(q)'
        BY <1>1, <2>1, <2>2, <2>3 DEF SocketFits, Assigned
    <2>5. RoleFits(q, client[q])'
        BY <1>1, <2>1, <2>2 DEF RoleFits, SocketFits
    <2>6. NewsFit(q)'
        BY <1>1, <1>2, <2>1 DEF NewsFit
    <2>7. QED
        BY <2>4, <2>5, <2>6
<1>6. ASSUME NEW a \in Peer, NEW b \in Peer
      PROVE  /\ (Linked(a, b) => a \notin gone)'
             /\ Apart(a, b)'
             /\ HandshakesFit(a, b)' = HandshakesFit(a, b)
    BY <1>1, <1>2 DEF Invariant, Apart, HandshakesFit, PacketFits, AckFits, IsChildOf, Acked
<1>7. QED
    BY <1>1, <1>4, <1>5, <1>6 DEF Invariant

LEMMA InvComeUp ==
    ASSUME Invariant, ServerFrame, NEW p \in Peer, NEW q \in Peer, ComeUp(p, q)
    PROVE  Invariant'
<1>1. /\ ~Linked(p, q) /\ {p, q} \cap gone = {} /\ TypeOK
      /\ links' = links \cup {<<p, q>>}
      /\ news' = [news EXCEPT ![p] = Append(@, Change(q, "Connected")),
                              ![q] = Append(@, Change(p, "Connected"))]
      /\ UNCHANGED <<scene, client, socket, gone, lapses, calm, last>>
    BY DEF Invariant, ComeUp, ServerFrame
<1>2. <<p, q>> \in Pairs /\ p # q
    <2>1. <<p, q>> \in Pairs
        BY <1>1, SceneIs DEF ComeUp
    <2>2. QED
        BY <2>1 DEF Pairs
<1>3. ~Linked(q, p)
    BY <1>1, LinkedTwo
<1> DEFINE New(a, b) == (a = p /\ b = q) \/ (a = q /\ b = p)
<1>4. ASSUME NEW a, NEW b PROVE Linked(a, b)' <=> (Linked(a, b) \/ New(a, b))
    <2>1. Linked(a, b) <=> (<<a, b>> \in links \/ <<b, a>> \in links)
        BY DEF Linked
    <2>2. Linked(a, b)' <=> (<<a, b>> \in links' \/ <<b, a>> \in links')
        BY DEF Linked
    <2>3. \A l : l \in links' <=> (l \in links \/ l = <<p, q>>)
        BY <1>1
    <2>4. <<a, b>> = <<p, q>> <=> (a = p /\ b = q)
        OBVIOUS
    <2>5. <<b, a>> = <<p, q>> <=> (a = q /\ b = p)
        OBVIOUS
    <2>6. QED
        BY <2>1, <2>2, <2>3, <2>4, <2>5
<1>5. ASSUME NEW r \in Peer
      PROVE  /\ news'[r] \in Seq([peer : Peer, state : {"Connected", "Disconnected"}])
             /\ \A c \in Range(news'[r]) :
                   \/ c \in Range(news[r])
                   \/ c.state = "Connected" /\ c.peer \in Peer /\ New(r, c.peer)
    <2>1. news[r] \in Seq([peer : Peer, state : {"Connected", "Disconnected"}])
        BY <1>1 DEF TypeOK
    <2>2. CASE r = p
        <3>1. news'[r] = Append(news[r], Change(q, "Connected"))
            BY <1>1, <1>2, <2>2 DEF TypeOK
        <3>2. /\ Append(news[r], Change(q, "Connected"))
                    \in Seq([peer : Peer, state : {"Connected", "Disconnected"}])
              /\ \A c \in Range(Append(news[r], Change(q, "Connected"))) :
                    c \in Range(news[r]) \/ c = Change(q, "Connected")
              /\ Change(q, "Connected").peer = q /\ Change(q, "Connected").state = "Connected"
            BY <2>1, NewsType
        <3>3. QED
            BY <2>1, <2>2, <3>1, <3>2
    <2>3. CASE r = q
        <3>1. news'[r] = Append(news[r], Change(p, "Connected"))
            BY <1>1, <1>2, <2>3 DEF TypeOK
        <3>2. /\ Append(news[r], Change(p, "Connected"))
                    \in Seq([peer : Peer, state : {"Connected", "Disconnected"}])
              /\ \A c \in Range(Append(news[r], Change(p, "Connected"))) :
                    c \in Range(news[r]) \/ c = Change(p, "Connected")
              /\ Change(p, "Connected").peer = p /\ Change(p, "Connected").state = "Connected"
            BY <2>1, NewsType
        <3>3. QED
            BY <2>1, <2>3, <3>1, <3>2
    <2>4. CASE r # p /\ r # q
        <3>1. news'[r] = news[r]
            BY <1>1, <2>4 DEF TypeOK
        <3>2. QED
            BY <2>1, <3>1
    <2>5. QED
        BY <2>2, <2>3, <2>4
<1>6. TypeOK'
    <2>1. news' = [r \in Peer |-> news'[r]]
        BY <1>1 DEF TypeOK
    <2>2. news' \in [Peer -> Seq([peer : Peer, state : {"Connected", "Disconnected"}])]
        BY <1>5, <2>1
    <2>3. links' \subseteq Pairs
        BY <1>1, <1>2 DEF TypeOK
    <2>4. QED
        BY <1>1, <2>2, <2>3 DEF TypeOK
<1>7. ASSUME NEW r \in Peer
      PROVE  SocketFits(r)' /\ RoleFits(r, client[r])' /\ NewsFit(r)'
    <2>1. SocketFits(r) /\ RoleFits(r, client[r]) /\ NewsFit(r)
        BY DEF Invariant
    <2>2. NewsFit(r)'
        BY <1>1, <1>4, <1>5, <2>1 DEF NewsFit
    <2>3. SocketFits(r)' /\ RoleFits(r, client[r])'
        BY <1>1, <2>1 DEF SocketFits, Assigned, RoleFits
    <2>4. QED
        BY <2>2, <2>3
<1>8. ASSUME NEW a \in Peer, NEW b \in Peer
      PROVE  (Linked(a, b) => a \notin gone)' /\ Apart(a, b)'
    BY <1>1, <1>4 DEF Invariant, Apart
<1>9. ASSUME calm, NEW a \in Peer, NEW b \in Peer, Linked(a, b)'
      PROVE  HandshakesFit(a, b)'
    <2>1. CASE Linked(a, b)
        <3>1. HandshakesFit(a, b)
            BY <1>9 DEF Invariant
        <3>2. QED
            BY <1>1, <2>1, <3>1 DEF HandshakesFit, PacketFits, AckFits, IsChildOf, Acked
    <2>2. CASE New(a, b)
        <3>1. ~Linked(a, b) /\ {a, b} \cap gone = {}
            BY <1>1, <1>3, <2>2
        <3>2. client[a].out[b] = <<>> /\ b \notin DOMAIN client[a].shake
            BY <3>1 DEF Invariant, Apart
        <3>3. Range(client[a].out[b]) = {}
            BY <3>2 DEF Range
        <3>4. QED
            BY <1>1, <3>2, <3>3 DEF HandshakesFit, AckFits, Acked
    <2>3. QED
        BY <1>4, <1>9, <2>1, <2>2
<1>10. ASSUME calm'
       PROVE  /\ \A r \in Peer : client'[r].old \subseteq gone'
              /\ \A a, b \in Peer : HandshakesFit(a, b)'
    <2>1. calm
        BY <1>1, <1>10
    <2>2. \A a, b \in Peer : HandshakesFit(a, b)'
        <3>1. \A a, b \in Peer : ~Linked(a, b)' => HandshakesFit(a, b)'
            BY DEF HandshakesFit
        <3>2. QED
            BY <1>9, <2>1, <3>1
    <2>3. QED
        BY <1>1, <2>1, <2>2 DEF Invariant
<1>11. QED
    BY <1>6, <1>7, <1>8, <1>10 DEF Invariant

LEMMA InvLeave ==
    ASSUME Invariant, NEW p \in Peer, Leave(p)
    PROVE  Invariant'
<1>1. /\ gone = {} /\ gone' = {p} /\ TypeOK
      /\ links' = {l \in links : p \notin {l[1], l[2]}}
      /\ client' = [q \in Peer |-> IF q = p THEN [NewClient EXCEPT !.out = client[p].out]
                                   ELSE [client[q] EXCEPT !.out[p] = <<>>]]
      /\ news' = [q \in Peer |-> IF q = p THEN <<>>
                                 ELSE IF Linked(p, q)
                                 THEN Append(news[q], Change(p, "Disconnected"))
                                 ELSE news[q]]
      /\ UNCHANGED <<scene, socket, lapses, calm, last>>
    BY DEF Invariant, Leave
<1>2. \A q \in Peer : client[q] \in Client
    BY <1>1 DEF TypeOK
<1>3. \A a, b : Linked(a, b)' <=> (Linked(a, b) /\ a # p /\ b # p)
    BY <1>1 DEF Linked
<1>4. /\ client'[p] \in Client /\ client'[p].ready = FALSE /\ client'[p].role = "none"
      /\ client'[p].parent = NoPeer /\ client'[p].old = {}
    <2>1. client'[p] = [NewClient EXCEPT !.out = client[p].out]
        BY <1>1
    <2>2. PICK out \in [Peer -> Seq(Packets)] : out = client[p].out
        BY <1>2, ClientType
    <2>3. client'[p] = Fresh(out)
        BY <2>1, <2>2 DEF NewClient, Fresh
    <2>4. QED
        BY <2>3, FreshIs
<1>5. ASSUME NEW q \in Peer, q # p
      PROVE  /\ client'[q] \in Client /\ SameMaps(client[q], client'[q])
             /\ client'[q].shake = client[q].shake
             /\ \A r \in Peer : client'[q].out[r] = IF r = p THEN <<>> ELSE client[q].out[r]
    <2>1. client'[q] = Emptied(client[q], p)
        BY <1>1, <1>5 DEF Emptied
    <2>2. QED
        BY <1>2, <2>1, EmptyRow
<1>6. ASSUME NEW r \in Peer
      PROVE  /\ news'[r] \in Seq([peer : Peer, state : {"Connected", "Disconnected"}])
             /\ \A c \in Range(news'[r]) : r # p /\ (c \in Range(news[r]) \/ c.peer = p)
    <2>1. news[r] \in Seq([peer : Peer, state : {"Connected", "Disconnected"}])
        BY <1>1 DEF TypeOK
    <2>2. CASE r = p
        <3>1. news'[r] = <<>>
            BY <1>1, <2>2
        <3>2. Range(news'[r]) = {}
            BY <3>1 DEF Range
        <3>3. QED
            BY <3>1, <3>2
    <2>3. CASE r # p /\ Linked(p, r)
        <3>1. news'[r] = Append(news[r], Change(p, "Disconnected"))
            BY <1>1, <2>3
        <3>2. /\ Append(news[r], Change(p, "Disconnected"))
                    \in Seq([peer : Peer, state : {"Connected", "Disconnected"}])
              /\ \A c \in Range(Append(news[r], Change(p, "Disconnected"))) :
                    c \in Range(news[r]) \/ c = Change(p, "Disconnected")
              /\ Change(p, "Disconnected").peer = p
              /\ Change(p, "Disconnected").state = "Disconnected"
            BY <2>1, NewsType
        <3>3. QED
            BY <2>1, <2>3, <3>1, <3>2
    <2>4. CASE r # p /\ ~Linked(p, r)
        <3>1. news'[r] = news[r]
            BY <1>1, <2>4
        <3>2. QED
            BY <2>1, <2>4, <3>1
    <2>5. QED
        BY <2>2, <2>3, <2>4
<1>7. TypeOK'
    <2>1. client' \in [Peer -> Client]
        <3>1. \A q \in Peer : client'[q] \in Client
            BY <1>4, <1>5
        <3>2. client' = [q \in Peer |-> client'[q]]
            BY <1>1
        <3>3. QED
            BY <3>1, <3>2
    <2>2. news' \in [Peer -> Seq([peer : Peer, state : {"Connected", "Disconnected"}])]
        <3>1. news' = [r \in Peer |-> news'[r]]
            BY <1>1
        <3>2. QED
            BY <1>6, <3>1
    <2>3. QED
        BY <1>1, <2>1, <2>2 DEF TypeOK
<1>8. ASSUME NEW r \in Peer
      PROVE  SocketFits(r)' /\ RoleFits(r, client[r])' /\ NewsFit(r)'
    <2>1. SocketFits(r) /\ RoleFits(r, client[r]) /\ NewsFit(r)
        BY DEF Invariant
    <2>2. SocketFits(r)'
        BY <1>1, <2>1 DEF SocketFits, Assigned
    <2>3. RoleFits(r, client[r])'
        <3>1. CASE r = p
            BY <1>4, <3>1 DEF RoleFits
        <3>2. CASE r # p
            BY <1>1, <1>5, <2>1, <3>2 DEF RoleFits, SameMaps
        <3>3. QED
            BY <3>1, <3>2
    <2>4. NewsFit(r)'
        BY <1>1, <1>3, <1>6, <2>1 DEF NewsFit
    <2>5. QED
        BY <2>2, <2>3, <2>4
<1>9. ASSUME NEW a \in Peer, NEW b \in Peer
      PROVE  (Linked(a, b) => a \notin gone)' /\ Apart(a, b)'
    <2>1. (Linked(a, b) => a \notin gone)'
        BY <1>1, <1>3
    <2>2. SUFFICES ASSUME a # p, b # p, ~Linked(a, b)
                   PROVE  client'[a].out[b] = <<>> /\ b \notin DOMAIN client'[a].shake
        BY <1>1, <1>3, <2>1 DEF Apart
    <2>3. client[a].out[b] = <<>> /\ b \notin DOMAIN client[a].shake
        BY <1>1, <2>2 DEF Invariant, Apart
    <2>4. QED
        BY <1>5, <2>2, <2>3
<1>10. ASSUME calm, NEW a \in Peer, NEW b \in Peer, Linked(a, b)'
       PROVE  HandshakesFit(a, b)'
    <2>1. Linked(a, b) /\ a # p /\ b # p
        BY <1>3, <1>10
    <2>2. HandshakesFit(a, b)
        BY <1>10 DEF Invariant
    <2>3. /\ client'[a].out[b] = client[a].out[b] /\ client'[a].shake = client[a].shake
          /\ SameMaps(client[a], client'[a]) /\ SameMaps(client[b], client'[b])
        BY <1>5, <2>1
    <2>4. \A e : PacketFits(a, b, e) => PacketFits(a, b, e)'
        BY <2>3 DEF PacketFits, SameMaps, IsChildOf
    <2>5. AckFits(a, b) => AckFits(a, b)'
        <3>1. Acked(client'[a], b) => Acked(client[a], b)
            BY <2>3 DEF Acked
        <3>2. QED
            BY <2>3, <3>1 DEF AckFits, SameMaps, IsChildOf
    <2>6. QED
        BY <2>1, <2>2, <2>3, <2>4, <2>5 DEF HandshakesFit
<1>11. ASSUME calm'
       PROVE  /\ \A r \in Peer : client'[r].old \subseteq gone'
              /\ \A a, b \in Peer : HandshakesFit(a, b)'
    <2>1. calm
        BY <1>1, <1>11
    <2>2. \A a, b \in Peer : HandshakesFit(a, b)'
        <3>1. \A a, b \in Peer : ~Linked(a, b)' => HandshakesFit(a, b)'
            BY DEF HandshakesFit
        <3>2. QED
            BY <1>10, <2>1, <3>1
    <2>3. \A r \in Peer : client'[r].old \subseteq gone'
        <3>1. \A r \in Peer : client[r].old \subseteq {}
            BY <1>1, <2>1 DEF Invariant
        <3>2. QED
            BY <1>1, <1>4, <1>5, <3>1 DEF SameMaps
    <2>4. QED
        BY <2>2, <2>3
<1>12. QED
    BY <1>7, <1>8, <1>9, <1>11 DEF Invariant

\* In p's client, only what others do not go by once it is no longer calm.
OnlyOld(p) ==
    /\ client' \in [Peer -> Client]
    /\ UNCHANGED <<scene, socket, news, links, gone, last>>
    /\ lapses' \in 0..scene.lapses /\ calm' \in BOOLEAN /\ (calm' => calm)
    /\ \A q \in Peer :
          /\ client'[q].ready = client[q].ready /\ client'[q].role = client[q].role
          /\ client'[q].parent = client[q].parent /\ client'[q].out = client[q].out
          /\ DOMAIN client'[q].shake \subseteq DOMAIN client[q].shake
    /\ \/ ~calm'
       \/ \A q \in Peer :
             /\ client'[q].supers = client[q].supers /\ client'[q].kids = client[q].kids
             /\ client'[q].shake = client[q].shake
             /\ client'[q].old \subseteq client[q].old \cup gone

LEMMA InvOnlyOld ==
    ASSUME Invariant, NEW p \in Peer, OnlyOld(p)
    PROVE  Invariant'
<1>1. UNCHANGED <<scene, socket, news, links, gone, last>> /\ TypeOK
    BY DEF OnlyOld, Invariant
<1>2. \A a, b : Linked(a, b)' = Linked(a, b)
    BY <1>1 DEF Linked
<1>3. TypeOK'
    BY <1>1 DEF OnlyOld, TypeOK
<1>4. ASSUME NEW q \in Peer
      PROVE  SocketFits(q)' /\ RoleFits(q, client[q])' /\ NewsFit(q)'
    <2>1. SocketFits(q) /\ RoleFits(q, client[q]) /\ NewsFit(q)
        BY DEF Invariant
    <2>2. RoleFits(q, client[q])'
        BY <1>1, <2>1 DEF RoleFits, OnlyOld
    <2>3. SocketFits(q)' /\ NewsFit(q)'
        BY <1>1, <1>2, <2>1 DEF SocketFits, Assigned, NewsFit
    <2>4. QED
        BY <2>2, <2>3
<1>5. ASSUME NEW a \in Peer, NEW b \in Peer
      PROVE  (Linked(a, b) => a \notin gone)' /\ Apart(a, b)'
    BY <1>1, <1>2 DEF Invariant, Apart, OnlyOld
<1>6. ASSUME calm'
      PROVE  /\ \A q \in Peer : client'[q].old \subseteq gone'
             /\ \A a, b \in Peer : HandshakesFit(a, b)'
    <2>1. /\ \A q \in Peer : client[q].old \subseteq gone
          /\ \A a, b \in Peer : HandshakesFit(a, b)
        <3>1. calm
            BY <1>6 DEF OnlyOld
        <3>2. QED
            BY <3>1 DEF Invariant
    <2>2. \A q \in Peer :
             /\ client'[q].role = client[q].role /\ client'[q].parent = client[q].parent
             /\ client'[q].supers = client[q].supers /\ client'[q].kids = client[q].kids
             /\ client'[q].shake = client[q].shake /\ client'[q].out = client[q].out
             /\ client'[q].old \subseteq client[q].old \cup gone
        BY <1>1, <1>6 DEF OnlyOld
    <2>3. ASSUME NEW a \in Peer, NEW b \in Peer PROVE HandshakesFit(a, b)'
        <3>1. HandshakesFit(a, b)
            BY <2>1
        <3>2. \A e : PacketFits(a, b, e) => PacketFits(a, b, e)'
            BY <2>2 DEF PacketFits, IsChildOf
        <3>3. AckFits(a, b) => AckFits(a, b)'
            BY <2>2 DEF AckFits, IsChildOf, Acked
        <3>4. QED
            BY <1>2, <2>2, <3>1, <3>2, <3>3 DEF HandshakesFit
    <2>4. QED
        BY <1>1, <2>1, <2>2, <2>3
<1>7. QED
    BY <1>3, <1>4, <1>5, <1>6 DEF Invariant

\* What the five seconds that somebody is silent leave alone.
TimeFrame ==
    /\ UNCHANGED <<scene, socket, news, links, gone, last>>
    /\ lapses' = lapses \/ (lapses > 0 /\ lapses' = lapses - 1)

LEMMA InvFallSilent ==
    ASSUME Invariant, TimeFrame, NEW p \in Peer, NEW q \in Peer, FallSilent(p, q)
    PROVE  Invariant'
<1>1. TypeOK /\ scene.lapses \in Nat /\ lapses \in 0..scene.lapses
    <2>1. TypeOK
        BY DEF Invariant
    <2>2. QED
        BY <2>1, SceneIs DEF TypeOK
<1>2. /\ client \in [Peer -> Client] /\ client[p] \in Client
      /\ client[p].old \cup {q} \in SUBSET Peer
    <2>1. client \in [Peer -> Client] /\ client[p] \in Client
        BY <1>1 DEF TypeOK
    <2>2. QED
        BY <2>1, ClientType
<1>3. /\ client' = [client EXCEPT ![p] = [client[p] EXCEPT !.old = client[p].old \cup {q}]]
      /\ UNCHANGED <<scene, socket, news, links, gone, last>>
      /\ lapses' = lapses \/ (lapses > 0 /\ lapses' = lapses - 1)
      /\ calm' = (calm /\ q \in gone)
    BY DEF FallSilent, TimeFrame
<1>4. PICK d : d = [client[p] EXCEPT !.old = client[p].old \cup {q}]
    OBVIOUS
<1>5. /\ d \in Client
      /\ d.ready = client[p].ready /\ d.role = client[p].role /\ d.parent = client[p].parent
      /\ d.out = client[p].out /\ d.shake = client[p].shake
      /\ d.supers = client[p].supers /\ d.kids = client[p].kids
      /\ d.old = client[p].old \cup {q}
    <2>1. PICK old \in SUBSET Peer : old = client[p].old \cup {q}
        BY <1>2
    <2>2. PICK c \in Client : c = client[p]
        BY <1>2
    <2>3. d = [c EXCEPT !.old = old]
        BY <1>4, <2>1, <2>2
    <2>4. /\ d \in Client
          /\ d.ready = c.ready /\ d.role = c.role /\ d.parent = c.parent
          /\ d.out = c.out /\ d.shake = c.shake /\ d.supers = c.supers /\ d.kids = c.kids
          /\ d.old = old
        BY <2>3 DEF Client
    <2>5. QED
        BY <2>1, <2>2, <2>4
<1>6. client' = [client EXCEPT ![p] = d]
    BY <1>3, <1>4
<1>7. client' \in [Peer -> Client] /\ \A r \in Peer : client'[r] = IF r = p THEN d ELSE client[r]
    BY <1>2, <1>5, <1>6
<1>8. calm' \in BOOLEAN /\ (calm' => calm) /\ (~calm' \/ q \in gone)
    BY <1>1, <1>3 DEF TypeOK
<1>9. lapses' \in 0..scene.lapses
    BY <1>1, <1>3
<1>10. OnlyOld(p)
    BY <1>3, <1>5, <1>7, <1>8, <1>9 DEF OnlyOld
<1>11. QED
    BY <1>10, InvOnlyOld

LEMMA InvRemovePeer ==
    ASSUME Invariant, NEW p \in Peer, NEW q \in Peer, RemovePeer(p, q)
    PROVE  Invariant'
<1>1. TypeOK /\ scene.lapses \in Nat /\ lapses \in 0..scene.lapses
    <2>1. TypeOK
        BY DEF Invariant
    <2>2. QED
        BY <2>1, SceneIs DEF TypeOK
<1>2. client \in [Peer -> Client]
    BY <1>1 DEF TypeOK
<1>3. PICK c \in Client : c = client[p]
    BY <1>2
<1>4. PICK shake \in Shakes :
          shake = Forget(c.shake, {q}) /\ DOMAIN shake = DOMAIN c.shake \ {q}
    BY ForgetShake
<1>5. PICK supers, kids, known \in SUBSET Peer :
         supers = c.supers \ {q} /\ kids = c.kids \ {q} /\ known = c.known \ {q}
    <2>1. c.supers \subseteq Peer /\ c.kids \subseteq Peer /\ c.known \subseteq Peer
        BY ClientType
    <2>2. QED
        BY <2>1
<1>6. PICK d : d = [c EXCEPT !.supers = supers, !.kids = kids, !.known = known, !.shake = shake]
    OBVIOUS
<1>7. /\ d \in Client
      /\ d.ready = c.ready /\ d.role = c.role /\ d.parent = c.parent /\ d.out = c.out
      /\ d.shake = shake
    BY <1>6 DEF Client, Shakes
<1>8. /\ client' = [client EXCEPT ![p] = d] /\ lapses > 0 /\ lapses' = lapses - 1
      /\ calm' = FALSE
      /\ UNCHANGED <<scene, socket, news, links, gone, last>>
    <2>1. client' = [client EXCEPT ![p] = [c EXCEPT !.supers = c.supers \ {q},
                !.kids = c.kids \ {q}, !.known = c.known \ {q},
                !.shake = Forget(c.shake, {q})]]
        BY <1>2, <1>3 DEF RemovePeer
    <2>2. QED
        BY <1>4, <1>5, <1>6, <2>1 DEF RemovePeer
<1>9. client' \in [Peer -> Client] /\ \A r \in Peer : client'[r] = IF r = p THEN d ELSE client[r]
    BY <1>2, <1>7, <1>8
<1>10. ~calm' /\ calm' \in BOOLEAN /\ lapses' \in 0..scene.lapses
    <2>1. ~calm' /\ calm' \in BOOLEAN
        BY <1>8
    <2>2. lapses' \in 0..scene.lapses
        BY <1>1, <1>8
    <2>3. QED
        BY <2>1, <2>2
<1>11. OnlyOld(p)
    BY <1>3, <1>4, <1>7, <1>8, <1>9, <1>10 DEF OnlyOld
<1>12. QED
    BY <1>11, InvOnlyOld

LEMMA InvStutter ==
    Invariant /\ UNCHANGED vars => Invariant'
<1> SUFFICES ASSUME Invariant, UNCHANGED vars PROVE Invariant'
    OBVIOUS
<1>1. UNCHANGED <<scene, client, socket, news, links, gone, lapses, calm, last>>
    BY DEF vars
<1>2. \A a, b : Linked(a, b)' = Linked(a, b)
    BY <1>1 DEF Linked
<1>3. \A a, b : /\ Apart(a, b)' = Apart(a, b)
                /\ HandshakesFit(a, b)' = HandshakesFit(a, b)
    BY <1>1, <1>2 DEF Apart, HandshakesFit, PacketFits, AckFits, IsChildOf, Acked
<1>4. \A a : /\ SocketFits(a)' = SocketFits(a) /\ NewsFit(a)' = NewsFit(a)
             /\ RoleFits(a, client[a])' = RoleFits(a, client[a])
    BY <1>1, <1>2 DEF SocketFits, Assigned, NewsFit, RoleFits
<1>5. TypeOK' = TypeOK
    BY <1>1 DEF TypeOK
<1>6. QED
    BY <1>1, <1>2, <1>3, <1>4, <1>5 DEF Invariant

-----------------------------------------------------------------------------
(* The flood.                                                                *)

LEMMA FlowsStay ==
    ASSUME scene' = scene, NEW p, NEW q, NEW packet
    PROVE  (Meet(scene, p, q) /\ Flows(p, q, packet))'
              <=> Meet(scene, p, q) /\ Flows(p, q, packet)
BY DEF Meet, Flows, IsDistance

LEMMA FloodInit ==
    Init => Flood
<1> SUFFICES ASSUME Init PROVE Flood
    OBVIOUS
<1>1. links \subseteq scene.links \cup scene.later
    BY DEF Init
<1>2. ASSUME NEW p \in Peer, NEW q \in Peer PROVE Range(client[p].out[q]) = {}
    <2>1. client[p].out[q] = <<>>
        BY DEF Init, NewClient
    <2>2. QED
        BY <2>1 DEF Range
<1>3. QED
    BY <1>1, <1>2 DEF Flood

\* Packets that are read, or lost, and connections that go down.
LEMMA FloodFewer ==
    ASSUME Flood, scene' = scene, links' \subseteq scene.links \cup scene.later,
           \A p, q \in Peer : client'[p].out[q] = <<>> \/ client'[p].out[q] = client[p].out[q]
    PROVE  Flood'
<1>1. ASSUME NEW p \in Peer, NEW q \in Peer, NEW packet \in Range(client'[p].out[q])
      PROVE  Meet(scene, p, q) /\ Flows(p, q, packet)
    <2>1. Range(client'[p].out[q]) = {} \/ client'[p].out[q] = client[p].out[q]
        BY DEF Range
    <2>2. packet \in Range(client[p].out[q])
        BY <1>1, <2>1
    <2>3. QED
        BY <2>2 DEF Flood
<1>2. QED
    BY <1>1, FlowsStay DEF Flood

LEMMA FloodTurn ==
    ASSUME Invariant, Flood, NEW p \in Peer, Turn(p)
    PROVE  Flood'
<1>1. PICK t : Working(p, t) /\ TurnMakes(p, t)
    BY TurnWorks
<1>2. /\ \A q \in Peer : client[q] \in Client
      /\ t \in Client /\ Flowing(p, t) /\ scene' = scene /\ links' = links
    BY <1>1 DEF Invariant, TypeOK, Working, Turn
<1>3. \A q \in Peer : client'[p].out[q] = IF Linked(p, q) THEN t.out[q] ELSE <<>>
    <2>1. client'[p] = Arrived(p, t)
        BY <1>1 DEF TurnMakes, Arrived
    <2>2. QED
        BY <1>2, <2>1, ArriveIs
<1>4. \A a \in Peer \ {p} : \A q \in Peer :
         client'[a].out[q] = <<>> \/ client'[a].out[q] = client[a].out[q]
    <2>1. SUFFICES ASSUME NEW a \in Peer, a # p, NEW q \in Peer
                   PROVE  client'[a].out[q] = <<>> \/ client'[a].out[q] = client[a].out[q]
        OBVIOUS
    <2>2. client'[a] = Emptied(client[a], p) /\ client[a] \in Client
        BY <1>1, <1>2, <2>1 DEF TurnMakes, Emptied
    <2>3. client'[a].out[q] = IF q = p THEN <<>> ELSE client[a].out[q]
        BY <2>2, EmptyRow
    <2>4. QED
        BY <2>3
<1>5. ASSUME NEW a \in Peer, NEW q \in Peer, NEW packet \in Range(client'[a].out[q])
      PROVE  Meet(scene, a, q) /\ Flows(a, q, packet)
    <2>1. Range(<<>>) = {}
        BY DEF Range
    <2>2. CASE a = p
        <3>1. Linked(p, q) /\ packet \in Range(t.out[q])
            BY <1>3, <1>5, <2>1, <2>2
        <3>2. QED
            BY <1>2, <2>2, <3>1, LinkedMeet DEF Flowing
    <2>3. CASE a # p
        <3>1. packet \in Range(client[a].out[q])
            BY <1>4, <1>5, <2>1, <2>3
        <3>2. QED
            BY <3>1 DEF Flood
    <2>4. QED
        BY <2>2, <2>3
<1>6. QED
    BY <1>2, <1>5, FlowsStay DEF Flood

LEMMA FloodLeave ==
    ASSUME Invariant, Flood, NEW p \in Peer, Leave(p)
    PROVE  Flood'
<1>1. \A q \in Peer : client[q] \in Client
    BY DEF Invariant, TypeOK
<1>2. scene' = scene /\ links' \subseteq links
    BY DEF Leave
<1>3. client'[p].out = client[p].out
    BY DEF Leave, NewClient
<1>4. ASSUME NEW a \in Peer, a # p, NEW q \in Peer
      PROVE  client'[a].out[q] = <<>> \/ client'[a].out[q] = client[a].out[q]
    <2>1. client'[a] = Emptied(client[a], p)
        BY <1>4 DEF Leave, Emptied
    <2>2. QED
        BY <1>1, <2>1, EmptyRow
<1>5. QED
    BY <1>2, <1>3, <1>4, FloodFewer DEF Flood

\* Assign, FallSilent and RemovePeer send nothing and connect nobody.
LEMMA FloodOther ==
    ASSUME Invariant, Flood, NEW p \in Peer, NEW q \in Peer,
           \/ ServerFrame /\ Assign(p)
           \/ TimeFrame /\ FallSilent(p, q)
           \/ RemovePeer(p, q)
    PROVE  Flood'
<1>1. client \in [Peer -> Client] /\ client[p] \in Client
    BY DEF Invariant, TypeOK
<1>2. scene' = scene /\ links' = links
    BY DEF Assign, FallSilent, RemovePeer, ServerFrame, TimeFrame
<1>3. \A a \in Peer : client'[a].out = client[a].out
    <2>1. CASE ServerFrame /\ Assign(p)
        BY <2>1 DEF ServerFrame
    <2>2. CASE TimeFrame /\ FallSilent(p, q)
        <3>1. PICK c \in Client : c = client[p]
            BY <1>1
        <3>2. PICK old : client' = [client EXCEPT ![p] = [c EXCEPT !.old = old]]
            BY <2>2, <3>1 DEF FallSilent
        <3>3. [c EXCEPT !.old = old].out = c.out
            BY DEF Client
        <3>4. QED
            BY <1>1, <3>1, <3>2, <3>3
    <2>3. CASE RemovePeer(p, q)
        <3>1. PICK c \in Client : c = client[p]
            BY <1>1
        <3> DEFINE e == [c EXCEPT !.supers = c.supers \ {q}, !.kids = c.kids \ {q},
                                  !.known = c.known \ {q}, !.shake = Forget(c.shake, {q})]
        <3>2. client' = [client EXCEPT ![p] = e]
            BY <1>1, <2>3, <3>1 DEF RemovePeer
        <3>3. e.out = c.out
            BY DEF Client
        <3> HIDE DEF e
        <3>4. QED
            BY <1>1, <3>1, <3>2, <3>3
    <2>4. QED
        BY <2>1, <2>2, <2>3
<1>4. QED
    BY <1>2, <1>3, FloodFewer DEF Flood

LEMMA FloodComeUp ==
    ASSUME Flood, ServerFrame, NEW p \in Peer, NEW q \in Peer, ComeUp(p, q)
    PROVE  Flood'
<1>1. scene' = scene /\ client' = client /\ links' \subseteq scene.links \cup scene.later
    BY DEF Flood, ComeUp, ServerFrame
<1>2. QED
    BY <1>1, FloodFewer

LEMMA FloodStutter ==
    ASSUME Flood, UNCHANGED vars
    PROVE  Flood'
<1>1. scene' = scene /\ client' = client /\ links' = links
    BY DEF vars
<1>2. QED
    BY <1>1, FloodFewer DEF Flood

-----------------------------------------------------------------------------
(* The theorems.                                                             *)

LEMMA InvNext ==
    Invariant /\ Flood /\ [Next]_vars => Invariant' /\ Flood'
<1> SUFFICES ASSUME Invariant, Flood, [Next]_vars PROVE Invariant' /\ Flood'
    OBVIOUS
<1>1. ASSUME NEW p \in Peer, Turn(p) PROVE Invariant' /\ Flood'
    BY <1>1, InvTurn, FloodTurn
<1>2. ASSUME NEW p \in Peer, Leave(p) PROVE Invariant' /\ Flood'
    BY <1>2, InvLeave, FloodLeave
<1>3. ASSUME ServerStep PROVE Invariant' /\ Flood'
    <2>1. ServerFrame
        BY <1>3 DEF ServerStep, ServerFrame
    <2>2. ASSUME NEW p \in Peer, Assign(p) PROVE Invariant' /\ Flood'
        BY <2>1, <2>2, InvAssign, FloodOther
    <2>3. ASSUME NEW p \in Peer, NEW q \in Peer, ComeUp(p, q) PROVE Invariant' /\ Flood'
        BY <2>1, <2>3, InvComeUp, FloodComeUp
    <2>4. \A l \in scene.links \cup scene.later : l[1] \in Peer /\ l[2] \in Peer
        BY SceneIs DEF Invariant
    <2>5. QED
        BY <1>3, <2>2, <2>3, <2>4 DEF ServerStep
<1>4. ASSUME CutOff \/ Lapse PROVE Invariant' /\ Flood'
    <2>1. TimeFrame
        BY <1>4 DEF CutOff, Lapse, TimeFrame
    <2>2. PICK p \in Peer, q \in Peer : FallSilent(p, q)
        BY <1>4 DEF CutOff, Lapse
    <2>3. QED
        BY <2>1, <2>2, InvFallSilent, FloodOther
<1>5. ASSUME NEW p \in Peer, NEW q \in Peer, RemovePeer(p, q) PROVE Invariant' /\ Flood'
    BY <1>5, InvRemovePeer, FloodOther
<1>6. QED
    BY <1>1, <1>2, <1>3, <1>4, <1>5, InvStutter, FloodStutter DEF Next

LEMMA InvariantAndFlood == Spec => [](Invariant /\ Flood)
<1>1. QED
    BY InvInit, FloodInit, InvNext, PTL DEF Spec

\* Whatever roles, connections, turns, silences and closed pages come in which
\* order: the types, what role, socket, news and connections say of each other,
\* and, as long as nobody is dropped who is still there, what each handshake says
\* at each of its steps.
THEOREM InvariantHolds == Spec => []Invariant
<1>1. QED
    BY InvariantAndFlood, PTL

\* Where the connections form a forest, of any depth and with any number of
\* super peers, an info moves away from the peer it is about with every hop,
\* whoever leaves, falls silent or changes its role meanwhile.
THEOREM InfosMoveAway ==
    Spec => [](\A o \in Peer : \A d \in [Peer -> Nat] :
                   IsDistance(scene, o, d) => MovesAway(o, d))
<1>1. Flood => \A o \in Peer : \A d \in [Peer -> Nat] :
                   IsDistance(scene, o, d) => MovesAway(o, d)
    BY DEF Flood, Flows, MovesAway
<1>2. QED
    BY <1>1, InvariantAndFlood, PTL

\* Therefore, where it takes no more than three connections from one peer to
\* another, an info is forwarded at most twice, and never comes back.
THEOREM FloodEndsHolds == Spec => [](IsShallow(scene) => FloodEnds)
<1>1. Invariant /\ Flood => (IsShallow(scene) => FloodEnds)
    <2> SUFFICES ASSUME Invariant, Flood, IsShallow(scene), NEW p \in Peer, NEW q \in Peer,
                        NEW packet \in Range(client[p].out[q]), packet.kind = "info"
                 PROVE  packet.hops <= 2 /\ packet.of # q
        BY DEF FloodEnds
    <2>1. packet.of \in Peer
        <3>1. client[p].out[q] \in Seq(Packets)
            BY ClientType DEF Invariant, TypeOK
        <3>2. packet \in Packets
            BY <3>1 DEF Range
        <3>3. QED
            BY <3>2 DEF Packets
    <2>2. PICK d \in [Peer -> 0..3] : IsDistance(scene, packet.of, d)
        BY <2>1 DEF IsShallow
    <2>3. packet.hops = d[p] /\ d[q] = d[p] + 1
        <3>1. d \in [Peer -> Nat]
            OBVIOUS
        <3>2. QED
            BY <2>2, <3>1 DEF Flood, Flows
    <2>4. d[packet.of] = 0
        BY <2>2 DEF IsDistance
    <2>5. QED
        BY <2>1, <2>3, <2>4
<1>2. QED
    BY <1>1, InvariantAndFlood, PTL

\* Therefore an acknowledged handshake is one that the other end has acted on.
THEOREM AckIsTrueHolds == Spec => []AckIsTrue
<1>1. Invariant => AckIsTrue
    <2> SUFFICES ASSUME Invariant, calm, NEW p \in Peer, NEW q \in Peer,
                        Acked(client[p], q), Linked(p, q)
                 PROVE  IF client[p].role = "super" THEN p \in client[q].supers
                                                    ELSE p \in client[q].kids
        BY DEF AckIsTrue
    <2>1. AckFits(p, q)
        BY DEF Invariant, HandshakesFit
    <2>2. QED
        BY <2>1 DEF AckFits, IsChildOf
<1>2. QED
    BY <1>1, InvariantHolds, PTL
=============================================================================
