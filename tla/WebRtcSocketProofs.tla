------------------------- MODULE WebRtcSocketProofs -------------------------
(***************************************************************************)
(* Proofs about WebRtcSocket, for any set of peers, any introductions by   *)
(* the server and any bounds: at most one handshake with a peer completes, *)
(* and a message_loop that panics has one of two causes.                   *)
(***************************************************************************)
EXTENDS WebRtcSocket, SequenceTheorems, TLAPS

-----------------------------------------------------------------------------
(* Sequences: a queue that grows at its end and is read from its front. *)

LEMMA AppendFacts ==
    ASSUME NEW S, NEW seq \in Seq(S), NEW e \in S
    PROVE  /\ Append(seq, e) \in Seq(S)
           /\ Len(Append(seq, e)) = Len(seq) + 1
           /\ Append(seq, e)[Len(seq) + 1] = e
           /\ \A k \in 1..Len(seq) : Append(seq, e)[k] = seq[k]
BY AppendProperties

LEMMA TailFacts ==
    ASSUME NEW S, NEW seq \in Seq(S), seq # <<>>
    PROVE  /\ Len(seq) \in Nat \ {0} /\ Head(seq) = seq[1] /\ Head(seq) \in S
           /\ Tail(seq) \in Seq(S)
           /\ Len(Tail(seq)) = Len(seq) - 1
           /\ \A k \in 1..Len(Tail(seq)) : k + 1 \in 1..Len(seq) /\ Tail(seq)[k] = seq[k + 1]
BY HeadTailProperties, EmptySeq, ElementOfSeq, LenProperties

LEMMA EmptyFacts == \A S : <<>> \in Seq(S) /\ Len(<<>>) = 0
BY EmptySeq

LEMMA NotEmpty ==
    ASSUME NEW S, NEW seq \in Seq(S)
    PROVE  seq # <<>> <=> 1 \in 1..Len(seq)
BY EmptySeq

\* One entry of a table of numbers (feeds, channel, intros, lefts) is set.
LEMMA EntrySet ==
    ASSUME NEW f \in [Peer -> [Peer -> Nat]], NEW p \in Peer, NEW q \in Peer, NEW n \in Nat,
           NEW g, g = [f EXCEPT ![p][q] = n]
    PROVE  /\ g \in [Peer -> [Peer -> Nat]]
           /\ \A r, s \in Peer : g[r][s] = IF r = p /\ s = q THEN n ELSE f[r][s]
<1> DEFINE row == [f[p] EXCEPT ![q] = n]
<1>1. row \in [Peer -> Nat] /\ \A s \in Peer : row[s] = IF s = q THEN n ELSE f[p][s]
    OBVIOUS
<1>2. g = [f EXCEPT ![p] = row]
    OBVIOUS
<1> HIDE DEF row
<1>3. QED
    BY <1>1, <1>2

-----------------------------------------------------------------------------
(* How shake changes: one handshake, all those of a peer that stops, or one *)
(* more.                                                                    *)

Shakes == [Peer -> [Peer -> Seq(HandshakeSet)]]

LEMMA HandshakeType ==
    ASSUME TypeOK, NEW p \in Peer, NEW q \in Peer
    PROVE  /\ shake[p][q] \in Seq(HandshakeSet) /\ Len(shake[p][q]) \in Nat
           /\ \A i \in 1..Len(shake[p][q]) : shake[p][q][i] \in HandshakeSet
<1>1. shake[p][q] \in Seq(HandshakeSet)
    BY DEF TypeOK
<1>2. QED
    BY <1>1, LenProperties, ElementOfSeq, EmptySeq

LEMMA OneChanged ==
    ASSUME TypeOK, NEW p \in Peer, NEW q \in Peer, NEW i \in 1..Len(shake[p][q]),
           NEW h \in HandshakeSet, Becomes(p, q, i, h)
    PROVE  /\ shake' \in Shakes
           /\ \A r, s \in Peer : Len(shake'[r][s]) = Len(shake[r][s])
           /\ shake'[p][q][i] = h
           /\ \A r, s \in Peer : \A j \in 1..Len(shake[r][s]) :
                 ~(r = p /\ s = q /\ j = i) => shake'[r][s][j] = shake[r][s][j]
<1> DEFINE new == [shake[p][q] EXCEPT ![i] = h]
<1>1. /\ new \in Seq(HandshakeSet) /\ Len(new) = Len(shake[p][q])
      /\ \A j \in 1..Len(shake[p][q]) : new[j] = IF j = i THEN h ELSE shake[p][q][j]
    BY HandshakeType, ExceptSeq
<1>2. shake' = [shake EXCEPT ![p] = [shake[p] EXCEPT ![q] = new]]
    BY DEF Becomes
<1> HIDE DEF new
<1>3. shake \in Shakes
    BY DEF TypeOK, Shakes
<1>4. shake' \in Shakes
    BY <1>1, <1>2, <1>3 DEF Shakes
<1>5. \A r, s \in Peer : shake'[r][s] = IF r = p /\ s = q THEN new ELSE shake[r][s]
    BY <1>2, <1>3 DEF Shakes
<1>6. QED
    BY <1>1, <1>4, <1>5

Adds(p, q, h) == shake' = [shake EXCEPT ![p][q] = Append(@, h)]

LEMMA OneAdded ==
    ASSUME TypeOK, NEW p \in Peer, NEW q \in Peer, NEW h \in HandshakeSet, Adds(p, q, h)
    PROVE  /\ shake' \in Shakes
           /\ Len(shake'[p][q]) = Len(shake[p][q]) + 1
           /\ shake'[p][q][Len(shake[p][q]) + 1] = h
           /\ \A j \in 1..Len(shake[p][q]) : shake'[p][q][j] = shake[p][q][j]
           /\ \A r, s \in Peer : ~(r = p /\ s = q) => shake'[r][s] = shake[r][s]
<1> DEFINE new == Append(shake[p][q], h)
<1>1. /\ new \in Seq(HandshakeSet) /\ Len(new) = Len(shake[p][q]) + 1
      /\ new[Len(shake[p][q]) + 1] = h
      /\ \A j \in 1..Len(shake[p][q]) : new[j] = shake[p][q][j]
    BY HandshakeType, AppendFacts
<1>2. shake' = [shake EXCEPT ![p] = [shake[p] EXCEPT ![q] = new]]
    BY DEF Adds
<1> HIDE DEF new
<1>3. shake \in Shakes
    BY DEF TypeOK, Shakes
<1>4. shake' \in Shakes
    BY <1>1, <1>2, <1>3 DEF Shakes
<1>5. \A r, s \in Peer : shake'[r][s] = IF r = p /\ s = q THEN new ELSE shake[r][s]
    <2>1. shake'[p] = [shake[p] EXCEPT ![q] = new] /\ \A r \in Peer \ {p} : shake'[r] = shake[r]
        BY <1>2, <1>3, Zenon DEF Shakes
    <2>2. shake[p] \in [Peer -> Seq(HandshakeSet)]
        BY <1>3 DEF Shakes
    <2>3. \A s \in Peer : shake'[p][s] = IF s = q THEN new ELSE shake[p][s]
        BY <2>1, <2>2
    <2>4. QED
        BY <2>1, <2>3
<1>6. QED
    BY <1>1, <1>4, <1>5

\* A handshake that the end of its message_loop leaves behind.
LEMMA AllStopped ==
    ASSUME TypeOK, NEW p \in Peer, NEW how, Stops(p, how)
    PROVE  /\ shake' \in Shakes
           /\ \A r, s \in Peer : Len(shake'[r][s]) = Len(shake[r][s])
           /\ \A r, s \in Peer : r # p => shake'[r][s] = shake[r][s]
           /\ \A s \in Peer : \A j \in 1..Len(shake[p][s]) :
                 LET g == shake[p][s][j]
                     h == shake'[p][s][j]
                 IN  /\ h.role = g.role /\ h.at = g.at /\ h.remote = g.remote
                     /\ h.box = <<>> /\ h.link = "none"
<1> DEFINE left(h) == [Fresh(h.role, h.at, <<>>) EXCEPT !.remote = h.remote]
           new == [s \in Peer |-> [j \in DOMAIN shake[p][s] |-> left(shake[p][s][j])]]
<1>1. ASSUME NEW h \in HandshakeSet
      PROVE  /\ left(h) \in HandshakeSet
             /\ left(h).role = h.role /\ left(h).at = h.at /\ left(h).remote = h.remote
             /\ left(h).box = <<>> /\ left(h).link = "none"
    BY EmptyFacts DEF Fresh, HandshakeSet
<1>2. ASSUME NEW s \in Peer
      PROVE  /\ new[s] \in Seq(HandshakeSet) /\ Len(new[s]) = Len(shake[p][s])
             /\ \A j \in 1..Len(shake[p][s]) : new[s][j] = left(shake[p][s][j])
    <2>1. Len(shake[p][s]) \in Nat /\ DOMAIN shake[p][s] = 1..Len(shake[p][s])
        BY HandshakeType, LenProperties
    <2>2. \A j \in 1..Len(shake[p][s]) : left(shake[p][s][j]) \in HandshakeSet
        BY <1>1, HandshakeType
    <2> HIDE DEF left
    <2>3. new[s] \in [1..Len(shake[p][s]) -> HandshakeSet]
        BY <2>1, <2>2
    <2>4. new[s] \in Seq(HandshakeSet)
        BY <2>1, <2>3, SeqDef
    <2>5. QED
        BY <2>1, <2>3, <2>4, LenProperties
<1>3. shake' = [shake EXCEPT ![p] = new]
    BY DEF Stops
<1> HIDE DEF new, left
<1>4. shake \in Shakes
    BY DEF TypeOK, Shakes
<1>5. new \in [Peer -> Seq(HandshakeSet)]
    <2>1. new = [s \in Peer |-> new[s]]
        BY DEF new
    <2>2. QED
        BY <1>2, <2>1
<1>6. shake' \in Shakes
    BY <1>3, <1>4, <1>5 DEF Shakes
<1>7. \A r, s \in Peer : shake'[r][s] = IF r = p THEN new[s] ELSE shake[r][s]
    BY <1>3, <1>4 DEF Shakes
<1>8. \A r, s \in Peer : Len(shake'[r][s]) = Len(shake[r][s])
    BY <1>2, <1>7
<1>9. ASSUME NEW s \in Peer, NEW j \in 1..Len(shake[p][s])
      PROVE  LET g == shake[p][s][j]
                 h == shake'[p][s][j]
             IN  /\ h.role = g.role /\ h.at = g.at /\ h.remote = g.remote
                 /\ h.box = <<>> /\ h.link = "none"
    <2>1. shake'[p][s][j] = left(shake[p][s][j]) /\ shake[p][s][j] \in HandshakeSet
        BY <1>2, <1>7, HandshakeType
    <2>2. QED
        BY <1>1, <2>1
<1>10. QED
    BY <1>6, <1>7, <1>8, <1>9

-----------------------------------------------------------------------------
(* The handshakes of every pair, when none is added. *)

\* What a step may make of handshake i of p with q: its role stays, what it is
\* tied to stays, and a new tie is one to q's accept_handshake.
Advances(p, q, i, h) ==
    LET g == shake[p][q][i]
    IN  /\ h.role = g.role
        /\ h.at \in {"make", "answer"} => h.role = "offers"
        /\ h.at \in {"offer", "local"} => h.role = "accepts"
        /\ h.at \in {"make", "answer", "offer"} => h.remote = 0
        /\ \A k \in 1..Len(h.box) : SignalFits(p, q, h.box[k])
        /\ g.remote # 0 => h.remote = g.remote
        /\ h.role = "offers" =>
              /\ h.remote # 0 => h.remote = 1 /\ Accepts(q, p)
              /\ Linked(h) =>
                    \/ Linked(g)
                    \/ h.remote = 1 /\ Accepts(q, p) /\ shake[q][p][1].remote = i

\* Nothing that was there disappears.
Grows ==
    \A p, q \in Peer :
        /\ shake[p][q] # <<>> => shake'[p][q] # <<>>
        /\ Accepts(p, q) => Accepts(p, q)'

\* No handshake starts: those that are there move on.
MovesOn ==
    /\ shake' \in Shakes
    /\ \A p, q \in Peer : Len(shake'[p][q]) = Len(shake[p][q])
    /\ \A p, q \in Peer : \A i \in 1..Len(shake[p][q]) :
          Advances(p, q, i, shake'[p][q][i])

LEMMA StillAdvances ==
    ASSUME Inductive, NEW p \in Peer, NEW q \in Peer, NEW i \in 1..Len(shake[p][q])
    PROVE  Advances(p, q, i, shake[p][q][i])
BY DEF Inductive, PairFits, HandshakeFits, PartnerFits, Advances

LEMMA MovesOnKeeps ==
    ASSUME Inductive, MovesOn, feeds' = feeds
    PROVE  /\ \A p, q \in Peer : Accepts(p, q)' <=> Accepts(p, q)
           /\ Grows
           /\ \A p, q \in Peer : PairFits(p, q)'
<1> USE DEF MovesOn
<1>1. TypeOK
    BY DEF Inductive
<1>2. ASSUME NEW p \in Peer, NEW q \in Peer
      PROVE  /\ shake[p][q] # <<>> <=> 1 \in 1..Len(shake[p][q])
             /\ shake'[p][q] # <<>> <=> 1 \in 1..Len(shake[p][q])
    <2>1. shake[p][q] \in Seq(HandshakeSet) /\ shake'[p][q] \in Seq(HandshakeSet)
        BY <1>1 DEF TypeOK, Shakes
    <2>2. QED
        BY <2>1, NotEmpty
<1>3. \A p, q \in Peer : Accepts(p, q)' <=> Accepts(p, q)
    BY <1>2 DEF Accepts, Advances
<1>4. Grows
    BY <1>2, <1>3 DEF Grows
<1>5. ASSUME NEW p \in Peer, NEW q \in Peer, NEW i \in 1..Len(shake[p][q])
      PROVE  HandshakeFits(p, q, i)' /\ PartnerFits(p, q, i)'
    <2>1. PairFits(p, q) /\ HandshakeFits(p, q, i) /\ PartnerFits(p, q, i)
        BY DEF Inductive, PairFits
    <2>2. Advances(p, q, i, shake'[p][q][i])
        OBVIOUS
    <2>3. HandshakeFits(p, q, i)'
        BY <1>3, <2>1, <2>2 DEF HandshakeFits, Advances, SignalFits
    <2>4. PartnerFits(p, q, i)'
        <3>1. SUFFICES ASSUME shake'[p][q][i].role = "offers", Linked(shake'[p][q][i])
                       PROVE  /\ shake'[p][q][i].remote = 1 /\ Accepts(q, p)
                              /\ shake'[q][p][1].remote = i
            BY <1>3, <2>2 DEF PartnerFits, Advances
        <3>2. /\ shake'[p][q][i].remote = 1 /\ Accepts(q, p)
              /\ shake[q][p][1].remote = i
            BY <2>1, <2>2, <3>1 DEF PartnerFits, Advances
        <3>3. 1 \in 1..Len(shake[q][p]) /\ i # 0
            BY <1>2, <3>2 DEF Accepts
        <3>4. Advances(q, p, 1, shake'[q][p][1])
            BY <3>3
        <3>5. QED
            BY <3>2, <3>3, <3>4 DEF Advances
    <2>5. QED
        BY <2>3, <2>4
<1>6. ASSUME NEW p \in Peer, NEW q \in Peer
      PROVE  PairFits(p, q)'
    <2>1. PairFits(p, q)
        BY DEF Inductive
    <2>2. p = q => shake'[p][q] = <<>>
        BY <1>2, <2>1 DEF PairFits
    <2>3. Accepts(p, q)' => shake'[q][p] # <<>> /\ ~Accepts(q, p)'
        BY <1>2, <1>3, <2>1 DEF PairFits
    <2>4. feeds'[p][q] = Len(shake'[p][q])
        BY <2>1 DEF PairFits
    <2>5. \A i \in 1..Len(shake'[p][q]) : HandshakeFits(p, q, i)' /\ PartnerFits(p, q, i)'
        BY <1>5
    <2>6. QED
        BY <2>2, <2>3, <2>4, <2>5 DEF PairFits
<1>7. QED
    BY <1>3, <1>4, <1>6

-----------------------------------------------------------------------------
(* The events of a websocket. *)

\* What happens to the events of p, when the server does not introduce it.
InboxStep(p) ==
    \/ inbox'[p] = inbox[p]
    \/ inbox[p] # <<>> /\ inbox'[p] = Tail(inbox[p])
    \/ inbox'[p] = <<>>
    \/ \E e \in EventSet :
          EventFits(p, e) /\ e.kind # "new" /\ inbox'[p] = Append(inbox[p], e)

\* Every NewPeer that is there was there, d places later.
NewsKept(p) ==
    \E d \in Nat : \A k \in 1..Len(inbox'[p]) :
        inbox'[p][k].kind = "new" =>
            k + d \in 1..Len(inbox[p]) /\ inbox'[p][k] = inbox[p][k + d]

LEMMA EventStillFits ==
    ASSUME TypeOK, Grows, NEW p \in Peer, NEW e \in EventSet, EventFits(p, e)
    PROVE  EventFits(p, e)'
<1>1. PICK q \in Peer : q = e.from
    BY DEF EventSet
<1>2. (shake[q][p] # <<>> => shake'[q][p] # <<>>) /\ (Accepts(q, p) => Accepts(q, p)')
    BY DEF Grows
<1>3. ASSUME e.kind = "signal"
      PROVE  shake'[q][p] # <<>> /\ (e.sig.kind = "answer" => e.sig.of = 1 /\ Accepts(q, p)')
    BY <1>1, <1>2, <1>3 DEF EventFits, SignalFits
<1>4. QED
    BY <1>1, <1>3 DEF EventFits, SignalFits, Accepts

LEMMA InboxType ==
    ASSUME TypeOK, NEW p \in Peer
    PROVE  /\ inbox[p] \in Seq(EventSet) /\ Len(inbox[p]) \in Nat
           /\ \A k \in 1..Len(inbox[p]) : inbox[p][k] \in EventSet
<1>1. inbox[p] \in Seq(EventSet)
    BY DEF TypeOK
<1>2. QED
    BY <1>1, LenProperties, ElementOfSeq

LEMMA InboxGets ==
    ASSUME Inductive, Grows, NEW p \in Peer, NEW e \in EventSet, EventFits(p, e),
           inbox'[p] = Append(inbox[p], e)
    PROVE  /\ inbox'[p] \in Seq(EventSet) /\ InboxFits(p)'
           /\ Len(inbox[p]) \in Nat /\ Len(inbox'[p]) = Len(inbox[p]) + 1
           /\ inbox'[p][Len(inbox[p]) + 1] = e
           /\ \A k \in 1..Len(inbox[p]) : inbox'[p][k] = inbox[p][k]
<1>1. /\ TypeOK /\ InboxFits(p)
      /\ inbox[p] \in Seq(EventSet) /\ Len(inbox[p]) \in Nat
      /\ \A k \in 1..Len(inbox[p]) : inbox[p][k] \in EventSet
    BY InboxType DEF Inductive
<1>2. /\ inbox'[p] \in Seq(EventSet) /\ Len(inbox'[p]) = Len(inbox[p]) + 1
      /\ inbox'[p][Len(inbox[p]) + 1] = e
      /\ \A k \in 1..Len(inbox[p]) : inbox'[p][k] = inbox[p][k]
    BY <1>1, AppendFacts
<1>3. \A k \in 1..Len(inbox[p]) : EventFits(p, inbox[p][k])
    BY <1>1 DEF InboxFits
<1>4. ASSUME NEW k \in 1..Len(inbox'[p])
      PROVE  EventFits(p, inbox[p][k])'
    <2>1. PICK f \in EventSet : f = inbox'[p][k] /\ EventFits(p, f)
        BY <1>1, <1>2, <1>3
    <2>2. EventFits(p, f)'
        BY <1>1, <2>1, EventStillFits
    <2>3. QED
        BY <2>1, <2>2
<1>5. QED
    BY <1>1, <1>2, <1>4 DEF InboxFits

LEMMA InboxStepKeeps ==
    ASSUME Inductive, Grows, NEW p \in Peer, InboxStep(p)
    PROVE  inbox'[p] \in Seq(EventSet) /\ InboxFits(p)' /\ NewsKept(p)
<1>1. /\ TypeOK /\ InboxFits(p)
      /\ inbox[p] \in Seq(EventSet) /\ Len(inbox[p]) \in Nat
      /\ \A k \in 1..Len(inbox[p]) : inbox[p][k] \in EventSet
    BY InboxType DEF Inductive
<1>2. \A k \in 1..Len(inbox[p]) : EventFits(p, inbox[p][k])
    BY <1>1 DEF InboxFits
<1>3. ASSUME NEW d \in Nat,
             \A k \in 1..Len(inbox'[p]) :
                 k + d \in 1..Len(inbox[p]) /\ inbox'[p][k] = inbox[p][k + d]
      PROVE  InboxFits(p)' /\ NewsKept(p)
    <2>1. NewsKept(p)
        BY <1>3 DEF NewsKept
    <2>2. ASSUME NEW k \in 1..Len(inbox'[p])
          PROVE  EventFits(p, inbox[p][k])'
        <3>1. PICK e \in EventSet : e = inbox'[p][k] /\ EventFits(p, e)
            BY <1>1, <1>2, <1>3
        <3>2. EventFits(p, e)'
            BY <1>1, <3>1, EventStillFits
        <3>3. QED
            BY <3>1, <3>2
    <2>3. QED
        BY <2>1, <2>2 DEF InboxFits
<1>4. CASE inbox'[p] = inbox[p]
    BY <1>1, <1>3, <1>4
<1>5. CASE inbox[p] # <<>> /\ inbox'[p] = Tail(inbox[p])
    <2>1. /\ inbox'[p] \in Seq(EventSet)
          /\ \A k \in 1..Len(inbox'[p]) :
                k + 1 \in 1..Len(inbox[p]) /\ inbox'[p][k] = inbox[p][k + 1]
        BY <1>1, <1>5, TailFacts
    <2>2. QED
        BY <1>3, <2>1
<1>6. CASE inbox'[p] = <<>>
    BY <1>3, <1>6, EmptyFacts
<1>7. ASSUME NEW e \in EventSet, EventFits(p, e), e.kind # "new",
             inbox'[p] = Append(inbox[p], e)
      PROVE  inbox'[p] \in Seq(EventSet) /\ InboxFits(p)' /\ NewsKept(p)
    <2>1. /\ inbox'[p] \in Seq(EventSet) /\ InboxFits(p)'
          /\ Len(inbox[p]) \in Nat /\ Len(inbox'[p]) = Len(inbox[p]) + 1
          /\ inbox'[p][Len(inbox[p]) + 1] = e
          /\ \A k \in 1..Len(inbox[p]) : inbox'[p][k] = inbox[p][k]
        BY <1>7, InboxGets
    <2>2. \A k \in 1..Len(inbox'[p]) : inbox'[p][k].kind = "new" =>
              k + 0 \in 1..Len(inbox[p]) /\ inbox'[p][k] = inbox[p][k + 0]
        BY <1>7, <2>1
    <2>3. QED
        BY <2>1, <2>2 DEF NewsKept
<1>8. QED
    BY <1>4, <1>5, <1>6, <1>7 DEF InboxStep

LEMMA IntroducedSame ==
    ASSUME NEW p \in Peer, NEW q \in Peer, IntroducedFits(p, q), NewsKept(p),
           intros' = intros, Accepts(p, q)' <=> Accepts(p, q),
           Len(shake'[p][q]) = Len(shake[p][q]),
           \A i \in 1..Len(shake[p][q]) : shake'[p][q][i].role = shake[p][q][i].role
    PROVE  IntroducedFits(p, q)'
<1>1. PICK d \in Nat : \A k \in 1..Len(inbox'[p]) :
          inbox'[p][k].kind = "new" =>
              k + d \in 1..Len(inbox[p]) /\ inbox'[p][k] = inbox[p][k + d]
    BY DEF NewsKept
<1>2. \A k \in 1..Len(inbox'[p]) :
          IsNew(p, q, k)' => k + d \in 1..Len(inbox[p]) /\ IsNew(p, q, k + d)
    BY <1>1 DEF IsNew
<1>3. CASE intros[p][q] = 0
    BY <1>2, <1>3 DEF IntroducedFits
<1>4. CASE intros[p][q] = 1
    <2>1. ASSUME NEW k \in 1..Len(inbox'[p]), NEW l \in 1..Len(inbox'[p]),
                 IsNew(p, q, k)', IsNew(p, q, l)'
          PROVE  k = l
        <3>1. k + d = l + d
            BY <1>2, <1>4, <2>1 DEF IntroducedFits
        <3>2. QED
            BY <3>1
    <2>2. ASSUME NEW i \in 1..Len(shake[p][q]), shake[p][q][i].role = "offers",
                 NEW k \in 1..Len(inbox'[p])
          PROVE  ~IsNew(p, q, k)'
        BY <1>2, <1>4, <2>2 DEF IntroducedFits
    <2>3. ASSUME NEW i \in 1..Len(shake'[p][q]), shake'[p][q][i].role = "offers"
          PROVE  /\ \A j \in 1..Len(shake'[p][q]) : shake'[p][q][j].role = "offers" => i = j
                 /\ \A k \in 1..Len(inbox'[p]) : ~IsNew(p, q, k)'
        BY <1>4, <2>2, <2>3 DEF IntroducedFits
    <2>4. (Accepts(p, q) => intros[q][p] > 0)'
        BY DEF IntroducedFits
    <2>5. intros'[p][q] = 1
        BY <1>4
    <2>6. QED
        BY <2>1, <2>3, <2>4, <2>5 DEF IntroducedFits
<1>5. CASE intros[p][q] \notin {0, 1}
    BY <1>5 DEF IntroducedFits
<1>6. QED
    BY <1>3, <1>4, <1>5

LEMMA IntroducedKept ==
    ASSUME Inductive, MovesOn, feeds' = feeds, intros' = intros,
           NEW p \in Peer, NEW q \in Peer, NewsKept(p)
    PROVE  IntroducedFits(p, q)'
<1>1. IntroducedFits(p, q) /\ (Accepts(p, q)' <=> Accepts(p, q))
    BY MovesOnKeeps DEF Inductive
<1>2. /\ Len(shake'[p][q]) = Len(shake[p][q])
      /\ \A i \in 1..Len(shake[p][q]) : shake'[p][q][i].role = shake[p][q][i].role
    BY DEF MovesOn, Advances
<1>3. QED
    BY <1>1, <1>2, IntroducedSame

-----------------------------------------------------------------------------
(* The steps of the handshakes: together, and then one by one. *)

\* Inductive, but for the types and the channels.
Ties ==
    /\ \A p \in Peer : InboxFits(p)
    /\ \A p, q \in Peer : PairFits(p, q) /\ IntroducedFits(p, q)

LEMMA HandshakesMove ==
    ASSUME Inductive, MovesOn, feeds' = feeds, intros' = intros,
           inbox' = [p \in Peer |-> inbox'[p]], \A p \in Peer : InboxStep(p)
    PROVE  Ties' /\ inbox' \in [Peer -> Seq(EventSet)]
<1>1. Grows /\ \A p, q \in Peer : PairFits(p, q)'
    BY MovesOnKeeps
<1>2. \A p \in Peer : inbox'[p] \in Seq(EventSet) /\ InboxFits(p)' /\ NewsKept(p)
    BY <1>1, InboxStepKeeps
<1>3. \A p, q \in Peer : IntroducedFits(p, q)'
    BY <1>2, IntroducedKept
<1>4. inbox' \in [Peer -> Seq(EventSet)]
    BY <1>2
<1>5. QED
    BY <1>1, <1>2, <1>3, <1>4 DEF Ties

LEMMA OneMoves ==
    ASSUME Inductive, NEW p \in Peer, NEW q \in Peer,
           NEW i \in 1..Len(shake[p][q]), NEW h \in HandshakeSet,
           Becomes(p, q, i, h), Advances(p, q, i, h)
    PROVE  MovesOn
<1>1. TypeOK
    BY DEF Inductive
<1>2. /\ shake' \in Shakes
      /\ \A r, s \in Peer : Len(shake'[r][s]) = Len(shake[r][s])
      /\ shake'[p][q][i] = h
      /\ \A r, s \in Peer : \A j \in 1..Len(shake[r][s]) :
            ~(r = p /\ s = q /\ j = i) => shake'[r][s][j] = shake[r][s][j]
    BY <1>1, OneChanged
<1>3. ASSUME NEW r \in Peer, NEW s \in Peer, NEW j \in 1..Len(shake[r][s])
      PROVE  Advances(r, s, j, shake'[r][s][j])
    <2>1. Advances(r, s, j, shake[r][s][j])
        BY StillAdvances
    <2>2. QED
        BY <1>2, <2>1
<1>4. QED
    BY <1>2, <1>3 DEF MovesOn

LEMMA PairsDiffer ==
    ASSUME Inductive, NEW p \in Peer, NEW q \in Peer, NEW i \in 1..Len(shake[p][q])
    PROVE  p # q /\ shake[p][q] # <<>>
<1>1. shake[p][q] # <<>>
    BY EmptyFacts
<1>2. QED
    BY <1>1 DEF Inductive, PairFits

\* The server relays a signal of a handshake of p with q.
LEMMA SignalSent ==
    ASSUME Inductive, NEW p \in Peer, NEW q \in Peer,
           NEW i \in 1..Len(shake[p][q]), NEW sig \in SignalSet,
           SendSignal(p, q, sig), SignalFits(q, p, sig)
    PROVE  inbox' = [r \in Peer |-> inbox'[r]] /\ \A r \in Peer : InboxStep(r)
<1> DEFINE e == [kind |-> "signal", from |-> p, sig |-> sig]
<1>1. e \in EventSet /\ e.kind # "new" /\ EventFits(q, e)
    BY PairsDiffer DEF EventSet, EventFits
<1>2. inbox \in [Peer -> Seq(EventSet)]
    BY DEF Inductive, TypeOK
<1>3. inbox' = inbox \/ inbox' = [inbox EXCEPT ![q] = Append(@, e)]
    BY DEF SendSignal, Mail
<1> HIDE DEF e
<1>4. \A r \in Peer : inbox'[r] = inbox[r] \/ (r = q /\ inbox'[r] = Append(inbox[r], e))
    BY <1>2, <1>3
<1>5. inbox' = [r \in Peer |-> inbox'[r]]
    BY <1>2, <1>3
<1>6. QED
    BY <1>1, <1>4, <1>5 DEF InboxStep

\* One step of one handshake that tells q at most one thing.
OneStep(p, q, i, h) ==
    /\ Becomes(p, q, i, h)
    /\ Advances(p, q, i, h)
    /\ \/ inbox' = inbox
       \/ \E sig \in SignalSet : SendSignal(p, q, sig) /\ SignalFits(q, p, sig)

LEMMA OneStepKeeps ==
    ASSUME Inductive, NEW p \in Peer, NEW q \in Peer,
           NEW i \in 1..Len(shake[p][q]), NEW h \in HandshakeSet,
           OneStep(p, q, i, h), feeds' = feeds, intros' = intros
    PROVE  MovesOn /\ Ties' /\ inbox' \in [Peer -> Seq(EventSet)]
<1>1. MovesOn
    BY OneMoves DEF OneStep
<1>2. inbox' = [r \in Peer |-> inbox'[r]] /\ \A r \in Peer : InboxStep(r)
    <2>1. CASE inbox' = inbox
        BY <2>1 DEF InboxStep, Inductive, TypeOK
    <2>2. ASSUME NEW sig \in SignalSet, SendSignal(p, q, sig), SignalFits(q, p, sig)
          PROVE  inbox' = [r \in Peer |-> inbox'[r]] /\ \A r \in Peer : InboxStep(r)
        BY <2>2, SignalSent
    <2>3. QED
        BY <2>1, <2>2 DEF OneStep
<1>3. QED
    BY <1>1, <1>2, HandshakesMove

LEMMA SignalType ==
    ASSUME NEW kind \in {"offer", "answer", "candidate"}, NEW i \in Nat, NEW j \in Nat,
           NEW cand \in BOOLEAN
    PROVE  /\ Signal(kind, i, j, cand) \in SignalSet
           /\ Signal(kind, i, j, cand).kind = kind /\ Signal(kind, i, j, cand).of = i
BY DEF Signal, SignalSet

LEMMA WasmType == \A p \in Peer : Wasm(p) \in BOOLEAN
BY Zenon DEF Wasm

\* What is known of the handshake that makes a step.
Known(p, q, i, g) ==
    /\ g = shake[p][q][i] /\ g \in HandshakeSet
    /\ HandshakeFits(p, q, i) /\ PartnerFits(p, q, i) /\ Advances(p, q, i, g)
    /\ \A k \in 1..Len(g.box) : g.box[k] \in SignalSet /\ SignalFits(p, q, g.box[k])

LEMMA HandshakeKnown ==
    ASSUME Inductive, NEW p \in Peer, NEW q \in Peer, NEW i \in 1..Len(shake[p][q])
    PROVE  Known(p, q, i, shake[p][q][i])
<1>1. TypeOK /\ PairFits(p, q)
    BY DEF Inductive
<1>2. shake[p][q][i] \in HandshakeSet
    BY <1>1, HandshakeType
<1>3. shake[p][q][i].box \in Seq(SignalSet)
    BY <1>2 DEF HandshakeSet
<1>4. \A k \in 1..Len(shake[p][q][i].box) : shake[p][q][i].box[k] \in SignalSet
    BY <1>3, ElementOfSeq
<1>5. QED
    BY <1>1, <1>2, <1>4, StillAdvances DEF PairFits, HandshakeFits, Known

\* The signal that a handshake reads, and what is left in its box.
LEMMA BoxRead ==
    ASSUME NEW p, NEW q, NEW i, NEW g, Known(p, q, i, g), g.box # <<>>
    PROVE  /\ Head(g.box) \in SignalSet /\ SignalFits(p, q, Head(g.box))
           /\ Tail(g.box) \in Seq(SignalSet)
           /\ \A k \in 1..Len(Tail(g.box)) : SignalFits(p, q, Tail(g.box)[k])
<1>1. g.box \in Seq(SignalSet)
    BY DEF Known, HandshakeSet
<1>2. /\ Len(g.box) \in Nat \ {0} /\ Head(g.box) = g.box[1]
      /\ Tail(g.box) \in Seq(SignalSet)
      /\ \A k \in 1..Len(Tail(g.box)) : k + 1 \in 1..Len(g.box) /\ Tail(g.box)[k] = g.box[k + 1]
    BY <1>1, TailFacts
<1>3. \A k \in 1..Len(g.box) : g.box[k] \in SignalSet /\ SignalFits(p, q, g.box[k])
    BY DEF Known
<1>4. 1 \in 1..Len(g.box)
    BY <1>2
<1>5. Head(g.box) \in SignalSet /\ SignalFits(p, q, Head(g.box))
    BY <1>2, <1>3, <1>4
<1>6. QED
    BY <1>2, <1>3, <1>5

LEMMA OfferSteps ==
    ASSUME Inductive, NEW p \in Peer, NEW q \in Peer, NEW i \in 1..Len(shake[p][q]),
           MakeOffer(p, q, i) \/ AwaitAnswer(p, q, i)
    PROVE  \E h \in HandshakeSet : OneStep(p, q, i, h)
<1> DEFINE g == shake[p][q][i]
<1>1. Known(p, q, i, g) /\ i \in Nat
    BY HandshakeKnown
<1> USE DEF At
<1>2. CASE MakeOffer(p, q, i)
    <2> DEFINE h == [g EXCEPT !.at = "answer"]
               sig == Signal("offer", i, 0, Wasm(p))
    <2>1. sig \in SignalSet /\ SignalFits(q, p, sig)
        BY <1>1, SignalType, WasmType DEF SignalFits
    <2>2. h \in HandshakeSet /\ Advances(p, q, i, h)
        BY <1>1, <1>2 DEF Known, MakeOffer, HandshakeSet, HandshakeFits, Advances, Linked
    <2>3. Becomes(p, q, i, h) /\ SendSignal(p, q, sig)
        BY <1>2 DEF MakeOffer
    <2>4. QED
        BY <2>1, <2>2, <2>3 DEF OneStep
<1>3. CASE AwaitAnswer(p, q, i)
    <2> DEFINE sig == Head(g.box)
               read == [g EXCEPT !.box = Tail(@)]
               h == IF sig.kind = "answer"
                    THEN [read EXCEPT !.at = "flush", !.remote = sig.of,
                                      !.cands = IF sig.cand THEN @ \cup {sig.of} ELSE @]
                    ELSE [read EXCEPT !.cands = Candidates(p, g, sig)]
    <2>1. /\ sig \in SignalSet /\ SignalFits(p, q, sig)
          /\ Tail(g.box) \in Seq(SignalSet)
          /\ \A k \in 1..Len(Tail(g.box)) : SignalFits(p, q, Tail(g.box)[k])
        BY <1>1, <1>3, BoxRead DEF AwaitAnswer
    <2>2. Becomes(p, q, i, h) /\ inbox' = inbox /\ g.at = "answer"
        BY <1>3 DEF AwaitAnswer
    <2>3. /\ g \in HandshakeSet /\ g.role = "offers" /\ g.remote = 0
          /\ Candidates(p, g, sig) \in SUBSET Nat
        BY <1>1, <2>1, <2>2 DEF Known, HandshakeFits, HandshakeSet, SignalSet, Candidates
    <2>4. CASE sig.kind = "answer"
        <3>1. sig.of = 1 /\ Accepts(q, p)
            BY <2>1, <2>4 DEF SignalFits
        <3> DEFINE c == IF sig.cand THEN g.cands \cup {sig.of} ELSE g.cands
        <3>2. c \in SUBSET Nat
            <4>1. g.cands \in SUBSET Nat
                BY <2>3 DEF HandshakeSet
            <4>2. QED
                BY <3>1, <4>1
        <3>3. h = [g EXCEPT !.box = Tail(g.box), !.at = "flush", !.remote = 1, !.cands = c]
            BY <2>3, <2>4, <3>1 DEF HandshakeSet
        <3>4. /\ h \in HandshakeSet /\ h.role = "offers" /\ h.at = "flush"
              /\ h.remote = 1 /\ h.link = g.link /\ h.box = Tail(g.box)
            <4> HIDE DEF h, sig, c
            <4>1. QED
                BY <2>1, <2>3, <3>2, <3>3 DEF HandshakeSet
        <3>5. Advances(p, q, i, h)
            BY <1>1, <2>1, <2>2, <2>3, <3>1, <3>4 DEF Advances, Linked
        <3>6. QED
            BY <2>2, <3>4, <3>5 DEF OneStep
    <2>5. CASE sig.kind # "answer"
        <3>1. /\ h \in HandshakeSet /\ h.role = "offers" /\ h.at = "answer"
              /\ h.remote = 0 /\ h.link = g.link /\ h.box = Tail(g.box)
            BY <2>1, <2>2, <2>3, <2>5 DEF HandshakeSet
        <3>2. Advances(p, q, i, h)
            BY <1>1, <2>1, <2>2, <2>3, <3>1 DEF Advances, Linked
        <3>3. QED
            BY <2>2, <3>1, <3>2 DEF OneStep
    <2>6. QED
        BY <2>4, <2>5
<1>4. QED
    BY <1>2, <1>3

LEMMA AcceptStep ==
    ASSUME Inductive, NEW p \in Peer, NEW q \in Peer, NEW i \in 1..Len(shake[p][q]),
           AwaitOffer(p, q, i)
    PROVE  \E h \in HandshakeSet : OneStep(p, q, i, h)
<1> DEFINE g == shake[p][q][i]
           sig == Head(g.box)
           read == [g EXCEPT !.box = Tail(@)]
<1>1. Known(p, q, i, g) /\ i \in Nat
    BY HandshakeKnown
<1>2. /\ sig \in SignalSet /\ SignalFits(p, q, sig)
      /\ Tail(g.box) \in Seq(SignalSet)
      /\ \A k \in 1..Len(Tail(g.box)) : SignalFits(p, q, Tail(g.box)[k])
    BY <1>1, BoxRead DEF AwaitOffer
<1>3. g.at = "offer"
    BY DEF AwaitOffer, At
<1>4. /\ g \in HandshakeSet /\ g.role = "accepts" /\ g.remote = 0 /\ i = 1
      /\ Candidates(p, g, sig) \in SUBSET Nat
    BY <1>1, <1>2, <1>3 DEF Known, HandshakeFits, HandshakeSet, SignalSet, Candidates
<1>5. CASE sig.kind = "offer"
    <2> DEFINE h == [read EXCEPT !.at = IF Wasm(p) THEN "flush" ELSE "local",
                                 !.remote = sig.of,
                                 !.cands = IF sig.cand THEN @ \cup {sig.of} ELSE @]
               answer == Signal("answer", i, sig.of, Wasm(p))
    <2>1. Becomes(p, q, i, h) /\ SendSignal(p, q, answer)
        BY <1>5 DEF AwaitOffer
    <2>2. answer \in SignalSet /\ answer.of = i
        <3>1. sig.of \in Nat
            BY <1>2 DEF SignalSet
        <3>2. QED
            <4> HIDE DEF sig
            <4>1. QED
                BY <1>1, <3>1, SignalType, WasmType
    <2>3. SignalFits(q, p, answer)
        BY <1>4, <2>2, PairsDiffer DEF SignalFits, Accepts
    <2>4. /\ h \in HandshakeSet /\ h.role = "accepts" /\ h.at \in {"flush", "local"}
          /\ h.link = g.link /\ h.box = Tail(g.box)
        BY <1>2, <1>4 DEF HandshakeSet, SignalSet
    <2>5. Advances(p, q, i, h)
        BY <1>2, <1>4, <2>4 DEF Advances
    <2>6. QED
        BY <2>1, <2>2, <2>3, <2>4, <2>5 DEF OneStep
<1>6. CASE sig.kind # "offer"
    <2> DEFINE h == [read EXCEPT !.cands = Candidates(p, g, sig)]
    <2>1. Becomes(p, q, i, h) /\ inbox' = inbox
        BY <1>6 DEF AwaitOffer
    <2>2. /\ h \in HandshakeSet /\ h.role = "accepts" /\ h.at = "offer"
          /\ h.remote = 0 /\ h.box = Tail(g.box)
        BY <1>2, <1>3, <1>4 DEF HandshakeSet
    <2>3. Advances(p, q, i, h)
        BY <1>2, <1>4, <2>2 DEF Advances
    <2>4. QED
        BY <2>1, <2>2, <2>3 DEF OneStep
<1>7. QED
    BY <1>5, <1>6

\* A step that leaves role and partner alone.
LEMMA PlainStep ==
    ASSUME Inductive, NEW p \in Peer, NEW q \in Peer, NEW i \in 1..Len(shake[p][q]),
           NEW h, h.role = shake[p][q][i].role, h.remote = shake[p][q][i].remote,
           \/ h.at = shake[p][q][i].at
           \/ h.at \in {"flush", "complete", "up", "closed"},
           h.role = "offers" /\ Linked(h) => Linked(shake[p][q][i]),
           \/ h.box = shake[p][q][i].box
           \/ h.box = <<>>
           \/ shake[p][q][i].box # <<>> /\ h.box = Tail(shake[p][q][i].box)
    PROVE  Advances(p, q, i, h)
<1> DEFINE g == shake[p][q][i]
<1>1. Known(p, q, i, g)
    BY HandshakeKnown
<1>2. \A k \in 1..Len(h.box) : SignalFits(p, q, h.box[k])
    <2>1. CASE h.box = g.box
        BY <1>1, <2>1 DEF Known
    <2>2. CASE h.box = <<>>
        BY <2>2, EmptyFacts
    <2>3. CASE g.box # <<>> /\ h.box = Tail(g.box)
        BY <1>1, <2>3, BoxRead
    <2>4. QED
        BY <2>1, <2>2, <2>3
<1>3. /\ HandshakeFits(p, q, i) /\ PartnerFits(p, q, i)
    BY <1>1 DEF Known
<1>4. QED
    BY <1>2, <1>3 DEF Advances, HandshakeFits, PartnerFits

LEMMA QuietSteps ==
    ASSUME Inductive, NEW p \in Peer, NEW q \in Peer, NEW i \in 1..Len(shake[p][q]),
           \/ SetLocalDescription(p, q, i) \/ ListenForCandidates(p, q, i)
           \/ StoreCandidate(p, q, i) \/ OnOpen(p, q, i) \/ OnClose(p, q, i)
           \/ HandshakeDone(p, q, i) \/ PeerLoopDone(p, q, i)
    PROVE  \E h \in HandshakeSet : OneStep(p, q, i, h)
<1> DEFINE g == shake[p][q][i]
<1>1. Known(p, q, i, g) /\ g \in HandshakeSet
    BY HandshakeKnown DEF Known
<1> USE DEF At
<1> SUFFICES \E h \in HandshakeSet : Becomes(p, q, i, h) /\ inbox' = inbox
                                        /\ Advances(p, q, i, h)
    BY DEF OneStep
<1>2. CASE SetLocalDescription(p, q, i)
    <2> DEFINE h == [g EXCEPT !.at = "flush"]
    <2>1. h \in HandshakeSet /\ Becomes(p, q, i, h) /\ inbox' = inbox
        BY <1>1, <1>2 DEF SetLocalDescription, HandshakeSet
    <2>2. Advances(p, q, i, h)
        BY <1>1, <1>2, PlainStep DEF SetLocalDescription, HandshakeSet, Linked
    <2>3. QED
        BY <2>1, <2>2
<1>3. CASE ListenForCandidates(p, q, i)
    <2> DEFINE h == [g EXCEPT !.box = Tail(@), !.cands = Candidates(p, g, Head(g.box))]
    <2>1. g.box # <<>> /\ Becomes(p, q, i, h) /\ inbox' = inbox
        BY <1>3 DEF ListenForCandidates
    <2>2. Head(g.box) \in SignalSet /\ Tail(g.box) \in Seq(SignalSet)
        BY <1>1, <2>1, BoxRead
    <2>3. Candidates(p, g, Head(g.box)) \in SUBSET Nat
        BY <1>1, <2>2 DEF Candidates, SignalSet, HandshakeSet
    <2>4. h \in HandshakeSet
        BY <1>1, <2>2, <2>3 DEF HandshakeSet
    <2>5. Advances(p, q, i, h)
        BY <1>1, <2>1, PlainStep DEF HandshakeSet, Linked
    <2>6. QED
        BY <2>1, <2>4, <2>5
<1>4. CASE StoreCandidate(p, q, i)
    <2> DEFINE h == [g EXCEPT !.local = "pending"]
    <2>1. h \in HandshakeSet /\ Becomes(p, q, i, h) /\ inbox' = inbox
        BY <1>1, <1>4 DEF StoreCandidate, HandshakeSet
    <2>2. Advances(p, q, i, h)
        BY <1>1, PlainStep DEF HandshakeSet, Linked
    <2>3. QED
        BY <2>1, <2>2
<1>5. CASE OnOpen(p, q, i)
    <2> DEFINE h == [g EXCEPT !.link = "open"]
    <2>1. /\ h \in HandshakeSet /\ Becomes(p, q, i, h) /\ inbox' = inbox
          /\ g.link = "linked"
        BY <1>1, <1>5 DEF OnOpen, HandshakeSet
    <2>2. Advances(p, q, i, h)
        BY <1>1, <2>1, PlainStep DEF HandshakeSet, Linked
    <2>3. QED
        BY <2>1, <2>2
<1>6. CASE OnClose(p, q, i)
    <2>1. PICK link \in {"closed", "lost"} :
              g.link # "none" /\ Becomes(p, q, i, [g EXCEPT !.link = link])
        BY <1>6 DEF OnClose
    <2> DEFINE h == [g EXCEPT !.link = link]
    <2>2. h \in HandshakeSet /\ inbox' = inbox
        BY <1>1, <1>6 DEF OnClose, HandshakeSet
    <2>3. Advances(p, q, i, h)
        BY <1>1, <2>1, PlainStep DEF HandshakeSet, Linked
    <2>4. QED
        BY <2>1, <2>2, <2>3
<1>7. CASE HandshakeDone(p, q, i)
    <2> DEFINE h == [g EXCEPT !.at = "up", !.box = <<>>]
    <2>1. /\ h \in HandshakeSet /\ Becomes(p, q, i, h) /\ inbox' = inbox
          /\ g.link \in {"open", "closed"}
        BY <1>1, <1>7, EmptyFacts DEF HandshakeDone, HandshakeSet
    <2>2. Advances(p, q, i, h)
        BY <1>1, <2>1, PlainStep DEF HandshakeSet, Linked
    <2>3. QED
        BY <2>1, <2>2
<1>8. CASE PeerLoopDone(p, q, i)
    <2> DEFINE h == [g EXCEPT !.at = "closed"]
    <2>1. /\ h \in HandshakeSet /\ Becomes(p, q, i, h) /\ inbox' = inbox
          /\ g.at = "up"
        BY <1>1, <1>8 DEF PeerLoopDone, HandshakeSet
    <2>2. Advances(p, q, i, h)
        BY <1>1, <2>1, PlainStep DEF HandshakeSet, Linked
    <2>3. QED
        BY <2>1, <2>2
<1>9. QED
    BY <1>2, <1>3, <1>4, <1>5, <1>6, <1>7, <1>8

\* The two steps that may send the native candidate.
LEMMA CandidateSteps ==
    ASSUME Inductive, NEW p \in Peer, NEW q \in Peer, NEW i \in 1..Len(shake[p][q]),
           SendPending(p, q, i) \/ LocalCandidate(p, q, i)
    PROVE  \E h \in HandshakeSet : OneStep(p, q, i, h)
<1> DEFINE g == shake[p][q][i]
           sig == Signal("candidate", i, g.remote, TRUE)
<1>1. Known(p, q, i, g) /\ g \in HandshakeSet /\ i \in Nat /\ g.remote \in Nat
    BY HandshakeKnown DEF Known, HandshakeSet
<1>2. sig \in SignalSet /\ SignalFits(q, p, sig)
    BY <1>1, SignalType DEF SignalFits
<1>3. CASE SendPending(p, q, i)
    <2> DEFINE h(local) == [g EXCEPT !.at = "complete", !.local = local]
    <2>1. PICK local \in {"none", "storing", "pending", "sent"} :
              /\ Becomes(p, q, i, h(local))
              /\ inbox' = inbox \/ SendSignal(p, q, sig)
        <3>1. CASE g.local = "pending"
            BY <1>1, <1>3, <3>1 DEF SendPending, HandshakeSet
        <3>2. CASE g.local # "pending"
            <4>1. PICK local \in {"none", "storing", "pending", "sent"} :
                      [g EXCEPT !.at = "complete"] = h(local)
                BY <1>1 DEF HandshakeSet
            <4>2. Becomes(p, q, i, h(local)) /\ inbox' = inbox
                BY <1>3, <3>2, <4>1 DEF SendPending, Becomes
            <4>3. QED
                BY <4>2
        <3>3. QED
            BY <3>1, <3>2
    <2>2. h(local) \in HandshakeSet
        BY <1>1 DEF HandshakeSet
    <2>3. Advances(p, q, i, h(local))
        BY <1>1, <1>3, PlainStep DEF HandshakeSet, Linked, SendPending, At
    <2>4. QED
        BY <1>2, <2>1, <2>2, <2>3 DEF OneStep
<1>4. CASE LocalCandidate(p, q, i)
    <2>1. PICK local \in {"sent", "storing"} :
              /\ Becomes(p, q, i, [g EXCEPT !.local = local])
              /\ inbox' = inbox \/ SendSignal(p, q, sig)
        BY <1>4 DEF LocalCandidate
    <2> DEFINE h == [g EXCEPT !.local = local]
    <2>2. h \in HandshakeSet
        BY <1>1 DEF HandshakeSet
    <2>3. Advances(p, q, i, h)
        BY <1>1, PlainStep DEF HandshakeSet, Linked
    <2>4. QED
        BY <1>2, <2>1, <2>2, <2>3 DEF OneStep
<1>5. QED
    BY <1>3, <1>4

\* ICE ties two handshakes, that name each other.
LEMMA LinkMoves ==
    ASSUME Inductive, NEW p \in Peer, NEW q \in Peer, NEW i \in 1..Len(shake[p][q]),
           Link(p, q, i)
    PROVE  MovesOn
<1>1. p # q /\ TypeOK
    BY PairsDiffer DEF Inductive
<1>2. PICK j \in 1..Len(shake[q][p]) :
          /\ Linkable(p, i, q, j)
          /\ shake' = [shake EXCEPT ![p][q][i].link = "linked", ![q][p][j].link = "linked"]
    BY DEF Link
<1> DEFINE g == shake[p][q][i]
           h == shake[q][p][j]
           newg == [g EXCEPT !.link = "linked"]
           newh == [h EXCEPT !.link = "linked"]
           pq == [shake[p][q] EXCEPT ![i] = newg]
           qp == [shake[q][p] EXCEPT ![j] = newh]
<1>3. Known(p, q, i, g) /\ Known(q, p, j, h) /\ g \in HandshakeSet /\ h \in HandshakeSet
    BY HandshakeKnown DEF Known
<1>4. newg \in HandshakeSet /\ newh \in HandshakeSet
    BY <1>3 DEF HandshakeSet
<1>5. /\ pq \in Seq(HandshakeSet) /\ Len(pq) = Len(shake[p][q])
      /\ \A k \in 1..Len(shake[p][q]) : pq[k] = IF k = i THEN newg ELSE shake[p][q][k]
    BY <1>1, <1>4, HandshakeType, ExceptSeq
<1>6. /\ qp \in Seq(HandshakeSet) /\ Len(qp) = Len(shake[q][p])
      /\ \A k \in 1..Len(shake[q][p]) : qp[k] = IF k = j THEN newh ELSE shake[q][p][k]
    BY <1>1, <1>4, HandshakeType, ExceptSeq
<1>7. shake \in Shakes
    BY <1>1 DEF TypeOK, Shakes
<1>8. shake' = [shake EXCEPT ![p] = [shake[p] EXCEPT ![q] = pq],
                             ![q] = [shake[q] EXCEPT ![p] = qp]]
    BY <1>1, <1>2, <1>7 DEF Shakes
<1> HIDE DEF pq, qp
<1>9. shake' \in Shakes
    BY <1>5, <1>6, <1>7, <1>8 DEF Shakes
<1>10. \A r, s \in Peer :
          shake'[r][s] = IF r = p /\ s = q THEN pq
                         ELSE IF r = q /\ s = p THEN qp ELSE shake[r][s]
    BY <1>1, <1>7, <1>8 DEF Shakes
<1>11. ASSUME NEW a, NEW b, NEW k, NEW old, NEW l, Known(a, b, k, old),
              old.remote = l, l # 0, shake[b][a][l].remote = k
       PROVE  Advances(a, b, k, [old EXCEPT !.link = "linked"])
    BY <1>11 DEF Known, HandshakeFits, PartnerFits, Advances, HandshakeSet
<1>12. Advances(p, q, i, newg) /\ Advances(q, p, j, newh)
    <2>1. g.remote = j /\ h.remote = i /\ i # 0 /\ j # 0
        BY <1>2 DEF Linkable
    <2>2. QED
        BY <1>3, <1>11, <2>1
<1>13. ASSUME NEW r \in Peer, NEW s \in Peer
       PROVE  /\ Len(shake'[r][s]) = Len(shake[r][s])
              /\ \A k \in 1..Len(shake[r][s]) : Advances(r, s, k, shake'[r][s][k])
    <2>1. CASE r = p /\ s = q
        BY <1>5, <1>10, <1>12, <2>1, StillAdvances
    <2>2. CASE r = q /\ s = p
        BY <1>1, <1>6, <1>10, <1>12, <2>2, StillAdvances
    <2>3. CASE ~(r = p /\ s = q) /\ ~(r = q /\ s = p)
        BY <1>10, <2>3, StillAdvances
    <2>4. QED
        BY <2>1, <2>2, <2>3
<1>14. QED
    BY <1>9, <1>13 DEF MovesOn

\* The end of a message_loop.
LEMMA StopMoves ==
    ASSUME Inductive, NEW p \in Peer, NEW how, Stops(p, how)
    PROVE  /\ MovesOn
           /\ inbox' = [r \in Peer |-> inbox'[r]] /\ \A r \in Peer : InboxStep(r)
<1>1. TypeOK
    BY DEF Inductive
<1>2. /\ shake' \in Shakes
      /\ \A r, s \in Peer : Len(shake'[r][s]) = Len(shake[r][s])
      /\ \A r, s \in Peer : r # p => shake'[r][s] = shake[r][s]
      /\ \A s \in Peer : \A j \in 1..Len(shake[p][s]) :
            LET g == shake[p][s][j]
                h == shake'[p][s][j]
            IN  /\ h.role = g.role /\ h.at = g.at /\ h.remote = g.remote
                /\ h.box = <<>> /\ h.link = "none"
    BY <1>1, AllStopped
<1>3. ASSUME NEW r \in Peer, NEW s \in Peer, NEW j \in 1..Len(shake[r][s])
      PROVE  Advances(r, s, j, shake'[r][s][j])
    <2>1. CASE r = p
        BY <1>2, <2>1, PlainStep DEF Linked
    <2>2. CASE r # p
        BY <1>2, <2>2, StillAdvances
    <2>3. QED
        BY <2>1, <2>2
<1>4. MovesOn
    BY <1>2, <1>3 DEF MovesOn
<1>5. inbox' = [r \in Peer |-> inbox'[r]] /\ \A r \in Peer : InboxStep(r)
    BY <1>1 DEF Stops, TypeOK, InboxStep
<1>6. QED
    BY <1>4, <1>5

-----------------------------------------------------------------------------
(* Every action keeps Inductive. *)

\* Inductive after a step that starts no handshake.
LEMMA KeepsInductive ==
    ASSUME MovesOn, Ties', inbox' \in [Peer -> Seq(EventSet)], TypeOK,
           scene' = scene, feeds' = feeds, intros' = intros,
           run' \in [Peer -> {"connecting", "running", "ended", "panic", "hang"}],
           tries' \in [Peer -> Nat \cup {NoLimit}],
           lefts' \in [Peer -> [Peer -> Nat]], channel' \in [Peer -> [Peer -> Nat]],
           \A p, q \in Peer : channel'[p][q] <= Len(shake[p][q]),
           states' \in [Peer -> Seq(Peer \X StateSet)],
           peers' \in [Peer -> [Peer -> {"None"} \cup StateSet]],
           told' \in [Peer -> SUBSET Peer], heard' \in [Peer -> SUBSET Peer],
           out' \in [Peer -> Seq(Peer)], sent' \in Nat, early' \in [Peer -> BOOLEAN],
           ChannelsFit'
    PROVE  Inductive'
<1>1. TypeOK'
    BY DEF TypeOK, MovesOn, Shakes
<1>2. QED
    BY <1>1 DEF Inductive, Ties

LEMMA OnlyShakeKeeps ==
    ASSUME Inductive, MovesOn, Ties', inbox' \in [Peer -> Seq(EventSet)], OnlyShake
    PROVE  Inductive'
<1> USE DEF OnlyShake, env, app, Inductive, TypeOK
<1>1. ChannelsFit'
    BY DEF ChannelsFit
<1>2. QED
    BY <1>1, KeepsInductive

\* The handshakes and the transport: nothing but shake and signals.
LEMMA QuietKeeps ==
    ASSUME Inductive, NEW p \in Peer, NEW q \in Peer, NEW i \in 1..Len(shake[p][q]),
           \/ MakeOffer(p, q, i) \/ AwaitAnswer(p, q, i) \/ AwaitOffer(p, q, i)
           \/ SetLocalDescription(p, q, i) \/ SendPending(p, q, i)
           \/ ListenForCandidates(p, q, i) \/ LocalCandidate(p, q, i)
           \/ StoreCandidate(p, q, i) \/ OnOpen(p, q, i) \/ OnClose(p, q, i)
    PROVE  Inductive'
<1>1. PICK h \in HandshakeSet : OneStep(p, q, i, h)
    BY OfferSteps, AcceptStep, QuietSteps, CandidateSteps
<1>2. OnlyShake
    BY DEF MakeOffer, AwaitAnswer, AwaitOffer, SetLocalDescription, SendPending,
       ListenForCandidates, LocalCandidate, StoreCandidate, OnOpen, OnClose
<1>3. feeds' = feeds /\ intros' = intros
    BY <1>2 DEF OnlyShake, env
<1>4. QED
    BY <1>1, <1>2, <1>3, OneStepKeeps, OnlyShakeKeeps

LEMMA LinkKeeps ==
    ASSUME Inductive, NEW p \in Peer, NEW q \in Peer, NEW i \in 1..Len(shake[p][q]),
           Link(p, q, i)
    PROVE  Inductive'
<1>1. MovesOn
    BY LinkMoves
<1>2. OnlyShake /\ inbox' = inbox
    BY DEF Link
<1>3. /\ feeds' = feeds /\ intros' = intros
      /\ inbox' = [r \in Peer |-> inbox'[r]] /\ \A r \in Peer : InboxStep(r)
    BY <1>2 DEF OnlyShake, env, InboxStep, Inductive, TypeOK
<1>4. QED
    BY <1>1, <1>2, <1>3, HandshakesMove, OnlyShakeKeeps

\* What the socket has not read of the states, after one more is reported.
LEMMA Reported ==
    ASSUME TypeOK, NEW p \in Peer, NEW q \in Peer, NEW state \in StateSet,
           Report(p, q, state)
    PROVE  /\ states' \in [Peer -> Seq(Peer \X StateSet)]
           /\ \A r \in Peer : \A k \in 1..Len(states'[r]) :
                 \/ k \in 1..Len(states[r]) /\ states'[r][k] = states[r][k]
                 \/ r = p /\ states'[r][k] = <<q, state>>
<1>1. states \in [Peer -> Seq(Peer \X StateSet)] /\ <<q, state>> \in Peer \X StateSet
    BY DEF TypeOK
<1>2. /\ Append(states[p], <<q, state>>) \in Seq(Peer \X StateSet)
      /\ Len(Append(states[p], <<q, state>>)) = Len(states[p]) + 1
      /\ Append(states[p], <<q, state>>)[Len(states[p]) + 1] = <<q, state>>
      /\ \A k \in 1..Len(states[p]) : Append(states[p], <<q, state>>)[k] = states[p][k]
      /\ Len(states[p]) \in Nat
    BY <1>1, AppendFacts, LenProperties
<1>3. states' = [states EXCEPT ![p] = Append(states[p], <<q, state>>)]
    BY DEF Report
<1>4. states' \in [Peer -> Seq(Peer \X StateSet)]
    BY <1>1, <1>2, <1>3
<1>5. ASSUME NEW r \in Peer, NEW k \in 1..Len(states'[r])
      PROVE  \/ k \in 1..Len(states[r]) /\ states'[r][k] = states[r][k]
             \/ r = p /\ states'[r][k] = <<q, state>>
    <2>1. CASE r = p
        <3>1. states'[r] = Append(states[p], <<q, state>>)
            BY <1>1, <1>3, <2>1
        <3>2. QED
            BY <1>2, <2>1, <3>1
    <2>2. CASE r # p
        BY <1>1, <1>3, <2>2
    <2>3. QED
        BY <2>1, <2>2
<1>6. QED
    BY <1>4, <1>5

\* A report of a peer, that it is connected only if it has a channel.
LEMMA ReportFits ==
    ASSUME ChannelsFit, told' = told, out' = out, early' = early,
           NEW p \in Peer, NEW q \in Peer, NEW state,
           \A r \in Peer : \A k \in 1..Len(states'[r]) :
               \/ k \in 1..Len(states[r]) /\ states'[r][k] = states[r][k]
               \/ r = p /\ states'[r][k] = <<q, state>>,
           \A r, s \in Peer : channel'[r][s] = 0 => channel[r][s] = 0,
           state = "Disconnected" \/ channel'[p][q] # 0
    PROVE  ChannelsFit'
<1>1. SUFFICES ASSUME NEW r \in Peer, NEW s \in Peer, channel'[r][s] = 0
               PROVE  \A k \in 1..Len(states'[r]) : states'[r][k] # <<s, "Connected">>
    BY DEF ChannelsFit
<1>2. \A k \in 1..Len(states[r]) : states[r][k] # <<s, "Connected">>
    BY <1>1 DEF ChannelsFit
<1>3. ASSUME r = p, <<q, state>> = <<s, "Connected">>
      PROVE  FALSE
    BY <1>1, <1>3
<1>4. QED
    BY <1>2, <1>3

LEMMA DoneKeeps ==
    ASSUME Inductive, NEW p \in Peer, NEW q \in Peer, NEW i \in 1..Len(shake[p][q]),
           HandshakeDone(p, q, i) \/ PeerLoopDone(p, q, i)
    PROVE  Inductive'
<1>1. PICK h \in HandshakeSet : OneStep(p, q, i, h)
    BY QuietSteps
<1>2. /\ UNCHANGED <<env, app, run, inbox, feeds, heard, out>>
      /\ TypeOK /\ i # 0 /\ "Connected" \in StateSet /\ "Disconnected" \in StateSet
    BY DEF HandshakeDone, PeerLoopDone, Inductive, StateSet
<1>3. MovesOn /\ Ties' /\ inbox' \in [Peer -> Seq(EventSet)]
    BY <1>1, <1>2, OneStepKeeps DEF env
<1>4. CASE HandshakeDone(p, q, i)
    <2>1. channel' = [channel EXCEPT ![p][q] = i] /\ Report(p, q, "Connected")
        BY <1>4 DEF HandshakeDone
    <2>2. /\ states' \in [Peer -> Seq(Peer \X StateSet)]
          /\ \A r \in Peer : \A k \in 1..Len(states'[r]) :
                 \/ k \in 1..Len(states[r]) /\ states'[r][k] = states[r][k]
                 \/ r = p /\ states'[r][k] = <<q, "Connected">>
        BY <1>2, <2>1, Reported
    <2>3. /\ channel' \in [Peer -> [Peer -> Nat]]
          /\ \A r, s \in Peer :
                channel'[r][s] = IF r = p /\ s = q THEN i ELSE channel[r][s]
        <3>1. channel \in [Peer -> [Peer -> Nat]]
            BY <1>2 DEF TypeOK
        <3>2. i \in Nat
            BY <1>2, HandshakeType
        <3>3. QED
            BY <2>1, <3>1, <3>2, EntrySet
    <2>4. \A r, s \in Peer : channel'[r][s] <= Len(shake[r][s])
        <3>1. \A r, s \in Peer : channel[r][s] <= Len(shake[r][s])
            BY <1>2 DEF TypeOK
        <3>2. i <= Len(shake[p][q])
            BY <1>2, HandshakeType
        <3>3. QED
            BY <2>3, <3>1, <3>2
    <2>5. ChannelsFit'
        <3>1. /\ \A r, s \in Peer : channel'[r][s] = 0 => channel[r][s] = 0
              /\ channel'[p][q] # 0
            BY <1>2, <2>3
        <3>2. ChannelsFit /\ told' = told /\ out' = out /\ early' = early
            BY <1>2 DEF Inductive, app
        <3>3. QED
            <4>1. ASSUME NEW state, state = "Connected"
                  PROVE  ChannelsFit'
                <5>1. \A r \in Peer : \A k \in 1..Len(states'[r]) :
                        \/ k \in 1..Len(states[r]) /\ states'[r][k] = states[r][k]
                        \/ r = p /\ states'[r][k] = <<q, state>>
                    BY <2>2, <4>1
                <5>2. QED
                    BY <3>1, <3>2, <5>1, ReportFits
            <4>2. QED
                BY <4>1
    <2>6. QED
        BY <1>2, <1>3, <2>2, <2>3, <2>4, <2>5, KeepsInductive DEF TypeOK, env, app
<1>5. CASE PeerLoopDone(p, q, i)
    <2>1. channel' = channel /\ Report(p, q, "Disconnected")
        BY <1>5 DEF PeerLoopDone
    <2>2. /\ states' \in [Peer -> Seq(Peer \X StateSet)]
          /\ \A r \in Peer : \A k \in 1..Len(states'[r]) :
                 \/ k \in 1..Len(states[r]) /\ states'[r][k] = states[r][k]
                 \/ r = p /\ states'[r][k] = <<q, "Disconnected">>
        BY <1>2, <2>1, Reported
    <2>3. ChannelsFit'
        <3>1. /\ ChannelsFit /\ told' = told /\ out' = out /\ early' = early
              /\ \A r, s \in Peer : channel'[r][s] = 0 => channel[r][s] = 0
            BY <1>2, <2>1 DEF Inductive, app
        <3>2. QED
            BY <2>2, <3>1, ReportFits
    <2>4. QED
        BY <1>2, <1>3, <2>1, <2>2, <2>3, KeepsInductive DEF TypeOK, env, app
<1>6. QED
    BY <1>4, <1>5

\* PeerLeft changes the reports only.
LEMMA PeerLeftKeeps ==
    ASSUME Inductive, NEW p \in Peer, PeerLeft(p)
    PROVE  Inductive'
<1> DEFINE q == Head(inbox[p]).from
<1>1. TypeOK /\ inbox[p] # <<>> /\ "Disconnected" \in StateSet
    BY DEF Inductive, PeerLeft, Event, StateSet
<1>2. q \in Peer
    BY <1>1, InboxType, TailFacts DEF EventSet
<1>3. /\ Report(p, q, "Disconnected") /\ inbox' = [inbox EXCEPT ![p] = Tail(@)]
      /\ UNCHANGED <<env, app, run, shake, feeds, channel, heard, out>>
    BY DEF PeerLeft, TakeEvent
<1>4. /\ states' \in [Peer -> Seq(Peer \X StateSet)]
      /\ \A r \in Peer : \A k \in 1..Len(states'[r]) :
             \/ k \in 1..Len(states[r]) /\ states'[r][k] = states[r][k]
             \/ r = p /\ states'[r][k] = <<q, "Disconnected">>
    BY <1>1, <1>2, <1>3, Reported
<1> HIDE DEF q
<1>5. MovesOn
    BY <1>1, <1>3, StillAdvances DEF MovesOn, TypeOK, Shakes
<1>6. inbox' = [r \in Peer |-> inbox'[r]] /\ \A r \in Peer : InboxStep(r)
    BY <1>1, <1>3 DEF TypeOK, InboxStep
<1>7. Ties' /\ inbox' \in [Peer -> Seq(EventSet)]
    BY <1>3, <1>5, <1>6, HandshakesMove DEF env
<1>8. ChannelsFit'
    <2>1. /\ ChannelsFit /\ told' = told /\ out' = out /\ early' = early
          /\ \A r, s \in Peer : channel'[r][s] = 0 => channel[r][s] = 0
        BY <1>3 DEF Inductive, app
    <2>2. QED
        BY <1>2, <1>4, <2>1, ReportFits
<1>9. QED
    BY <1>1, <1>3, <1>4, <1>5, <1>7, <1>8, KeepsInductive DEF TypeOK, env, app

-----------------------------------------------------------------------------
(* The end of a message_loop. *)

LEMMA StopKeeps ==
    ASSUME Inductive, NEW p \in Peer, NEW how \in {"ended", "panic", "hang"},
           Stops(p, how), scene' = scene, lefts' = lefts, intros' = intros,
           feeds' = feeds, channel' = channel, tries' = tries, UNCHANGED app, heard' = heard
    PROVE  Inductive'
<1>1. /\ MovesOn
      /\ inbox' = [r \in Peer |-> inbox'[r]] /\ \A r \in Peer : InboxStep(r)
    BY StopMoves
<1>2. Ties' /\ inbox' \in [Peer -> Seq(EventSet)]
    BY <1>1, HandshakesMove
<1>3. /\ run' = [run EXCEPT ![p] = how]
      /\ out' = [out EXCEPT ![p] = <<>>] /\ states' = [states EXCEPT ![p] = <<>>]
    BY DEF Stops
<1>4. TypeOK /\ ChannelsFit
    BY DEF Inductive
<1>5. /\ run' \in [Peer -> {"connecting", "running", "ended", "panic", "hang"}]
      /\ states' \in [Peer -> Seq(Peer \X StateSet)] /\ out' \in [Peer -> Seq(Peer)]
    BY <1>3, <1>4, EmptyFacts DEF TypeOK
<1>6. ChannelsFit'
    <2>1. \A r \in Peer \ {p} : out'[r] = out[r] /\ states'[r] = states[r]
        BY <1>3, <1>4 DEF TypeOK
    <2>2. Len(out'[p]) = 0 /\ Len(states'[p]) = 0
        BY <1>3, <1>4, EmptyFacts DEF TypeOK
    <2>3. QED
        BY <1>4, <2>1, <2>2 DEF ChannelsFit, app
<1>7. QED
    BY <1>1, <1>2, <1>4, <1>5, <1>6, KeepsInductive DEF TypeOK, app

LEMMA LoopEndKeeps ==
    ASSUME Inductive, NEW p \in Peer,
           \/ WebSocketEnds(p) \/ Drop(p)
           \/ \E q \in Peer : \E i \in 1..Len(shake[p][q]) : SignalsEnd(p, q, i)
    PROVE  Inductive'
<1>1. PICK how \in {"ended", "panic", "hang"} : Stops(p, how)
    BY DEF WebSocketEnds, Drop, SignalsEnd, Ends, Outcome
<1>2. UNCHANGED <<env, app, feeds, channel, heard>>
    BY DEF WebSocketEnds, Drop, SignalsEnd
<1>3. QED
    BY <1>1, <1>2, StopKeeps DEF env

-----------------------------------------------------------------------------
(* The attempts to connect, the packets and the application. *)

LEMMA NothingMoves ==
    ASSUME Inductive, shake' = shake, feeds' = feeds, intros' = intros, inbox' = inbox
    PROVE  MovesOn /\ Ties' /\ inbox' \in [Peer -> Seq(EventSet)]
<1>1. MovesOn
    BY StillAdvances DEF MovesOn, Inductive, TypeOK, Shakes
<1>2. inbox' = [r \in Peer |-> inbox'[r]] /\ \A r \in Peer : InboxStep(r)
    BY DEF Inductive, TypeOK, InboxStep
<1>3. QED
    BY <1>1, <1>2, HandshakesMove

LEMMA AttemptKeeps ==
    ASSUME Inductive, NEW p \in Peer, AttemptFails(p) \/ AttemptSucceeds(p)
    PROVE  Inductive'
<1>1. TypeOK /\ ChannelsFit
    BY DEF Inductive
<1>2. CASE AttemptFails(p) /\ tries[p] <= 1
    <2>1. Stops(p, "ended") /\ UNCHANGED <<scene, tries, intros, lefts, app, feeds, channel, heard>>
        BY <1>2 DEF AttemptFails, Ends, Outcome
    <2>2. QED
        BY <2>1, StopKeeps
<1>3. CASE AttemptFails(p) /\ ~(tries[p] <= 1)
    <2>1. /\ tries[p] # NoLimit /\ tries' = [tries EXCEPT ![p] = tries[p] - 1]
          /\ UNCHANGED <<scene, intros, lefts, app, feeds, channel, heard, run, inbox, out,
                        states, shake>>
        BY <1>3 DEF AttemptFails
    <2>2. tries[p] \in Nat
        BY <1>1, <2>1 DEF TypeOK
    <2>3. tries[p] - 1 \in Nat
        BY <1>3, <2>2
    <2>4. tries' \in [Peer -> Nat \cup {NoLimit}]
        BY <1>1, <2>1, <2>3 DEF TypeOK
    <2>5. ChannelsFit'
        BY <1>1, <2>1 DEF ChannelsFit, app
    <2>6. MovesOn /\ Ties' /\ inbox' \in [Peer -> Seq(EventSet)]
        BY <2>1, NothingMoves
    <2>7. QED
        BY <1>1, <2>1, <2>4, <2>5, <2>6, KeepsInductive DEF TypeOK, app
<1>4. CASE AttemptSucceeds(p)
    <2>1. /\ run' = [run EXCEPT ![p] = "running"] /\ tries' = [tries EXCEPT ![p] = 0]
          /\ UNCHANGED <<scene, intros, lefts, app, feeds, channel, heard, inbox, out,
                        states, shake>>
        BY <1>4 DEF AttemptSucceeds
    <2>2. /\ run' \in [Peer -> {"connecting", "running", "ended", "panic", "hang"}]
          /\ tries' \in [Peer -> Nat \cup {NoLimit}]
        BY <1>1, <2>1 DEF TypeOK
    <2>3. ChannelsFit'
        BY <1>1, <2>1 DEF ChannelsFit, app
    <2>4. MovesOn /\ Ties' /\ inbox' \in [Peer -> Seq(EventSet)]
        BY <2>1, NothingMoves
    <2>5. QED
        BY <1>1, <2>1, <2>2, <2>3, <2>4, KeepsInductive DEF TypeOK, app
<1>5. QED
    BY <1>2, <1>3, <1>4

\* A packet of p goes out, or finds no channel.
LEMMA SendPacketKeeps ==
    ASSUME Inductive, NEW p \in Peer, SendPacket(p)
    PROVE  Inductive'
<1>1. TypeOK /\ ChannelsFit /\ out[p] \in Seq(Peer) /\ out[p] # <<>>
    BY DEF Inductive, TypeOK, SendPacket
<1>2. PICK q \in Peer : q = Head(out[p])
    BY <1>1, TailFacts
<1>3. UNCHANGED <<env, app, feeds, channel>>
    BY DEF SendPacket
<1>4. CASE channel[p][q] = 0
    <2>1. Stops(p, "panic") /\ heard' = heard
        BY <1>2, <1>4 DEF SendPacket
    <2>2. QED
        BY <1>3, <2>1, StopKeeps DEF env
<1>5. CASE channel[p][q] # 0
    <2>1. /\ heard' = heard \/ heard' = [heard EXCEPT ![q] = @ \cup {p}]
          /\ out' = [out EXCEPT ![p] = Tail(@)]
          /\ UNCHANGED <<run, inbox, states, shake>>
        BY <1>2, <1>5 DEF SendPacket
    <2>2. /\ Tail(out[p]) \in Seq(Peer)
          /\ \A k \in 1..Len(Tail(out[p])) :
                k + 1 \in 1..Len(out[p]) /\ Tail(out[p])[k] = out[p][k + 1]
        BY <1>1, TailFacts
    <2>3. /\ out' \in [Peer -> Seq(Peer)]
          /\ \A r \in Peer \ {p} : out'[r] = out[r]
          /\ out'[p] = Tail(out[p])
        BY <1>1, <2>1, <2>2 DEF TypeOK
    <2>4. heard' \in [Peer -> SUBSET Peer]
        <3>1. heard \in [Peer -> SUBSET Peer]
            BY <1>1 DEF TypeOK
        <3>2. PICK more \in SUBSET Peer : more = heard[q] \cup {p}
            BY <3>1
        <3>3. heard' = heard \/ heard' = [heard EXCEPT ![q] = more]
            BY <2>1, <3>2
        <3>4. QED
            BY <3>1, <3>3
    <2>5. \A r \in Peer : \A k \in 1..Len(out'[r]) :
              \E l \in 1..Len(out[r]) : out'[r][k] = out[r][l]
        <3>1. ASSUME NEW r \in Peer, NEW k \in 1..Len(out'[r])
              PROVE  \E l \in 1..Len(out[r]) : out'[r][k] = out[r][l]
            <4>1. CASE r = p
                <5>1. k + 1 \in 1..Len(out[r]) /\ out'[r][k] = out[r][k + 1]
                    BY <2>2, <2>3, <4>1
                <5>2. QED
                    BY <5>1
            <4>2. CASE r # p
                BY <2>3, <4>2
            <4>3. QED
                BY <4>1, <4>2
        <3>2. QED
            BY <3>1
    <2>6. ChannelsFit'
        BY <1>1, <1>3, <2>1, <2>5 DEF ChannelsFit, app
    <2>7. MovesOn /\ Ties' /\ inbox' \in [Peer -> Seq(EventSet)]
        BY <1>3, <2>1, NothingMoves DEF env
    <2>8. QED
        BY <1>1, <1>3, <2>1, <2>3, <2>4, <2>6, <2>7, KeepsInductive DEF TypeOK, env, app
<1>6. QED
    BY <1>4, <1>5

\* The application reads the reports: what it is told has a channel.
LEMMA UpdatePeersKeeps ==
    ASSUME Inductive, NEW p \in Peer, UpdatePeers(p)
    PROVE  Inductive'
<1>1. TypeOK /\ ChannelsFit /\ states[p] \in Seq(Peer \X StateSet)
    BY DEF Inductive, TypeOK
<1>2. UNCHANGED <<env, run, inbox, shake, feeds, channel, heard, out, sent, early>>
    BY DEF UpdatePeers
<1>3. peers' \in [Peer -> [Peer -> {"None"} \cup StateSet]]
    <2> DEFINE last(q) == states[p][CHOOSE k \in LastOf(p, q) : TRUE]
               row == [q \in Peer |-> IF LastOf(p, q) = {} THEN peers[p][q] ELSE last(q)[2]]
    <2>1. ASSUME NEW q \in Peer, LastOf(p, q) # {}
          PROVE  last(q) \in Peer \X StateSet
        <3>1. PICK k \in LastOf(p, q) : k = CHOOSE l \in LastOf(p, q) : TRUE
            BY <2>1
        <3>2. k \in 1..Len(states[p])
            BY DEF LastOf
        <3>3. QED
            BY <1>1, <3>1, <3>2, ElementOfSeq
    <2>2. row \in [Peer -> {"None"} \cup StateSet]
        <3>1. ASSUME NEW q \in Peer
              PROVE  (IF LastOf(p, q) = {} THEN peers[p][q] ELSE last(q)[2])
                         \in {"None"} \cup StateSet
            <4>1. peers[p][q] \in {"None"} \cup StateSet
                BY <1>1 DEF TypeOK
            <4> HIDE DEF last
            <4>2. LastOf(p, q) # {} => last(q)[2] \in StateSet
                BY <2>1
            <4>3. QED
                BY <4>1, <4>2
        <3> HIDE DEF last
        <3>2. QED
            BY <3>1
    <2>3. peers' = [peers EXCEPT ![p] = row]
        BY DEF UpdatePeers
    <2> HIDE DEF row
    <2>4. QED
        BY <1>1, <2>2, <2>3 DEF TypeOK
<1>4. told' = [told EXCEPT ![p] = @ \cup
                 {q \in Peer : \E k \in 1..Len(states[p]) : states[p][k] = <<q, "Connected">>}]
    BY DEF UpdatePeers
<1>5. told' \in [Peer -> SUBSET Peer]
    BY <1>1, <1>4 DEF TypeOK
<1>6. states' = [states EXCEPT ![p] = <<>>]
    BY DEF UpdatePeers
<1>7. /\ states' \in [Peer -> Seq(Peer \X StateSet)]
      /\ \A r \in Peer : \A k \in 1..Len(states'[r]) :
            k \in 1..Len(states[r]) /\ states'[r][k] = states[r][k]
    <2>1. <<>> \in Seq(Peer \X StateSet) /\ Len(<<>>) = 0
        BY EmptyFacts
    <2>2. states \in [Peer -> Seq(Peer \X StateSet)]
        BY <1>1 DEF TypeOK
    <2>3. states'[p] = <<>> /\ \A r \in Peer \ {p} : states'[r] = states[r]
        BY <1>6, <2>2
    <2>4. QED
        BY <1>6, <2>1, <2>2, <2>3
<1>8. \A r, q \in Peer :
          q \in told'[r] =>
              q \in told[r] \/ \E k \in 1..Len(states[r]) : states[r][k] = <<q, "Connected">>
    BY <1>1, <1>4 DEF TypeOK
<1>9. ChannelsFit'
    <2>1. ASSUME NEW r \in Peer, NEW q \in Peer, channel'[r][q] = 0
          PROVE  /\ q \notin told'[r]
                 /\ \A k \in 1..Len(states'[r]) : states'[r][k] # <<q, "Connected">>
                 /\ early'[r] \/ \A k \in 1..Len(out'[r]) : out'[r][k] # q
        <3>1. /\ q \notin told[r]
              /\ \A k \in 1..Len(states[r]) : states[r][k] # <<q, "Connected">>
              /\ early[r] \/ \A k \in 1..Len(out[r]) : out[r][k] # q
            BY <1>1, <1>2, <2>1 DEF ChannelsFit
        <3>2. q \notin told'[r]
            BY <1>8, <3>1
        <3>3. \A k \in 1..Len(states'[r]) : states'[r][k] # <<q, "Connected">>
            BY <1>7, <3>1
        <3>4. early'[r] \/ \A k \in 1..Len(out'[r]) : out'[r][k] # q
            BY <1>2, <3>1
        <3>5. QED
            BY <3>2, <3>3, <3>4
    <2>2. QED
        BY <2>1 DEF ChannelsFit
<1>10. MovesOn /\ Ties' /\ inbox' \in [Peer -> Seq(EventSet)]
    BY <1>2, NothingMoves DEF env
<1>11. QED
    BY <1>1, <1>2, <1>3, <1>5, <1>7, <1>9, <1>10, KeepsInductive DEF TypeOK, env

LEMMA SendKeeps ==
    ASSUME Inductive, NEW p \in Peer, NEW q \in Peer, Send(p, q)
    PROVE  Inductive'
<1>1. TypeOK /\ ChannelsFit /\ out[p] \in Seq(Peer)
    BY DEF Inductive, TypeOK
<1>2. UNCHANGED <<env, run, inbox, shake, feeds, channel, states, peers, told, heard>>
    BY DEF Send
<1>3. /\ out' = [out EXCEPT ![p] = Append(out[p], q)] /\ sent' = sent + 1
      /\ early' = [early EXCEPT ![p] = early[p] \/ q \notin told[p]]
    BY DEF Send
<1>4. /\ Append(out[p], q) \in Seq(Peer) /\ Len(Append(out[p], q)) = Len(out[p]) + 1
      /\ Append(out[p], q)[Len(out[p]) + 1] = q /\ Len(out[p]) \in Nat
      /\ \A k \in 1..Len(out[p]) : Append(out[p], q)[k] = out[p][k]
    BY <1>1, AppendFacts, LenProperties
<1>5. /\ out' \in [Peer -> Seq(Peer)] /\ out'[p] = Append(out[p], q)
      /\ \A r \in Peer \ {p} : out'[r] = out[r]
    BY <1>1, <1>3, <1>4 DEF TypeOK
<1>6. /\ early' \in [Peer -> BOOLEAN] /\ early'[p] = (early[p] \/ q \notin told[p])
      /\ \A r \in Peer \ {p} : early'[r] = early[r]
    <2>1. early \in [Peer -> BOOLEAN]
        BY <1>1 DEF TypeOK
    <2> DEFINE value == early[p] \/ q \notin told[p]
    <2>2. value \in BOOLEAN
        BY Zenon
    <2>3. early' = [early EXCEPT ![p] = value]
        BY <1>3
    <2> HIDE DEF value
    <2>4. /\ early' \in [Peer -> BOOLEAN] /\ early'[p] = value
          /\ \A r \in Peer \ {p} : early'[r] = early[r]
        BY <2>1, <2>2, <2>3
    <2>5. QED
        BY <2>4 DEF value
<1>7. ASSUME NEW r \in Peer, NEW k \in 1..Len(out'[r])
      PROVE  \/ k \in 1..Len(out[r]) /\ out'[r][k] = out[r][k]
             \/ r = p /\ out'[r][k] = q
    <2>1. CASE r = p
        BY <1>4, <1>5, <2>1
    <2>2. CASE r # p
        BY <1>5, <2>2
    <2>3. QED
        BY <2>1, <2>2
<1>8. ChannelsFit'
    <2>1. SUFFICES ASSUME NEW r \in Peer, NEW s \in Peer, channel[r][s] = 0, ~early'[r]
                   PROVE  \A k \in 1..Len(out'[r]) : out'[r][k] # s
        BY <1>1, <1>2 DEF ChannelsFit
    <2>2. s \notin told[r]
        BY <1>1, <2>1 DEF ChannelsFit
    <2>3. ~early[r] /\ (r = p => s # q)
        BY <1>6, <2>1, <2>2, Zenon
    <2>4. \A k \in 1..Len(out[r]) : out[r][k] # s
        BY <1>1, <2>1, <2>3 DEF ChannelsFit
    <2>5. QED
        BY <1>7, <2>3, <2>4
<1>9. MovesOn /\ Ties' /\ inbox' \in [Peer -> Seq(EventSet)]
    BY <1>2, NothingMoves DEF env
<1>10. sent' \in Nat
    BY <1>1, <1>3 DEF TypeOK
<1>11. QED
    BY <1>1, <1>2, <1>5, <1>6, <1>8, <1>9, <1>10, KeepsInductive DEF TypeOK, env

-----------------------------------------------------------------------------
(* The signaling server. *)

LEMMA TellLeftKeeps ==
    ASSUME Inductive, NEW p \in Peer, NEW q \in Peer, TellLeft(p, q)
    PROVE  Inductive'
<1> DEFINE e == [kind |-> "left", from |-> q]
<1>1. TypeOK /\ ChannelsFit
    BY DEF Inductive
<1>2. e \in EventSet /\ e.kind # "new" /\ EventFits(p, e)
    BY OffersAssumption DEF TellLeft, EventSet, EventFits
<1>3. /\ inbox' = [inbox EXCEPT ![p] = Append(@, e)]
      /\ lefts' = [lefts EXCEPT ![p][q] = @ + 1]
      /\ UNCHANGED <<scene, run, tries, intros, app, shake, feeds, channel, states, heard, out>>
    BY DEF TellLeft, Mail
<1> HIDE DEF e
<1>4. inbox' = [r \in Peer |-> inbox'[r]] /\ \A r \in Peer : InboxStep(r)
    BY <1>1, <1>2, <1>3 DEF TypeOK, InboxStep
<1>5. MovesOn
    BY <1>1, <1>3, StillAdvances DEF MovesOn, TypeOK, Shakes
<1>6. Ties' /\ inbox' \in [Peer -> Seq(EventSet)]
    BY <1>3, <1>4, <1>5, HandshakesMove
<1>7. lefts' \in [Peer -> [Peer -> Nat]]
    <2>1. lefts \in [Peer -> [Peer -> Nat]] /\ lefts[p][q] + 1 \in Nat
        <3>1. lefts \in [Peer -> [Peer -> Nat]]
            BY <1>1 DEF TypeOK
        <3>2. lefts[p][q] \in Nat
            BY <3>1
        <3>3. QED
            BY <3>1, <3>2
    <2>2. lefts' = [lefts EXCEPT ![p][q] = lefts[p][q] + 1]
        BY <1>3
    <2>3. QED
        BY <2>1, <2>2, EntrySet
<1>8. ChannelsFit'
    BY <1>1, <1>3 DEF ChannelsFit, app
<1>9. QED
    BY <1>1, <1>3, <1>5, <1>6, <1>7, <1>8, KeepsInductive DEF TypeOK, app

\* An introduction is counted before the event is there.
LEMMA IntroduceKeeps ==
    ASSUME Inductive, NEW p \in Peer, NEW q \in Peer, Introduce(p, q)
    PROVE  Inductive'
<1> DEFINE e == [kind |-> "new", from |-> q]
<1>1. TypeOK /\ ChannelsFit
    BY DEF Inductive
<1>2. p # q /\ e \in EventSet /\ EventFits(p, e) /\ e.kind = "new" /\ e.from = q
    BY OffersAssumption DEF Introduce, EventSet, EventFits
<1>3. /\ inbox' = [inbox EXCEPT ![p] = Append(@, e)]
      /\ intros' = [intros EXCEPT ![p][q] = @ + 1]
      /\ UNCHANGED <<scene, run, tries, lefts, app, shake, feeds, channel, states, heard, out>>
    BY DEF Introduce, Mail
<1> HIDE DEF e
<1>4. MovesOn
    BY <1>1, <1>3, StillAdvances DEF MovesOn, TypeOK, Shakes
<1>5. /\ \A r, s \in Peer : Accepts(r, s)' <=> Accepts(r, s)
      /\ Grows
      /\ \A r, s \in Peer : PairFits(r, s)'
    BY <1>3, <1>4, MovesOnKeeps
<1>6. inbox'[p] = Append(inbox[p], e) /\ \A r \in Peer \ {p} : inbox'[r] = inbox[r]
    BY <1>1, <1>3 DEF TypeOK
<1>7. /\ inbox'[p] \in Seq(EventSet) /\ InboxFits(p)'
      /\ Len(inbox[p]) \in Nat /\ Len(inbox'[p]) = Len(inbox[p]) + 1
      /\ inbox'[p][Len(inbox[p]) + 1] = e
      /\ \A k \in 1..Len(inbox[p]) : inbox'[p][k] = inbox[p][k]
    BY <1>2, <1>5, <1>6, InboxGets
<1>8. \A r \in Peer \ {p} : inbox'[r] \in Seq(EventSet) /\ InboxFits(r)'
    BY <1>5, <1>6, InboxStepKeeps DEF InboxStep
<1>9. inbox' \in [Peer -> Seq(EventSet)]
    BY <1>1, <1>3, <1>7 DEF TypeOK
<1>10. /\ intros' \in [Peer -> [Peer -> Nat]] /\ intros \in [Peer -> [Peer -> Nat]]
       /\ intros'[p][q] = intros[p][q] + 1
       /\ \A r, s \in Peer : ~(r = p /\ s = q) => intros'[r][s] = intros[r][s]
    <2>1. intros \in [Peer -> [Peer -> Nat]] /\ intros[p][q] + 1 \in Nat
        <3>1. intros \in [Peer -> [Peer -> Nat]]
            BY <1>1 DEF TypeOK
        <3>2. intros[p][q] \in Nat
            BY <3>1
        <3>3. QED
            BY <3>1, <3>2
    <2>2. intros' = [intros EXCEPT ![p][q] = intros[p][q] + 1]
        BY <1>3
    <2>3. QED
        BY <2>1, <2>2, EntrySet
<1>11. ASSUME NEW r \in Peer, NEW s \in Peer, Accepts(r, s)'
       PROVE  intros'[s][r] > 0
    <2>1. intros[s][r] > 0 /\ intros[s][r] \in Nat
        BY <1>5, <1>10, <1>11 DEF Inductive, IntroducedFits
    <2>2. QED
        BY <1>10, <2>1
<1>12. ASSUME NEW r \in Peer, NEW s \in Peer
       PROVE  IntroducedFits(r, s)'
    <2>1. IntroducedFits(r, s) /\ intros[r][s] \in Nat /\ intros'[r][s] \in Nat
        BY <1>10 DEF Inductive
    <2>2. CASE r = p /\ s = q
        <3>0. intros'[r][s] = intros[r][s] + 1
            BY <1>10, <2>2
        <3>1. intros'[r][s] # 0 /\ (intros'[r][s] = 1 => intros[r][s] = 0)
            BY <2>1, <3>0
        <3>2. ASSUME intros[r][s] = 0
              PROVE  /\ \A k \in 1..Len(inbox'[r]) : IsNew(r, s, k)' => k = Len(inbox[r]) + 1
                     /\ \A i \in 1..Len(shake'[r][s]) : shake'[r][s][i].role # "offers"
            BY <1>3, <1>7, <2>1, <2>2, <3>2 DEF IntroducedFits, IsNew
        <3>3. QED
            BY <1>11, <3>1, <3>2 DEF IntroducedFits
    <2>3. CASE ~(r = p /\ s = q)
        <3>1. intros'[r][s] = intros[r][s] /\ shake'[r][s] = shake[r][s]
            BY <1>3, <1>10, <2>3
        <3>2. \A k \in 1..Len(inbox'[r]) :
                  IsNew(r, s, k)' => k \in 1..Len(inbox[r]) /\ IsNew(r, s, k)
            <4>1. CASE r = p
                BY <1>2, <1>7, <2>3, <4>1 DEF IsNew
            <4>2. CASE r # p
                BY <1>6, <4>2 DEF IsNew
            <4>3. QED
                BY <4>1, <4>2
        <3>3. QED
            BY <1>11, <2>1, <3>1, <3>2 DEF IntroducedFits
    <2>4. QED
        BY <2>2, <2>3
<1>13. ChannelsFit'
    BY <1>1, <1>3 DEF ChannelsFit, app
<1>14. TypeOK'
    BY <1>1, <1>3, <1>9, <1>10 DEF TypeOK, app
<1>15. QED
    BY <1>5, <1>7, <1>8, <1>12, <1>13, <1>14 DEF Inductive

-----------------------------------------------------------------------------
(* A handshake starts. *)

\* p takes the first of its events and starts the handshake h with q: one that
\* offers, for NewPeer(q), or the only one that accepts, for a signal.
Starts(p, q, h) ==
    /\ p # q /\ inbox[p] # <<>>
    /\ inbox' = [inbox EXCEPT ![p] = Tail(@)]
    /\ Adds(p, q, h)
    /\ feeds' = [feeds EXCEPT ![p][q] = Len(shake[p][q]) + 1]
    /\ UNCHANGED <<env, app, run, channel, states, heard, out>>
    /\ h.remote = 0 /\ h.link = "none"
    /\ \/ h.role = "offers" /\ h.at = "make" /\ h.box = <<>> /\ IsNew(p, q, 1)
       \/ /\ h.role = "accepts" /\ h.at = "offer"
          /\ shake[p][q] = <<>> /\ shake[q][p] # <<>>
          /\ \A k \in 1..Len(h.box) : SignalFits(p, q, h.box[k])

\* What a start does to the handshakes of all pairs.
LEMMA StartGrows ==
    ASSUME Inductive, NEW p \in Peer, NEW q \in Peer,
           NEW h \in HandshakeSet, Starts(p, q, h)
    PROVE  /\ shake' \in Shakes /\ Grows
           /\ Len(shake[p][q]) \in Nat /\ Len(shake'[p][q]) = Len(shake[p][q]) + 1
           /\ shake'[p][q][Len(shake[p][q]) + 1] = h
           /\ \A j \in 1..Len(shake[p][q]) : shake'[p][q][j] = shake[p][q][j]
           /\ \A r, s \in Peer : ~(r = p /\ s = q) =>
                 shake'[r][s] = shake[r][s] /\ (Accepts(r, s)' <=> Accepts(r, s))
           /\ shake'[p][q] # <<>>
           /\ Accepts(p, q)' <=> (Accepts(p, q) \/ h.role = "accepts")
<1>1. TypeOK /\ Adds(p, q, h)
    BY DEF Inductive, Starts
<1>2. /\ shake' \in Shakes
      /\ Len(shake[p][q]) \in Nat /\ Len(shake'[p][q]) = Len(shake[p][q]) + 1
      /\ shake'[p][q][Len(shake[p][q]) + 1] = h
      /\ \A j \in 1..Len(shake[p][q]) : shake'[p][q][j] = shake[p][q][j]
      /\ \A r, s \in Peer : ~(r = p /\ s = q) => shake'[r][s] = shake[r][s]
    <2>1. Len(shake[p][q]) \in Nat
        BY <1>1, HandshakeType
    <2>2. QED
        BY <1>1, <2>1, OneAdded
<1>3. /\ shake[p][q] # <<>> <=> 1 \in 1..Len(shake[p][q])
      /\ shake'[p][q] # <<>> <=> 1 \in 1..Len(shake'[p][q])
    <2>1. shake[p][q] \in Seq(HandshakeSet) /\ shake'[p][q] \in Seq(HandshakeSet)
        BY <1>1, <1>2, HandshakeType DEF Shakes
    <2>2. QED
        BY <2>1, NotEmpty
<1>4. shake'[p][q] # <<>>
    BY <1>2, <1>3
<1>5. Accepts(p, q)' <=> (Accepts(p, q) \/ h.role = "accepts")
    <2>1. CASE shake[p][q] # <<>>
        <3>1. h.role = "offers"
            BY <2>1 DEF Starts
        <3>2. shake'[p][q][1] = shake[p][q][1]
            BY <1>2, <1>3, <2>1
        <3>3. QED
            BY <1>4, <2>1, <3>1, <3>2 DEF Accepts
    <2>2. CASE shake[p][q] = <<>>
        <3>1. Len(shake[p][q]) = 0
            BY <2>2, EmptyFacts
        <3>2. shake'[p][q][1] = h
            BY <1>2, <3>1
        <3>3. QED
            BY <1>4, <2>2, <3>2 DEF Accepts
    <2>3. QED
        BY <2>1, <2>2
<1>6. \A r, s \in Peer : ~(r = p /\ s = q) =>
          shake'[r][s] = shake[r][s] /\ (Accepts(r, s)' <=> Accepts(r, s))
    BY <1>2 DEF Accepts
<1>7. Grows
    BY <1>4, <1>5, <1>6 DEF Grows
<1>8. QED
    BY <1>2, <1>4, <1>5, <1>6, <1>7

\* The ties of a handshake that was there outlast the start of another.
LEMMA FitsStill ==
    ASSUME Inductive, Grows, NEW r \in Peer, NEW s \in Peer, NEW i \in 1..Len(shake[r][s]),
           shake'[r][s][i] = shake[r][s][i],
           Accepts(s, r) => shake'[s][r][1] = shake[s][r][1]
    PROVE  HandshakeFits(r, s, i)' /\ PartnerFits(r, s, i)'
<1>1. HandshakeFits(r, s, i) /\ PartnerFits(r, s, i)
    BY DEF Inductive, PairFits
<1>2. Accepts(s, r) => Accepts(s, r)'
    BY DEF Grows
<1>3. \A sig : SignalFits(r, s, sig) => (sig.kind = "answer" => sig.of = 1 /\ Accepts(s, r)')
    BY <1>2 DEF SignalFits
<1>4. HandshakeFits(r, s, i)'
    BY <1>1, <1>3 DEF HandshakeFits, SignalFits
<1>5. PartnerFits(r, s, i)'
    BY <1>1, <1>2 DEF PartnerFits
<1>6. QED
    BY <1>4, <1>5

LEMMA StartFits ==
    ASSUME Inductive, NEW p \in Peer, NEW q \in Peer,
           NEW h \in HandshakeSet, Starts(p, q, h)
    PROVE  \A r, s \in Peer : PairFits(r, s)'
<1>0. PICK n \in Nat : n = Len(shake[p][q]) + 1
    BY StartGrows
<1>1. /\ shake' \in Shakes /\ Grows
      /\ n - 1 \in Nat /\ Len(shake'[p][q]) = n
      /\ shake'[p][q][n] = h
      /\ \A j \in 1..(n - 1) : shake'[p][q][j] = shake[p][q][j]
      /\ \A r, s \in Peer : ~(r = p /\ s = q) =>
            shake'[r][s] = shake[r][s] /\ (Accepts(r, s)' <=> Accepts(r, s))
      /\ shake'[p][q] # <<>>
      /\ Accepts(p, q)' <=> (Accepts(p, q) \/ h.role = "accepts")
    BY <1>0, StartGrows
<1>2. p # q /\ (Accepts(q, p)' <=> Accepts(q, p))
    BY <1>1 DEF Starts
<1>3. \A r, s \in Peer : feeds'[r][s] = IF r = p /\ s = q THEN n ELSE feeds[r][s]
    <2>1. feeds \in [Peer -> [Peer -> Nat]]
        BY DEF Inductive, TypeOK
    <2>2. feeds' = [feeds EXCEPT ![p][q] = n] /\ n \in Nat
        BY <1>0 DEF Starts
    <2>3. QED
        BY <2>1, <2>2, EntrySet
<1>4. ASSUME NEW r \in Peer, NEW s \in Peer, NEW i \in 1..Len(shake[r][s])
      PROVE  HandshakeFits(r, s, i)' /\ PartnerFits(r, s, i)'
    <2>1. shake'[r][s][i] = shake[r][s][i]
        BY <1>0, <1>1
    <2>2. Accepts(s, r) => shake'[s][r][1] = shake[s][r][1]
        <3>1. CASE s = p /\ r = q
            <4>1. Accepts(p, q) => 1 \in 1..(n - 1)
                BY <1>0, HandshakeType, NotEmpty DEF Accepts, Inductive
            <4>2. QED
                BY <1>1, <3>1, <4>1
        <3>2. CASE ~(s = p /\ r = q)
            BY <1>1, <3>2
        <3>3. QED
            BY <3>1, <3>2
    <2>3. QED
        BY <1>1, <2>1, <2>2, FitsStill
<1>5. HandshakeFits(p, q, n)' /\ PartnerFits(p, q, n)'
    <2>1. h.role = "accepts" => n = 1
        BY <1>0, EmptyFacts DEF Starts
    <2>2. \A k \in 1..Len(h.box) : SignalFits(p, q, h.box[k])
        BY EmptyFacts DEF Starts
    <2>3. h.remote = 0 /\ ~Linked(h) /\ h.at \in {"make", "offer"}
          /\ (h.at = "make" => h.role = "offers") /\ (h.at = "offer" => h.role = "accepts")
        BY DEF Starts, Linked
    <2>4. \A k \in 1..Len(h.box) : h.box[k].kind = "answer" => h.box[k].of = 1 /\ Accepts(q, p)'
        BY <1>2, <2>2 DEF SignalFits
    <2>5. HandshakeFits(p, q, n)'
        BY <1>1, <2>1, <2>3, <2>4 DEF HandshakeFits, SignalFits
    <2>6. PartnerFits(p, q, n)'
        BY <1>1, <2>3 DEF PartnerFits
    <2>7. QED
        BY <2>5, <2>6
<1>6. ASSUME NEW r \in Peer, NEW s \in Peer
      PROVE  PairFits(r, s)'
    <2>1. PairFits(r, s) /\ PairFits(s, r)
        BY DEF Inductive
    <2>2. CASE r = p /\ s = q
        <3>1. Accepts(p, q)' => shake'[q][p] # <<>> /\ ~Accepts(q, p)'
            <4>1. CASE Accepts(p, q)
                BY <1>1, <1>2, <2>1, <2>2, <4>1 DEF PairFits
            <4>2. CASE h.role = "accepts"
                BY <1>1, <1>2, <2>1, <2>2, <4>2 DEF PairFits, Starts
            <4>3. QED
                BY <1>1, <4>1, <4>2
        <3>2. \A i \in 1..n : HandshakeFits(p, q, i)' /\ PartnerFits(p, q, i)'
            <4>1. ASSUME NEW i \in 1..n
                  PROVE  i = n \/ i \in 1..Len(shake[p][q])
                BY <1>0, <1>1
            <4>2. QED
                BY <1>4, <1>5, <4>1
        <3>3. QED
            BY <1>1, <1>2, <1>3, <2>2, <3>1, <3>2 DEF PairFits
    <2>3. CASE r = q /\ s = p
        <3>1. Accepts(q, p)' => shake'[p][q] # <<>> /\ ~Accepts(p, q)'
            BY <1>1, <1>2, <2>1, <2>3 DEF PairFits, Starts
        <3>2. QED
            BY <1>1, <1>2, <1>3, <1>4, <2>1, <2>3, <3>1 DEF PairFits
    <2>4. CASE ~(r = p /\ s = q) /\ ~(r = q /\ s = p)
        <3>1. /\ shake'[r][s] = shake[r][s] /\ shake'[s][r] = shake[s][r]
              /\ Accepts(r, s)' <=> Accepts(r, s)
              /\ Accepts(s, r)' <=> Accepts(s, r)
              /\ feeds'[r][s] = feeds[r][s]
            BY <1>1, <1>3, <2>4
        <3>2. QED
            BY <1>4, <2>1, <3>1 DEF PairFits
    <2>5. QED
        BY <2>2, <2>3, <2>4
<1>7. QED
    BY <1>6

\* The event that is read is the introduction, or there was one of the other side.
LEMMA StartIntroduced ==
    ASSUME Inductive, NEW p \in Peer, NEW q \in Peer,
           NEW h \in HandshakeSet, Starts(p, q, h),
           \A r \in Peer : NewsKept(r),
           Len(inbox[p]) \in Nat \ {0}, Len(inbox'[p]) = Len(inbox[p]) - 1,
           \A k \in 1..Len(inbox'[p]) :
               k + 1 \in 1..Len(inbox[p]) /\ inbox'[p][k] = inbox[p][k + 1]
    PROVE  \A r, s \in Peer : IntroducedFits(r, s)'
<1> DEFINE n == Len(shake[p][q]) + 1
<1>1. /\ n - 1 \in Nat /\ Len(shake'[p][q]) = n
      /\ shake'[p][q][n] = h
      /\ \A j \in 1..(n - 1) : shake'[p][q][j] = shake[p][q][j]
      /\ \A r, s \in Peer : ~(r = p /\ s = q) =>
            shake'[r][s] = shake[r][s] /\ (Accepts(r, s)' <=> Accepts(r, s))
      /\ Accepts(p, q)' <=> (Accepts(p, q) \/ h.role = "accepts")
    BY StartGrows
<1>2. intros' = intros
    BY DEF Starts, env
<1>3. ASSUME NEW r \in Peer, NEW s \in Peer, ~(r = p /\ s = q)
      PROVE  IntroducedFits(r, s)'
    <2>1. IntroducedFits(r, s)
        BY DEF Inductive
    <2>2. QED
        BY <1>1, <1>2, <1>3, <2>1, IntroducedSame
<1>4. IntroducedFits(p, q)'
    <2>1. IntroducedFits(p, q) /\ 1 \in 1..Len(inbox[p])
        BY DEF Inductive
    <2>2. \A k \in 1..Len(inbox'[p]) :
              IsNew(p, q, k)' => k + 1 \in 1..Len(inbox[p]) /\ IsNew(p, q, k + 1)
        BY DEF IsNew
    <2>3. CASE h.role = "offers"
        <3>1. IsNew(p, q, 1)
            BY <2>3 DEF Starts
        <3>2. intros[p][q] # 0
            BY <2>1, <3>1 DEF IntroducedFits
        <3>3. Accepts(p, q)' => intros[q][p] > 0
            BY <1>1, <2>1, <2>3 DEF IntroducedFits
        <3>4. ASSUME intros[p][q] = 1
              PROVE  /\ \A k \in 1..Len(inbox'[p]) : ~IsNew(p, q, k)'
                     /\ \A i \in 1..n : shake'[p][q][i].role = "offers" => i = n
            <4>1. ASSUME NEW k \in 1..Len(inbox'[p]), IsNew(p, q, k)'
                  PROVE  FALSE
                <5>1. k + 1 = 1
                    BY <2>1, <2>2, <3>1, <3>4, <4>1 DEF IntroducedFits
                <5>2. QED
                    BY <5>1
            <4>2. ASSUME NEW i \in 1..n, shake'[p][q][i].role = "offers", i # n
                  PROVE  FALSE
                <5>1. i \in 1..Len(shake[p][q])
                    BY <1>1, <4>2
                <5>2. shake[p][q][i].role = "offers"
                    BY <1>1, <4>2, <5>1
                <5>3. QED
                    BY <2>1, <3>1, <3>4, <5>1, <5>2 DEF IntroducedFits
            <4>3. QED
                BY <4>1, <4>2
        <3>5. QED
            BY <1>1, <1>2, <3>2, <3>3, <3>4 DEF IntroducedFits
    <2>4. CASE h.role = "accepts"
        <3>1. shake[p][q] = <<>> /\ shake[q][p] # <<>> /\ n = 1
            BY <2>4, EmptyFacts DEF Starts
        <3>2. \A i \in 1..n : shake'[p][q][i].role # "offers"
            BY <1>1, <2>4, <3>1
        <3>3. intros[q][p] > 0
            <4>1. ~Accepts(q, p)
                BY <3>1 DEF Inductive, PairFits
            <4>2. 1 \in 1..Len(shake[q][p]) /\ shake[q][p][1] \in HandshakeSet
                BY <3>1, HandshakeType, NotEmpty DEF Inductive
            <4>3. shake[q][p][1].role = "offers"
                BY <3>1, <4>1, <4>2 DEF Accepts, HandshakeSet
            <4>4. intros[q][p] # 0
                BY <4>2, <4>3 DEF Inductive, IntroducedFits
            <4>5. intros \in [Peer -> [Peer -> Nat]]
                BY DEF Inductive, TypeOK
            <4>6. intros[q][p] \in Nat
                BY <4>5
            <4>7. QED
                BY <4>4, <4>6
        <3>4. ASSUME NEW k \in 1..Len(inbox'[p]), NEW l \in 1..Len(inbox'[p]),
                     IsNew(p, q, k)', IsNew(p, q, l)', intros[p][q] = 1
              PROVE  k = l
            <4>1. k + 1 = l + 1
                BY <2>1, <2>2, <3>4 DEF IntroducedFits
            <4>2. QED
                BY <4>1
        <3>5. intros[p][q] = 0 => \A k \in 1..Len(inbox'[p]) : ~IsNew(p, q, k)'
            BY <2>1, <2>2 DEF IntroducedFits
        <3>6. QED
            BY <1>1, <1>2, <3>2, <3>3, <3>4, <3>5 DEF IntroducedFits
    <2>5. QED
        BY <2>3, <2>4 DEF Starts
<1>5. QED
    BY <1>3, <1>4

LEMMA StartKeeps ==
    ASSUME Inductive, NEW p \in Peer, NEW q \in Peer,
           NEW h \in HandshakeSet, Starts(p, q, h)
    PROVE  Inductive'
<1>1. TypeOK /\ ChannelsFit /\ inbox[p] \in Seq(EventSet)
    BY DEF Inductive, TypeOK
<1>2. /\ inbox[p] # <<>> /\ inbox' = [inbox EXCEPT ![p] = Tail(inbox[p])]
      /\ feeds' = [feeds EXCEPT ![p][q] = Len(shake[p][q]) + 1]
      /\ UNCHANGED <<env, app, run, channel, states, heard, out>>
    BY DEF Starts
<1>3. /\ shake' \in Shakes /\ Grows
      /\ Len(shake[p][q]) \in Nat /\ Len(shake'[p][q]) = Len(shake[p][q]) + 1
      /\ \A r, s \in Peer : ~(r = p /\ s = q) => shake'[r][s] = shake[r][s]
    BY StartGrows
<1>4. inbox'[p] = Tail(inbox[p]) /\ \A r \in Peer \ {p} : inbox'[r] = inbox[r]
    BY <1>1, <1>2 DEF TypeOK
<1>5. \A r \in Peer : InboxStep(r)
    BY <1>2, <1>4 DEF InboxStep
<1>6. \A r \in Peer : inbox'[r] \in Seq(EventSet) /\ InboxFits(r)' /\ NewsKept(r)
    BY <1>3, <1>5, InboxStepKeeps
<1>7. inbox' \in [Peer -> Seq(EventSet)]
    BY <1>1, <1>2, <1>4, <1>6 DEF TypeOK
<1>8. \A r, s \in Peer : IntroducedFits(r, s)'
    <2>1. /\ Len(inbox[p]) \in Nat \ {0} /\ Len(inbox'[p]) = Len(inbox[p]) - 1
          /\ \A k \in 1..Len(inbox'[p]) :
                k + 1 \in 1..Len(inbox[p]) /\ inbox'[p][k] = inbox[p][k + 1]
        <3>1. /\ Len(inbox[p]) \in Nat \ {0} /\ Len(Tail(inbox[p])) = Len(inbox[p]) - 1
              /\ \A k \in 1..Len(Tail(inbox[p])) :
                    k + 1 \in 1..Len(inbox[p]) /\ Tail(inbox[p])[k] = inbox[p][k + 1]
            BY <1>1, <1>2, TailFacts
        <3>2. QED
            BY <1>4, <3>1
    <2>2. QED
        BY <1>6, <2>1, StartIntroduced
<1>9. feeds' \in [Peer -> [Peer -> Nat]]
    <2>1. feeds \in [Peer -> [Peer -> Nat]]
        BY <1>1 DEF TypeOK
    <2>2. Len(shake[p][q]) + 1 \in Nat
        BY <1>3
    <2>3. QED
        BY <1>2, <2>1, <2>2, EntrySet
<1>10. \A r, s \in Peer : channel[r][s] <= Len(shake'[r][s])
    <2>1. ASSUME NEW r \in Peer, NEW s \in Peer
          PROVE  channel[r][s] <= Len(shake'[r][s])
        <3>1. channel \in [Peer -> [Peer -> Nat]] /\ channel[r][s] <= Len(shake[r][s])
            BY <1>1 DEF TypeOK
        <3>2. channel[r][s] \in Nat
            BY <3>1
        <3>3. CASE r = p /\ s = q
            BY <1>3, <3>1, <3>2, <3>3
        <3>4. CASE ~(r = p /\ s = q)
            BY <1>3, <3>1, <3>4
        <3>5. QED
            BY <3>3, <3>4
    <2>2. QED
        BY <2>1
<1>11. TypeOK'
    BY <1>1, <1>2, <1>3, <1>7, <1>9, <1>10 DEF TypeOK, Shakes, env, app
<1>12. ChannelsFit'
    BY <1>1, <1>2 DEF ChannelsFit, app
<1>13. QED
    BY <1>6, <1>8, <1>11, <1>12, StartFits DEF Inductive

\* The event that message_loop takes.
LEMMA EventRead ==
    ASSUME Inductive, NEW p \in Peer, inbox[p] # <<>>
    PROVE  /\ Head(inbox[p]) = inbox[p][1] /\ Head(inbox[p]) \in EventSet
           /\ Head(inbox[p]).from \in Peer /\ EventFits(p, Head(inbox[p]))
           /\ Head(inbox[p]).kind = "signal" => Head(inbox[p]).sig \in SignalSet
<1>1. TypeOK /\ InboxFits(p) /\ inbox[p] \in Seq(EventSet)
    BY DEF Inductive, TypeOK
<1>2. Head(inbox[p]) = inbox[p][1] /\ Head(inbox[p]) \in EventSet /\ Len(inbox[p]) \in Nat \ {0}
    BY <1>1, TailFacts
<1>3. PICK e \in EventSet : e = Head(inbox[p]) /\ e = inbox[p][1]
    BY <1>2
<1>4. EventFits(p, e)
    <2>1. 1 \in 1..Len(inbox[p])
        BY <1>2
    <2>2. EventFits(p, inbox[p][1])
        BY <1>1, <2>1 DEF InboxFits
    <2>3. QED
        BY <1>3, <2>2
<1>5. e.from \in Peer /\ (e.kind = "signal" => e.sig \in SignalSet)
    BY DEF EventSet
<1>6. QED
    BY <1>3, <1>4, <1>5

LEMMA FreshType ==
    ASSUME NEW role \in {"offers", "accepts"}, NEW at \in {"make", "offer"},
           NEW box \in Seq(SignalSet)
    PROVE  LET h == Fresh(role, at, box)
           IN  /\ h \in HandshakeSet /\ h.role = role /\ h.at = at /\ h.box = box
               /\ h.remote = 0 /\ h.link = "none"
BY DEF Fresh, HandshakeSet

LEMMA NewPeerKeeps ==
    ASSUME Inductive, NEW p \in Peer, NewPeer(p)
    PROVE  Inductive'
<1>1. inbox[p] # <<>> /\ Head(inbox[p]).kind = "new"
    BY DEF NewPeer, Event
<1>2. PICK q \in Peer : q = Head(inbox[p]).from
    BY <1>1, EventRead
<1>3. p # q /\ IsNew(p, q, 1)
    BY <1>1, <1>2, EventRead DEF EventFits, IsNew
<1> DEFINE h == Fresh("offers", "make", <<>>)
<1>4. /\ h \in HandshakeSet /\ h.role = "offers" /\ h.at = "make" /\ h.box = <<>>
      /\ h.remote = 0 /\ h.link = "none"
    BY EmptyFacts, FreshType
<1>5. /\ Adds(p, q, h)
      /\ feeds' = [feeds EXCEPT ![p][q] = Len(shake[p][q]) + 1]
      /\ inbox' = [inbox EXCEPT ![p] = Tail(@)]
      /\ UNCHANGED <<env, app, run, channel, states, heard, out>>
    BY <1>2 DEF NewPeer, TakeEvent, Adds
<1> HIDE DEF h
<1>6. Starts(p, q, h)
    BY <1>1, <1>3, <1>4, <1>5 DEF Starts
<1>7. QED
    BY <1>4, <1>6, StartKeeps

\* A signal goes to the box of a handshake that still listens.
LEMMA BoxGets ==
    ASSUME Inductive, NEW p \in Peer, NEW q \in Peer, NEW i \in 1..Len(shake[p][q]),
           NEW sig \in SignalSet, SignalFits(p, q, sig)
    PROVE  LET h == [shake[p][q][i] EXCEPT !.box = Append(@, sig)]
           IN  h \in HandshakeSet /\ Advances(p, q, i, h)
<1> DEFINE g == shake[p][q][i]
           more == Append(g.box, sig)
           h == [g EXCEPT !.box = more]
<1>1. Known(p, q, i, g) /\ g \in HandshakeSet /\ Advances(p, q, i, g)
    BY HandshakeKnown DEF Known
<1>2. g.box \in Seq(SignalSet) /\ Len(g.box) \in Nat
    <2>1. g.box \in Seq(SignalSet)
        BY <1>1 DEF HandshakeSet
    <2>2. QED
        BY <2>1, LenProperties
<1>3. /\ more \in Seq(SignalSet) /\ Len(more) = Len(g.box) + 1
      /\ more[Len(g.box) + 1] = sig
      /\ \A k \in 1..Len(g.box) : more[k] = g.box[k]
    <2>1. PICK box \in Seq(SignalSet) : box = g.box
        BY <1>2
    <2>2. /\ Append(box, sig) \in Seq(SignalSet) /\ Len(Append(box, sig)) = Len(box) + 1
          /\ Append(box, sig)[Len(box) + 1] = sig
          /\ \A k \in 1..Len(box) : Append(box, sig)[k] = box[k]
        BY AppendFacts
    <2>3. QED
        BY <2>1, <2>2
<1>4. \A k \in 1..Len(more) : SignalFits(p, q, more[k])
    <2>1. \A k \in 1..Len(g.box) : SignalFits(p, q, g.box[k])
        BY <1>1 DEF Known
    <2>2. QED
        BY <1>2, <1>3, <2>1
<1> HIDE DEF more
<1>5. /\ h \in HandshakeSet /\ h.role = g.role /\ h.at = g.at /\ h.box = more
      /\ h.remote = g.remote /\ h.link = g.link
    BY <1>1, <1>3 DEF HandshakeSet
<1>6. Advances(p, q, i, h)
    <2> HIDE DEF h
    <2>1. QED
        BY <1>1, <1>4, <1>5 DEF Advances, Linked
<1>7. QED
    BY <1>5, <1>6 DEF more

LEMMA SignalledKeeps ==
    ASSUME Inductive, NEW p \in Peer, Signalled(p)
    PROVE  Inductive'
<1>1. inbox[p] # <<>> /\ Head(inbox[p]).kind = "signal" /\ TypeOK /\ ChannelsFit
    BY DEF Signalled, Event, Inductive
<1>2. PICK q \in Peer : q = Head(inbox[p]).from
    BY <1>1, EventRead
<1>3. PICK sig \in SignalSet : sig = Head(inbox[p]).sig
    BY <1>1, EventRead
<1>4. /\ p # q /\ shake[q][p] # <<>> /\ SignalFits(p, q, sig)
      /\ feeds[p][q] = Len(shake[p][q])
    BY <1>1, <1>2, <1>3, EventRead DEF EventFits, Inductive, PairFits
<1>5. /\ inbox' = [inbox EXCEPT ![p] = Tail(@)]
      /\ UNCHANGED <<env, app, run, channel, states, heard, out>>
    BY DEF Signalled, TakeEvent
<1>6. CASE feeds[p][q] = 0
    <2> DEFINE h == Fresh("accepts", "offer", <<sig>>)
    <2>1. /\ <<sig>> \in Seq(SignalSet) /\ Len(<<sig>>) = 1 /\ <<sig>>[1] = sig
        OBVIOUS
    <2>2. /\ h \in HandshakeSet /\ h.role = "accepts" /\ h.at = "offer" /\ h.box = <<sig>>
          /\ h.remote = 0 /\ h.link = "none"
        BY <2>1, FreshType
    <2>3. Adds(p, q, h) /\ feeds' = [feeds EXCEPT ![p][q] = Len(shake[p][q]) + 1]
        BY <1>2, <1>3, <1>6 DEF Signalled, Adds
    <2> HIDE DEF h
    <2>4. \A k \in 1..Len(h.box) : SignalFits(p, q, h.box[k])
        BY <1>4, <2>1, <2>2
    <2>5. shake[p][q] = <<>>
        <3>1. shake[p][q] \in Seq(HandshakeSet)
            BY <1>1 DEF TypeOK
        <3>2. QED
            BY <1>4, <1>6, <3>1, EmptySeq
    <2>6. Starts(p, q, h)
        BY <1>1, <1>4, <1>5, <2>2, <2>3, <2>4, <2>5 DEF Starts
    <2>7. QED
        BY <2>2, <2>6, StartKeeps
<1>7. CASE feeds[p][q] # 0
    <2>1. PICK i \in 1..Len(shake[p][q]) : i = feeds[p][q]
        BY <1>1, <1>4, <1>7, HandshakeType
    <2> DEFINE h == [shake[p][q][i] EXCEPT !.box = Append(@, sig)]
    <2>2. /\ feeds' = feeds
          /\ \/ shake' = [shake EXCEPT ![p][q][i].box = Append(@, sig)]
             \/ shake' = shake
        BY <1>2, <1>3, <1>7, <2>1 DEF Signalled
    <2>3. MovesOn
        <3>1. CASE shake' = [shake EXCEPT ![p][q][i].box = Append(@, sig)]
            <4>1. Becomes(p, q, i, h)
                BY <3>1 DEF Becomes
            <4>2. h \in HandshakeSet /\ Advances(p, q, i, h)
                BY <1>4, BoxGets
            <4> HIDE DEF h
            <4>3. QED
                BY <4>1, <4>2, OneMoves
        <3>2. CASE shake' = shake
            BY <1>1, <3>2, StillAdvances DEF MovesOn, TypeOK, Shakes
        <3>3. QED
            BY <2>2, <3>1, <3>2
    <2>4. inbox' = [r \in Peer |-> inbox'[r]] /\ \A r \in Peer : InboxStep(r)
        BY <1>1, <1>5 DEF TypeOK, InboxStep
    <2>5. Ties' /\ inbox' \in [Peer -> Seq(EventSet)]
        BY <1>5, <2>2, <2>3, <2>4, HandshakesMove DEF env
    <2>6. ChannelsFit'
        BY <1>1, <1>5 DEF ChannelsFit, app
    <2>7. QED
        BY <1>1, <1>5, <2>2, <2>3, <2>5, <2>6, KeepsInductive DEF TypeOK, env, app
<1>8. QED
    BY <1>6, <1>7

-----------------------------------------------------------------------------
(* The invariant. *)

LEMMA InitInductive == Init => Inductive
<1> SUFFICES ASSUME Init PROVE Inductive
    OBVIOUS
<1>1. \A p, q \in Peer : shake[p][q] = <<>> /\ ~Accepts(p, q)
    BY DEF Init, Accepts
<1>2. \A p \in Peer : Len(inbox[p]) = 0 /\ Len(states[p]) = 0 /\ Len(out[p]) = 0
    BY EmptyFacts DEF Init
<1>3. \A p, q \in Peer : Len(shake[p][q]) = 0
    BY <1>1, EmptyFacts
<1>4. TypeOK
    <2>1. /\ scene \in Scenes
          /\ run \in [Peer -> {"connecting", "running", "ended", "panic", "hang"}]
          /\ tries \in [Peer -> Nat \cup {NoLimit}]
        BY AttemptsAssumption DEF Init
    <2>2. /\ inbox \in [Peer -> Seq(EventSet)]
          /\ shake \in [Peer -> [Peer -> Seq(HandshakeSet)]]
          /\ states \in [Peer -> Seq(Peer \X StateSet)] /\ out \in [Peer -> Seq(Peer)]
        BY EmptyFacts DEF Init
    <2>3. /\ intros \in [Peer -> [Peer -> Nat]] /\ lefts \in [Peer -> [Peer -> Nat]]
          /\ feeds \in [Peer -> [Peer -> Nat]] /\ channel \in [Peer -> [Peer -> Nat]]
          /\ \A p, q \in Peer : channel[p][q] <= Len(shake[p][q])
        BY <1>3 DEF Init
    <2>4. /\ peers \in [Peer -> [Peer -> {"None"} \cup StateSet]]
          /\ told \in [Peer -> SUBSET Peer] /\ heard \in [Peer -> SUBSET Peer]
          /\ sent \in Nat /\ early \in [Peer -> BOOLEAN]
        BY DEF Init
    <2>5. QED
        BY <2>1, <2>2, <2>3, <2>4 DEF TypeOK
<1>5. ChannelsFit
    BY <1>2 DEF ChannelsFit, Init
<1>6. \A p \in Peer : InboxFits(p)
    BY <1>2 DEF InboxFits
<1>7. \A p, q \in Peer : PairFits(p, q)
    BY <1>1, <1>3 DEF PairFits, Init
<1>8. \A p, q \in Peer : IntroducedFits(p, q)
    BY <1>1, <1>2, <1>3 DEF IntroducedFits, Init
<1>9. QED
    BY <1>4, <1>5, <1>6, <1>7, <1>8 DEF Inductive

LEMMA NextInductive == Inductive /\ [Next]_vars => Inductive'
<1> SUFFICES ASSUME Inductive, [Next]_vars PROVE Inductive'
    OBVIOUS
<1>1. CASE SystemStep
    <2>1. PICK p \in Peer : LoopStep(p) \/ TransportStep(p) \/ UpdatePeers(p) \/ AttemptFails(p)
        BY <1>1 DEF SystemStep
    <2>2. CASE LoopStep(p)
        <3>1. CASE NewPeer(p) \/ PeerLeft(p) \/ Signalled(p) \/ SendPacket(p)
            BY <3>1, NewPeerKeeps, PeerLeftKeeps, SignalledKeeps, SendPacketKeeps
        <3>2. ASSUME NEW q \in Peer, NEW i \in 1..Len(shake[p][q]), HandshakeStep(p, q, i)
              PROVE  Inductive'
            <4>1. CASE SignalsEnd(p, q, i)
                BY <4>1, LoopEndKeeps
            <4>2. CASE HandshakeDone(p, q, i) \/ PeerLoopDone(p, q, i)
                BY <4>2, DoneKeeps
            <4>3. CASE \/ MakeOffer(p, q, i) \/ AwaitAnswer(p, q, i) \/ AwaitOffer(p, q, i)
                       \/ SetLocalDescription(p, q, i) \/ SendPending(p, q, i)
                       \/ ListenForCandidates(p, q, i)
                BY <4>3, QuietKeeps
            <4>4. QED
                BY <3>2, <4>1, <4>2, <4>3 DEF HandshakeStep
        <3>3. QED
            BY <2>2, <3>1, <3>2 DEF LoopStep
    <2>3. CASE TransportStep(p)
        BY <2>3, QuietKeeps, LinkKeeps DEF TransportStep
    <2>4. CASE UpdatePeers(p) \/ AttemptFails(p)
        BY <2>4, UpdatePeersKeeps, AttemptKeeps
    <2>5. QED
        BY <2>1, <2>2, <2>3, <2>4
<1>2. CASE ServerStep
    BY <1>2, IntroduceKeeps, TellLeftKeeps DEF ServerStep
<1>3. ASSUME NEW p \in Peer,
             \/ AttemptSucceeds(p) \/ WebSocketEnds(p) \/ Drop(p)
             \/ \E q \in Peer : Send(p, q)
      PROVE  Inductive'
    BY <1>3, AttemptKeeps, LoopEndKeeps, SendKeeps
<1>4. CASE UNCHANGED vars
    <2>1. MovesOn /\ Ties' /\ inbox' \in [Peer -> Seq(EventSet)]
        BY <1>4, NothingMoves DEF vars
    <2>2. TypeOK /\ ChannelsFit /\ ChannelsFit'
        BY <1>4 DEF Inductive, ChannelsFit, vars
    <2>3. QED
        BY <1>4, <2>1, <2>2, KeepsInductive DEF TypeOK, vars
<1>5. QED
    BY <1>1, <1>2, <1>3, <1>4 DEF Next

\* Two completed handshakes with a peer are both linked, and an accept_handshake
\* is linked with one offer_handshake.
LEMMA OneConnectionFollows == Inductive => OneConnection
<1> SUFFICES ASSUME Inductive, NEW p \in Peer, NEW q \in Peer,
                    NEW i \in 1..Len(shake[p][q]), NEW j \in 1..Len(shake[p][q]),
                    {shake[p][q][i].at, shake[p][q][j].at} \subseteq {"up", "closed"}
             PROVE  i = j
    BY DEF OneConnection
<1>1. Linked(shake[p][q][i]) /\ Linked(shake[p][q][j])
    BY DEF Linked
<1>2. /\ HandshakeFits(p, q, i) /\ PartnerFits(p, q, i)
      /\ HandshakeFits(p, q, j) /\ PartnerFits(p, q, j)
      /\ Accepts(p, q) => ~Accepts(q, p)
    BY DEF Inductive, PairFits
<1>3. /\ shake[p][q][i].role \in {"offers", "accepts"}
      /\ shake[p][q][j].role \in {"offers", "accepts"}
      /\ shake[p][q] # <<>>
    BY HandshakeType, PairsDiffer DEF Inductive, HandshakeSet
<1>4. \A k \in {i, j} : shake[p][q][k].role = "accepts" => k = 1 /\ Accepts(p, q)
    BY <1>2, <1>3 DEF HandshakeFits, Accepts
<1>5. \A k \in {i, j} : shake[p][q][k].role = "offers" =>
          Accepts(q, p) /\ shake[q][p][1].remote = k
    BY <1>1, <1>2 DEF PartnerFits
<1>6. QED
    BY <1>2, <1>3, <1>4, <1>5

\* Whatever the server introduces, and however often: at most one handshake with a
\* peer completes, and Inductive, which says what ties two handshakes together,
\* holds of every state.
THEOREM InvariantHolds == Spec => []Invariant
<1>1. Inductive => Invariant
    BY OneConnectionFollows DEF Invariant
<1>2. QED
    BY <1>1, InitInductive, NextInductive, PTL DEF Spec

-----------------------------------------------------------------------------
(* What ends a message_loop in a panic, or in a loop that never yields. *)

\* A cause does not go away.
LEMMA CausesStay ==
    ASSUME Inductive, [Next]_vars
    PROVE  /\ \A p \in Peer : early[p] => early'[p]
           /\ \A p, q \in Peer : intros'[p][q] >= intros[p][q]
<1>1. /\ early \in [Peer -> BOOLEAN] /\ intros \in [Peer -> [Peer -> Nat]]
    BY DEF Inductive, TypeOK
<1>2. /\ \A p, q \in Peer : intros[p][q] \in Nat
    BY <1>1
<1>3. CASE intros' = intros /\ early' = early
    BY <1>2, <1>3
<1>4. ASSUME NEW p \in Peer, NEW q \in Peer, Introduce(p, q)
      PROVE  /\ early' = early
             /\ \A r, s \in Peer : intros'[r][s] >= intros[r][s]
    <2>1. early' = early /\ intros' = [intros EXCEPT ![p][q] = intros[p][q] + 1]
        BY <1>4 DEF Introduce, app
    <2>2. \A r, s \in Peer :
              intros'[r][s] = IF r = p /\ s = q THEN intros[p][q] + 1 ELSE intros[r][s]
        <3>1. intros[p][q] + 1 \in Nat
            BY <1>2
        <3>2. QED
            BY <1>1, <2>1, <3>1, EntrySet
    <2>3. QED
        BY <1>2, <2>1, <2>2
<1>5. ASSUME NEW p \in Peer, NEW q \in Peer, Send(p, q)
      PROVE  /\ intros' = intros
             /\ \A r \in Peer : early[r] => early'[r]
    <2>1. /\ intros' = intros
          /\ early' = [early EXCEPT ![p] = early[p] \/ q \notin told[p]]
        BY <1>5 DEF Send, env
    <2>2. \A r \in Peer :
              early'[r] = IF r = p THEN early[p] \/ q \notin told[p] ELSE early[r]
        BY <1>1, <2>1, Zenon
    <2>3. QED
        BY <2>1, <2>2, Zenon
<1>6. CASE SystemStep
    <2>1. PICK p \in Peer : LoopStep(p) \/ TransportStep(p) \/ UpdatePeers(p) \/ AttemptFails(p)
        BY <1>6 DEF SystemStep
    <2>2. ASSUME NEW q \in Peer, NEW i \in 1..Len(shake[p][q]), HandshakeStep(p, q, i)
          PROVE  UNCHANGED <<intros, early>>
        <3>1. CASE MakeOffer(p, q, i) \/ AwaitAnswer(p, q, i)
            BY <3>1 DEF MakeOffer, AwaitAnswer, OnlyShake, env, app
        <3>2. CASE AwaitOffer(p, q, i) \/ SetLocalDescription(p, q, i)
            BY <3>2 DEF AwaitOffer, SetLocalDescription, OnlyShake, env, app
        <3>3. CASE SendPending(p, q, i) \/ ListenForCandidates(p, q, i) \/ SignalsEnd(p, q, i)
            BY <3>3 DEF SendPending, ListenForCandidates, SignalsEnd, OnlyShake, env, app
        <3>4. CASE HandshakeDone(p, q, i) \/ PeerLoopDone(p, q, i)
            BY <3>4 DEF HandshakeDone, PeerLoopDone, OnlyShake, env, app
        <3>5. QED
            BY <2>2, <3>1, <3>2, <3>3, <3>4 DEF HandshakeStep
    <2>3. CASE NewPeer(p) \/ PeerLeft(p) \/ Signalled(p) \/ SendPacket(p)
        BY <1>3, <2>3 DEF NewPeer, PeerLeft, Signalled, SendPacket, env, app
    <2>4. CASE TransportStep(p)
        <3> DEFINE Step(q, i) == \/ LocalCandidate(p, q, i) \/ StoreCandidate(p, q, i)
                                \/ Link(p, q, i) \/ OnOpen(p, q, i) \/ OnClose(p, q, i)
        <3>0. PICK q \in Peer : \E i \in 1..Len(shake[p][q]) : Step(q, i)
            BY <2>4 DEF TransportStep
        <3>1. PICK i \in 1..Len(shake[p][q]) : Step(q, i)
            BY <3>0
        <3>2. CASE LocalCandidate(p, q, i) \/ StoreCandidate(p, q, i)
            BY <1>3, <3>2 DEF LocalCandidate, StoreCandidate, OnlyShake, env, app
        <3>3. CASE Link(p, q, i)
            BY <1>3, <3>3 DEF Link, OnlyShake, env, app
        <3>4. CASE OnOpen(p, q, i) \/ OnClose(p, q, i)
            BY <1>3, <3>4 DEF OnOpen, OnClose, OnlyShake, env, app
        <3>5. QED
            BY <3>1, <3>2, <3>3, <3>4
    <2>5. CASE UpdatePeers(p) \/ AttemptFails(p)
        BY <1>3, <2>5 DEF UpdatePeers, AttemptFails, env, app
    <2>6. QED
        BY <1>3, <2>1, <2>2, <2>3, <2>4, <2>5 DEF LoopStep
<1>7. CASE ServerStep
    <2>1. ASSUME NEW p \in Peer, NEW q \in Peer, TellLeft(p, q)
          PROVE  UNCHANGED <<intros, early>>
        BY <2>1 DEF TellLeft, app
    <2>2. QED
        BY <1>2, <1>3, <1>4, <1>7, <2>1 DEF ServerStep
<1>8. ASSUME NEW p \in Peer, AttemptSucceeds(p) \/ WebSocketEnds(p) \/ Drop(p)
      PROVE  UNCHANGED <<intros, early>>
    BY <1>8 DEF AttemptSucceeds, WebSocketEnds, Drop, env, app
<1>9. CASE UNCHANGED vars
    BY <1>3, <1>9 DEF vars
<1>10. QED
    BY <1>2, <1>3, <1>5, <1>6, <1>7, <1>8, <1>9 DEF Next

\* A packet without a channel was sent early.
LEMMA PacketPanics ==
    ASSUME Inductive, NEW p \in Peer, SendPacket(p), run' # run
    PROVE  early[p] /\ \A r \in Peer \ {p} : run'[r] = run[r]
<1>1. TypeOK /\ ChannelsFit /\ out[p] \in Seq(Peer) /\ out[p] # <<>>
    BY DEF Inductive, TypeOK, SendPacket
<1>2. PICK q \in Peer : q = Head(out[p]) /\ q = out[p][1] /\ 1 \in 1..Len(out[p])
    BY <1>1, TailFacts, NotEmpty
<1>3. channel[p][q] = 0 /\ run' = [run EXCEPT ![p] = "panic"]
    BY <1>2 DEF SendPacket, Stops
<1>4. early[p]
    BY <1>1, <1>2, <1>3 DEF ChannelsFit
<1>5. QED
    BY <1>1, <1>3, <1>4 DEF TypeOK

\* A handshake that is not the last has lost its sender to a NewPeer: the first
\* handshake was started by another, or by an introduction of the other side.
LEMMA SignalsPanic ==
    ASSUME Inductive, NEW p \in Peer, NEW q \in Peer, NEW i \in 1..Len(shake[p][q]),
           SignalsEnd(p, q, i)
    PROVE  IntroducedAgain(p, q) /\ \A r \in Peer \ {p} : run'[r] = run[r]
<1>1. \A r \in Peer \ {p} : run'[r] = run[r]
    BY DEF SignalsEnd, Stops, Inductive, TypeOK
<1>2. PairFits(p, q) /\ IntroducedFits(p, q) /\ feeds[p][q] # i
    BY DEF Inductive, SignalsEnd
<1>3. Len(shake[p][q]) \in Nat
    BY HandshakeType DEF Inductive
<1>4. 1 \in 1..Len(shake[p][q]) /\ 2 \in 1..Len(shake[p][q])
    BY <1>2, <1>3 DEF PairFits
<1>5. /\ shake[p][q][2].role = "offers"
      /\ shake[p][q][1].role \in {"offers", "accepts"}
    <2>1. \A k \in 1..Len(shake[p][q]) : shake[p][q][k].role \in {"offers", "accepts"}
        <3>1. \A k \in 1..Len(shake[p][q]) : shake[p][q][k] \in HandshakeSet
            BY HandshakeType DEF Inductive
        <3>2. QED
            BY <3>1 DEF HandshakeSet
    <2>2. HandshakeFits(p, q, 2)
        BY <1>2, <1>4 DEF PairFits
    <2>3. shake[p][q][2].role # "accepts"
        BY <2>2 DEF HandshakeFits
    <2>4. QED
        BY <1>4, <2>1, <2>3
<1>6. intros[p][q] # 0
    BY <1>2, <1>4, <1>5 DEF IntroducedFits
<1>7. intros[p][q] = 1 => Accepts(p, q) /\ intros[q][p] > 0
    <2>1. intros[p][q] = 1 => shake[p][q][1].role # "offers"
        BY <1>2, <1>4, <1>5 DEF IntroducedFits
    <2>2. QED
        BY <1>2, <1>5, <2>1, PairsDiffer DEF IntroducedFits, Accepts
<1>8. intros[p][q] \in Nat /\ intros[q][p] \in Nat
    <2>1. intros \in [Peer -> [Peer -> Nat]]
        BY DEF Inductive, TypeOK
    <2>2. QED
        BY <2>1
<1>9. QED
    BY <1>1, <1>6, <1>7, <1>8 DEF IntroducedAgain

\* A loop that comes to a bad end has a cause.
LEMMA BadEndHasCause ==
    ASSUME Inductive, [Next]_vars, NEW p \in Peer, run'[p] \in {"panic", "hang"}
    PROVE  \/ run[p] \in {"panic", "hang"} \/ early[p]
           \/ \E q \in Peer : IntroducedAgain(p, q)
<1>1. run \in [Peer -> {"connecting", "running", "ended", "panic", "hang"}]
    BY DEF Inductive, TypeOK
<1> DEFINE Caused == \/ run[p] \in {"panic", "hang"} \/ early[p]
                     \/ \E q \in Peer : IntroducedAgain(p, q)
<1>2. CASE run' = run
    BY <1>2
<1>3. ASSUME NEW r \in Peer, NEW how \in {"running", "ended"}, run' = [run EXCEPT ![r] = how]
      PROVE  Caused
    BY <1>1, <1>3
<1>4. CASE SystemStep
    <2>1. PICK r \in Peer : LoopStep(r) \/ TransportStep(r) \/ UpdatePeers(r) \/ AttemptFails(r)
        BY <1>4 DEF SystemStep
    <2>2. CASE SendPacket(r)
        BY <1>2, <2>2, PacketPanics
    <2>3. ASSUME NEW q \in Peer, NEW i \in 1..Len(shake[r][q]), SignalsEnd(r, q, i)
          PROVE  Caused
        BY <2>3, SignalsPanic
    <2>4. ASSUME NEW q \in Peer, NEW i \in 1..Len(shake[r][q]),
                 HandshakeStep(r, q, i), ~SignalsEnd(r, q, i)
          PROVE  run' = run
        BY <2>4 DEF HandshakeStep, MakeOffer, AwaitAnswer, AwaitOffer, SetLocalDescription,
           SendPending, ListenForCandidates, HandshakeDone, PeerLoopDone, OnlyShake
    <2>5. CASE NewPeer(r) \/ PeerLeft(r) \/ Signalled(r)
        BY <1>2, <2>5 DEF NewPeer, PeerLeft, Signalled
    <2>6. CASE TransportStep(r)
        BY <1>2, <2>6 DEF TransportStep, LocalCandidate, StoreCandidate, Link, OnOpen,
           OnClose, OnlyShake
    <2>7. CASE UpdatePeers(r)
        BY <1>2, <2>7 DEF UpdatePeers
    <2>8. CASE AttemptFails(r)
        BY <1>2, <1>3, <2>8 DEF AttemptFails, Ends, Stops, Outcome
    <2>9. QED
        BY <1>2, <2>1, <2>2, <2>3, <2>4, <2>5, <2>6, <2>7, <2>8 DEF LoopStep
<1>5. CASE ServerStep
    BY <1>2, <1>5 DEF ServerStep, Introduce, TellLeft
<1>6. ASSUME NEW r \in Peer, AttemptSucceeds(r) \/ WebSocketEnds(r) \/ Drop(r)
      PROVE  Caused
    BY <1>3, <1>6 DEF AttemptSucceeds, WebSocketEnds, Drop, Ends, Stops, Outcome
<1>7. ASSUME NEW r \in Peer, NEW q \in Peer, Send(r, q)
      PROVE  Caused
    BY <1>2, <1>7 DEF Send
<1>8. CASE UNCHANGED vars
    BY <1>2, <1>8 DEF vars
<1>9. QED
    BY <1>4, <1>5, <1>6, <1>7, <1>8 DEF Next

\* message_loop panics or spins only after the application answered a packet too
\* early, or after a pair of peers was introduced again.
THEOREM PanicsHaveCauseHolds == Spec => []PanicsHaveCause
<1>1. Init => PanicsHaveCause
    BY DEF Init, PanicsHaveCause
<1>2. Inductive /\ PanicsHaveCause /\ [Next]_vars => PanicsHaveCause'
    <2> SUFFICES ASSUME Inductive, PanicsHaveCause, [Next]_vars,
                        NEW p \in Peer, run'[p] \in {"panic", "hang"}
                 PROVE  early'[p] \/ \E q \in Peer : IntroducedAgain(p, q)'
        BY DEF PanicsHaveCause
    <2>1. early[p] \/ \E q \in Peer : IntroducedAgain(p, q)
        BY BadEndHasCause DEF PanicsHaveCause
    <2>2. ASSUME NEW q \in Peer, IntroducedAgain(p, q)
          PROVE  IntroducedAgain(p, q)'
        <3>1. intros'[p][q] >= intros[p][q] /\ intros'[q][p] >= intros[q][p]
            BY CausesStay
        <3>2. /\ intros[p][q] \in Nat /\ intros[q][p] \in Nat
              /\ intros'[p][q] \in Nat /\ intros'[q][p] \in Nat
            <4>1. intros \in [Peer -> [Peer -> Nat]] /\ intros' \in [Peer -> [Peer -> Nat]]
                BY NextInductive DEF Inductive, TypeOK
            <4>2. QED
                BY <4>1
        <3>3. QED
            BY <2>2, <3>1, <3>2 DEF IntroducedAgain
    <2>3. QED
        BY <2>1, <2>2, CausesStay
<1>3. QED
    BY <1>1, <1>2, InitInductive, NextInductive, PTL DEF Spec

=============================================================================
