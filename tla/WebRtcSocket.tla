---------------------------- MODULE WebRtcSocket ----------------------------
(***************************************************************************)
(* matchbox_socket: run_socket with its signaling_loop and message_loop,   *)
(* the WebRTC handshakes (native and wasm), the peer loops, and the socket *)
(* that the application polls.  A message_loop is one task: its events,    *)
(* handshakes, peer loops and outgoing packets interleave at every await,  *)
(* and a panic in any of them ends them all.                               *)
(* The signaling server (it introduces p to q, relays signals, tells who   *)
(* left) and the transport (ICE, data channels) are the environment.       *)
(***************************************************************************)
EXTENDS Naturals, Sequences

CONSTANTS
    Peer,        \* peer ids
    Offers,      \* the pairs <<p, q>> such that p may be sent NewPeer(q)
    Attempts,    \* the values of reconnect_attempts
    NoLimit,     \* reconnect_attempts(None)
    Scenes       \* what a behaviour may start from: what each peer runs on
                 \* (platform), and the bounds: introductions of a pair (intros),
                 \* times a peer is told that another left (lefts), packets that
                 \* the applications send (packets)

ASSUME OffersAssumption == \A o \in Offers : o \in Peer \X Peer /\ o[1] # o[2]
ASSUME AttemptsAssumption == Attempts \subseteq Nat \cup {NoLimit}
ASSUME ScenesAssumption ==
    Scenes \subseteq [platform : [Peer -> {"native", "wasm"}],
                     intros : Nat, lefts : Nat, packets : Nat]

VARIABLES
    scene,     \* a parameter: the member of Scenes
    run,       \* run_socket of p: "connecting", "running", "ended", "panic"
               \* or "hang"
    tries,     \* the attempts that Signaller::new has left
    inbox,     \* events of p's websocket that message_loop has not handled
    intros,    \* intros[p][q]: times that the server sent p NewPeer(q)
    lefts,     \* lefts[p][q]: times that the server sent p PeerLeft(q)
    shake,     \* shake[p][q]: the handshakes of p with q, oldest first
    feeds,     \* handshake_signals: the handshake that signals of q go to, or 0
    channel,   \* data_channels: the handshake whose channels reach q, or 0
    states,    \* the queue of peer states that update_peers reads
    peers,     \* the map `peers` of the socket
    told,      \* peers that update_peers has reported as connected
    heard,     \* peers of which the application has received a packet
    out,       \* packets of the application not sent yet, by receiver
    sent,      \* packets the applications have sent
    early      \* the application sent to a peer not yet reported to it

env == <<scene, tries, intros, lefts>>
app == <<peers, told, sent, early>>
vars == <<scene, run, tries, inbox, intros, lefts, shake, feeds,
          channel, states, peers, told, heard, out, sent, early>>

\* A handshake, the connection it makes and the peer_loop it turns into:
\*   role    offers (offer_handshake) or accepts (accept_handshake)
\*   at      make, answer: the offerer;  offer, local: the other side;
\*           flush, complete: complete_handshake;  up: peer_loop;  closed
\*   box     signals in its channel
\*   remote  the other side's connection, by its place in shake; 0: not set
\*   cands   connections of which it has added a candidate
\*   local   native: none, storing, pending or sent (its own candidate)
\*   link    none; linked; open (on_open fired); closed or lost (on_close
\*           fired, after or before on_open)
Fresh(role, at, box) ==
    [role |-> role, at |-> at, box |-> box, remote |-> 0, cands |-> {},
     local |-> "none", link |-> "none"]

Signal(kind, i, j, cand) == [kind |-> kind, of |-> i, to |-> j, cand |-> cand]

Init ==
    /\ scene \in Scenes
    /\ run = [p \in Peer |-> "connecting"]
    /\ tries \in [Peer -> Attempts]
    /\ inbox = [p \in Peer |-> <<>>]
    /\ intros = [p \in Peer |-> [q \in Peer |-> 0]]
    /\ lefts = [p \in Peer |-> [q \in Peer |-> 0]]
    /\ shake = [p \in Peer |-> [q \in Peer |-> <<>>]]
    /\ feeds = [p \in Peer |-> [q \in Peer |-> 0]]
    /\ channel = [p \in Peer |-> [q \in Peer |-> 0]]
    /\ states = [p \in Peer |-> <<>>]
    /\ peers = [p \in Peer |-> [q \in Peer |-> "None"]]
    /\ told = [p \in Peer |-> {}]
    /\ heard = [p \in Peer |-> {}]
    /\ out = [p \in Peer |-> <<>>]
    /\ sent = 0
    /\ early = [p \in Peer |-> FALSE]

Gone(p) == run[p] = "ended"

\* How run_socket ends when one of its loops ends with `result`: Ok and
\* StreamExhausted become Ok; any other error reaches build's map_err, where
\* UnknownFormat is unimplemented!().  An Ok and an Err end are not told apart.
Outcome(result) ==
    IF result \in {"Ok", "StreamExhausted", "WebSocket", "NegotiationFailed"}
    THEN "ended" ELSE "panic"

\* The loops of p are dropped, with what they had not taken: events, signals,
\* packets and the reports to a socket that is of no use any more.
Stops(p, how) ==
    /\ run' = [run EXCEPT ![p] = how]
    /\ inbox' = [inbox EXCEPT ![p] = <<>>]
    /\ out' = [out EXCEPT ![p] = <<>>]
    /\ states' = [states EXCEPT ![p] = <<>>]
    /\ shake' = [shake EXCEPT ![p] =
                   [q \in Peer |-> [i \in DOMAIN shake[p][q] |->
                       LET h == shake[p][q][i]
                       IN  [Fresh(h.role, h.at, <<>>) EXCEPT !.remote = h.remote]]]]

Ends(p, result) == Stops(p, Outcome(result))

\* The events that p's websocket delivers, with what p itself takes off its own.
Mail(box, p, event) ==
    IF run[p] = "running" THEN [box EXCEPT ![p] = Append(@, event)] ELSE box

\* signal_peer.send: the server relays it.
SendSignal(p, q, sig) ==
    inbox' = Mail(inbox, q, [kind |-> "signal", from |-> p, sig |-> sig])

Report(p, q, state) ==
    states' = [states EXCEPT ![p] = Append(@, <<q, state>>)]

-----------------------------------------------------------------------------
(* signaling_loop *)

MutAttemptFails(p) ==
    /\ run[p] = "connecting"
    /\ tries[p] # NoLimit
    /\ IF tries[p] <= 1
       THEN Ends(p, "NegotiationFailed") /\ UNCHANGED tries
       ELSE UNCHANGED <<tries, run, inbox, out, states, shake>>
    /\ UNCHANGED <<scene, intros, lefts, app, feeds, channel, heard>>

\* Without a limit a failed attempt changes nothing: it is tried again at once.
AttemptFails(p) ==
    /\ run[p] = "connecting"
    /\ tries[p] # NoLimit
    /\ IF tries[p] <= 1
       THEN Ends(p, "NegotiationFailed") /\ UNCHANGED tries
       ELSE tries' = [tries EXCEPT ![p] = @ - 1] /\ UNCHANGED <<run, inbox, out, states, shake>>
    /\ UNCHANGED <<scene, intros, lefts, app, feeds, channel, heard>>

AttemptSucceeds(p) ==
    /\ run[p] = "connecting"
    /\ run' = [run EXCEPT ![p] = "running"]
    /\ tries' = [tries EXCEPT ![p] = 0]
    /\ UNCHANGED <<scene, intros, lefts, app, inbox, shake, feeds, channel, states,
                   heard, out>>

\* The websocket ends or fails: signaling_loop, and run_socket with it, ends.
WebSocketEnds(p) ==
    /\ run[p] = "running"
    /\ \E result \in {"StreamExhausted", "WebSocket"} : Ends(p, result)
    /\ UNCHANGED <<env, app, feeds, channel, heard>>

-----------------------------------------------------------------------------
(* message_loop: events *)

Event(p, kind) ==
    /\ run[p] = "running"
    /\ inbox[p] # <<>>
    /\ Head(inbox[p]).kind = kind

TakeEvent(p) == inbox' = [inbox EXCEPT ![p] = Tail(@)]

\* PeerEvent::NewPeer: the sender that was there, if any, is dropped.
NewPeer(p) ==
    /\ Event(p, "new")
    /\ LET q == Head(inbox[p]).from
       IN  /\ shake' = [shake EXCEPT ![p][q] = Append(@, Fresh("offers", "make", <<>>))]
           /\ feeds' = [feeds EXCEPT ![p][q] = Len(shake[p][q]) + 1]
    /\ TakeEvent(p)
    /\ UNCHANGED <<env, app, run, channel, states, heard, out>>

MutPeerLeft(p) ==
    /\ Event(p, "left")
    /\ Report(p, Head(inbox[p]).from, "Disconnected")
    /\ channel' = [channel EXCEPT ![p][Head(inbox[p]).from] = 0]
    /\ TakeEvent(p)
    /\ UNCHANGED <<env, app, run, shake, feeds, heard, out>>

\* PeerEvent::PeerLeft: reported, and nothing is forgotten.
PeerLeft(p) ==
    /\ Event(p, "left")
    /\ Report(p, Head(inbox[p]).from, "Disconnected")
    /\ TakeEvent(p)
    /\ UNCHANGED <<env, app, run, shake, feeds, channel, heard, out>>

Listens(h) == h.at \notin {"up", "closed"}

MutSignalled(p) ==
    /\ Event(p, "signal")
    /\ LET q == Head(inbox[p]).from
           sig == Head(inbox[p]).sig
           i == feeds[p][q]
       IN  IF i = 0 \/ (i # 0 /\ ~Listens(shake[p][q][i]))
           THEN /\ shake' = [shake EXCEPT ![p][q] = Append(@, Fresh("accepts", "offer", <<sig>>))]
                /\ feeds' = [feeds EXCEPT ![p][q] = Len(shake[p][q]) + 1]
           ELSE /\ shake' = [shake EXCEPT ![p][q][i].box = Append(@, sig)]
                /\ UNCHANGED feeds
    /\ TakeEvent(p)
    /\ UNCHANGED <<env, app, run, channel, states, heard, out>>

\* PeerEvent::Signal and SuperPeerSignal: the first one from q starts
\* accept_handshake; one for a handshake that has finished is ignored.
Signalled(p) ==
    /\ Event(p, "signal")
    /\ LET q == Head(inbox[p]).from
           sig == Head(inbox[p]).sig
           i == feeds[p][q]
       IN  IF i = 0
           THEN /\ shake' = [shake EXCEPT ![p][q] = Append(@, Fresh("accepts", "offer", <<sig>>))]
                /\ feeds' = [feeds EXCEPT ![p][q] = Len(shake[p][q]) + 1]
           ELSE /\ shake' = IF Listens(shake[p][q][i])
                            THEN [shake EXCEPT ![p][q][i].box = Append(@, sig)]
                            ELSE shake
                /\ UNCHANGED feeds
    /\ TakeEvent(p)
    /\ UNCHANGED <<env, app, run, channel, states, heard, out>>

-----------------------------------------------------------------------------
(* handshakes; i is the place of the handshake in shake[p][q] *)

Wasm(p) == scene.platform[p] = "wasm"

At(p, q, i, step) == run[p] = "running" /\ shake[p][q][i].at = step

Becomes(p, q, i, h) == shake' = [shake EXCEPT ![p][q][i] = h]

OnlyShake == UNCHANGED <<env, app, run, feeds, channel, states, heard, out>>

\* offer_handshake up to the Offer, which on wasm waits for the candidates and
\* has them in it.
MakeOffer(p, q, i) ==
    /\ At(p, q, i, "make")
    /\ Becomes(p, q, i, [shake[p][q][i] EXCEPT !.at = "answer"])
    /\ SendSignal(p, q, Signal("offer", i, 0, Wasm(p)))
    /\ OnlyShake

\* What a candidate adds to the candidates of p: while the description is still
\* awaited, native ignores it and wasm keeps it for later.
Candidates(p, h, sig) ==
    IF sig.kind = "candidate" /\ (h.at = "complete" \/ Wasm(p))
    THEN h.cands \cup {sig.of} ELSE h.cands

\* The loop that waits for the Answer.
AwaitAnswer(p, q, i) ==
    /\ At(p, q, i, "answer")
    /\ shake[p][q][i].box # <<>>
    /\ LET h == shake[p][q][i]
           sig == Head(h.box)
           read == [h EXCEPT !.box = Tail(@)]
       IN  Becomes(p, q, i,
             IF sig.kind = "answer"
             THEN [read EXCEPT !.at = "flush", !.remote = sig.of,
                               !.cands = IF sig.cand THEN @ \cup {sig.of} ELSE @]
             ELSE [read EXCEPT !.cands = Candidates(p, h, sig)])
    /\ UNCHANGED inbox
    /\ OnlyShake

MutAwaitOffer(p, q, i) ==
    /\ At(p, q, i, "offer")
    /\ shake[p][q][i].box # <<>>
    /\ LET h == shake[p][q][i]
           sig == Head(h.box)
           read == [h EXCEPT !.box = Tail(@)]
       IN  IF sig.kind = "offer"
           THEN /\ Becomes(p, q, i,
                     [read EXCEPT !.at = IF Wasm(p) THEN "flush" ELSE "local",
                                  !.remote = sig.of,
                                  !.cands = IF sig.cand THEN @ \cup {sig.of} ELSE @])
                /\ SendSignal(p, q, Signal("answer", i, sig.of, FALSE))
           ELSE /\ Becomes(p, q, i, [read EXCEPT !.cands = Candidates(p, h, sig)])
                /\ UNCHANGED inbox
    /\ OnlyShake

\* The loop that waits for the Offer, and the Answer.  Native sends it before
\* set_local_description, wasm when the candidates have been gathered.
AwaitOffer(p, q, i) ==
    /\ At(p, q, i, "offer")
    /\ shake[p][q][i].box # <<>>
    /\ LET h == shake[p][q][i]
           sig == Head(h.box)
           read == [h EXCEPT !.box = Tail(@)]
       IN  IF sig.kind = "offer"
           THEN /\ Becomes(p, q, i,
                     [read EXCEPT !.at = IF Wasm(p) THEN "flush" ELSE "local",
                                  !.remote = sig.of,
                                  !.cands = IF sig.cand THEN @ \cup {sig.of} ELSE @])
                /\ SendSignal(p, q, Signal("answer", i, sig.of, Wasm(p)))
           ELSE /\ Becomes(p, q, i, [read EXCEPT !.cands = Candidates(p, h, sig)])
                /\ UNCHANGED inbox
    /\ OnlyShake

SetLocalDescription(p, q, i) ==
    /\ At(p, q, i, "local")
    /\ Becomes(p, q, i, [shake[p][q][i] EXCEPT !.at = "flush"])
    /\ UNCHANGED inbox
    /\ OnlyShake

\* complete_handshake begins: native sends what is pending by now.
SendPending(p, q, i) ==
    /\ At(p, q, i, "flush")
    /\ LET h == [shake[p][q][i] EXCEPT !.at = "complete"]
       IN  IF h.local = "pending"
           THEN /\ Becomes(p, q, i, [h EXCEPT !.local = "sent"])
                /\ SendSignal(p, q, Signal("candidate", i, h.remote, TRUE))
           ELSE Becomes(p, q, i, h) /\ UNCHANGED inbox
    /\ OnlyShake

\* complete_handshake waits: candidates are added, other signals ignored.
ListenForCandidates(p, q, i) ==
    /\ At(p, q, i, "complete")
    /\ shake[p][q][i].box # <<>>
    /\ LET h == shake[p][q][i]
       IN  Becomes(p, q, i, [h EXCEPT !.box = Tail(@),
                                      !.cands = Candidates(p, h, Head(h.box))])
    /\ UNCHANGED inbox
    /\ OnlyShake

\* A NewPeer has replaced the sender and the signals are used up: next() is None.
\* A handshake that awaits a description panics; the select of wasm's
\* complete_handshake spins, and the browser gets no turn to open the channels.
SignalsEnd(p, q, i) ==
    /\ run[p] = "running"
    /\ feeds[p][q] # i
    /\ LET h == shake[p][q][i]
       IN  /\ h.box = <<>>
           /\ \/ /\ h.at \in {"answer", "offer"}
                 /\ Stops(p, "panic")
              \/ /\ h.at = "complete" /\ Wasm(p)
                 /\ h.link \notin {"open", "closed"}
                 /\ Stops(p, "hang")
    /\ UNCHANGED <<env, app, feeds, channel, heard>>

\* The handshake is ready: data_channels, the report, and peer_loop.
HandshakeDone(p, q, i) ==
    /\ At(p, q, i, "complete")
    /\ shake[p][q][i].link \in {"open", "closed"}
    /\ Becomes(p, q, i, [shake[p][q][i] EXCEPT !.at = "up", !.box = <<>>])
    /\ channel' = [channel EXCEPT ![p][q] = i]
    /\ Report(p, q, "Connected")
    /\ UNCHANGED <<env, app, run, inbox, feeds, heard, out>>

MutPeerLoopDone(p, q, i) ==
    /\ At(p, q, i, "up")
    /\ \/ shake[p][q][i].link = "closed"
       \/ ~Wasm(p) /\ channel[p][q] # i
    /\ Becomes(p, q, i, [shake[p][q][i] EXCEPT !.at = "closed"])
    /\ IF lefts[p][q] = 0 THEN Report(p, q, "Disconnected") ELSE UNCHANGED states
    /\ UNCHANGED <<env, app, run, inbox, feeds, channel, heard, out>>

\* peer_loop ends when the channels close; on native also when a later handshake
\* has replaced the senders of its packets.
PeerLoopDone(p, q, i) ==
    /\ At(p, q, i, "up")
    /\ \/ shake[p][q][i].link = "closed"
       \/ ~Wasm(p) /\ channel[p][q] # i
    /\ Becomes(p, q, i, [shake[p][q][i] EXCEPT !.at = "closed"])
    /\ Report(p, q, "Disconnected")
    /\ UNCHANGED <<env, app, run, inbox, feeds, channel, heard, out>>

-----------------------------------------------------------------------------
(* message_loop: outgoing packets, and its end *)

\* The packet reaches q's application while q's end of the connection is up.
SendPacket(p) ==
    /\ run[p] = "running"
    /\ out[p] # <<>>
    /\ LET q == Head(out[p])
           i == channel[p][q]
       IN  IF i = 0
           THEN Stops(p, "panic") /\ UNCHANGED heard
           ELSE /\ heard' = IF /\ shake[p][q][i].link = "open"
                               /\ shake[q][p][shake[p][q][i].remote].link \in {"linked", "open"}
                            THEN [heard EXCEPT ![q] = @ \cup {p}] ELSE heard
                /\ out' = [out EXCEPT ![p] = Tail(@)]
                /\ UNCHANGED <<run, inbox, states, shake>>
    /\ UNCHANGED <<env, app, feeds, channel>>

-----------------------------------------------------------------------------
(* the transport *)

\* on_local_candidate of native runs in a task of its own: it looks for the
\* remote description, and either sends the candidate or stores it, later.
LocalCandidate(p, q, i) ==
    /\ run[p] = "running"
    /\ ~Wasm(p)
    /\ shake[p][q][i].local = "none"
    /\ shake[p][q][i].at \in {"answer", "flush", "complete"}
    /\ LET h == shake[p][q][i]
       IN  IF h.remote # 0
           THEN /\ Becomes(p, q, i, [h EXCEPT !.local = "sent"])
                /\ SendSignal(p, q, Signal("candidate", i, h.remote, TRUE))
           ELSE Becomes(p, q, i, [h EXCEPT !.local = "storing"]) /\ UNCHANGED inbox
    /\ OnlyShake

StoreCandidate(p, q, i) ==
    /\ run[p] = "running"
    /\ shake[p][q][i].local = "storing"
    /\ Becomes(p, q, i, [shake[p][q][i] EXCEPT !.local = "pending"])
    /\ UNCHANGED inbox
    /\ OnlyShake

\* ICE: the descriptions match, and one side knows a candidate of the other.
Linkable(p, i, q, j) ==
    LET h == shake[p][q][i]
        g == shake[q][p][j]
    IN  /\ run[p] = "running" /\ run[q] = "running"
        /\ h.link = "none" /\ g.link = "none"
        /\ h.remote = j /\ g.remote = i
        /\ {h.at, g.at} \subseteq {"flush", "complete"}
        /\ j \in h.cands \/ i \in g.cands

Link(p, q, i) ==
    /\ \E j \in 1..Len(shake[q][p]) :
           /\ Linkable(p, i, q, j)
           /\ shake' = [shake EXCEPT ![p][q][i].link = "linked",
                                     ![q][p][j].link = "linked"]
    /\ UNCHANGED inbox
    /\ OnlyShake

\* on_open of the last data channel.
OnOpen(p, q, i) ==
    /\ run[p] = "running"
    /\ shake[p][q][i].link = "linked"
    /\ Becomes(p, q, i, [shake[p][q][i] EXCEPT !.link = "open"])
    /\ UNCHANGED inbox
    /\ OnlyShake

\* on_close: the other side is gone.  The notice waits in a channel of its own
\* until peer_loop reads it.
OnClose(p, q, i) ==
    /\ run[p] = "running"
    /\ run[q] \notin {"running", "hang"}
    /\ \/ /\ shake[p][q][i].link = "open"
          /\ Becomes(p, q, i, [shake[p][q][i] EXCEPT !.link = "closed"])
       \/ /\ shake[p][q][i].link = "linked"
          /\ Becomes(p, q, i, [shake[p][q][i] EXCEPT !.link = "lost"])
    /\ UNCHANGED inbox
    /\ OnlyShake

-----------------------------------------------------------------------------
(* the signaling server *)

\* The server sends p NewPeer(q): again when a child moves away and back, and
\* maybe after q has gone, when the send crosses q's departure.
Introduce(p, q) ==
    /\ <<p, q>> \in Offers
    /\ intros[p][q] < scene.intros
    /\ run[p] = "running"
    /\ run[q] # "connecting"
    /\ intros' = [intros EXCEPT ![p][q] = @ + 1]
    /\ inbox' = Mail(inbox, p, [kind |-> "new", from |-> q])
    /\ UNCHANGED <<scene, run, tries, lefts, app, shake, feeds, channel,
                   states, heard, out>>

\* The server sends p PeerLeft(q): q's websocket has ended, or q was moved.
TellLeft(p, q) ==
    /\ <<p, q>> \in Offers \/ <<q, p>> \in Offers
    /\ run[p] = "running"
    /\ lefts[p][q] < scene.lefts
    /\ Gone(q) \/ lefts[p][q] < intros[p][q] + intros[q][p]
    /\ lefts' = [lefts EXCEPT ![p][q] = @ + 1]
    /\ inbox' = Mail(inbox, p, [kind |-> "left", from |-> q])
    /\ UNCHANGED <<scene, run, tries, intros, app, shake, feeds, channel,
                   states, heard, out>>

-----------------------------------------------------------------------------
(* the application *)

\* Where the last queued state of q is: one place, or none.
LastOf(p, q) ==
    {k \in 1..Len(states[p]) :
        states[p][k][1] = q /\ \A l \in (k + 1)..Len(states[p]) : states[p][l][1] # q}

\* update_peers takes all that is queued; the last state of a peer stays.
UpdatePeers(p) ==
    /\ run[p] = "running"
    /\ states[p] # <<>>
    /\ peers' = [peers EXCEPT ![p] =
                   [q \in Peer |-> IF LastOf(p, q) = {} THEN @[q]
                                   ELSE states[p][CHOOSE k \in LastOf(p, q) : TRUE][2]]]
    /\ told' = [told EXCEPT ![p] = @ \cup
                  {q \in Peer : \E k \in 1..Len(states[p]) :
                                   states[p][k] = <<q, "Connected">>}]
    /\ states' = [states EXCEPT ![p] = <<>>]
    /\ UNCHANGED <<env, run, inbox, shake, feeds, channel, heard, out, sent, early>>

\* WebRtcChannel::send, to a peer that was reported as connected, or in answer to
\* a packet of a peer that was not yet.
Send(p, q) ==
    /\ run[p] = "running"
    /\ sent < scene.packets
    /\ q \in told[p] \cup heard[p]
    /\ out' = [out EXCEPT ![p] = Append(@, q)]
    /\ sent' = sent + 1
    /\ early' = [early EXCEPT ![p] = @ \/ q \notin told[p]]
    /\ UNCHANGED <<env, run, inbox, shake, feeds, channel, states, peers, told,
                   heard>>

\* The application drops the socket: message_loop finds its channels closed, at
\* the next packet, state or oneshot, and exits cleanly.
Drop(p) ==
    /\ run[p] = "running"
    /\ Ends(p, "Ok")
    /\ UNCHANGED <<env, app, feeds, channel, heard>>

-----------------------------------------------------------------------------

HandshakeStep(p, q, i) ==
    \/ MakeOffer(p, q, i) \/ AwaitAnswer(p, q, i) \/ AwaitOffer(p, q, i)
    \/ SetLocalDescription(p, q, i) \/ SendPending(p, q, i)
    \/ ListenForCandidates(p, q, i) \/ SignalsEnd(p, q, i)
    \/ HandshakeDone(p, q, i) \/ PeerLoopDone(p, q, i)

\* One turn of the loops of p.
LoopStep(p) ==
    \/ NewPeer(p) \/ PeerLeft(p) \/ Signalled(p)
    \/ SendPacket(p)
    \/ \E q \in Peer : \E i \in 1..Len(shake[p][q]) : HandshakeStep(p, q, i)

TransportStep(p) ==
    \E q \in Peer : \E i \in 1..Len(shake[p][q]) :
        \/ LocalCandidate(p, q, i) \/ StoreCandidate(p, q, i)
        \/ Link(p, q, i) \/ OnOpen(p, q, i) \/ OnClose(p, q, i)

ServerStep == \E p, q \in Peer : Introduce(p, q) \/ TellLeft(p, q)

\* What goes on by itself: the loops, the transport, the application's polling, and
\* the end of an attempt to connect.
SystemStep ==
    \E p \in Peer :
        LoopStep(p) \/ TransportStep(p) \/ UpdatePeers(p) \/ AttemptFails(p)

Next ==
    \/ SystemStep
    \/ ServerStep
    \/ \E p \in Peer :
           \/ AttemptSucceeds(p) \/ WebSocketEnds(p) \/ Drop(p)
           \/ \E q \in Peer : Send(p, q)

\* The executor polls the loops, ICE gets through when it can, the application
\* polls update_peers, and an attempt to connect ends.  One condition is enough
\* for all of them: no step can be repeated for ever, so none is starved.
Fairness == WF_vars(SystemStep)

Spec == Init /\ [][Next]_vars /\ Fairness

-----------------------------------------------------------------------------

SignalSet == [kind : {"offer", "answer", "candidate"}, of : Nat, to : Nat, cand : BOOLEAN]
EventSet == [kind : {"new", "left"}, from : Peer]
            \cup [kind : {"signal"}, from : Peer, sig : SignalSet]
HandshakeSet ==
    [role : {"offers", "accepts"},
     at : {"make", "answer", "offer", "local", "flush", "complete", "up", "closed"},
     box : Seq(SignalSet), remote : Nat, cands : SUBSET Nat,
     local : {"none", "storing", "pending", "sent"},
     link : {"none", "linked", "open", "closed", "lost"}]
StateSet == {"Connected", "Disconnected"}

\* Types; a channel is that of a handshake that was started.
TypeOK ==
    /\ scene \in Scenes
    /\ run \in [Peer -> {"connecting", "running", "ended", "panic", "hang"}]
    /\ tries \in [Peer -> Nat \cup {NoLimit}]
    /\ inbox \in [Peer -> Seq(EventSet)]
    /\ intros \in [Peer -> [Peer -> Nat]] /\ lefts \in [Peer -> [Peer -> Nat]]
    /\ shake \in [Peer -> [Peer -> Seq(HandshakeSet)]]
    /\ feeds \in [Peer -> [Peer -> Nat]] /\ channel \in [Peer -> [Peer -> Nat]]
    /\ \A p, q \in Peer : channel[p][q] <= Len(shake[p][q])
    /\ states \in [Peer -> Seq(Peer \X StateSet)]
    /\ peers \in [Peer -> [Peer -> {"None"} \cup StateSet]]
    /\ told \in [Peer -> SUBSET Peer] /\ heard \in [Peer -> SUBSET Peer]
    /\ out \in [Peer -> Seq(Peer)]
    /\ sent \in Nat
    /\ early \in [Peer -> BOOLEAN]

\* A message_loop never panics or spins but for two causes: the application
\* answered a packet of a peer that update_peers had not reported yet (expect in
\* the sending of packets), or the server named p a peer with which it had been
\* introduced before (the sender that NewPeer replaces is the one a running
\* handshake reads from).  In particular a packet for a peer that has left, or is
\* being left, is safe.
IntroducedAgain(p, q) == intros[p][q] > 0 /\ intros[p][q] + intros[q][p] > 1

PanicsHaveCause ==
    \A p \in Peer : run[p] \in {"panic", "hang"} =>
        early[p] \/ \E q \in Peer : IntroducedAgain(p, q)

\* At most one handshake with a peer ever completes, however often the server
\* introduces it and tells that it left: what is reported of a peer is about one
\* connection, and no report of an older connection overtakes it.
OneConnection ==
    \A p, q \in Peer : \A i, j \in 1..Len(shake[p][q]) :
        {shake[p][q][i].at, shake[p][q][j].at} \subseteq {"up", "closed"} => i = j

\* A packet, a report and a reported peer mean a channel: unless the application
\* sent it early, a packet never comes to message_loop before its channel.
ChannelsFit ==
    \A p, q \in Peer :
        channel[p][q] = 0 =>
            /\ q \notin told[p]
            /\ \A k \in 1..Len(states[p]) : states[p][k] # <<q, "Connected">>
            /\ early[p] \/ \A k \in 1..Len(out[p]) : out[p][k] # q

\* p has answered q: only a peer that has no handshake with q yet does.
Accepts(p, q) == shake[p][q] # <<>> /\ shake[p][q][1].role = "accepts"

\* A signal of q that p has not read: an answer is that of q's one
\* accept_handshake.
SignalFits(p, q, sig) == sig.kind = "answer" => sig.of = 1 /\ Accepts(q, p)

EventFits(p, e) ==
    /\ e.from # p
    /\ e.kind = "signal" => shake[e.from][p] # <<>> /\ SignalFits(p, e.from, e.sig)

InboxFits(p) == \A k \in 1..Len(inbox[p]) : EventFits(p, inbox[p][k])

\* What a place in shake, a role and a step say of each other.
HandshakeFits(p, q, i) ==
    LET h == shake[p][q][i]
    IN  /\ h.role = "accepts" => i = 1
        /\ h.at \in {"make", "answer"} => h.role = "offers"
        /\ h.at \in {"offer", "local"} => h.role = "accepts"
        /\ h.at \in {"make", "answer", "offer"} => h.remote = 0
        /\ \A k \in 1..Len(h.box) : SignalFits(p, q, h.box[k])

\* An offer_handshake that has read an answer is with q's accept_handshake; when
\* it has been linked, so is that one with it.
Linked(h) == h.link # "none" \/ h.at \in {"up", "closed"}

PartnerFits(p, q, i) ==
    LET h == shake[p][q][i]
    IN  h.role = "offers" =>
            /\ h.remote # 0 => h.remote = 1 /\ Accepts(q, p)
            /\ Linked(h) => h.remote = 1 /\ Accepts(q, p) /\ shake[q][p][1].remote = i

\* The signals of q that go to p's last handshake with it; of two peers at most
\* one accepts.
PairFits(p, q) ==
    /\ p = q => shake[p][q] = <<>>
    /\ feeds[p][q] = Len(shake[p][q])
    /\ Accepts(p, q) => shake[q][p] # <<>> /\ ~Accepts(q, p)
    /\ \A i \in 1..Len(shake[p][q]) : HandshakeFits(p, q, i) /\ PartnerFits(p, q, i)

\* What the number of introductions says of the events NewPeer and of the
\* handshakes that they started.
IsNew(p, q, k) == inbox[p][k].kind = "new" /\ inbox[p][k].from = q

IntroducedFits(p, q) ==
    /\ intros[p][q] = 0 =>
          /\ \A k \in 1..Len(inbox[p]) : ~IsNew(p, q, k)
          /\ \A i \in 1..Len(shake[p][q]) : shake[p][q][i].role # "offers"
    /\ intros[p][q] = 1 =>
          /\ \A k, l \in 1..Len(inbox[p]) : IsNew(p, q, k) /\ IsNew(p, q, l) => k = l
          /\ \A i \in 1..Len(shake[p][q]) : shake[p][q][i].role = "offers" =>
                /\ \A j \in 1..Len(shake[p][q]) : shake[p][q][j].role = "offers" => i = j
                /\ \A k \in 1..Len(inbox[p]) : ~IsNew(p, q, k)
    /\ Accepts(p, q) => intros[q][p] > 0

\* What every step keeps.
Inductive ==
    /\ TypeOK
    /\ ChannelsFit
    /\ \A p \in Peer : InboxFits(p)
    /\ \A p, q \in Peer : PairFits(p, q) /\ IntroducedFits(p, q)

\* The inductive invariant, and the consequence of it that is about connections.
Invariant == Inductive /\ OneConnection

\* A peer that is gone does not stay in connected_peers, although PeerLeft may be
\* handled while its handshake still runs and reports it connected afterwards.
GoneIsDropped ==
    \A p, q \in Peer :
        Gone(q) ~> [](\/ peers[p][q] # "Connected"
                     \/ run[p] # "running")

Undisturbed(p, q) ==
    /\ run[p] = "running" /\ run[q] = "running"
    /\ lefts[p][q] = 0 /\ lefts[q][p] = 0
    /\ intros[p][q] + intros[q][p] <= 1

\* Two peers that are introduced once, and stay, are reported connected to both
\* applications: native or wasm, and although the native on_local_candidate may
\* store a candidate after the pending ones were sent, for ever.
Rendezvous ==
    \A o \in Offers :
        intros[o[1]][o[2]] = 1 ~>
            \/ peers[o[1]][o[2]] = "Connected" /\ peers[o[2]][o[1]] = "Connected"
            \/ ~Undisturbed(o[1], o[2])

\* With a limit, Signaller::new ends: connected, or with ConnectionFailed.
AttemptsEnd ==
    \A p \in Peer :
        (run[p] = "connecting" /\ tries[p] # NoLimit) ~> run[p] # "connecting"

=============================================================================
