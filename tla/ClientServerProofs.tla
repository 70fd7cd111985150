------------------------- MODULE ClientServerProofs -------------------------
(***************************************************************************)
(* Proofs about ClientServer, for any set of peers and any interleaving of *)
(* their tasks.                                                            *)
(***************************************************************************)
EXTENDS ClientServer, TLAPS

LEMMA InitInvariant == Init => Invariant
<1> SUFFICES ASSUME Init PROVE Invariant
    OBVIOUS
<1>1. serial \in BOOLEAN /\ isHost \in [Peer -> BOOLEAN]
         /\ open \in [Peer -> BOOLEAN]
    BY ModesAssumption, Zenon DEF Init
<1>2. TypeOK
    BY <1>1 DEF Init, TypeOK, Resting
<1>3. HostFits /\ ClientFits /\ HostIsNoClient
    BY NoPeerAssumption DEF Init, HostFits, ClientFits, HostIsNoClient
<1>4. OneAtATime /\ SerialStar
    BY NoPeerAssumption DEF Init, OneAtATime, SerialStar, SerialStep, SeatOfClients,
       HostKnows, ClientKnows, Steps
<1>5. QED
    BY <1>2, <1>3, <1>4 DEF Invariant

\* What a message to the host leaves of the clients' views.
LEMMA HostHearsType ==
    ASSUME TypeOK, NEW known, host # NoPeer => known \subseteq Peer,
           HostHears(known)
    PROVE  met' \in [Peer -> SUBSET Peer]
BY DEF HostHears, TypeOK

LEMMA NextType == TypeOK /\ [Next]_vars => TypeOK'
<1> SUFFICES ASSUME TypeOK, [Next]_vars PROVE TypeOK'
    OBVIOUS
<1> USE DEF TypeOK, Resting, Steps, Goto
<1>1. ASSUME NEW p \in Peer, Connect(p) \/ Disconnect(p)
      PROVE  TypeOK'
    BY <1>1 DEF Connect, Disconnect
<1>2. ASSUME NEW p \in Peer, NEW q \in Peer, Relay(p, q)
      PROVE  TypeOK'
    <2>1. met' \in [Peer -> SUBSET Peer]
        <3>1. host # NoPeer => met[host] \cup {p} \subseteq Peer
            OBVIOUS
        <3>2. CASE isHost[p]
            BY <1>2, <3>2 DEF Relay
        <3>3. CASE ~isHost[p]
            BY <1>2, <3>1, <3>3, HostHearsType DEF Relay
        <3>4. QED
            BY <3>2, <3>3
    <2>2. QED
        BY <1>2, <2>1 DEF Relay
<1>3. ASSUME NEW p \in Peer,
             GetHost(p) \/ SetHost(p) \/ TellHostFails(p) \/ AddClient(p)
      PROVE  TypeOK'
    BY <1>3 DEF GetHost, SetHost, TellHostFails, AddClient
<1>4. ASSUME NEW p \in Peer, CheckHost(p)
      PROVE  TypeOK'
    <2>1. isHost' \in [Peer -> BOOLEAN]
        BY <1>4, Zenon DEF CheckHost
    <2>2. QED
        BY <1>4, <2>1 DEF CheckHost
<1>5. ASSUME NEW p \in Peer, TellHost(p) \/ TellHostLeft(p)
      PROVE  TypeOK'
    <2>1. met' \in [Peer -> SUBSET Peer]
        <3>1. host # NoPeer => /\ met[host] \cup {p} \subseteq Peer
                               /\ met[host] \ {p} \subseteq Peer
            OBVIOUS
        <3>2. HostHears(met[host] \cup {p}) \/ HostHears(met[host] \ {p})
            BY <1>5 DEF TellHost, TellHostLeft
        <3>3. QED
            BY <3>1, <3>2, HostHearsType
    <2>2. QED
        BY <1>5, <2>1 DEF TellHost, TellHostLeft
<1>6. ASSUME NEW p \in Peer,
             \/ Close(p) \/ TakeHost(p) \/ ListClients(p) \/ AllTold(p)
             \/ ClearClients(p) \/ RemoveClient(p)
      PROVE  TypeOK'
    BY <1>6 DEF Close, TakeHost, ListClients, AllTold, ClearClients,
       RemoveClient
<1>7. ASSUME NEW p \in Peer, NEW q \in Peer, TellClient(p, q)
      PROVE  TypeOK'
    BY <1>7 DEF TellClient
<1>8. CASE UNCHANGED vars
    BY <1>8 DEF vars
<1>9. QED
    BY <1>1, <1>2, <1>3, <1>4, <1>5, <1>6, <1>7, <1>8 DEF Next, TaskStep

\* The conjuncts of Invariant about every interleaving.
Seats == HostFits /\ ClientFits /\ HostIsNoClient

\* The steps of a join: a task enters the seat or the clients only from a step
\* at which it is in neither.
LEMMA JoinSeats ==
    ASSUME Invariant, NEW p \in Peer,
           \/ Connect(p) \/ GetHost(p) \/ SetHost(p) \/ TellHost(p)
           \/ TellHostFails(p) \/ AddClient(p) \/ CheckHost(p)
    PROVE  Seats'
<1> USE DEF Invariant, TypeOK, Seats, HostFits, ClientFits, HostIsNoClient,
            Goto
<1>1. CASE Connect(p) \/ GetHost(p) \/ TellHost(p) \/ TellHostFails(p)
    BY <1>1 DEF Connect, GetHost, TellHost, TellHostFails
<1>2. CASE SetHost(p)
    \* p was at setHost, where ClientFits puts no client.
    BY <1>2 DEF SetHost
<1>3. CASE AddClient(p)
    \* p was at addClient, where HostFits puts no host.
    BY <1>3 DEF AddClient
<1>4. CASE CheckHost(p)
    BY <1>4 DEF CheckHost
<1>5. QED
    BY <1>1, <1>2, <1>3, <1>4

LEMMA LeaveSeats ==
    ASSUME Invariant, NEW p \in Peer,
           \/ Close(p) \/ TakeHost(p) \/ ListClients(p) \/ AllTold(p)
           \/ ClearClients(p) \/ TellHostLeft(p) \/ RemoveClient(p)
           \/ \E q \in Peer : TellClient(p, q)
    PROVE  Seats'
<1> USE DEF Invariant, TypeOK, Seats, HostFits, ClientFits, HostIsNoClient,
            Goto
<1>1. CASE Close(p)
    BY <1>1 DEF Close
<1>2. CASE TakeHost(p)
    BY <1>2, NoPeerAssumption DEF TakeHost
<1>3. CASE ListClients(p) \/ AllTold(p) \/ \E q \in Peer : TellClient(p, q)
    BY <1>3 DEF ListClients, AllTold, TellClient
<1>4. CASE ClearClients(p)
    BY <1>4 DEF ClearClients
<1>5. CASE TellHostLeft(p)
    BY <1>5 DEF TellHostLeft
<1>6. CASE RemoveClient(p)
    BY <1>6 DEF RemoveClient
<1>7. QED
    BY <1>1, <1>2, <1>3, <1>4, <1>5, <1>6

-----------------------------------------------------------------------------
(* Requests that do not overlap. *)

LEMMA SerialIsFixed == [Next]_vars => serial' = serial
BY DEF Next, TaskStep, Connect, Disconnect, Relay, GetHost, SetHost, TellHost,
   TellHostFails, AddClient, CheckHost, Close, TakeHost, ListClients, AllTold,
   ClearClients, TellHostLeft, RemoveClient, TellClient, vars

\* A step of task p moves p alone, and starts from rest or inside p's handler.
LEMMA OnlyOneMoves ==
    ASSUME Invariant, serial, NEW p \in Peer, Connect(p) \/ TaskStep(p)
    PROVE  /\ \A q \in Peer \ {p} : pc[q] \notin Steps /\ pc'[q] = pc[q]
           /\ pc'[p] \in Steps \cup Resting
<1> USE DEF Invariant, TypeOK, Goto
<1>1. PICK step \in Steps \cup Resting : pc' = [pc EXCEPT ![p] = step]
    <2>1. CASE Connect(p) \/ GetHost(p) \/ SetHost(p) \/ TellHost(p) \/ TellHostFails(p)
        BY <2>1 DEF Connect, GetHost, SetHost, TellHost, TellHostFails, Steps, Resting
    <2>2. CASE AddClient(p) \/ CheckHost(p) \/ Close(p) \/ TakeHost(p) \/ ListClients(p)
        BY <2>2 DEF AddClient, CheckHost, Close, TakeHost, ListClients, Steps, Resting
    <2>3. CASE AllTold(p) \/ ClearClients(p) \/ TellHostLeft(p) \/ RemoveClient(p)
        BY <2>3 DEF AllTold, ClearClients, TellHostLeft, RemoveClient, Steps, Resting
    <2>4. ASSUME NEW q \in Peer, TellClient(p, q)
          PROVE  pc' = [pc EXCEPT ![p] = pc[p]]
        BY <2>4 DEF TellClient
    <2>5. QED
        BY <2>1, <2>2, <2>3, <2>4 DEF TaskStep
<1>2. pc[p] \in Steps \/ \A q \in Peer : pc[q] \notin Steps
    <2>1. CASE Connect(p) \/ Close(p)
        BY <2>1 DEF Connect, Close, MayStart, AtRest, Resting, Steps
    <2>2. CASE ~(Connect(p) \/ Close(p))
        BY <2>2 DEF TaskStep, GetHost, SetHost, TellHost, TellHostFails, AddClient,
           CheckHost, TakeHost, ListClients, AllTold, ClearClients, TellHostLeft,
           RemoveClient, TellClient, Steps
    <2>3. QED
        BY <2>1, <2>2
<1>3. QED
    BY <1>1, <1>2 DEF OneAtATime

LEMMA NextOneAtATime == Invariant /\ [Next]_vars => OneAtATime'
<1> SUFFICES ASSUME Invariant, [Next]_vars, serial' PROVE OneAtATime'
    BY DEF OneAtATime
<1>1. serial
    BY SerialIsFixed
<1>2. ASSUME NEW p \in Peer, Connect(p) \/ TaskStep(p)
      PROVE  OneAtATime'
    BY <1>1, <1>2, OnlyOneMoves DEF OneAtATime
<1>3. CASE UNCHANGED pc
    BY <1>1, <1>3 DEF Invariant, OneAtATime
<1>4. QED
    BY <1>2, <1>3 DEF Next, Disconnect, Relay, vars

\* The four parts of SerialStar.
Star4 ==
    (\A p \in Peer : SerialStep(p)) /\ SeatOfClients /\ HostKnows /\ ClientKnows

\* What is known when a serial step begins.
Before(p) ==
    /\ Invariant /\ Star4
    /\ \A q \in Peer \ {p} : pc[q] \notin Steps /\ pc'[q] = pc[q]

LEMMA SerialJoin ==
    ASSUME NEW p \in Peer, Before(p),
           Connect(p) \/ GetHost(p) \/ SetHost(p) \/ TellHost(p)
           \/ TellHostFails(p) \/ AddClient(p) \/ CheckHost(p)
    PROVE  Star4'
<1> USE DEF Before, Invariant, TypeOK, Star4, Goto, Steps
<1>1. CASE Connect(p) \/ GetHost(p)
    <2>1. UNCHANGED <<host, clients, isHost, met, todo, gone>>
        BY <1>1 DEF Connect, GetHost
    <2>2. pc[p] \in {"new", "join"} /\ met[p] = {}
        BY <1>1 DEF Connect, GetHost, SerialStep
    <2>3. \A q \in Peer : SerialStep(q)'
        BY <1>1, <2>1, <2>2 DEF Connect, GetHost, SerialStep
    <2>4. SeatOfClients' /\ ClientKnows'
        BY <1>1, <2>1, <2>2 DEF Connect, GetHost, SeatOfClients, ClientKnows
    <2>5. HostKnows'
        BY <1>1, <2>1, <2>2 DEF Connect, GetHost, HostKnows, HostFits
    <2>6. QED
        BY <2>3, <2>4, <2>5
<1>2. CASE SetHost(p)
    \* The seat was empty, and with nobody resetting there were no clients.
    <2>1. host = NoPeer /\ clients = {} /\ met[p] = {}
        BY <1>2 DEF SetHost, SerialStep, SeatOfClients
    <2>2. \A q \in Peer : open[q] => met[q] = {}
        BY <1>2, <2>1, NoPeerAssumption DEF SetHost, ClientKnows
    <2>3. \A q \in Peer : SerialStep(q)'
        BY <1>2, <2>1, NoPeerAssumption DEF SetHost, SerialStep
    <2>4. SeatOfClients' /\ HostKnows' /\ ClientKnows'
        BY <1>2, <2>1, <2>2 DEF SetHost, SeatOfClients, HostKnows, ClientKnows
    <2>5. QED
        BY <2>3, <2>4
<1>3. CASE TellHost(p)
    <2>1. /\ host \in Peer /\ p # host
          /\ pc[p] = "tellHost" /\ pc' = [pc EXCEPT ![p] = "addClient"]
          /\ UNCHANGED <<serial, host, clients, isHost, open, todo, gone>>
        BY <1>3 DEF TellHost, HostFits
    <2>2. /\ \A q \in Peer \ {host} : met'[q] = met[q]
          /\ open[host] => met'[host] = met[host] \cup {p}
        BY <1>3, <2>1 DEF TellHost, HostHears
    <2>3. \A q \in Peer : SerialStep(q)'
        <3>1. pc[host] \notin {"new", "join", "setHost", "tellHost", "addClient"}
            BY <2>1 DEF HostFits
        <3>2. QED
            BY <2>1, <2>2, <3>1 DEF SerialStep
    <2>4. SeatOfClients' /\ ClientKnows'
        BY <2>1, <2>2 DEF SeatOfClients, ClientKnows
    <2>5. HostKnows'
        BY <2>1, <2>2 DEF HostKnows
    <2>6. QED
        BY <2>3, <2>4, <2>5
<1>4. CASE TellHostFails(p)
    <2>1. /\ pc[p] = "tellHost" /\ pc' = [pc EXCEPT ![p] = "done"]
          /\ open' = [open EXCEPT ![p] = FALSE]
          /\ UNCHANGED <<serial, host, clients, isHost, met, todo, gone>>
        BY <1>4 DEF TellHostFails
    <2>2. QED
        BY <2>1 DEF SerialStep, SeatOfClients, HostKnows, ClientKnows
<1>5. CASE AddClient(p)
    <2>1. /\ pc[p] = "addClient" /\ pc' = [pc EXCEPT ![p] = "check"]
          /\ clients' = clients \cup {p} /\ host # NoPeer
          /\ UNCHANGED <<serial, host, isHost, open, met, todo, gone>>
        BY <1>5 DEF AddClient, SerialStep
    <2>2. QED
        BY <2>1 DEF SerialStep, SeatOfClients, HostKnows, ClientKnows
<1>6. CASE CheckHost(p)
    <2>1. /\ pc[p] = "check" /\ pc' = [pc EXCEPT ![p] = "serve"]
          /\ UNCHANGED <<serial, host, clients, open, met, todo, gone>>
        BY <1>6 DEF CheckHost
    <2>2. isHost'[p] <=> host = p
        BY <1>6 DEF CheckHost
    <2>3. \A q \in Peer \ {p} : isHost'[q] = isHost[q]
        BY <1>6 DEF CheckHost
    <2>4. \A q \in Peer : SerialStep(q)'
        BY <2>1, <2>2, <2>3 DEF SerialStep
    <2>5. SeatOfClients' /\ HostKnows' /\ ClientKnows'
        BY <2>1 DEF SeatOfClients, HostKnows, ClientKnows
    <2>6. QED
        BY <2>4, <2>5
<1>7. QED
    BY <1>1, <1>2, <1>3, <1>4, <1>5, <1>6

LEMMA SerialLeave ==
    ASSUME NEW p \in Peer, Before(p),
           \/ Close(p) \/ TakeHost(p) \/ ListClients(p) \/ AllTold(p)
           \/ ClearClients(p) \/ TellHostLeft(p) \/ RemoveClient(p)
           \/ \E q \in Peer : TellClient(p, q)
    PROVE  Star4'
<1> USE DEF Before, Invariant, TypeOK, Star4, Goto, Steps
<1>1. CASE Close(p)
    <2>1. /\ pc[p] = "serve" /\ ~open[p]
          /\ pc' = [pc EXCEPT ![p] = IF isHost[p] THEN "takeHost" ELSE "tellHostLeft"]
          /\ UNCHANGED <<serial, host, clients, isHost, open, met, todo, gone>>
        BY <1>1 DEF Close
    <2>2. QED
        BY <2>1 DEF SerialStep, SeatOfClients, HostKnows, ClientKnows
<1>2. CASE TakeHost(p)
    \* The host it takes is p itself, whose websocket is closed.
    <2>1. host = p /\ ~open[p]
        BY <1>2 DEF TakeHost, SerialStep
    <2>2. /\ gone' = [gone EXCEPT ![p] = p] /\ host' = NoPeer
          /\ pc' = [pc EXCEPT ![p] = "listClients"]
          /\ UNCHANGED <<serial, clients, isHost, open, met, todo>>
        BY <1>2, <2>1, NoPeerAssumption DEF TakeHost
    <2>3. \A q \in Peer : SerialStep(q)'
        BY <2>1, <2>2, NoPeerAssumption DEF SerialStep
    <2>4. SeatOfClients' /\ HostKnows'
        BY <2>2 DEF SeatOfClients, HostKnows
    <2>5. ClientKnows'
        BY <2>1, <2>2 DEF ClientKnows
    <2>6. QED
        BY <2>3, <2>4, <2>5
<1>3. CASE ListClients(p)
    <2>1. /\ pc[p] = "listClients" /\ pc' = [pc EXCEPT ![p] = "tellClients"]
          /\ todo' = [todo EXCEPT ![p] = clients] /\ host = NoPeer
          /\ UNCHANGED <<serial, host, clients, isHost, open, met, gone>>
        BY <1>3 DEF ListClients, SerialStep
    <2>2. QED
        BY <2>1 DEF SerialStep, SeatOfClients, HostKnows, ClientKnows
<1>4. ASSUME NEW q \in Peer, TellClient(p, q)
      PROVE  Star4'
    <2>1. /\ pc[p] = "tellClients" /\ host = NoPeer /\ gone[p] = p
          /\ todo' = [todo EXCEPT ![p] = @ \ {q}]
          /\ UNCHANGED <<serial, host, clients, isHost, open, pc, gone>>
        BY <1>4 DEF TellClient, SerialStep
    <2>2. \A r \in Peer : met'[r] \subseteq met[r]
        BY <1>4 DEF TellClient
    <2>3. q \in clients /\ open[q] => p \notin met'[q]
        BY <1>4, <2>1 DEF TellClient
    <2>4. \A r \in Peer : SerialStep(r)'
        BY <2>1, <2>2 DEF SerialStep
    <2>5. SeatOfClients' /\ HostKnows'
        BY <2>1 DEF SeatOfClients, HostKnows
    <2>6. ClientKnows'
        <3>1. SUFFICES ASSUME NEW c \in Peer, open[c], NEW r \in Peer, r \in met'[c]
                       PROVE  /\ c \in clients
                              /\ pc[r] = "listClients" \/ (pc[r] = "tellClients" /\ c \in todo'[r])
            BY <2>1, <2>2 DEF ClientKnows
        <3>2. /\ c \in clients /\ r \in met[c]
              /\ r = host \/ pc[r] = "listClients" \/ (pc[r] = "tellClients" /\ c \in todo[r])
            BY <2>1, <2>2, <3>1, NoPeerAssumption DEF ClientKnows
        <3>3. r # host
            BY <2>1, NoPeerAssumption
        <3>4. c = q => r # p
            BY <2>3, <3>1, <3>2
        <3>5. QED
            BY <2>1, <3>2, <3>3, <3>4
    <2>7. QED
        BY <2>4, <2>5, <2>6
<1>5. CASE AllTold(p)
    \* Every client has been told: none of them knows anybody now.
    <2>1. /\ pc[p] = "tellClients" /\ pc' = [pc EXCEPT ![p] = "clearClients"]
          /\ todo[p] = {} /\ host = NoPeer
          /\ UNCHANGED <<serial, host, clients, isHost, open, met, todo, gone>>
        BY <1>5 DEF AllTold, SerialStep
    <2>2. QED
        BY <2>1 DEF SerialStep, SeatOfClients, HostKnows, ClientKnows
<1>6. CASE ClearClients(p)
    <2>1. /\ pc[p] = "clearClients" /\ pc' = [pc EXCEPT ![p] = "done"]
          /\ clients' = {} /\ host = NoPeer
          /\ UNCHANGED <<serial, host, isHost, open, met, todo, gone>>
        BY <1>6 DEF ClearClients, SerialStep
    <2>2. \A c \in Peer : open[c] => met[c] = {}
        BY <2>1, NoPeerAssumption DEF ClientKnows
    <2>3. QED
        BY <2>1, <2>2 DEF SerialStep, SeatOfClients, HostKnows, ClientKnows
<1>7. CASE TellHostLeft(p)
    <2>1. /\ pc[p] = "tellHostLeft" /\ pc' = [pc EXCEPT ![p] = "removeClient"]
          /\ p # host
          /\ UNCHANGED <<serial, host, clients, isHost, open, todo, gone>>
        BY <1>7 DEF TellHostLeft, HostFits
    <2>2. \A r \in Peer : met'[r] \subseteq met[r]
        BY <1>7 DEF TellHostLeft, HostHears
    <2>3. host # NoPeer /\ open[host] => met'[host] = met[host] \ {p}
        BY <1>7 DEF TellHostLeft, HostHears
    <2>4. \A q \in Peer : SerialStep(q)'
        BY <2>1, <2>2 DEF SerialStep
    <2>5. SeatOfClients' /\ ClientKnows'
        BY <2>1, <2>2 DEF SeatOfClients, ClientKnows
    <2>6. HostKnows'
        BY <2>1, <2>3 DEF HostKnows
    <2>7. QED
        BY <2>4, <2>5, <2>6
<1>8. CASE RemoveClient(p)
    <2>1. /\ pc[p] = "removeClient" /\ pc' = [pc EXCEPT ![p] = "done"]
          /\ clients' = clients \ {p} /\ ~open[p]
          /\ UNCHANGED <<serial, host, isHost, open, met, todo, gone>>
        BY <1>8 DEF RemoveClient, SerialStep
    <2>2. QED
        BY <2>1 DEF SerialStep, SeatOfClients, HostKnows, ClientKnows
<1>9. QED
    BY <1>1, <1>2, <1>3, <1>4, <1>5, <1>6, <1>7, <1>8

\* Between handlers clients close their websockets, and signal whom they know:
\* the host its clients, and they the host.
LEMMA SerialBetween ==
    ASSUME Invariant, Star4, serial, NEW p \in Peer,
           Disconnect(p) \/ \E q \in Peer : Relay(p, q)
    PROVE  Star4'
<1> USE DEF Invariant, TypeOK, Star4, Steps
<1>1. CASE Disconnect(p)
    BY <1>1 DEF Disconnect, SerialStep, SeatOfClients, HostKnows, ClientKnows
<1>2. ASSUME NEW q \in Peer, Relay(p, q)
      PROVE  Star4'
    <2>1. /\ pc[p] = "serve" /\ open[p] /\ q \in met[p]
          /\ \A r \in Peer : pc[r] \notin Steps
          /\ UNCHANGED <<serial, host, clients, isHost, open, pc, todo, gone>>
        BY <1>2 DEF Relay, MayStart, AtRest, Resting
    <2>2. isHost[p] <=> host = p
        BY <2>1 DEF SerialStep
    <2>3. SeatOfClients'
        BY <2>1 DEF SeatOfClients
    <2>4. CASE isHost[p]
        <3>1. q \in clients /\ open[q] => /\ met' = [met EXCEPT ![q] = @ \cup {p}]
                                         /\ q # host
                                         /\ pc[q] \in {"check", "serve"}
            BY <1>2, <2>1, <2>4 DEF Relay, HostIsNoClient, ClientFits
        <3>2. ~(q \in clients /\ open[q]) => met' = met
            BY <1>2, <2>4 DEF Relay
        <3>3. \A r \in Peer : SerialStep(r)'
            BY <2>1, <3>1, <3>2 DEF SerialStep
        <3>4. HostKnows' /\ ClientKnows'
            BY <2>1, <2>2, <2>4, <3>1, <3>2 DEF HostKnows, ClientKnows
        <3>5. QED
            BY <2>3, <3>3, <3>4
    <2>5. CASE ~isHost[p]
        \* p knows q, so q is the host and p one of its clients.
        <3>1. q = host /\ p \in clients
            BY <2>1, <2>2, <2>5 DEF ClientKnows
        <3>2. HostHears(met[q] \cup {p})
            BY <1>2, <2>5, <3>1 DEF Relay
        <3>3. /\ \A r \in Peer \ {host} : met'[r] = met[r]
              /\ open[host] => met'[host] = met[host] \cup {p}
            BY <2>1, <3>1, <3>2, NoPeerAssumption DEF HostHears
        <3>4. pc[host] = "serve"
            BY <2>1, <3>1 DEF HostFits
        <3>5. \A r \in Peer : SerialStep(r)'
            BY <2>1, <3>3, <3>4 DEF SerialStep
        <3>6. HostKnows' /\ ClientKnows'
            BY <2>1, <3>1, <3>3 DEF HostKnows, ClientKnows
        <3>7. QED
            BY <2>3, <3>5, <3>6
    <2>6. QED
        BY <2>4, <2>5
<1>3. QED
    BY <1>1, <1>2

LEMMA NextSerialStar == Invariant /\ [Next]_vars => SerialStar'
<1> SUFFICES ASSUME Invariant, [Next]_vars, serial' PROVE Star4'
    BY DEF SerialStar, Star4
<1>1. serial /\ Star4
    BY SerialIsFixed DEF Invariant, SerialStar, Star4
<1>2. ASSUME NEW p \in Peer, Connect(p) \/ TaskStep(p)
      PROVE  Star4'
    <2>1. Before(p)
        BY <1>1, <1>2, OnlyOneMoves DEF Before
    <2>2. QED
        BY <1>2, <2>1, SerialJoin, SerialLeave DEF TaskStep
<1>3. CASE UNCHANGED vars
    BY <1>1, <1>3 DEF vars, Star4, SerialStep, SeatOfClients, HostKnows, ClientKnows
<1>4. QED
    BY <1>1, <1>2, <1>3, SerialBetween DEF Next

LEMMA NextInvariant == Invariant /\ [Next]_vars => Invariant'
<1> SUFFICES ASSUME Invariant, [Next]_vars PROVE Invariant'
    OBVIOUS
<1>1. TypeOK'
    BY NextType DEF Invariant
<1>2. Seats'
    <2>1. ASSUME NEW p \in Peer,
                 Disconnect(p) \/ \E q \in Peer : Relay(p, q)
          PROVE  Seats'
        BY <2>1 DEF Disconnect, Relay, Invariant, Seats, HostFits,
           ClientFits, HostIsNoClient
    <2>2. CASE UNCHANGED vars
        BY <2>2 DEF vars, Invariant, Seats, HostFits, ClientFits,
           HostIsNoClient
    <2>3. QED
        BY <2>1, <2>2, JoinSeats, LeaveSeats DEF Next, TaskStep
<1>3. QED
    BY <1>1, <1>2, NextOneAtATime, NextSerialStar DEF Invariant, Seats

\* Whoever the server's state names is on the way to being taken out, always.
THEOREM SeatsHold == Spec => []Invariant
BY InitInvariant, NextInvariant, PTL DEF Spec

\* A connection that has ended is neither host nor client.
THEOREM GoneIsForgottenHolds == Spec => []GoneIsForgotten
<1>1. Invariant => GoneIsForgotten
    BY DEF Invariant, HostFits, ClientFits, GoneIsForgotten
<1>2. QED
    BY <1>1, SeatsHold, PTL

\* Requests that do not overlap keep a star around the host, whoever comes and
\* goes in whatever order.
THEOREM StarHolds == Spec => []Star
<1>1. Invariant => Star
    <2> SUFFICES ASSUME Invariant, serial, AtRest PROVE Star
        BY DEF Star
    <2>1. Star4 /\ \A p \in Peer : pc[p] \notin Steps
        BY DEF Invariant, SerialStar, Star4, AtRest, Resting, Steps
    <2>2. host = NoPeer => clients = {}
        BY <2>1 DEF Star4, SeatOfClients, Steps
    <2>3. \A p \in Peer : pc[p] = "serve" => (isHost[p] <=> host = p)
        BY <2>1 DEF Star4, SerialStep
    <2>4. host # NoPeer /\ open[host] => met[host] = clients
        BY <2>1 DEF Star4, HostKnows, Steps, Invariant, TypeOK
    <2>5. \A c \in Peer : open[c] /\ c # host => met[c] \subseteq {host}
        BY <2>1 DEF Star4, ClientKnows, Steps, Invariant, TypeOK
    <2>6. QED
        BY <2>2, <2>3, <2>4, <2>5 DEF Star
<1>2. QED
    BY <1>1, SeatsHold, PTL
=============================================================================
