---------------------------- MODULE ClientServer ----------------------------
(***************************************************************************)
(* The client/server topology of matchbox_signaling.  One peer is the      *)
(* host; the others are clients that the server lets signal the host only. *)
(* `host` and `clients` have a mutex each, and a task takes them one at a  *)
(* time: get_host, set_host, add_client, reset and remove_client are       *)
(* several steps, and the tasks of other websockets interleave.            *)
(***************************************************************************)
EXTENDS FiniteSets

CONSTANTS
    Peer,    \* peer ids
    NoPeer,  \* None
    Modes    \* the values `serial` may take

ASSUME NoPeerAssumption == NoPeer \notin Peer
ASSUME ModesAssumption == Modes \subseteq BOOLEAN

VARIABLES
    serial,   \* a parameter: a handler starts only when no other one is running
    host,     \* ClientServerState.host
    clients,  \* ClientServerState.clients
    isHost,   \* the local `is_host` of task p, read once
    open,     \* client p's end of the websocket is open
    met,      \* met[q]: peers that q knows and has not been told left
    pc,       \* where task p is
    todo,     \* reset: clients that the loop still has to send to
    gone      \* reset: the host that was taken

vars == <<serial, host, clients, isHost, open, met, pc, todo, gone>>

Resting == {"new", "serve", "done"}
Steps   == {"join", "setHost", "tellHost", "addClient", "check", "takeHost",
            "listClients", "tellClients", "clearClients", "tellHostLeft",
            "removeClient"}

Init ==
    /\ serial \in Modes
    /\ host = NoPeer
    /\ clients = {}
    /\ isHost = [p \in Peer |-> FALSE]
    /\ open = [p \in Peer |-> FALSE]
    /\ met = [p \in Peer |-> {}]
    /\ pc = [p \in Peer |-> "new"]
    /\ todo = [p \in Peer |-> {}]
    /\ gone = [p \in Peer |-> NoPeer]

AtRest == \A p \in Peer : pc[p] \in Resting

MayStart == serial => AtRest

Goto(p, step) == pc' = [pc EXCEPT ![p] = step]

\* A message to the host, when it still reads, changes whom it knows.
HostHears(known) ==
    met' = IF host # NoPeer /\ open[host]
           THEN [met EXCEPT ![host] = known] ELSE met

-----------------------------------------------------------------------------

\* A client opens its websocket and is sent IdAssigned; its task starts.
Connect(p) ==
    /\ pc[p] = "new"
    /\ MayStart
    /\ open' = [open EXCEPT ![p] = TRUE]
    /\ Goto(p, "join")
    /\ UNCHANGED <<serial, host, clients, isHost, met, todo, gone>>

\* A client closes its websocket, or loses it.
Disconnect(p) ==
    /\ open[p]
    /\ open' = [open EXCEPT ![p] = FALSE]
    /\ UNCHANGED <<serial, host, clients, isHost, met, pc, todo, gone>>

\* state.get_host().is_none()
GetHost(p) ==
    /\ pc[p] = "join"
    /\ Goto(p, IF host = NoPeer THEN "setHost" ELSE "tellHost")
    /\ UNCHANGED <<serial, host, clients, isHost, open, met, todo, gone>>

\* set_host replaces whatever is there.
SetHost(p) ==
    /\ pc[p] = "setHost"
    /\ host' = p
    /\ Goto(p, "check")
    /\ UNCHANGED <<serial, clients, isHost, open, met, todo, gone>>

TellHost(p) ==
    /\ pc[p] = "tellHost"
    /\ host # NoPeer
    /\ HostHears(met[host] \cup {p})
    /\ Goto(p, "addClient")
    /\ UNCHANGED <<serial, host, clients, isHost, open, todo, gone>>

\* The host has left, or its websocket is found closed: the task returns, and
\* with it goes the only sender of p's own websocket.
TellHostFails(p) ==
    /\ pc[p] = "tellHost"
    /\ host # NoPeer => ~open[host]
    /\ open' = [open EXCEPT ![p] = FALSE]
    /\ Goto(p, "done")
    /\ UNCHANGED <<serial, host, clients, isHost, met, todo, gone>>

AddClient(p) ==
    /\ pc[p] = "addClient"
    /\ clients' = clients \cup {p}
    /\ Goto(p, "check")
    /\ UNCHANGED <<serial, host, isHost, open, met, todo, gone>>

MutCheckHost(p) ==
    /\ pc[p] = "check"
    /\ isHost' = [isHost EXCEPT ![p] = host # NoPeer]
    /\ Goto(p, "serve")
    /\ UNCHANGED <<serial, host, clients, open, met, todo, gone>>

\* let is_host = ...
CheckHost(p) ==
    /\ pc[p] = "check"
    /\ isHost' = [isHost EXCEPT ![p] = (host = p)]
    /\ Goto(p, "serve")
    /\ UNCHANGED <<serial, host, clients, open, met, todo, gone>>

\* PeerRequest::Signal to q: from the host it goes to client q, from anybody
\* else to whoever is the host.
Relay(p, q) ==
    /\ pc[p] = "serve"
    /\ MayStart
    /\ open[p]
    /\ q \in met[p]
    /\ IF isHost[p]
       THEN met' = IF q \in clients /\ open[q]
                   THEN [met EXCEPT ![q] = @ \cup {p}] ELSE met
       ELSE HostHears(met[host] \cup {p})
    /\ UNCHANGED <<serial, host, clients, isHost, open, pc, todo, gone>>

\* The task finds its websocket closed.
Close(p) ==
    /\ pc[p] = "serve"
    /\ MayStart
    /\ ~open[p]
    /\ Goto(p, IF isHost[p] THEN "takeHost" ELSE "tellHostLeft")
    /\ UNCHANGED <<serial, host, clients, isHost, open, met, todo, gone>>

-----------------------------------------------------------------------------
(* reset *)

MutTakeHost(p) ==
    /\ pc[p] = "takeHost"
    /\ gone' = [gone EXCEPT ![p] = host]
    /\ Goto(p, IF host = NoPeer THEN "clearClients" ELSE "listClients")
    /\ UNCHANGED <<serial, host, clients, isHost, open, met, todo>>

\* Whoever the host is by now.
TakeHost(p) ==
    /\ pc[p] = "takeHost"
    /\ gone' = [gone EXCEPT ![p] = host]
    /\ host' = NoPeer
    /\ Goto(p, IF host = NoPeer THEN "clearClients" ELSE "listClients")
    /\ UNCHANGED <<serial, clients, isHost, open, met, todo>>

ListClients(p) ==
    /\ pc[p] = "listClients"
    /\ todo' = [todo EXCEPT ![p] = clients]
    /\ Goto(p, "tellClients")
    /\ UNCHANGED <<serial, host, clients, isHost, open, met, gone>>

MutTellClient(p, q) ==
    /\ pc[p] = "tellClients"
    /\ q \in todo[p]
    /\ todo' = [todo EXCEPT ![p] = {}]
    /\ met' = IF q \in clients /\ open[q]
              THEN [met EXCEPT ![q] = @ \ {gone[p]}] ELSE met
    /\ UNCHANGED <<serial, host, clients, isHost, open, pc, gone>>

TellClient(p, q) ==
    /\ pc[p] = "tellClients"
    /\ q \in todo[p]
    /\ todo' = [todo EXCEPT ![p] = @ \ {q}]
    /\ met' = IF q \in clients /\ open[q]
              THEN [met EXCEPT ![q] = @ \ {gone[p]}] ELSE met
    /\ UNCHANGED <<serial, host, clients, isHost, open, pc, gone>>

AllTold(p) ==
    /\ pc[p] = "tellClients"
    /\ todo[p] = {}
    /\ Goto(p, "clearClients")
    /\ UNCHANGED <<serial, host, clients, isHost, open, met, todo, gone>>

ClearClients(p) ==
    /\ pc[p] = "clearClients"
    /\ clients' = {}
    /\ Goto(p, "done")
    /\ UNCHANGED <<serial, host, isHost, open, met, todo, gone>>

-----------------------------------------------------------------------------
(* remove_client *)

TellHostLeft(p) ==
    /\ pc[p] = "tellHostLeft"
    /\ HostHears(met[host] \ {p})
    /\ Goto(p, "removeClient")
    /\ UNCHANGED <<serial, host, clients, isHost, open, todo, gone>>

MutRemoveClient(p) ==
    /\ pc[p] = "removeClient"
    /\ Goto(p, "done")
    /\ UNCHANGED <<serial, host, clients, isHost, open, met, todo, gone>>

RemoveClient(p) ==
    /\ pc[p] = "removeClient"
    /\ clients' = clients \ {p}
    /\ Goto(p, "done")
    /\ UNCHANGED <<serial, host, isHost, open, met, todo, gone>>

TaskStep(p) ==
    \/ GetHost(p) \/ SetHost(p) \/ TellHost(p) \/ TellHostFails(p)
    \/ AddClient(p) \/ CheckHost(p) \/ Close(p)
    \/ TakeHost(p) \/ ListClients(p) \/ AllTold(p) \/ ClearClients(p)
    \/ TellHostLeft(p) \/ RemoveClient(p)
    \/ \E q \in Peer : TellClient(p, q)

Next ==
    \E p \in Peer :
        \/ Connect(p) \/ Disconnect(p) \/ TaskStep(p)
        \/ \E q \in Peer : Relay(p, q)

\* The runtime polls every task that can run; clients do as they please.
Fairness == \A p \in Peer : WF_vars(TaskStep(p))

Spec == Init /\ [][Next]_vars /\ Fairness

-----------------------------------------------------------------------------

TypeOK ==
    /\ serial \in BOOLEAN
    /\ host \in Peer \cup {NoPeer}
    /\ clients \subseteq Peer
    /\ isHost \in [Peer -> BOOLEAN]
    /\ open \in [Peer -> BOOLEAN]
    /\ met \in [Peer -> SUBSET Peer]
    /\ pc \in [Peer -> Resting \cup Steps]
    /\ todo \in [Peer -> SUBSET Peer]
    /\ gone \in [Peer -> Peer \cup {NoPeer}]

\* The host in the seat is at a step that will empty the seat when it leaves.
HostFits ==
    \A p \in Peer : host = p =>
        \/ pc[p] = "check"
        \/ pc[p] \in {"serve", "takeHost"} /\ isHost[p]

\* A peer in `clients` is at a step that will take it out when it leaves.
ClientFits ==
    \A p \in clients :
        \/ pc[p] = "check"
        \/ pc[p] \in {"serve", "tellHostLeft", "removeClient"} /\ ~isHost[p]

\* The host is never among its own clients, so no signal of it comes back.
HostIsNoClient == host \notin clients

\* When requests do not overlap, at most one task is inside a handler.
OneAtATime ==
    serial => \A p, q \in Peer : pc[p] \in Steps /\ pc[q] \in Steps => p = q

\* What the step of p says of the seat and of p's client, requests not
\* overlapping: what a handler has read is still true when it acts on it.
SerialStep(p) ==
    /\ pc[p] = "setHost" => host = NoPeer
    /\ pc[p] \in {"tellHost", "addClient"} => host # NoPeer
    /\ pc[p] = "serve" => (isHost[p] <=> host = p)
    /\ pc[p] = "takeHost" => host = p
    /\ pc[p] \in {"listClients", "tellClients"} => gone[p] = p
    /\ pc[p] \in {"listClients", "tellClients", "clearClients"} => host = NoPeer
    /\ pc[p] \in {"new", "join", "setHost", "tellHost", "addClient"} => met[p] = {}
    /\ pc[p] \in Steps \ {"join", "setHost", "tellHost", "addClient", "check"} =>
          ~open[p]

\* The clients, when a reset is not just about to clear them.
SeatOfClients ==
    host = NoPeer /\ clients # {} =>
        \E p \in Peer : pc[p] \in {"listClients", "tellClients", "clearClients"}

\* The host knows its clients, of one that comes or goes it hears first.
HostKnows ==
    host # NoPeer /\ open[host] =>
        met[host] = (clients \cup {p \in Peer : pc[p] = "addClient"})
                        \ {p \in Peer : pc[p] = "removeClient"}

\* Anybody else knows the host alone, and is its client; or knows one that has
\* left the seat and is still to tell it.
ClientKnows ==
    \A c \in Peer : open[c] /\ c # host =>
        \A q \in met[c] :
            /\ c \in clients
            /\ \/ q = host
               \/ pc[q] = "listClients"
               \/ pc[q] = "tellClients" /\ c \in todo[q]

\* The star between requests, and as far as it is built inside a handler.
SerialStar ==
    serial =>
        /\ \A p \in Peer : SerialStep(p)
        /\ SeatOfClients
        /\ HostKnows
        /\ ClientKnows

\* The inductive invariant: whoever is in the server's state is on the way to
\* the handler that takes it out, though the local is_host was read long ago;
\* and requests that do not overlap keep a star.
Invariant ==
    /\ TypeOK /\ HostFits /\ ClientFits /\ HostIsNoClient
    /\ OneAtATime /\ SerialStar

\* When the task of a websocket has ended, the server's state does not name it
\* any more, even if hosts replaced each other meanwhile.
GoneIsForgotten ==
    \A p \in Peer : pc[p] = "done" => host # p /\ p \notin clients

\* The host's seat does not stay with a client that has gone.
SeatIsFreed == \A p \in Peer : host = p /\ ~open[p] ~> host # p

\* Requests that do not overlap keep a star: clients only around a host, the
\* host and nobody else takes itself for it, it knows its clients and nobody
\* else, and no client knows any peer but the host.
Star ==
    serial /\ AtRest =>
        /\ host = NoPeer => clients = {}
        /\ \A p \in Peer : pc[p] = "serve" => (isHost[p] <=> host = p)
        /\ host # NoPeer /\ open[host] => met[host] = clients
        /\ \A c \in Peer : open[c] /\ c # host => met[c] \subseteq {host}
=============================================================================
