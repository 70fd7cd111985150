----------------------------- MODULE PeerForest -----------------------------
(***************************************************************************)
(* What the hybrid topology promises about its shape, whatever the order   *)
(* of requests: the peers form a forest of height one.  Super peers are    *)
(* roots, a peer hangs below at most one of them, and it is taken off one  *)
(* super before it is hung below another.  A super peer leaves with all    *)
(* its edges at once.  HybridServer and SignalingHybrid implement this      *)
(* specification.                                                          *)
(***************************************************************************)
CONSTANT Peer

VARIABLES
    supers,  \* the roots
    under    \* the edges: <<s, c>> when c hangs below s

Init == supers \subseteq Peer /\ under = {}

HangsBelowNone(c) == \A s \in Peer : <<s, c>> \notin under

Rise(p) ==
    /\ p \notin supers
    /\ HangsBelowNone(p)
    /\ supers' = supers \cup {p}
    /\ UNCHANGED under

Fall(p) ==
    /\ p \in supers
    /\ supers' = supers \ {p}
    /\ under' = {e \in under : e[1] # p}

Hang(s, c) ==
    /\ s \in supers
    /\ c \notin supers
    /\ HangsBelowNone(c)
    /\ under' = under \cup {<<s, c>>}
    /\ UNCHANGED supers

TakeOff(s, c) ==
    /\ under' = under \ {<<s, c>>}
    /\ UNCHANGED supers

Next ==
    \/ \E p \in Peer : Rise(p) \/ Fall(p)
    \/ \E s, c \in Peer : Hang(s, c) \/ TakeOff(s, c)

Spec == Init /\ [][Next]_<<supers, under>>

\* Roots only above, never below, and at most one root above a peer.
IsForest ==
    /\ supers \subseteq Peer
    /\ under \subseteq supers \X (Peer \ supers)
    /\ \A s, t, c \in Peer :
          <<s, c>> \in under /\ <<t, c>> \in under => s = t
=============================================================================
