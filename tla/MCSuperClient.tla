--------------------------- MODULE MCSuperClient ---------------------------
(* Instances of SuperClient for TLC. *)
EXTENDS SuperClient, TLC

CONSTANTS s1, s2, c1, c2

Parents(f) == [p \in Peer |-> IF p \in DOMAIN f THEN f[p] ELSE NoPeer]

\* Two super peers and a child: what the next three scenes start from.
Three ==
    [supers |-> {s1, s2}, parent |-> Parents(c1 :> s1),
     links |-> {<<s1, s2>>, <<s1, c1>>}, leavers |-> {}, heir |-> NoPeer,
     later |-> {}, lapses |-> 0, settled |-> FALSE]

\* A child below each super peer.
FullTree == [Three EXCEPT !.parent = Parents(c1 :> s1 @@ c2 :> s2),
                          !.links = @ \cup {<<s2, c2>>}, !.settled = TRUE]

\* Roles and connections come in any order, and one of two may leave in between.
SomeoneLeaves == [Three EXCEPT !.leavers = {s2, c1}]

SomeoneIsSilent == [Three EXCEPT !.lapses = 1, !.settled = TRUE]

\* A super peer leaves, and one of its two children takes its place.
Handover == [Three EXCEPT !.supers = {s1},
                          !.parent = Parents(c1 :> s1 @@ c2 :> s1),
                          !.links = {<<s1, c1>>, <<s1, c2>>}, !.leavers = {s1},
                          !.heir = c1, !.later = {<<c1, c2>>}, !.settled = TRUE]

\* In all scenes but the handover the connections form a tree.
ASSUME ShallowAssumption ==
    \A s \in {FullTree, SomeoneLeaves, SomeoneIsSilent} : IsShallow(s)

SomeScenes == {FullTree, SomeoneLeaves, SomeoneIsSilent, Handover}
=============================================================================
