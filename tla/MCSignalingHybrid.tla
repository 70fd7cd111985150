-------------------------- MODULE MCSignalingHybrid --------------------------
(* Instances of SignalingHybrid for TLC. *)
EXTENDS SignalingHybrid

FivePeers == 1..5

\* Peer 5 bounds the number of interleavings: where it takes part, it stays.
OnlyFive == {5}

Start(together, first, later) ==
    [serial |-> ~together, elders |-> first, joiners |-> later]

\* From an empty server, where the first joins meet each other; and from two
\* super peers on: one handler at a time, with all four going and coming, or
\* overlapping, with two peers that may both become children of super peer 1.
SomeStarts == {Start(FALSE, {}, 1..3), Start(FALSE, 1..2, 3..4),
               Start(TRUE, {}, 1..3),  Start(TRUE, {1, 5}, 2..3)}

\* What clients know has no effect on the maps or on the tasks, and only the
\* properties of a serial server read it.
MapView == <<serial, superPeers, children, childPeers, parent, superFlag, open,
             pc, locals, IF serial THEN links ELSE <<>> >>
==============================================================================
