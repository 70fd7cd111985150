--------------------------- MODULE MCHybridServer ---------------------------
(* Instances of HybridServer for TLC. *)
EXTENDS HybridServer

ThreePeers == 1..3
FourPeers  == 1..4

\* What clients have been told has no effect on the map or on the tasks: runs
\* about the map alone do not tell such states apart.
MapView == <<topology, wedged, open, pc, locals>>
=============================================================================
