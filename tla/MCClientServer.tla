--------------------------- MODULE MCClientServer ---------------------------
(* Instances of ClientServer for TLC. *)
EXTENDS ClientServer
=============================================================================
