----------------------------- MODULE MCFullMesh -----------------------------
(* Instances of FullMesh for TLC. *)
EXTENDS FullMesh

=============================================================================
