--------------------------- MODULE MCBalanceLoop ---------------------------
(* An instance of BalanceLoop for TLC. *)
EXTENDS BalanceLoop

FourSupers == 1..4
=============================================================================
