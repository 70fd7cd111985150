--------------------------- MODULE MCMatchmaking ---------------------------
(* Instances of Matchmaking for TLC. *)
EXTENDS Matchmaking, TLC

CONSTANTS mesh, team  \* two rooms of the same id

\* What the clients of the two rooms ask for with `next`.
AllSettings == {mesh :> NoNext @@ team :> 2, mesh :> 1 @@ team :> 3,
                mesh :> 0 @@ team :> 1}

TeamsOnly == {mesh :> NoNext @@ team :> 2}

\* A bound: a room without groups, where everybody knows everybody, is asked
\* for by at most three.
UpToThree == {f \in [Peer -> Room] : Cardinality({p \in Peer : f[p] = mesh}) < 4}

Anyone == Permutations(Peer)
=============================================================================
