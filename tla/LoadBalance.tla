---------------------------- MODULE LoadBalance ----------------------------
(***************************************************************************)
(* The arithmetic of HybridState::load_balance: how the super peers are    *)
(* ordered, how many children each one should end with, and which super    *)
(* gives the next child to which other one.  The operators have no state   *)
(* of their own: HybridServer runs them inside the handler that calls      *)
(* load_balance, BalanceLoop runs them alone.                              *)
(*                                                                         *)
(* A plan is the code's target_info: a sequence, one entry per super peer, *)
(* of its id and of how many children it has in excess of its target (the  *)
(* code keeps the count and the target, and only ever compares the two).   *)
(***************************************************************************)
EXTENDS Integers, FiniteSets, Sequences

\* super_info after sort_by_key: any order of S in which load never falls.
\* The vector is filled from a HashMap, so equal loads come in any order.
Orders(S, load) ==
    {ord \in [1..Cardinality(S) -> S] :
        \A m, n \in 1..Cardinality(S) :
            m < n => ord[m] # ord[n] /\ load[ord[m]] <= load[ord[n]]}

MutTargetAllToFirst(n, total, supers) ==
    (total \div supers) + (IF n = 1 THEN total % supers ELSE 0)

\* The target of the n-th super: the average, and one more for the first
\* `remainder` supers of the order, which are the least loaded ones.
Target(n, total, supers) ==
    (total \div supers) + (IF n <= total % supers THEN 1 ELSE 0)

MutPlanSwapped(ord, load, total) ==
    [n \in 1..Len(ord) |->
        [id |-> ord[n], excess |-> Target(n, total, Len(ord)) - load[ord[n]]]]

\* target_info, before the first move.
PlanOf(ord, load, total) ==
    [n \in 1..Len(ord) |->
        [id |-> ord[n], excess |-> load[ord[n]] - Target(n, total, Len(ord))]]

MutIsGiverAtTarget(plan, i) ==
    /\ plan[i].excess >= 0
    /\ \A k \in 1..(i - 1) : plan[k].excess < 0

\* The two cursors.  overloaded_idx and underloaded_idx list positions in
\* increasing order and a cursor moves on only past a position that has met its
\* target, so each cursor stands on the first position that has not.
IsGiver(plan, i) ==
    /\ plan[i].excess > 0
    /\ \A k \in 1..(i - 1) : plan[k].excess <= 0

IsReceiver(plan, j) ==
    /\ plan[j].excess < 0
    /\ \A k \in 1..(j - 1) : plan[k].excess >= 0

\* while i < overloaded_idx.len() && j < underloaded_idx.len()
MovesLeft(plan) ==
    /\ \E i \in 1..Len(plan) : plan[i].excess > 0
    /\ \E j \in 1..Len(plan) : plan[j].excess < 0

MutMoveNotBooked(plan, i, j) == plan

\* One move booked from position i to position j.
BookMove(plan, i, j) ==
    [n \in 1..Len(plan) |->
        [id     |-> plan[n].id,
         excess |-> plan[n].excess - (IF n = i THEN 1 ELSE 0)
                                   + (IF n = j THEN 1 ELSE 0)]]
=============================================================================
