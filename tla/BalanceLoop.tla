---------------------------- MODULE BalanceLoop ----------------------------
(***************************************************************************)
(* HybridState::load_balance run alone, with no other task in between, on  *)
(* every distribution of children over the super peers: what the greedy    *)
(* two-cursor loop does to the loads, against a definition of an even      *)
(* distribution that knows nothing of orders and cursors.                  *)
(***************************************************************************)
EXTENDS LoadBalance, FiniteSetsExt

CONSTANTS
    Super,   \* the super peers in the map
    MaxLoad  \* bound: children of one super before the balance

ASSUME SuperAssumption == IsFiniteSet(Super) /\ Super # {}
ASSUME MaxLoadAssumption == MaxLoad \in Nat

VARIABLES
    before,  \* children of each super when load_balance starts
    load,    \* children of each super now
    plan,    \* target_info
    moves    \* num_moves

vars == <<before, load, plan, moves>>

\* The sum of l over the super peers: what each one has is numbered, and all are
\* counted.  Less than nothing counts as nothing.
Total(l) == Cardinality(UNION {{s} \X (1..l[s]) : s \in Super})

Init ==
    /\ before \in [Super -> 0..MaxLoad]
    /\ load = before
    /\ \E ord \in Orders(Super, before) :
          plan = PlanOf(ord, before, Total(before))
    /\ moves = 0

\* move_child: a super without children has none to give.
MoveChild(l, giver, receiver) ==
    IF l[giver] > 0 THEN [l EXCEPT ![giver] = @ - 1, ![receiver] = @ + 1] ELSE l

\* Bound of the model: beyond all children, moves are no longer counted.
MoveBound == Total(before) + 1

\* One turn of the while loop: book a move, and move the child.
Move(i, j) ==
    /\ IsGiver(plan, i)
    /\ IsReceiver(plan, j)
    /\ plan' = BookMove(plan, i, j)
    /\ load' = MoveChild(load, plan[i].id, plan[j].id)
    /\ moves' = IF moves < MoveBound THEN moves + 1 ELSE moves
    /\ UNCHANGED before

Next == \E i, j \in 1..Len(plan) : Move(i, j)

Spec == Init /\ [][Next]_vars /\ WF_vars(Next)

-----------------------------------------------------------------------------

Average   == Total(before) \div Cardinality(Super)
Remainder == Total(before) % Cardinality(Super)
Ceiling   == Average + (IF Remainder = 0 THEN 0 ELSE 1)

\* The fewest moves after which no two loads differ by more than one: every
\* super must come down to the ceiling and up to the average.
FewestMoves ==
    Max({Total([s \in Super |-> before[s] - Ceiling]),
         Total([s \in Super |-> Average - before[s]])})

\* When the cursors stop, no two loads differ by more than one, and no child
\* was lost or made up.
EvenWhenDone ==
    ~MovesLeft(plan) => /\ \A s, t \in Super : load[s] <= load[t] + 1
                        /\ Total(load) = Total(before)

\* The remainder goes to the least loaded supers, so a move can be made that
\* evenness does not need; it never makes more of them than this.
FewWastedMoves ==
    ~MovesLeft(plan) =>
        moves - FewestMoves <= Min({Remainder, Cardinality(Super) - Remainder})

\* No child is moved to and fro: a super that has given never receives.
OneWay ==
    [][\A s \in Super : /\ load'[s] > load[s] => load[s] >= before[s]
                        /\ load'[s] < load[s] => load[s] <= before[s]]_vars

\* The loop ends.
Ends == <>(~MovesLeft(plan))
=============================================================================
