------------------------- MODULE BalanceLoopProofs -------------------------
(***************************************************************************)
(* Proofs about BalanceLoop: load_balance run alone, for any number of     *)
(* super peers and any distribution of children over them.                 *)
(***************************************************************************)
EXTENDS BalanceLoop, FiniteSetTheorems, WellFoundedInduction, TLAPS

Entry == [id : Super, excess : Int]

Supers == Cardinality(Super)

\* The target of the n-th position of the plan.
TargetAt(n) == Target(n, Total(before), Supers)

BeforeAt(n) == before[plan[n].id]
LoadAt(n)   == load[plan[n].id]

TypeOK ==
    /\ before \in [Super -> 0..MaxLoad]
    /\ load \in [Super -> Nat]
    /\ plan \in [1..Supers -> Entry]
    /\ moves \in Nat

\* Every super peer has one position.
PlanIsOrder ==
    /\ \A m, n \in 1..Supers : plan[m].id = plan[n].id => m = n
    /\ \A s \in Super : \E n \in 1..Supers : plan[n].id = s

\* Every super peer is on its way from its load before to its target.
UnderWay ==
    \A n \in 1..Supers :
        /\ plan[n].excess = LoadAt(n) - TargetAt(n)
        /\ BeforeAt(n) >= TargetAt(n) => LoadAt(n) \in TargetAt(n)..BeforeAt(n)
        /\ BeforeAt(n) <= TargetAt(n) => LoadAt(n) \in BeforeAt(n)..TargetAt(n)

\* What has been given has been received, and it is what has been booked.
Booked ==
    /\ Total(load) = Total(before)
    /\ moves = Total([s \in Super |-> before[s] - load[s]])
    /\ moves = Total([s \in Super |-> load[s] - before[s]])

Invariant == TypeOK /\ PlanIsOrder /\ UnderWay /\ Booked

-----------------------------------------------------------------------------
(* Sums.                                                                     *)

Units(f) == UNION {{s} \X (1..f[s]) : s \in Super}

LEMMA TotalIsUnits == \A f : Total(f) = Cardinality(Units(f))
BY DEF Total, Units

LEMMA UnitsAre ==
    ASSUME NEW f
    PROVE  /\ \A e \in Units(f) : /\ e = <<e[1], e[2]>> /\ e[1] \in Super
                                  /\ e[2] \in 1..f[e[1]]
           /\ \A s \in Super : \A i \in 1..f[s] : <<s, i>> \in Units(f)
BY DEF Units

LEMMA SupersAreNat == Supers \in Nat /\ Supers >= 1
<1>1. IsFiniteSet(Super) /\ Supers \in Nat /\ Supers # 0
    BY SuperAssumption, FS_CardinalityType, FS_EmptySet DEF Supers
<1>2. QED
    BY <1>1

LEMMA UnitsFinite ==
    ASSUME NEW f \in [Super -> Int], NEW m \in Nat, \A s \in Super : f[s] <= m
    PROVE  IsFiniteSet(Units(f)) /\ Total(f) \in Nat
<1>1. IsFiniteSet(Super \X (1..m))
    <2>1. 1 \in Int /\ m \in Int
        OBVIOUS
    <2>2. IsFiniteSet(1..m)
        BY <2>1, FS_Interval
    <2>3. QED
        BY <2>2, SuperAssumption, FS_Product
<1>2. Units(f) \subseteq Super \X (1..m)
    BY DEF Units
<1>3. QED
    BY <1>1, <1>2, FS_Subset, FS_CardinalityType, TotalIsUnits

\* One more, or one less, of one thing.
LEMMA UnitMore ==
    ASSUME NEW f \in [Super -> Int], NEW g \in [Super -> Int], NEW m \in Nat,
           \A s \in Super : f[s] <= m,
           NEW t \in Super, f[t] >= 0, g[t] = f[t] + 1,
           \A s \in Super : s # t => 1..g[s] = 1..f[s]
    PROVE  Total(g) = Total(f) + 1
<1>1. IsFiniteSet(Units(f))
    BY UnitsFinite
<1>2. Units(g) = Units(f) \cup {<<t, g[t]>>}
    <2>1. 1..g[t] = (1..f[t]) \cup {g[t]}
        OBVIOUS
    <2>2. ASSUME NEW e \in Units(g) PROVE e \in Units(f) \cup {<<t, g[t]>>}
        BY <2>1, <2>2, UnitsAre
    <2>3. ASSUME NEW e \in Units(f) PROVE e \in Units(g)
        BY <2>1, <2>3, UnitsAre
    <2>4. <<t, g[t]>> \in Units(g)
        BY <2>1, UnitsAre
    <2>5. QED
        BY <2>2, <2>3, <2>4
<1>3. <<t, g[t]>> \notin Units(f)
    <2>1. g[t] \notin 1..f[t]
        OBVIOUS
    <2>2. QED
        BY <2>1, UnitsAre
<1>4. QED
    BY <1>1, <1>2, <1>3, FS_AddElement, TotalIsUnits

\* No more in sum than the other, if nowhere more; and the same in sum only if the same
\* everywhere.
LEMMA TotalMonotone ==
    ASSUME NEW f \in [Super -> Nat], NEW g \in [Super -> Nat],
           \E m \in Nat : \A s \in Super : f[s] <= m /\ g[s] <= m,
           \A s \in Super : f[s] <= g[s],
           Total(f) = Total(g)
    PROVE  \A s \in Super : f[s] = g[s]
<1>1. Units(f) \subseteq Units(g)
    <2>1. ASSUME NEW e \in Units(f) PROVE e \in Units(g)
        <3>1. e = <<e[1], e[2]>> /\ e[1] \in Super /\ e[2] \in 1..f[e[1]]
            BY <2>1, UnitsAre
        <3>2. e[2] \in 1..g[e[1]]
            BY <3>1
        <3>3. QED
            BY <3>1, <3>2, UnitsAre
    <2>2. QED
        BY <2>1
<1>2. IsFiniteSet(Units(g))
    BY UnitsFinite
<1>3. Units(f) = Units(g)
    BY <1>1, <1>2, FS_Subset, TotalIsUnits
<1>4. ASSUME NEW s \in Super, f[s] # g[s] PROVE FALSE
    <2>1. g[s] \in 1..g[s] /\ g[s] \notin 1..f[s]
        BY <1>4
    <2>2. <<s, g[s]>> \in Units(g)
        BY <2>1, UnitsAre
    <2>3. <<s, g[s]>> \notin Units(f)
        BY <2>1, UnitsAre
    <2>4. QED
        BY <1>3, <2>2, <2>3
<1>5. QED
    BY <1>4

-----------------------------------------------------------------------------
(* Targets.                                                                  *)

LEMMA TargetIs ==
    ASSUME NEW total \in Nat
    PROVE  /\ total \div Supers \in Nat /\ total % Supers \in 0..(Supers - 1)
           /\ total = Supers * (total \div Supers) + (total % Supers)
           /\ \A n \in 1..Supers :
                 /\ Target(n, total, Supers) \in Nat
                 /\ Target(n, total, Supers) =
                        IF n <= total % Supers THEN total \div Supers + 1
                                               ELSE total \div Supers
<1>1. PICK k \in Nat : k = Supers /\ k >= 1
    BY SupersAreNat
<1>2. /\ total \div k \in Int /\ total % k \in 0..(k - 1)
      /\ total = k * (total \div k) + (total % k)
    BY <1>1
<1>3. total \div k >= 0
    <2>1. SUFFICES ASSUME total \div k <= -1 PROVE FALSE
        BY <1>2
    <2>2. k * (total \div k) <= k * (-1)
        BY <1>1, <1>2, <2>1
    <2>3. QED
        BY <1>1, <1>2, <2>2
<1>4. QED
    BY <1>1, <1>2, <1>3 DEF Target

\* How many positions there are up to one of them.
LEMMA PositionsUpTo ==
    ASSUME NEW a \in Nat
    PROVE  IsFiniteSet(1..a) /\ Cardinality(1..a) = a
<1>1. 1 \in Int /\ a \in Int
    OBVIOUS
<1>2. IsFiniteSet(1..a) /\ Cardinality(1..a) = IF 1 > a THEN 0 ELSE a - 1 + 1
    BY <1>1, FS_Interval
<1>3. QED
    BY <1>2

\* ord lists every super peer once, and f gives each the target of its position.
HasTargets(f, ord, total) ==
    /\ \A m, n \in 1..Supers : ord[m] = ord[n] => m = n
    /\ \A s \in Super : \E n \in 1..Supers : ord[n] = s
    /\ \A n \in 1..Supers : f[ord[n]] = Target(n, total, Supers)

\* The targets add up to what there is.
LEMMA TargetsTotal ==
    ASSUME NEW total \in Nat, NEW ord \in [1..Supers -> Super], NEW f \in [Super -> Nat],
           HasTargets(f, ord, total)
    PROVE  Total(f) = total
<1>0. /\ \A m, n \in 1..Supers : ord[m] = ord[n] => m = n
      /\ \A s \in Super : \E n \in 1..Supers : ord[n] = s
      /\ \A n \in 1..Supers : f[ord[n]] = Target(n, total, Supers)
    BY DEF HasTargets
<1>1. PICK k \in Nat, a \in Nat, r \in Nat :
          /\ k = Supers /\ k >= 1 /\ a = total \div Supers /\ r = total % Supers
          /\ r < k /\ total = k * a + r
    <2>1. Supers \in Nat /\ Supers >= 1
        BY SupersAreNat
    <2>2. /\ total \div Supers \in Nat /\ total % Supers \in 0..(Supers - 1)
          /\ total = Supers * (total \div Supers) + (total % Supers)
        BY TargetIs
    <2>3. total % Supers \in Nat /\ total % Supers < Supers
        BY <2>1, <2>2
    <2>4. QED
        BY <2>1, <2>2, <2>3
<1>2. \A n \in 1..k : f[ord[n]] = IF n <= r THEN a + 1 ELSE a
    BY <1>0, <1>1, TargetIs
<1> DEFINE Base == Super \X (1..a)
           F == {<<ord[n], a + 1>> : n \in 1..r}
<1>3. IsFiniteSet(Base) /\ Cardinality(Base) = k * a
    <2>1. IsFiniteSet(1..a) /\ Cardinality(1..a) = a
        BY PositionsUpTo
    <2>2. IsFiniteSet(Base) /\ Cardinality(Base) = Cardinality(Super) * Cardinality(1..a)
        BY <2>1, SuperAssumption, FS_Product
    <2>3. QED
        BY <1>1, <2>1, <2>2 DEF Supers
<1>4. IsFiniteSet(F) /\ Cardinality(F) = r
    <2> DEFINE h == [n \in 1..r |-> <<ord[n], a + 1>>]
    <2>1. h \in Bijection(1..r, F)
        <3>1. h \in [1..r -> F]
            OBVIOUS
        <3>2. \A m, n \in 1..r : h[m] = h[n] => m = n
            BY <1>0, <1>1
        <3>3. \A e \in F : \E n \in 1..r : h[n] = e
            OBVIOUS
        <3>4. QED
            BY <3>1, <3>2, <3>3 DEF Bijection, Injection, Surjection, IsInjective
    <2>2. IsFiniteSet(1..r) /\ Cardinality(1..r) = r
        BY PositionsUpTo
    <2> HIDE DEF h, F
    <2>3. QED
        BY <2>1, <2>2, FS_Bijection DEF ExistsBijection
<1>5. \A e : e \in F <=> \E n \in 1..r : e = <<ord[n], a + 1>>
    OBVIOUS
<1> HIDE DEF F
<1>6. Base \cap F = {}
    BY <1>5
<1>7. Units(f) = Base \cup F
    <2>1. ASSUME NEW e \in Units(f) PROVE e \in Base \cup F
        <3>1. e = <<e[1], e[2]>> /\ e[1] \in Super /\ e[2] \in 1..f[e[1]]
            BY <2>1, UnitsAre
        <3>2. PICK n \in 1..k : ord[n] = e[1]
            BY <1>0, <1>1, <3>1
        <3>3. CASE e[2] \in 1..a
            BY <3>1, <3>3
        <3>4. CASE e[2] \notin 1..a
            <4>1. n <= r /\ e[2] = a + 1
                BY <1>2, <3>1, <3>2, <3>4
            <4>2. QED
                BY <1>5, <3>1, <3>2, <4>1
        <3>5. QED
            BY <3>3, <3>4
    <2>2. ASSUME NEW e \in Base PROVE e \in Units(f)
        <3>1. e = <<e[1], e[2]>> /\ e[1] \in Super /\ e[2] \in 1..a
            BY <2>2
        <3>2. PICK n \in 1..k : ord[n] = e[1]
            BY <1>0, <1>1, <3>1
        <3>3. e[2] \in 1..f[e[1]]
            BY <1>2, <3>1, <3>2
        <3>4. QED
            BY <3>1, <3>3, UnitsAre
    <2>3. ASSUME NEW e \in F PROVE e \in Units(f)
        <3>1. PICK n \in 1..r : e = <<ord[n], a + 1>>
            BY <1>5, <2>3
        <3>2. n \in 1..k /\ ord[n] \in Super /\ f[ord[n]] = a + 1
            BY <1>0, <1>1, <1>2
        <3>3. a + 1 \in 1..f[ord[n]]
            BY <3>2
        <3>4. QED
            BY <3>1, <3>2, <3>3, UnitsAre
    <2>4. QED
        BY <2>1, <2>2, <2>3
<1> HIDE DEF Base
<1>8. Cardinality(Units(f)) = Cardinality(Base) + Cardinality(F) - Cardinality(Base \cap F)
    BY <1>3, <1>4, <1>7, FS_Union
<1>9. Cardinality(Units(f)) = total
    <2>1. Cardinality(Base \cap F) = 0
        BY <1>6, FS_EmptySet
    <2>2. k * a \in Nat
        BY <1>1
    <2>3. Cardinality(Units(f)) = k * a + r
        BY <1>1, <1>3, <1>4, <1>8, <2>1, <2>2
    <2>4. QED
        BY <1>1, <2>3
<1>10. QED
    BY <1>9, TotalIsUnits

-----------------------------------------------------------------------------
(* The invariant.                                                            *)

LEMMA TotalOfLoads ==
    ASSUME NEW l \in [Super -> 0..MaxLoad]
    PROVE  Total(l) \in Nat
<1>1. l \in [Super -> Int] /\ \A s \in Super : l[s] <= MaxLoad
    BY MaxLoadAssumption
<1>2. QED
    BY <1>1, UnitsFinite, MaxLoadAssumption

\* What is known of the targets, of a position and of all loads.
LEMMA Places ==
    ASSUME Invariant
    PROVE  /\ Supers \in Nat /\ Len(plan) = Supers /\ plan \in Seq(Entry)
           /\ Total(before) \in Nat
           /\ \A n \in 1..Supers :
                 /\ plan[n].id \in Super /\ plan[n].excess \in Int
                 /\ TargetAt(n) \in Nat /\ BeforeAt(n) \in 0..MaxLoad /\ LoadAt(n) \in Nat
<1>1. Supers \in Nat
    BY SupersAreNat
<1>2. Total(before) \in Nat
    BY TotalOfLoads DEF Invariant, TypeOK
<1>3. plan \in Seq(Entry) /\ Len(plan) = Supers
    BY <1>1 DEF Invariant, TypeOK
<1>4. ASSUME NEW n \in 1..Supers
      PROVE  /\ plan[n].id \in Super /\ plan[n].excess \in Int
             /\ TargetAt(n) \in Nat /\ BeforeAt(n) \in 0..MaxLoad /\ LoadAt(n) \in Nat
    <2>1. plan[n] \in Entry
        BY DEF Invariant, TypeOK
    <2>2. plan[n].id \in Super /\ plan[n].excess \in Int
        BY <2>1 DEF Entry
    <2>3. TargetAt(n) \in Nat
        BY <1>2, TargetIs DEF TargetAt
    <2>4. QED
        BY <2>2, <2>3 DEF Invariant, TypeOK, BeforeAt, LoadAt
<1>5. QED
    BY <1>1, <1>2, <1>3, <1>4

LEMMA InitInv == Init => Invariant
<1> SUFFICES ASSUME Init PROVE Invariant
    OBVIOUS
<1>1. /\ before \in [Super -> 0..MaxLoad] /\ load = before /\ moves = 0
      /\ Total(before) \in Nat /\ Supers \in Nat
    BY TotalOfLoads, SupersAreNat DEF Init
<1>2. PICK ord \in Orders(Super, before) : plan = PlanOf(ord, before, Total(before))
    BY DEF Init
<1>3. /\ ord \in [1..Supers -> Super] /\ Len(ord) = Supers
      /\ \A m, n \in 1..Supers : ord[m] = ord[n] => m = n
    <2>1. /\ ord \in [1..Supers -> Super]
          /\ \A m, n \in 1..Supers : m < n => ord[m] # ord[n]
        BY DEF Orders, Supers
    <2>2. \A m, n \in 1..Supers : m < n \/ n < m \/ m = n
        BY <1>1
    <2>3. QED
        BY <1>1, <2>1, <2>2
<1>4. \A s \in Super : \E n \in 1..Supers : ord[n] = s
    <2>1. ord \in Injection(1..Supers, Super)
        BY <1>3 DEF Injection, IsInjective
    <2>2. Cardinality(1..Supers) = Supers
        BY <1>1, PositionsUpTo
    <2>3. ord \in Surjection(1..Supers, Super)
        BY <2>1, <2>2, SuperAssumption, FS_Injection DEF Supers
    <2>4. QED
        BY <2>3 DEF Surjection
<1>5. \A n \in 1..Supers :
          /\ plan[n].id = ord[n] /\ plan[n].excess = before[ord[n]] - TargetAt(n)
          /\ TargetAt(n) \in Nat /\ before[ord[n]] \in Nat /\ plan[n] \in Entry
    <2>1. SUFFICES ASSUME NEW n \in 1..Supers
                   PROVE  /\ plan[n].id = ord[n]
                          /\ plan[n].excess = before[ord[n]] - TargetAt(n)
                          /\ TargetAt(n) \in Nat /\ before[ord[n]] \in Nat
                          /\ plan[n] \in Entry
        OBVIOUS
    <2>2. TargetAt(n) \in Nat
        BY <1>1, TargetIs DEF TargetAt
    <2>3. ord[n] \in Super /\ before[ord[n]] \in Nat
        BY <1>1, <1>3, MaxLoadAssumption
    <2>4. plan[n] = [id |-> ord[n], excess |-> before[ord[n]] - TargetAt(n)]
        BY <1>2, <1>3 DEF PlanOf, TargetAt
    <2>5. before[ord[n]] - TargetAt(n) \in Int
        BY <2>2, <2>3
    <2>6. QED
        BY <2>2, <2>3, <2>4, <2>5 DEF Entry
<1>6. plan \in [1..Supers -> Entry]
    <2>1. plan = [n \in 1..Supers |-> plan[n]]
        BY <1>2, <1>3 DEF PlanOf
    <2>2. QED
        BY <1>5, <2>1
<1>7. TypeOK
    BY <1>1, <1>6, MaxLoadAssumption DEF TypeOK
<1>8. PlanIsOrder
    <2>1. \A n \in 1..Supers : plan[n].id = ord[n]
        BY <1>5
    <2>2. QED
        BY <1>3, <1>4, <2>1 DEF PlanIsOrder
<1>9. UnderWay
    <2>1. SUFFICES ASSUME NEW n \in 1..Supers
                   PROVE  /\ plan[n].excess = LoadAt(n) - TargetAt(n)
                          /\ BeforeAt(n) >= TargetAt(n) => LoadAt(n) \in TargetAt(n)..BeforeAt(n)
                          /\ BeforeAt(n) <= TargetAt(n) => LoadAt(n) \in BeforeAt(n)..TargetAt(n)
        BY DEF UnderWay
    <2>2. plan[n].excess = before[ord[n]] - TargetAt(n) /\ plan[n].id = ord[n]
        BY <1>5
    <2>3. LoadAt(n) = before[ord[n]] /\ BeforeAt(n) = before[ord[n]]
        BY <1>1, <2>2 DEF LoadAt, BeforeAt
    <2>4. PICK b, d \in Int : b = before[ord[n]] /\ d = TargetAt(n)
        BY <1>5
    <2>5. QED
        BY <2>2, <2>3, <2>4
<1>10. Booked
    <2>1. \A s \in Super : before[s] - load[s] = 0 /\ load[s] - before[s] = 0
        BY <1>1, MaxLoadAssumption
    <2>2. ASSUME NEW f, \A s \in Super : f[s] = 0 PROVE Total(f) = 0
        <3>1. Units(f) = {}
            BY <2>2 DEF Units
        <3>2. QED
            BY <3>1, FS_EmptySet, TotalIsUnits
    <2>3. /\ Total([s \in Super |-> before[s] - load[s]]) = 0
          /\ Total([s \in Super |-> load[s] - before[s]]) = 0
        BY <2>1, <2>2
    <2>4. QED
        BY <1>1, <2>3 DEF Booked
<1>11. QED
    BY <1>7, <1>8, <1>9, <1>10 DEF Invariant

\* As many moves as children have been given, and nobody gives a child twice.
MovesBounded == moves <= Total(before)

LEMMA BoundMoves == Invariant => MovesBounded
<1> SUFFICES ASSUME Invariant PROVE MovesBounded
    OBVIOUS
<1> DEFINE given == [s \in Super |-> before[s] - load[s]]
<1>1. /\ before \in [Super -> Int] /\ given \in [Super -> Int] /\ MaxLoad \in Nat
      /\ \A s \in Super : given[s] <= before[s] /\ before[s] <= MaxLoad
    BY MaxLoadAssumption DEF Invariant, TypeOK
<1> HIDE DEF given
<1>2. Units(given) \subseteq Units(before)
    <2>1. ASSUME NEW e \in Units(given) PROVE e \in Units(before)
        <3>1. e = <<e[1], e[2]>> /\ e[1] \in Super /\ e[2] \in 1..given[e[1]]
            BY <2>1, UnitsAre
        <3>2. e[2] \in 1..before[e[1]]
            BY <1>1, <3>1
        <3>3. QED
            BY <3>1, <3>2, UnitsAre
    <2>2. QED
        BY <2>1
<1>3. IsFiniteSet(Units(before))
    BY <1>1, UnitsFinite
<1>4. Total(given) <= Total(before)
    BY <1>2, <1>3, FS_Subset, TotalIsUnits
<1>5. QED
    BY <1>4 DEF MovesBounded, Invariant, Booked, given

\* What a move does at each position.
LEMMA MoveAt ==
    ASSUME Invariant, NEW i \in 1..Len(plan), NEW j \in 1..Len(plan), Move(i, j)
    PROVE  /\ i \in 1..Supers /\ j \in 1..Supers
           /\ plan[i].excess > 0 /\ plan[j].excess < 0 /\ i # j
           /\ before' = before /\ moves' = moves + 1
           /\ plan' \in [1..Supers -> Entry]
           /\ load' \in [Super -> Int]
           /\ \A n \in 1..Supers :
                 /\ plan'[n].id = plan[n].id
                 /\ plan'[n].excess = IF n = i THEN plan[n].excess - 1
                                      ELSE IF n = j THEN plan[n].excess + 1
                                      ELSE plan[n].excess
                 /\ load'[plan[n].id] = IF n = i THEN LoadAt(n) - 1
                                        ELSE IF n = j THEN LoadAt(n) + 1 ELSE LoadAt(n)
<1>1. /\ i \in 1..Supers /\ j \in 1..Supers
      /\ plan[i].excess > 0 /\ plan[j].excess < 0
      /\ before' = before /\ moves' = moves + 1
      /\ plan' = BookMove(plan, i, j)
      /\ load' = [load EXCEPT ![plan[i].id] = @ - 1, ![plan[j].id] = @ + 1]
    <2>1. /\ i \in 1..Supers /\ j \in 1..Supers
          /\ plan[i].excess > 0 /\ plan[j].excess < 0
        BY Places DEF Move, IsGiver, IsReceiver
    <2>2. load[plan[i].id] > 0
        <3>1. plan[i].excess = LoadAt(i) - TargetAt(i)
            BY <2>1 DEF Invariant, UnderWay
        <3>2. TargetAt(i) \in Nat /\ LoadAt(i) \in Nat
            BY <2>1, Places
        <3>3. QED
            BY <2>1, <3>1, <3>2 DEF LoadAt
    <2>3. moves < MoveBound
        <3>1. moves <= Total(before)
            BY BoundMoves DEF MovesBounded
        <3>2. moves \in Nat /\ Total(before) \in Nat
            BY Places DEF Invariant, TypeOK
        <3>3. QED
            BY <3>1, <3>2 DEF MoveBound
    <2>4. QED
        BY <2>1, <2>2, <2>3 DEF Move, MoveChild
<1>2. i # j
    BY <1>1, Places
<1>3. plan[i].id # plan[j].id
    BY <1>1, <1>2 DEF Invariant, PlanIsOrder
<1>4. \A n \in 1..Supers :
          /\ plan'[n].id = plan[n].id
          /\ plan'[n].excess = IF n = i THEN plan[n].excess - 1
                               ELSE IF n = j THEN plan[n].excess + 1
                               ELSE plan[n].excess
          /\ plan'[n] \in Entry
    <2>1. SUFFICES ASSUME NEW n \in 1..Supers
                   PROVE  /\ plan'[n].id = plan[n].id
                          /\ plan'[n].excess = IF n = i THEN plan[n].excess - 1
                                               ELSE IF n = j THEN plan[n].excess + 1
                                               ELSE plan[n].excess
                          /\ plan'[n] \in Entry
        OBVIOUS
    <2>2. plan[n].id \in Super /\ plan[n].excess \in Int /\ Len(plan) = Supers
        BY Places
    <2>3. plan'[n] = [id |-> plan[n].id,
                      excess |-> plan[n].excess - (IF n = i THEN 1 ELSE 0)
                                                + (IF n = j THEN 1 ELSE 0)]
        BY <1>1, <2>2 DEF BookMove
    <2>4. QED
        BY <1>2, <2>2, <2>3 DEF Entry
<1>5. plan' \in [1..Supers -> Entry]
    <2>1. plan' = [n \in 1..Supers |-> plan'[n]]
        BY <1>1, Places DEF BookMove
    <2>2. QED
        BY <1>4, <2>1
<1>6. load \in [Super -> Nat] /\ plan[i].id \in Super /\ plan[j].id \in Super
    BY <1>1, Places DEF Invariant, TypeOK
<1>7. load' \in [Super -> Int]
    BY <1>1, <1>3, <1>6
<1>8. ASSUME NEW n \in 1..Supers
      PROVE  load'[plan[n].id] = IF n = i THEN LoadAt(n) - 1
                                 ELSE IF n = j THEN LoadAt(n) + 1 ELSE LoadAt(n)
    <2>1. /\ n # i => plan[n].id # plan[i].id
          /\ n # j => plan[n].id # plan[j].id
          /\ plan[n].id \in Super
        BY <1>1, Places DEF Invariant, PlanIsOrder
    <2>2. QED
        BY <1>1, <1>2, <1>3, <1>6, <2>1 DEF LoadAt
<1>9. QED
    BY <1>1, <1>2, <1>4, <1>5, <1>7, <1>8

\* Only the loads of the two supers of a move change, by one, and away from what
\* they were before.
LEMMA MoveLoads ==
    ASSUME Invariant, NEW i \in 1..Len(plan), NEW j \in 1..Len(plan), Move(i, j)
    PROVE  \E s, t \in Super :
              /\ s # t
              /\ load'[s] = load[s] - 1 /\ load[s] >= 1 /\ load[s] <= before[s]
              /\ load'[t] = load[t] + 1 /\ load[t] >= before[t]
              /\ \A u \in Super : u # s /\ u # t => load'[u] = load[u]
<1>1. /\ i \in 1..Supers /\ j \in 1..Supers
      /\ plan[i].excess > 0 /\ plan[j].excess < 0 /\ i # j
    BY MoveAt
<1>2. /\ plan[i].excess = LoadAt(i) - TargetAt(i)
      /\ BeforeAt(i) >= TargetAt(i) => LoadAt(i) \in TargetAt(i)..BeforeAt(i)
      /\ BeforeAt(i) <= TargetAt(i) => LoadAt(i) \in BeforeAt(i)..TargetAt(i)
    BY <1>1 DEF Invariant, UnderWay
<1>3. /\ plan[j].excess = LoadAt(j) - TargetAt(j)
      /\ BeforeAt(j) >= TargetAt(j) => LoadAt(j) \in TargetAt(j)..BeforeAt(j)
      /\ BeforeAt(j) <= TargetAt(j) => LoadAt(j) \in BeforeAt(j)..TargetAt(j)
    BY <1>1 DEF Invariant, UnderWay
<1>4. /\ plan[i].id \in Super /\ TargetAt(i) \in Nat /\ BeforeAt(i) \in Nat /\ LoadAt(i) \in Nat
      /\ plan[j].id \in Super /\ TargetAt(j) \in Nat /\ BeforeAt(j) \in Nat /\ LoadAt(j) \in Nat
    BY <1>1, Places, MaxLoadAssumption
<1>5. LoadAt(i) >= 1 /\ LoadAt(i) <= BeforeAt(i)
    BY <1>1, <1>2, <1>4
<1>6. LoadAt(j) >= BeforeAt(j)
    BY <1>1, <1>3, <1>4
<1>7. /\ load'[plan[i].id] = LoadAt(i) - 1
      /\ load'[plan[j].id] = LoadAt(j) + 1
    BY <1>1, MoveAt
<1>8. plan[i].id # plan[j].id
    BY <1>1 DEF Invariant, PlanIsOrder
<1>9. ASSUME NEW u \in Super, u # plan[i].id, u # plan[j].id
      PROVE  load'[u] = load[u]
    <2>1. PICK n \in 1..Supers : plan[n].id = u
        BY DEF Invariant, PlanIsOrder
    <2>2. n # i /\ n # j
        BY <1>9, <2>1
    <2>3. QED
        BY <2>1, <2>2, MoveAt DEF LoadAt
<1>10. QED
    BY <1>4, <1>5, <1>6, <1>7, <1>8, <1>9 DEF LoadAt, BeforeAt

\* No load ever exceeds the larger of the load before and the target.
LEMMA LoadsBounded ==
    ASSUME Invariant
    PROVE  \E m \in Nat : \A s \in Super : load[s] <= m /\ before[s] <= m
<1>1. PICK a \in Nat : a = Total(before) \div Supers
    BY Places, TargetIs
<1>2. ASSUME NEW s \in Super
      PROVE  load[s] <= MaxLoad + a + 1 /\ before[s] <= MaxLoad + a + 1
    <2>1. PICK n \in 1..Supers : plan[n].id = s
        BY DEF Invariant, PlanIsOrder
    <2>2. TargetAt(n) \in Nat /\ TargetAt(n) <= a + 1
        <3>1. TargetAt(n) = IF n <= Total(before) % Supers THEN a + 1 ELSE a
            BY <1>1, Places, TargetIs DEF TargetAt
        <3>2. QED
            BY <3>1
    <2>3. BeforeAt(n) \in 0..MaxLoad /\ LoadAt(n) \in Nat
        BY Places
    <2>4. /\ BeforeAt(n) >= TargetAt(n) => LoadAt(n) \in TargetAt(n)..BeforeAt(n)
          /\ BeforeAt(n) <= TargetAt(n) => LoadAt(n) \in BeforeAt(n)..TargetAt(n)
        BY DEF Invariant, UnderWay
    <2>5. LoadAt(n) <= MaxLoad + a + 1 /\ BeforeAt(n) <= MaxLoad + a + 1
        BY <2>2, <2>3, <2>4, MaxLoadAssumption
    <2>6. QED
        BY <2>1, <2>5 DEF LoadAt, BeforeAt
<1>3. QED
    BY <1>2, MaxLoadAssumption

\* What moving one thing from s to t does to the sums.
LEMMA OneMoved ==
    ASSUME NEW b \in [Super -> Nat], NEW l \in [Super -> Nat], NEW k \in [Super -> Int],
           \E m \in Nat : \A u \in Super : l[u] <= m /\ b[u] <= m,
           \E s, t \in Super :
              /\ s # t
              /\ k[s] = l[s] - 1 /\ l[s] >= 1 /\ l[s] <= b[s]
              /\ k[t] = l[t] + 1 /\ l[t] >= b[t]
              /\ \A u \in Super : u # s /\ u # t => k[u] = l[u]
    PROVE  /\ Total(k) = Total(l)
           /\ Total([u \in Super |-> b[u] - k[u]]) = Total([u \in Super |-> b[u] - l[u]]) + 1
           /\ Total([u \in Super |-> k[u] - b[u]]) = Total([u \in Super |-> l[u] - b[u]]) + 1
<1>0. PICK m \in Nat, s \in Super, t \in Super :
          /\ \A u \in Super : l[u] <= m /\ b[u] <= m
          /\ s # t
          /\ k[s] = l[s] - 1 /\ l[s] >= 1 /\ l[s] <= b[s]
          /\ k[t] = l[t] + 1 /\ l[t] >= b[t]
          /\ \A u \in Super : u # s /\ u # t => k[u] = l[u]
    OBVIOUS
<1> DEFINE half == [u \in Super |-> IF u = s THEN k[u] ELSE l[u]]
           given(f) == [u \in Super |-> b[u] - f[u]]
           received(f) == [u \in Super |-> f[u] - b[u]]
<1>1. /\ \A u \in Super : l[u] \in Nat /\ b[u] \in Nat /\ k[u] \in Int
      /\ half \in [Super -> Int] /\ half[s] = l[s] - 1
      /\ \A u \in Super : u # s => half[u] = l[u]
    BY <1>0
<1>2. Total(l) = Total(half) + 1
    <2>1. \A u \in Super : half[u] <= m
        BY <1>0, <1>1
    <2>2. half[s] >= 0 /\ l[s] = half[s] + 1 /\ l \in [Super -> Int]
        BY <1>0, <1>1
    <2>3. \A u \in Super : s # u => 1..l[u] = 1..half[u]
        BY <1>0, <1>1
    <2> HIDE DEF half
    <2>4. QED
        BY <1>0, <1>1, <2>1, <2>2, <2>3, UnitMore
<1>3. Total(k) = Total(half) + 1
    <2>1. \A u \in Super : half[u] <= m
        BY <1>0, <1>1
    <2>2. half[t] >= 0 /\ k[t] = half[t] + 1
        BY <1>0, <1>1
    <2>3. \A u \in Super : t # u => 1..k[u] = 1..half[u]
        BY <1>0, <1>1
    <2> HIDE DEF half
    <2>4. QED
        BY <1>0, <1>1, <2>1, <2>2, <2>3, UnitMore
<1>4. Total(given(k)) = Total(given(l)) + 1
    <2>1. /\ given(k) \in [Super -> Int] /\ given(l) \in [Super -> Int]
          /\ \A u \in Super : given(l)[u] = b[u] - l[u] /\ given(k)[u] = b[u] - k[u]
        BY <1>0, <1>1
    <2> HIDE DEF given, half
    <2>2. \A u \in Super : given(l)[u] <= m
        BY <1>0, <1>1, <2>1
    <2>3. given(l)[s] >= 0 /\ given(k)[s] = given(l)[s] + 1
        BY <1>0, <1>1, <2>1
    <2>4. ASSUME NEW u \in Super, s # u PROVE 1..given(k)[u] = 1..given(l)[u]
        <3>1. CASE u = t
            <4>1. given(k)[u] < 1 /\ given(l)[u] < 1
                BY <1>0, <1>1, <2>1, <3>1
            <4>2. PICK x, y \in Int : x = given(k)[u] /\ y = given(l)[u]
                BY <1>0, <1>1, <2>1
            <4>3. 1..x = {} /\ 1..y = {}
                BY <4>1, <4>2
            <4>4. QED
                BY <4>2, <4>3
        <3>2. CASE u # t
            <4>1. given(k)[u] = given(l)[u]
                BY <1>0, <2>1, <2>4, <3>2
            <4>2. QED
                BY <4>1
        <3>3. QED
            BY <3>1, <3>2
    <2>5. QED
        BY <2>1, <2>2, <2>3, <2>4, UnitMore
<1>5. Total(received(k)) = Total(received(l)) + 1
    <2>1. /\ received(k) \in [Super -> Int] /\ received(l) \in [Super -> Int]
          /\ \A u \in Super : received(l)[u] = l[u] - b[u] /\ received(k)[u] = k[u] - b[u]
        BY <1>0, <1>1
    <2> HIDE DEF received, half
    <2>2. \A u \in Super : received(l)[u] <= m
        BY <1>0, <1>1, <2>1
    <2>3. received(l)[t] >= 0 /\ received(k)[t] = received(l)[t] + 1
        BY <1>0, <1>1, <2>1
    <2>4. ASSUME NEW u \in Super, t # u PROVE 1..received(k)[u] = 1..received(l)[u]
        <3>1. CASE u = s
            <4>1. received(k)[u] < 1 /\ received(l)[u] < 1
                BY <1>0, <1>1, <2>1, <3>1
            <4>2. PICK x, y \in Int : x = received(k)[u] /\ y = received(l)[u]
                BY <1>0, <1>1, <2>1
            <4>3. 1..x = {} /\ 1..y = {}
                BY <4>1, <4>2
            <4>4. QED
                BY <4>2, <4>3
        <3>2. CASE u # s
            <4>1. received(k)[u] = received(l)[u]
                BY <1>0, <2>1, <2>4, <3>2
            <4>2. QED
                BY <4>1
        <3>3. QED
            BY <3>1, <3>2
    <2>5. QED
        BY <2>1, <2>2, <2>3, <2>4, UnitMore
<1>6. QED
    BY <1>2, <1>3, <1>4, <1>5

LEMMA MoveInv ==
    ASSUME Invariant, NEW i \in 1..Len(plan), NEW j \in 1..Len(plan), Move(i, j)
    PROVE  Invariant'
<1>1. /\ i \in 1..Supers /\ j \in 1..Supers
      /\ plan[i].excess > 0 /\ plan[j].excess < 0 /\ i # j
      /\ before' = before /\ moves' = moves + 1
      /\ plan' \in [1..Supers -> Entry]
      /\ load' \in [Super -> Int]
    BY MoveAt
<1>2. \A n \in 1..Supers :
          /\ plan'[n].id = plan[n].id
          /\ plan'[n].excess = IF n = i THEN plan[n].excess - 1
                               ELSE IF n = j THEN plan[n].excess + 1
                               ELSE plan[n].excess
          /\ load'[plan[n].id] = IF n = i THEN LoadAt(n) - 1
                                 ELSE IF n = j THEN LoadAt(n) + 1 ELSE LoadAt(n)
    BY MoveAt
<1>3. PICK s \in Super, t \in Super :
          /\ s # t
          /\ load'[s] = load[s] - 1 /\ load[s] >= 1 /\ load[s] <= before[s]
          /\ load'[t] = load[t] + 1 /\ load[t] >= before[t]
          /\ \A u \in Super : u # s /\ u # t => load'[u] = load[u]
    BY MoveLoads
<1>4. /\ before \in [Super -> 0..MaxLoad] /\ load \in [Super -> Nat] /\ moves \in Nat
    BY DEF Invariant, TypeOK
<1>5. TypeOK'
    <2>1. \A u \in Super : load'[u] \in Nat
        BY <1>3, <1>4
    <2>2. load' \in [Super -> Nat]
        BY <1>1, <2>1
    <2>3. moves' \in Nat
        BY <1>1, <1>4
    <2>4. QED
        BY <1>1, <1>4, <2>2, <2>3 DEF TypeOK
<1>6. PlanIsOrder'
    BY <1>2 DEF Invariant, PlanIsOrder
<1>7. UnderWay'
    <2>1. ASSUME NEW n \in 1..Supers
          PROVE  /\ TargetAt(n)' = TargetAt(n) /\ BeforeAt(n)' = BeforeAt(n)
                 /\ LoadAt(n)' = IF n = i THEN LoadAt(n) - 1
                                 ELSE IF n = j THEN LoadAt(n) + 1 ELSE LoadAt(n)
        BY <1>1, <1>2 DEF TargetAt, BeforeAt, LoadAt, Total
    <2>2. SUFFICES ASSUME NEW n \in 1..Supers
                   PROVE  /\ plan'[n].excess = LoadAt(n)' - TargetAt(n)'
                          /\ BeforeAt(n)' >= TargetAt(n)'
                                => LoadAt(n)' \in TargetAt(n)'..BeforeAt(n)'
                          /\ BeforeAt(n)' <= TargetAt(n)'
                                => LoadAt(n)' \in BeforeAt(n)'..TargetAt(n)'
        BY DEF UnderWay
    <2>3. /\ plan[n].excess = LoadAt(n) - TargetAt(n)
          /\ BeforeAt(n) >= TargetAt(n) => LoadAt(n) \in TargetAt(n)..BeforeAt(n)
          /\ BeforeAt(n) <= TargetAt(n) => LoadAt(n) \in BeforeAt(n)..TargetAt(n)
        BY DEF Invariant, UnderWay
    <2>4. TargetAt(n) \in Int /\ BeforeAt(n) \in Int /\ LoadAt(n) \in Int
        BY Places
    <2>5. PICK e, d, l, b \in Int : e = plan[n].excess /\ d = TargetAt(n) /\ l = LoadAt(n)
                                    /\ b = BeforeAt(n)
        BY <2>4, Places
    <2>6. /\ plan'[n].excess = IF n = i THEN e - 1 ELSE IF n = j THEN e + 1 ELSE e
          /\ TargetAt(n)' = d /\ BeforeAt(n)' = b
          /\ LoadAt(n)' = IF n = i THEN l - 1 ELSE IF n = j THEN l + 1 ELSE l
        BY <1>2, <2>1, <2>5
    <2>7. (n = i => e > 0) /\ (n = j => e < 0) /\ e = l - d
        BY <1>1, <2>3, <2>5
    <2>8. (b >= d => l \in d..b) /\ (b <= d => l \in b..d)
        BY <2>3, <2>5
    <2>9. PICK f, k \in Int : /\ f = IF n = i THEN e - 1 ELSE IF n = j THEN e + 1 ELSE e
                              /\ k = IF n = i THEN l - 1 ELSE IF n = j THEN l + 1 ELSE l
        BY <2>5
    <2>10. f = k - d /\ (b >= d => k \in d..b) /\ (b <= d => k \in b..d)
        <3>1. CASE n = i
            BY <1>1, <2>7, <2>8, <2>9, <3>1
        <3>2. CASE n = j
            BY <1>1, <2>7, <2>8, <2>9, <3>2
        <3>3. CASE n # i /\ n # j
            BY <2>7, <2>8, <2>9, <3>3
        <3>4. QED
            BY <3>1, <3>2, <3>3
    <2>11. QED
        BY <2>6, <2>9, <2>10
<1>8. Booked'
    <2>1. PICK m \in Nat : \A u \in Super : load[u] <= m /\ before[u] <= m
        BY LoadsBounded
    <2>2. PICK k \in [Super -> Int], l \in [Super -> Nat], b \in [Super -> Nat] :
              k = load' /\ l = load /\ b = before
        BY <1>1, <1>4, MaxLoadAssumption
    <2>3. /\ \E n \in Nat : \A u \in Super : l[u] <= n /\ b[u] <= n
          /\ \E v, w \in Super :
                /\ v # w
                /\ k[v] = l[v] - 1 /\ l[v] >= 1 /\ l[v] <= b[v]
                /\ k[w] = l[w] + 1 /\ l[w] >= b[w]
                /\ \A u \in Super : u # v /\ u # w => k[u] = l[u]
        BY <1>3, <2>1, <2>2
    <2>4. /\ Total(k) = Total(l)
          /\ Total([u \in Super |-> b[u] - k[u]]) = Total([u \in Super |-> b[u] - l[u]]) + 1
          /\ Total([u \in Super |-> k[u] - b[u]]) = Total([u \in Super |-> l[u] - b[u]]) + 1
        BY <2>3, OneMoved
    <2>5. /\ Total(l) = Total(b)
          /\ moves = Total([u \in Super |-> b[u] - l[u]])
          /\ moves = Total([u \in Super |-> l[u] - b[u]])
        BY <2>2 DEF Invariant, Booked
    <2>6. /\ Total(k) = Total(b)
          /\ moves' = Total([u \in Super |-> b[u] - k[u]])
          /\ moves' = Total([u \in Super |-> k[u] - b[u]])
        BY <1>1, <1>4, <2>4, <2>5
    <2>7. QED
        BY <1>1, <2>2, <2>6 DEF Booked, Total
<1>9. QED
    BY <1>5, <1>6, <1>7, <1>8 DEF Invariant

\* load_balance keeps to a plan: every super peer goes straight from the load it had
\* to its target, what one has given others have received, and num_moves is what was
\* given and what was received.
THEOREM InvariantHolds == Spec => []Invariant
<1>1. Invariant /\ [Next]_vars => Invariant'
    <2>1. SUFFICES ASSUME Invariant, [Next]_vars PROVE Invariant'
        OBVIOUS
    <2>2. CASE Next
        BY <2>1, <2>2, MoveInv DEF Next
    <2>3. CASE UNCHANGED vars
        BY <2>1, <2>3
           DEF vars, Invariant, TypeOK, PlanIsOrder, UnderWay, Booked, LoadAt, BeforeAt,
               TargetAt, Total
    <2>4. QED
        BY <2>1, <2>2, <2>3
<1>2. QED
    BY <1>1, InitInv, PTL DEF Spec

\* No child is moved to and fro: a super peer that has given never receives, and one
\* that has received never gives, on every path of the two cursors of load_balance.
THEOREM OneWayHolds == Spec => OneWay
<1> DEFINE Straight == \A s \in Super : /\ load'[s] > load[s] => load[s] >= before[s]
                                        /\ load'[s] < load[s] => load[s] <= before[s]
<1>1. Invariant /\ [Next]_vars => [Straight]_vars
    <2>1. SUFFICES ASSUME Invariant, Next PROVE Straight
        OBVIOUS
    <2>2. PICK i \in 1..Len(plan), j \in 1..Len(plan) : Move(i, j)
        BY <2>1 DEF Next
    <2>3. PICK s \in Super, t \in Super :
              /\ s # t
              /\ load'[s] = load[s] - 1 /\ load[s] >= 1 /\ load[s] <= before[s]
              /\ load'[t] = load[t] + 1 /\ load[t] >= before[t]
              /\ \A u \in Super : u # s /\ u # t => load'[u] = load[u]
        BY <2>1, <2>2, MoveLoads
    <2>4. \A u \in Super : load[u] \in Nat
        BY <2>1 DEF Invariant, TypeOK
    <2>5. QED
        BY <2>3, <2>4
<1>2. QED
    BY <1>1, InvariantHolds, PTL DEF Spec, OneWay

-----------------------------------------------------------------------------
(* When the cursors stop.                                                    *)

\* The targets of the super peers.
LEMMA TargetsBySuper ==
    ASSUME Invariant
    PROVE  \E T \in [Super -> Nat] :
              /\ \A n \in 1..Supers : T[plan[n].id] = TargetAt(n)
              /\ Total(T) = Total(before)
<1> DEFINE place(s) == CHOOSE n \in 1..Supers : plan[n].id = s
           T == [s \in Super |-> TargetAt(place(s))]
           ord == [n \in 1..Supers |-> plan[n].id]
<1>1. \A s \in Super : place(s) \in 1..Supers /\ plan[place(s)].id = s
    BY DEF Invariant, PlanIsOrder
<1>2. \A n \in 1..Supers : plan[n].id \in Super /\ place(plan[n].id) = n
    <2>1. \A n \in 1..Supers : plan[n].id \in Super
        BY Places
    <2>2. \A m, n \in 1..Supers : plan[m].id = plan[n].id => m = n
        BY DEF Invariant, PlanIsOrder
    <2> HIDE DEF place
    <2>3. QED
        BY <1>1, <2>1, <2>2
<1> HIDE DEF place
<1>3. T \in [Super -> Nat]
    BY <1>1, Places
<1>4. \A n \in 1..Supers : T[plan[n].id] = TargetAt(n)
    BY <1>2
<1>5. /\ ord \in [1..Supers -> Super]
      /\ \A m, n \in 1..Supers : ord[m] = ord[n] => m = n
      /\ \A s \in Super : \E n \in 1..Supers : ord[n] = s
      /\ \A n \in 1..Supers : ord[n] = plan[n].id
    BY <1>2 DEF Invariant, PlanIsOrder
<1>6. PICK total \in Nat : total = Total(before)
    BY Places
<1>7. \A n \in 1..Supers : T[ord[n]] = Target(n, total, Supers)
    BY <1>4, <1>5, <1>6 DEF TargetAt
<1> HIDE DEF T, ord
<1>8. Total(T) = total
    <2>1. PICK o \in [1..Supers -> Super], f \in [Super -> Nat] : o = ord /\ f = T
        BY <1>3, <1>5
    <2>2. HasTargets(f, o, total)
        BY <1>5, <1>7, <2>1 DEF HasTargets
    <2>3. Total(f) = total
        BY <2>2, TargetsTotal
    <2>4. QED
        BY <2>1, <2>3
<1>9. QED
    BY <1>3, <1>4, <1>6, <1>8

\* The cursors stop only when every load is at its target: those still under theirs,
\* or over it, alone could not add up to what there is.
LEMMA AtTargets ==
    ASSUME Invariant, ~MovesLeft(plan)
    PROVE  \A n \in 1..Supers : LoadAt(n) = TargetAt(n)
<1>1. PICK T \in [Super -> Nat] :
          /\ \A n \in 1..Supers : T[plan[n].id] = TargetAt(n)
          /\ Total(T) = Total(before)
    BY TargetsBySuper
<1>2. PICK l \in [Super -> Nat] : l = load
    BY DEF Invariant, TypeOK
<1>3. Total(l) = Total(T)
    BY <1>1, <1>2 DEF Invariant, Booked
<1>4. \A n \in 1..Supers : /\ plan[n].excess = LoadAt(n) - TargetAt(n)
                           /\ LoadAt(n) \in Nat /\ TargetAt(n) \in Nat
                           /\ LoadAt(n) = l[plan[n].id] /\ TargetAt(n) = T[plan[n].id]
    BY <1>1, <1>2, Places DEF Invariant, UnderWay, LoadAt
<1>5. \A s \in Super : \E n \in 1..Supers : plan[n].id = s
    BY DEF Invariant, PlanIsOrder
<1>6. \E m \in Nat : \A s \in Super : l[s] <= m /\ T[s] <= m
    <2>1. PICK m \in Nat : \A s \in Super : l[s] <= m
        BY <1>2, LoadsBounded
    <2>2. PICK a \in Nat : \A n \in 1..Supers : TargetAt(n) <= a
        <3>1. PICK c \in Nat : c = Total(before) \div Supers
            BY Places, TargetIs
        <3>2. \A n \in 1..Supers : TargetAt(n) = IF n <= Total(before) % Supers THEN c + 1
                                                                                ELSE c
            BY <3>1, Places, TargetIs DEF TargetAt
        <3>3. \A n \in 1..Supers : TargetAt(n) <= c + 1
            BY <3>2
        <3>4. QED
            BY <3>3
    <2>3. \A s \in Super : T[s] <= a
        BY <1>4, <1>5, <2>2
    <2>4. \A s \in Super : l[s] <= m + a /\ T[s] <= m + a
        BY <2>1, <2>3
    <2>5. QED
        BY <2>4
<1>7. \A s \in Super : l[s] = T[s]
    <2>1. CASE \A n \in 1..Supers : ~(plan[n].excess > 0)
        <3>1. \A n \in 1..Supers : LoadAt(n) <= TargetAt(n)
            BY <1>4, <2>1, Places
        <3>2. \A s \in Super : l[s] <= T[s]
            BY <1>4, <1>5, <3>1
        <3>3. QED
            BY <1>3, <1>6, <3>2, TotalMonotone
    <2>2. CASE \A n \in 1..Supers : ~(plan[n].excess < 0)
        <3>1. ASSUME NEW n \in 1..Supers PROVE TargetAt(n) <= LoadAt(n)
            <4>1. PICK e, d, c \in Int :
                      /\ e = plan[n].excess /\ d = LoadAt(n) /\ c = TargetAt(n)
                      /\ e = d - c
                BY <1>4, Places
            <4>2. ~(e < 0)
                BY <2>2, <4>1
            <4>3. QED
                BY <4>1, <4>2
        <3>2. \A s \in Super : T[s] <= l[s]
            BY <1>4, <1>5, <3>1
        <3>3. QED
            BY <1>3, <1>6, <3>2, TotalMonotone
    <2>3. QED
        BY <2>1, <2>2, Places DEF MovesLeft
<1>8. QED
    BY <1>4, <1>7, Places

\* Average and Remainder, and the targets by them.
LEMMA EvenTargets ==
    ASSUME Invariant
    PROVE  /\ Average \in Nat /\ Remainder \in Nat /\ Remainder < Supers
           /\ \A n \in 1..Supers : TargetAt(n) = IF n <= Remainder THEN Average + 1
                                                                   ELSE Average
<1>1. Total(before) \in Nat /\ Supers \in Nat
    BY Places
<1>2. Average = Total(before) \div Supers /\ Remainder = Total(before) % Supers
    BY DEF Average, Remainder, Supers
<1>3. /\ Total(before) \div Supers \in Nat
      /\ Total(before) % Supers \in 0..(Supers - 1)
      /\ \A n \in 1..Supers : Target(n, Total(before), Supers)
                                 = IF n <= Total(before) % Supers
                                   THEN Total(before) \div Supers + 1
                                   ELSE Total(before) \div Supers
    BY <1>1, TargetIs
<1>4. QED
    BY <1>1, <1>2, <1>3 DEF TargetAt

\* When load_balance has made its last move, no two super peers differ by more than one
\* child, and no child was lost or made up: for any number of super peers, any loads
\* and any order of equal loads.
THEOREM EvenWhenDoneHolds == Spec => []EvenWhenDone
<1>1. Invariant => EvenWhenDone
    <2>0. Invariant => Total(load) = Total(before)
        BY DEF Invariant, Booked
    <2>1. SUFFICES ASSUME Invariant, ~MovesLeft(plan), NEW s \in Super, NEW t \in Super
                   PROVE  load[s] <= load[t] + 1
        BY <2>0 DEF EvenWhenDone
    <2>2. PICK m \in 1..Supers, n \in 1..Supers : plan[m].id = s /\ plan[n].id = t
        BY <2>1 DEF Invariant, PlanIsOrder
    <2>3. load[s] = TargetAt(m) /\ load[t] = TargetAt(n)
        BY <2>1, <2>2, AtTargets DEF LoadAt
    <2>4. /\ TargetAt(m) = Average \/ TargetAt(m) = Average + 1
          /\ TargetAt(n) = Average \/ TargetAt(n) = Average + 1
          /\ Average \in Nat
        BY <2>1, EvenTargets
    <2>5. QED
        BY <2>3, <2>4
<1>2. QED
    BY <1>1, InvariantHolds, PTL

-----------------------------------------------------------------------------
(* The number of moves.                                                      *)

\* One more each, for some of the super peers, is in sum no more than one for each.
LEMMA OneMoreEach ==
    ASSUME NEW f \in [Super -> Int], NEW g \in [Super -> Int], NEW S \in SUBSET Super,
           \E m \in Nat : \A s \in Super : f[s] <= m /\ g[s] <= m,
           \A s \in Super : f[s] <= g[s] \/ (s \in S /\ f[s] <= g[s] + 1)
    PROVE  /\ Total(f) \in Nat /\ Total(g) \in Nat /\ Cardinality(S) \in Nat
           /\ Total(f) <= Total(g) + Cardinality(S)
<1> DEFINE h == [s \in S |-> <<s, g[s] + 1>>]
           E == {h[s] : s \in S}
<1>1. IsFiniteSet(S) /\ Cardinality(S) \in Nat
    BY SuperAssumption, FS_Subset, FS_CardinalityType
<1>2. IsFiniteSet(E) /\ Cardinality(E) <= Cardinality(S) /\ Cardinality(E) \in Nat
    <2>1. h \in Surjection(S, E)
        BY DEF Surjection
    <2> HIDE DEF h, E
    <2>2. QED
        BY <1>1, <2>1, FS_Surjection, FS_CardinalityType
<1>3. \A s \in S : <<s, g[s] + 1>> \in E
    <2>1. \A s \in S : h[s] = <<s, g[s] + 1>> /\ h[s] \in E
        OBVIOUS
    <2> HIDE DEF h, E
    <2>2. QED
        BY <2>1
<1> HIDE DEF E
<1>4. PICK m \in Nat : \A s \in Super : f[s] <= m /\ g[s] <= m
    OBVIOUS
<1>5. IsFiniteSet(Units(f)) /\ Total(f) \in Nat /\ IsFiniteSet(Units(g)) /\ Total(g) \in Nat
    BY <1>4, UnitsFinite
<1>6. Units(f) \subseteq Units(g) \cup E
    <2>1. SUFFICES ASSUME NEW e \in Units(f), e \notin Units(g) PROVE e \in E
        OBVIOUS
    <2>2. e = <<e[1], e[2]>> /\ e[1] \in Super /\ e[2] \in 1..f[e[1]]
        BY UnitsAre
    <2>3. e[2] \notin 1..g[e[1]]
        BY <2>1, <2>2, UnitsAre
    <2>4. PICK x, y \in Int : x = f[e[1]] /\ y = g[e[1]]
        BY <2>2
    <2>5. e[1] \in S /\ e[2] = y + 1
        BY <2>2, <2>3, <2>4
    <2>6. QED
        BY <1>3, <2>2, <2>4, <2>5
<1>7. IsFiniteSet(Units(g) \cup E)
      /\ Cardinality(Units(g) \cup E) <= Cardinality(Units(g)) + Cardinality(E)
    <2>1. /\ IsFiniteSet(Units(g) \cup E)
          /\ Cardinality(Units(g) \cup E)
                = Cardinality(Units(g)) + Cardinality(E) - Cardinality(Units(g) \cap E)
        BY <1>2, <1>5, FS_Union
    <2>2. Cardinality(Units(g) \cap E) \in Nat
        BY <1>5, FS_Intersection, FS_CardinalityType
    <2>3. Cardinality(Units(g)) \in Nat
        BY <1>5, FS_CardinalityType
    <2>4. QED
        BY <1>2, <2>1, <2>2, <2>3
<1>8. Cardinality(Units(f)) <= Cardinality(Units(g) \cup E)
    BY <1>6, <1>7, FS_Subset
<1>9. Cardinality(Units(g) \cup E) \in Nat
    BY <1>7, FS_CardinalityType
<1>10. Total(f) = Cardinality(Units(f)) /\ Total(g) = Cardinality(Units(g))
    BY TotalIsUnits
<1>11. QED
    BY <1>1, <1>2, <1>5, <1>7, <1>8, <1>9, <1>10

\* The super peers of a stretch of the plan are no more than its positions.
LEMMA StretchOfSupers ==
    ASSUME NEW p \in Nat, NEW q \in Nat, p <= q + 1
    PROVE  Cardinality({plan[n].id : n \in p..q}) <= q - p + 1
<1> DEFINE h == [n \in p..q |-> plan[n].id]
           S == {plan[n].id : n \in p..q}
<1>1. h \in Surjection(p..q, S)
    BY DEF Surjection
<1>2. IsFiniteSet(p..q) /\ Cardinality(p..q) = q - p + 1
    <2>1. p \in Int /\ q \in Int
        OBVIOUS
    <2>2. IsFiniteSet(p..q) /\ Cardinality(p..q) = IF p > q THEN 0 ELSE q - p + 1
        BY <2>1, FS_Interval
    <2>3. QED
        BY <2>2
<1> HIDE DEF h, S
<1>3. Cardinality(S) <= Cardinality(p..q)
    BY <1>1, <1>2, FS_Surjection
<1>4. QED
    BY <1>2, <1>3 DEF S

\* At most one move per super peer with the average as target is not needed to bring
\* the others down to the ceiling.
LEMMA WastedOnLow ==
    ASSUME Invariant, ~MovesLeft(plan)
    PROVE  /\ Total([s \in Super |-> before[s] - Ceiling]) \in Nat
           /\ moves - Total([s \in Super |-> before[s] - Ceiling]) <= Supers - Remainder
<1>1. PICK a \in Nat, r \in Nat, c \in Nat, k \in Nat :
          /\ a = Average /\ r = Remainder /\ c = Ceiling /\ k = Supers /\ r < k
          /\ c = a + (IF r = 0 THEN 0 ELSE 1)
    BY EvenTargets, Places DEF Ceiling
<1> DEFINE S == {plan[n].id : n \in (r + 1)..k}
           f == [s \in Super |-> before[s] - load[s]]
           g == [s \in Super |-> before[s] - c]
<1>2. \A s \in Super : before[s] \in 0..MaxLoad /\ load[s] \in Nat
    BY DEF Invariant, TypeOK
<1>3. f \in [Super -> Int] /\ g \in [Super -> Int]
    BY <1>1, <1>2, MaxLoadAssumption
<1>4. S \in SUBSET Super
    BY <1>1, Places
<1>5. \E m \in Nat : \A s \in Super : f[s] <= m /\ g[s] <= m
    <2>1. \A s \in Super : f[s] <= MaxLoad /\ g[s] <= MaxLoad
        BY <1>1, <1>2, MaxLoadAssumption
    <2>2. QED
        BY <2>1, MaxLoadAssumption
<1>6. \A s \in Super : f[s] <= g[s] \/ (s \in S /\ f[s] <= g[s] + 1)
    <2>1. SUFFICES ASSUME NEW s \in Super
                   PROVE  f[s] <= g[s] \/ (s \in S /\ f[s] <= g[s] + 1)
        OBVIOUS
    <2>2. PICK n \in 1..k : plan[n].id = s
        BY <1>1 DEF Invariant, PlanIsOrder
    <2>3. load[s] = IF n <= r THEN a + 1 ELSE a
        BY <1>1, <2>2, AtTargets, EvenTargets DEF LoadAt
    <2>4. n > r => s \in S
        BY <1>1, <2>2
    <2>5. PICK b, l \in Int : b = before[s] /\ l = load[s]
        BY <1>2
    <2>6. f[s] = b - l /\ g[s] = b - c
        BY <2>5
    <2> HIDE DEF f, g, S
    <2>7. CASE n <= r
        BY <1>1, <2>3, <2>5, <2>6, <2>7
    <2>8. CASE n > r
        BY <1>1, <2>3, <2>4, <2>5, <2>6, <2>8
    <2>9. QED
        BY <1>1, <2>7, <2>8
<1>7. Cardinality(S) <= k - r
    <2>1. PICK p \in Nat : p = r + 1 /\ p <= k + 1
        BY <1>1
    <2>2. Cardinality({plan[n].id : n \in p..k}) <= k - p + 1
        BY <1>1, <2>1, StretchOfSupers
    <2>3. S = {plan[n].id : n \in p..k}
        BY <2>1
    <2> HIDE DEF f, g, S
    <2>4. k - p + 1 = k - r
        BY <1>1, <2>1
    <2>5. QED
        BY <2>2, <2>3, <2>4
<1>8. moves = Total(f) /\ Total(g) = Total([s \in Super |-> before[s] - Ceiling])
    BY <1>1 DEF Invariant, Booked
<1> HIDE DEF f, g, S
<1>9. /\ Total(f) \in Nat /\ Total(g) \in Nat /\ Cardinality(S) \in Nat
      /\ Total(f) <= Total(g) + Cardinality(S)
    BY <1>3, <1>4, <1>5, <1>6, OneMoreEach
<1>10. Total(f) - Total(g) <= k - r
    BY <1>1, <1>7, <1>9
<1>11. QED
    BY <1>1, <1>8, <1>9, <1>10

\* At most one move per super peer with one more as target is not needed to bring the
\* others up to the average.
LEMMA WastedOnHigh ==
    ASSUME Invariant, ~MovesLeft(plan)
    PROVE  /\ Total([s \in Super |-> Average - before[s]]) \in Nat
           /\ moves - Total([s \in Super |-> Average - before[s]]) <= Remainder
<1>1. PICK a \in Nat, r \in Nat, k \in Nat :
          a = Average /\ r = Remainder /\ k = Supers /\ r < k
    BY EvenTargets, Places
<1> DEFINE S == {plan[n].id : n \in 1..r}
           f == [s \in Super |-> load[s] - before[s]]
           g == [s \in Super |-> a - before[s]]
<1>2. \A s \in Super : before[s] \in Nat /\ load[s] \in Nat
    BY MaxLoadAssumption DEF Invariant, TypeOK
<1>3. f \in [Super -> Int] /\ g \in [Super -> Int]
    BY <1>1, <1>2
<1>4. S \in SUBSET Super
    BY <1>1, Places
<1>5. \E m \in Nat : \A s \in Super : f[s] <= m /\ g[s] <= m
    <2>1. PICK m \in Nat : \A s \in Super : load[s] <= m
        BY LoadsBounded
    <2>2. \A s \in Super : f[s] <= m + a /\ g[s] <= m + a
        BY <1>1, <1>2, <2>1
    <2>3. QED
        BY <1>1, <2>2
<1>6. \A s \in Super : f[s] <= g[s] \/ (s \in S /\ f[s] <= g[s] + 1)
    <2>1. SUFFICES ASSUME NEW s \in Super
                   PROVE  f[s] <= g[s] \/ (s \in S /\ f[s] <= g[s] + 1)
        OBVIOUS
    <2>2. PICK n \in 1..k : plan[n].id = s
        BY <1>1 DEF Invariant, PlanIsOrder
    <2>3. load[s] = IF n <= r THEN a + 1 ELSE a
        BY <1>1, <2>2, AtTargets, EvenTargets DEF LoadAt
    <2>4. n <= r => s \in S
        BY <1>1, <2>2
    <2>5. PICK b, l \in Int : b = before[s] /\ l = load[s]
        BY <1>2
    <2>6. f[s] = l - b /\ g[s] = a - b
        BY <2>5
    <2> HIDE DEF f, g, S
    <2>7. CASE n <= r
        BY <1>1, <2>3, <2>4, <2>5, <2>6, <2>7
    <2>8. CASE n > r
        BY <1>1, <2>3, <2>5, <2>6, <2>8
    <2>9. QED
        BY <1>1, <2>7, <2>8
<1>7. Cardinality(S) <= r
    <2>1. PICK p \in Nat : p = 1 /\ p <= r + 1
        BY <1>1
    <2>2. Cardinality({plan[n].id : n \in p..r}) <= r - p + 1
        BY <1>1, <2>1, StretchOfSupers
    <2>3. S = {plan[n].id : n \in p..r}
        BY <2>1
    <2> HIDE DEF f, g, S
    <2>4. r - p + 1 = r
        BY <1>1, <2>1
    <2>5. QED
        BY <2>2, <2>3, <2>4
<1>8. moves = Total(f) /\ Total(g) = Total([s \in Super |-> Average - before[s]])
    BY <1>1 DEF Invariant, Booked
<1> HIDE DEF f, g, S
<1>9. /\ Total(f) \in Nat /\ Total(g) \in Nat /\ Cardinality(S) \in Nat
      /\ Total(f) <= Total(g) + Cardinality(S)
    BY <1>3, <1>4, <1>5, <1>6, OneMoreEach
<1>10. QED
    BY <1>1, <1>7, <1>8, <1>9

LEMMA MaxOfTwo ==
    ASSUME NEW x \in Int, NEW y \in Int
    PROVE  Max({x, y}) \in Int /\ Max({x, y}) >= x /\ Max({x, y}) >= y
<1>1. \E z \in {x, y} : \A w \in {x, y} : z >= w
    OBVIOUS
<1>2. Max({x, y}) \in {x, y} /\ \A w \in {x, y} : Max({x, y}) >= w
    BY <1>1, Zenon DEF Max
<1>3. QED
    BY <1>2

LEMMA MinOfTwo ==
    ASSUME NEW x \in Int, NEW y \in Int
    PROVE  Min({x, y}) = x \/ Min({x, y}) = y
<1>1. \E z \in {x, y} : \A w \in {x, y} : z <= w
    OBVIOUS
<1>2. Min({x, y}) \in {x, y}
    BY <1>1, Zenon DEF Min
<1>3. QED
    BY <1>2

\* load_balance can make moves that evenness does not need, for it gives the remainder
\* to the least loaded super peers, but never more of them than the remainder, nor than
\* what the remainder lacks to one for every super peer.
THEOREM FewWastedMovesHolds == Spec => []FewWastedMoves
<1>1. Invariant => FewWastedMoves
    <2>1. SUFFICES ASSUME Invariant, ~MovesLeft(plan)
                   PROVE  moves - FewestMoves
                             <= Min({Remainder, Cardinality(Super) - Remainder})
        BY DEF FewWastedMoves
    <2>0. PICK x, y \in Nat : /\ x = Total([s \in Super |-> before[s] - Ceiling])
                              /\ y = Total([s \in Super |-> Average - before[s]])
        BY <2>1, WastedOnLow, WastedOnHigh
    <2>2. PICK r, k, v \in Int :
              /\ r = Remainder /\ k = Cardinality(Super) /\ v = moves
              /\ x \in Int /\ y \in Int
        BY <2>1, EvenTargets, Places DEF Supers, Invariant, TypeOK
    <2>3. v - x <= k - r /\ v - y <= r
        BY <2>0, <2>1, <2>2, WastedOnLow, WastedOnHigh DEF Supers
    <2>4. PICK w \in Int : w = FewestMoves /\ w >= x /\ w >= y
        BY <2>0, <2>2, MaxOfTwo DEF FewestMoves
    <2>5. v - w <= k - r /\ v - w <= r
        BY <2>2, <2>3, <2>4
    <2>6. k - r \in Int
        BY <2>2
    <2>7. Min({r, k - r}) = r \/ Min({r, k - r}) = k - r
        BY <2>2, <2>6, MinOfTwo
    <2>8. v - w <= Min({r, k - r})
        BY <2>5, <2>7
    <2>9. QED
        BY <2>2, <2>4, <2>8
<1>2. QED
    BY <1>1, InvariantHolds, PTL

-----------------------------------------------------------------------------
(* The end of the loop: what makes Ends true.                                *)

CursorsFound ==
    MovesLeft(plan) =>
        \E i, j \in 1..Len(plan) : IsGiver(plan, i) /\ IsReceiver(plan, j)

LEMMA FirstOf ==
    ASSUME NEW n \in Nat, NEW S \in SUBSET (1..n), S # {}
    PROVE  \E i \in S : \A k \in 1..(i - 1) : k \notin S
<1> DEFINE R == OpToRel(<, Nat)
<1>0. IsWellFoundedOn(R, Nat)
    BY NatLessThanWellFounded
<1>1. S \subseteq Nat
    OBVIOUS
<1>2. PICK i \in S : \A k \in S : ~(<<k, i>> \in R)
    <2> HIDE DEF R
    <2>1. QED
        BY <1>0, <1>1, WFMin
<1>3. ASSUME NEW k \in 1..(i - 1) PROVE k \notin S
    <2>1. k \in Nat /\ i \in Nat /\ k < i
        BY <1>1, <1>3
    <2>2. <<k, i>> \in R
        BY <2>1 DEF OpToRel
    <2> HIDE DEF R
    <2>3. QED
        BY <1>2, <2>2
<1>4. QED
    BY <1>3

LEMMA FindCursors == Invariant => CursorsFound
<1> SUFFICES ASSUME Invariant, MovesLeft(plan)
             PROVE  \E i, j \in 1..Len(plan) : IsGiver(plan, i) /\ IsReceiver(plan, j)
    BY DEF CursorsFound
<1> DEFINE G == {n \in 1..Supers : plan[n].excess > 0}
           H == {n \in 1..Supers : plan[n].excess < 0}
<1>1. /\ Supers \in Nat /\ Len(plan) = Supers
      /\ \A n \in 1..Supers : plan[n].excess \in Int
    BY SupersAreNat DEF Invariant, TypeOK, Entry
<1>2. G # {} /\ H # {}
    BY <1>1 DEF MovesLeft
<1>3. PICK i \in G : \A k \in 1..(i - 1) : k \notin G
    BY <1>1, <1>2, FirstOf
<1>4. PICK j \in H : \A k \in 1..(j - 1) : k \notin H
    BY <1>1, <1>2, FirstOf
<1>5. IsGiver(plan, i)
    BY <1>1, <1>3 DEF IsGiver
<1>6. IsReceiver(plan, j)
    BY <1>1, <1>4 DEF IsReceiver
<1>7. QED
    BY <1>1, <1>5, <1>6

\* As long as a super peer has too many children and another one too few, both cursors
\* of load_balance stand on such super peers, and the loop makes no more moves than
\* there are children: it neither gets stuck nor goes on for ever.
THEOREM LoopCannotStick == Spec => [](CursorsFound /\ MovesBounded)
BY FindCursors, BoundMoves, InvariantHolds, PTL
=============================================================================
