------------------------- MODULE HybridServerProofs -------------------------
(***************************************************************************)
(* Proofs about HybridServer, for any number of peers, any PEER_RATIO, and *)
(* any interleaving of the tasks.                                          *)
(***************************************************************************)
EXTENDS HybridServer, FiniteSetTheorems, TLAPS

Entry == [id : Peer, excess : Int]

\* The loads that load_balance reads are numbers: every set is finite.
LEMMA LoadIsNat ==
    ASSUME TypeOK
    PROVE  /\ \A s \in Peer : Load[s] \in Nat
           /\ TotalLoad \in Nat
           /\ Cardinality(Supers) \in Nat
<1>1. \A s \in Peer : Load[s] \in Nat
    <2>1. SUFFICES ASSUME NEW s \in Peer PROVE Cardinality(children[s]) \in Nat
        BY DEF Load
    <2>2. children[s] \subseteq Peer
        BY DEF TypeOK
    <2>3. QED
        BY <2>2, FS_Subset, FS_CardinalityType, PeerAssumption
<1>2. TotalLoad \in Nat
    <2>1. IsFiniteSet(Peer \X Peer)
        BY FS_Product, PeerAssumption
    <2>2. {e \in Peer \X Peer : e[2] \in children[e[1]]} \subseteq Peer \X Peer
        OBVIOUS
    <2>3. QED
        BY <2>1, <2>2, FS_Subset, FS_CardinalityType DEF TotalLoad
<1>3. Cardinality(Supers) \in Nat
    BY FS_Subset, FS_CardinalityType, PeerAssumption DEF Supers
<1>4. QED
    BY <1>1, <1>2, <1>3

\* A plan over super peers is a sequence of entries.
LEMMA PlanOfType ==
    ASSUME TypeOK, Cardinality(Supers) >= 2,
           NEW ord \in Orders(Supers, Load)
    PROVE  PlanOf(ord, Load, TotalLoad) \in Seq(Entry)
<1> DEFINE n == Cardinality(Supers)
<1>1. n \in Nat /\ n >= 2
    BY LoadIsNat
<1>2. ord \in [1..n -> Peer]
    BY DEF Orders, Supers
<1>3. ord \in Seq(Peer) /\ Len(ord) = n
    BY <1>1, <1>2
<1>4. \A k \in 1..n : Target(k, TotalLoad, n) \in Int
    BY <1>1, LoadIsNat DEF Target
<1>5. \A k \in 1..n : ord[k] \in Peer /\ Load[ord[k]] \in Int
    BY <1>2, LoadIsNat
<1>6. \A k \in 1..n : Load[ord[k]] - Target(k, TotalLoad, n) \in Int
    BY <1>4, <1>5
<1>7. PlanOf(ord, Load, TotalLoad) \in [1..n -> Entry]
    BY <1>3, <1>5, <1>6 DEF PlanOf, Entry
<1>8. QED
    BY <1>1, <1>7

\* Booking a move keeps it one.
LEMMA BookMoveType ==
    ASSUME NEW q \in Seq(Entry), NEW i \in 1..Len(q), NEW j \in 1..Len(q)
    PROVE  BookMove(q, i, j) \in Seq(Entry)
<1>1. q \in [1..Len(q) -> Entry] /\ Len(q) \in Nat
    OBVIOUS
<1>2. \A n \in 1..Len(q) : q[n].id \in Peer /\ q[n].excess \in Int
    BY <1>1 DEF Entry
<1>3. BookMove(q, i, j) \in [1..Len(q) -> Entry]
    BY <1>2 DEF BookMove, Entry
<1>4. QED
    BY <1>1, <1>3

-----------------------------------------------------------------------------
(* Type correctness, action by action. *)

LEMMA ElementType ==
    ASSUME NEW S, NEW q \in Seq(S), NEW i \in 1..Len(q)
    PROVE  q[i] \in S
OBVIOUS

LEMMA InitType == Init => TypeOK
<1>1. <<>> \in Seq([id : Peer, excess : Int])
    OBVIOUS
<1>2. ASSUME Init
      PROVE  plan \in [Peer -> Seq([id : Peer, excess : Int])]
    BY <1>1, <1>2 DEF Init
<1>3. ASSUME Init
      PROVE  open \in [Peer -> BOOLEAN] /\ wedged \in BOOLEAN
    BY <1>3, Zenon DEF Init
<1>4. ASSUME Init
      PROVE  pc \in [Peer -> Resting \cup Steps] /\ role \in [Peer -> Roles]
    BY <1>4 DEF Init, Resting, Roles
<1>5. ASSUME Init
      PROVE  /\ children \in [Peer -> SUBSET Peer]
             /\ links \in [Peer -> SUBSET Peer]
             /\ announced \in [Peer -> SUBSET Peer]
             /\ todo \in [Peer -> SUBSET Peer]
             /\ orphans \in [Peer -> SUBSET Peer]
    BY <1>5 DEF Init
<1>6. ASSUME Init
      PROVE  /\ parent \in [Peer -> Peer \cup {NoPeer}]
             /\ toldParent \in [Peer -> Peer \cup {NoPeer}]
             /\ target \in [Peer -> Peer \cup {NoPeer}]
             /\ child \in [Peer -> Peer \cup {NoPeer}]
             /\ giver \in [Peer -> Peer \cup {NoPeer}]
    BY <1>6 DEF Init
<1>7. QED
    BY <1>2, <1>3, <1>4, <1>5, <1>6, Zenon DEF TypeOK

\* What a send, and connect_child's part under the lock, change and keep.
LEMMA SendNewPeerType ==
    ASSUME TypeOK, NEW q, NEW x \in Peer, SendNewPeer(q, x)
    PROVE  links' \in [Peer -> SUBSET Peer]
BY DEF TypeOK, SendNewPeer

LEMMA SendPeerLeftType ==
    ASSUME TypeOK, NEW q, NEW x, SendPeerLeft(q, x)
    PROVE  links' \in [Peer -> SUBSET Peer]
BY DEF TypeOK, SendPeerLeft

LEMMA SendSuperIdType ==
    ASSUME TypeOK, NEW q, NEW x \in Peer, SendSuperId(q, x)
    PROVE  announced' \in [Peer -> SUBSET Peer]
BY DEF TypeOK, SendSuperId

LEMMA AttachType ==
    ASSUME TypeOK, NEW c \in Peer, NEW s \in Peer, AttachUnderLock(c, s)
    PROVE  /\ children' \in [Peer -> SUBSET Peer]
           /\ parent' \in [Peer -> Peer \cup {NoPeer}]
           /\ role' = role
BY DEF TypeOK, AttachUnderLock

LEMMA JoinStepType ==
    ASSUME TypeOK, LocalsAtStep, NEW p \in Peer, JoinStep(p)
    PROVE  TypeOK'
<1> USE DEF TypeOK, topology, views, locals, Goto, At, Steps, Resting, Roles
<1>1. CASE JoinAsSuper(p)
    BY <1>1 DEF JoinAsSuper
<1>2. CASE ListSupers(p)
    BY <1>2 DEF ListSupers, Supers
<1>3. CASE InsertSuper(p)
    BY <1>3 DEF InsertSuper
<1>4. CASE \E q \in Peer : AnnounceSuper(p, q)
    BY <1>4, SendSuperIdType DEF AnnounceSuper
<1>5. CASE JoinAsChild(p)
    BY <1>5 DEF JoinAsChild
<1>6. CASE AddChild(p)
    BY <1>6 DEF AddChild
<1>7. CASE FindParent(p)
    BY <1>7 DEF FindParent, Supers
<1>8. CASE NoParentFound(p)
    BY <1>8 DEF NoParentFound
<1>9. CASE Attach(p)
    BY <1>9, AttachType DEF Attach, LocalsAtStep, LocalsFit
<1>10. CASE AttachFails(p)
    BY <1>10, AttachType DEF AttachFails, LocalsAtStep, LocalsFit
<1>11. CASE Introduce(p)
    BY <1>11, SendNewPeerType DEF Introduce
<1>12. CASE IntroduceFails(p)
    BY <1>12 DEF IntroduceFails
<1>13. CASE TellParent(p)
    BY <1>13 DEF TellParent
<1>14. QED
    BY <1>1, <1>2, <1>3, <1>4, <1>5, <1>6, <1>7, <1>8, <1>9, <1>10, <1>11,
       <1>12, <1>13 DEF JoinStep

LEMMA BalanceStepType ==
    ASSUME TypeOK, LocalsAtStep, NEW p \in Peer, BalanceStep(p)
    PROVE  TypeOK'
<1> USE DEF TypeOK, topology, views, locals, Goto, At, Steps, Resting, Roles
<1>1. CASE TooFewSupers(p)
    BY <1>1 DEF TooFewSupers
<1>2. CASE PlanMoves(p)
    <2>1. PICK ord \in Orders(Supers, Load) :
             plan' = [plan EXCEPT ![p] = PlanOf(ord, Load, TotalLoad)]
        BY <1>2 DEF PlanMoves
    <2>2. PlanOf(ord, Load, TotalLoad) \in Seq([id : Peer, excess : Int])
        BY <1>2, PlanOfType DEF PlanMoves, Entry
    <2>3. plan' \in [Peer -> Seq([id : Peer, excess : Int])]
        BY <2>1, <2>2
    <2>4. QED
        BY <1>2, <2>3 DEF PlanMoves
<1>3. CASE FinishBalance(p)
    <2>1. plan' \in [Peer -> Seq([id : Peer, excess : Int])]
        BY <1>3 DEF FinishBalance
    <2>2. QED
        BY <1>3, <2>1 DEF FinishBalance
<1>4. CASE TakeChild(p)
    <2>1. PICK i \in 1..Len(plan[p]), j \in 1..Len(plan[p]), c \in Peer :
             TakeChildFor(p, i, j, c)
        BY <1>4 DEF TakeChild
    <2>2. plan[p] \in Seq(Entry)
        BY DEF Entry
    <2>3. plan[p][i] \in Entry /\ plan[p][j] \in Entry
        BY <2>2, ElementType
    <2>4. plan[p][i].id \in Peer /\ plan[p][j].id \in Peer
        BY <2>3 DEF Entry
    <2>5. plan' \in [Peer -> Seq([id : Peer, excess : Int])]
        BY <2>1, <2>2, BookMoveType DEF TakeChildFor, Entry
    <2>6. /\ children' \in [Peer -> SUBSET Peer]
          /\ child' \in [Peer -> Peer \cup {NoPeer}]
          /\ giver' \in [Peer -> Peer \cup {NoPeer}]
          /\ target' \in [Peer -> Peer \cup {NoPeer}]
        BY <2>1, <2>4 DEF TakeChildFor
    <2>7. QED
        BY <2>1, <2>5, <2>6 DEF TakeChildFor
<1>5. CASE NothingToTake(p)
    <2>1. PICK i \in 1..Len(plan[p]), j \in 1..Len(plan[p]) :
             plan' = [plan EXCEPT ![p] = BookMove(@, i, j)]
        BY <1>5 DEF NothingToTake
    <2>2. plan' \in [Peer -> Seq([id : Peer, excess : Int])]
        BY <2>1, BookMoveType DEF Entry
    <2>3. QED
        BY <1>5, <2>2 DEF NothingToTake
<1>6. CASE TellGiver(p)
    BY <1>6, SendPeerLeftType DEF TellGiver
<1>7. CASE TellMoved(p)
    BY <1>7, SendPeerLeftType DEF TellMoved
<1>8. CASE AttachMoved(p)
    <2>1. child[p] \in Peer /\ target[p] \in Peer
        BY <1>8 DEF AttachMoved, LocalsAtStep, LocalsFit
    <2>2. QED
        BY <1>8, <2>1, AttachType DEF AttachMoved
<1>9. CASE IntroduceMoved(p)
    <2>1. child[p] \in Peer
        BY <1>9 DEF IntroduceMoved, LocalsAtStep, LocalsFit
    <2>2. QED
        BY <1>9, <2>1, SendNewPeerType DEF IntroduceMoved
<1>10. QED
    BY <1>1, <1>2, <1>3, <1>4, <1>5, <1>6, <1>7, <1>8, <1>9 DEF BalanceStep

LEMMA LeaveStepType ==
    ASSUME TypeOK, LocalsAtStep, NEW p \in Peer, LeaveStep(p)
    PROVE  TypeOK'
<1> USE DEF TypeOK, topology, views, locals, Goto, At, Steps, Resting, Roles
<1>1. CASE Close(p)
    BY <1>1 DEF Close
<1>2. CASE RemoveChild(p)
    BY <1>2 DEF RemoveChild
<1>3. CASE RemoveChildFails(p)
    BY <1>3 DEF RemoveChildFails
<1>4. CASE TellLeft(p)
    BY <1>4, SendPeerLeftType DEF TellLeft
<1>5. CASE RemoveSuper(p)
    BY <1>5 DEF RemoveSuper, Supers
<1>6. CASE NoRecruit(p)
    BY <1>6 DEF NoRecruit
<1>7. CASE Recruit(p)
    <2>1. PICK r \in orphans[p] :
             /\ target' = [target EXCEPT ![p] = r]
             /\ orphans' = [orphans EXCEPT ![p] = @ \ {r}]
             /\ IF role[r] # "absent"
                THEN /\ role' = [role EXCEPT ![r] = "super"]
                     /\ parent' = [parent EXCEPT ![r] = NoPeer]
                     /\ children' = [children EXCEPT ![r] = {}]
                ELSE UNCHANGED <<role, parent, children>>
        BY <1>7 DEF Recruit, OthersToReattach
    <2>2. r \in Peer
        OBVIOUS
    <2>3. /\ target' \in [Peer -> Peer \cup {NoPeer}]
          /\ orphans' \in [Peer -> SUBSET Peer]
        BY <2>1, <2>2
    <2>4. /\ role' \in [Peer -> {"absent", "child", "super"}]
          /\ parent' \in [Peer -> Peer \cup {NoPeer}]
          /\ children' \in [Peer -> SUBSET Peer]
        BY <2>1, <2>2
    <2>5. QED
        BY <1>7, <2>3, <2>4 DEF Recruit
<1>8. CASE Promote(p)
    <2>1. target[p] \in Peer
        BY <1>8 DEF Promote, LocalsAtStep, LocalsFit
    <2>2. announced' \in [Peer -> SUBSET Peer]
        BY <1>8, <2>1, SendSuperIdType DEF Promote
    <2>3. wedged' \in BOOLEAN
        BY <1>8 DEF Promote
    <2>4. pc' \in [Peer -> Resting \cup Steps]
        BY <1>8 DEF Promote
    <2>5. QED
        BY <1>8, <2>2, <2>3, <2>4 DEF Promote
<1>9. CASE \E q \in Peer : TellSuperLeft(p, q) \/ TellChildLeft(p, q)
    <2>1. PICK q \in Peer : TellSuperLeft(p, q) \/ TellChildLeft(p, q)
        BY <1>9
    <2>2. links' \in [Peer -> SUBSET Peer]
        BY <2>1, SendPeerLeftType DEF TellSuperLeft, TellChildLeft
    <2>3. CASE TellSuperLeft(p, q)
        BY <2>2, <2>3 DEF TellSuperLeft
    <2>4. CASE TellChildLeft(p, q)
        BY <2>2, <2>4 DEF TellChildLeft
    <2>5. QED
        BY <2>1, <2>3, <2>4
<1>10. CASE \E c \in Peer : Reattach(p, c)
    <2>1. PICK c \in Peer : Reattach(p, c)
        BY <1>10
    <2>2. target[p] \in Peer
        BY <2>1 DEF Reattach, LocalsAtStep, LocalsFit
    <2>3. /\ children' \in [Peer -> SUBSET Peer]
          /\ parent' \in [Peer -> Peer \cup {NoPeer}]
          /\ role' = role
        BY <2>1, <2>2, AttachType DEF Reattach
    <2>4. pc' \in [Peer -> Resting \cup Steps]
        BY <2>1 DEF Reattach
    <2>5. QED
        BY <2>1, <2>3, <2>4 DEF Reattach
<1>11. CASE Reintroduce(p)
    <2>1. child[p] \in Peer
        BY <1>11 DEF Reintroduce, LocalsAtStep, LocalsFit
    <2>2. QED
        BY <1>11, <2>1, SendNewPeerType DEF Reintroduce
<1>12. CASE FinishLeave(p)
    BY <1>12 DEF FinishLeave
<1>13. QED
    BY <1>1, <1>2, <1>3, <1>4, <1>5, <1>6, <1>7, <1>8, <1>9, <1>10, <1>11,
       <1>12 DEF LeaveStep

-----------------------------------------------------------------------------
(* The inductive invariant.  Most steps are quiet: task p moves on, perhaps  *)
(* sends something, and no peer changes its place.                           *)

Quiet(p) ==
    /\ role' = role /\ parent' = parent
    /\ children' = children /\ orphans' = orphans
    /\ \A q \in Peer : q # p =>
          pc'[q] = pc[q] /\ child'[q] = child[q] /\ target'[q] = target[q]
    /\ RoleFits(pc'[p], role[p])
    /\ LocalsFit(pc'[p], child'[p], target'[p], orphans[p])
    /\ pc'[p] \in MovingSteps => pc[p] \in MovingSteps /\ child'[p] = child[p]
    /\ pc'[p] \in UnplacedSteps => pc[p] \in UnplacedSteps

\* A peer that enters no set and no hand, and does not become unplaced, stays
\* in at most one place.
LEMMA StaysInPlace ==
    ASSUME NEW c \in Peer, InOnePlace(c),
           \A s \in Peer : c \in children'[s] => c \in children[s],
           \A s \in Peer : c \in Hand(s)' => c \in Hand(s),
           Unplaced(c)' => Unplaced(c)
    PROVE  InOnePlace(c)'
BY DEF InOnePlace

LEMMA QuietStep ==
    ASSUME Invariant, NEW p \in Peer, Quiet(p)
    PROVE  RoleAtStep' /\ LocalsAtStep' /\ Custody' /\ ParentAgrees'
<1>1. RoleAtStep'
    BY DEF Invariant, Quiet, RoleAtStep
<1>2. LocalsAtStep'
    BY DEF Invariant, Quiet, LocalsAtStep
<1>3. Custody'
    <2>1. SUFFICES ASSUME NEW c \in Peer PROVE InOnePlace(c)'
        BY DEF Custody
    <2>2. \A s \in Peer : c \in Hand(s)' => c \in Hand(s)
        BY DEF Quiet, Hand
    <2>3. Unplaced(c)' => Unplaced(c)
        BY DEF Quiet, Unplaced
    <2>4. QED
        BY <2>2, <2>3, StaysInPlace DEF Invariant, Custody, Quiet
<1>4. ParentAgrees'
    BY DEF Invariant, Quiet, ParentAgrees
<1>5. QED
    BY <1>1, <1>2, <1>3, <1>4

\* connect_child's part under the lock: child c, which was in no set, is put
\* below s if s is a super peer.
LEMMA AttachStep ==
    ASSUME Invariant, NEW p \in Peer, NEW c \in Peer, NEW s \in Peer,
           AttachUnderLock(c, s),
           \A t \in Peer : c \notin children[t],
           \A t \in Peer : c \notin Hand(t)',
           ~Unplaced(c)',
           \A q \in Peer : q # p => pc'[q] = pc[q] /\ child'[q] = child[q]
                                    /\ orphans'[q] = orphans[q],
           \A d \in Peer : d \in Hand(p)' => d \in Hand(p),
           pc'[p] \in UnplacedSteps => pc[p] \in UnplacedSteps
    PROVE  Custody' /\ ParentAgrees'
<1>1. role' = role
    BY DEF AttachUnderLock
<1>2. \A t \in Peer, d \in Peer : d \in children'[t] =>
         d \in children[t] \/ (d = c /\ t = s /\ role[s] = "super")
    BY DEF AttachUnderLock, Invariant, TypeOK
<1>3. Custody'
    <2>1. SUFFICES ASSUME NEW d \in Peer PROVE InOnePlace(d)'
        BY DEF Custody
    <2>2. InOnePlace(d)
        BY DEF Invariant, Custody
    <2>3. CASE d = c
        BY <1>2, <2>3 DEF InOnePlace
    <2>4. CASE d # c
        <3>1. \A t \in Peer : d \in children'[t] => d \in children[t]
            BY <1>2, <2>4
        <3>2. \A t \in Peer : d \in Hand(t)' => d \in Hand(t)
            BY DEF Hand
        <3>3. Unplaced(d)' => Unplaced(d)
            BY <1>1 DEF Unplaced
        <3>4. QED
            BY <2>2, <3>1, <3>2, <3>3, StaysInPlace
    <2>5. QED
        BY <2>3, <2>4
<1>4. ParentAgrees'
    <2>1. SUFFICES ASSUME NEW t \in Peer, NEW d \in Peer, d \in children'[t]
                   PROVE  /\ role[t] = "super"
                          /\ role[d] # "absent" =>
                                role[d] = "child" /\ parent'[d] = t
        BY <1>1 DEF ParentAgrees
    <2>2. CASE d # c
        <3>1. d \in children[t]
            BY <1>2, <2>1, <2>2
        <3>2. parent'[d] = parent[d]
            BY <2>2 DEF AttachUnderLock, Invariant, TypeOK
        <3>3. QED
            BY <3>1, <3>2 DEF Invariant, ParentAgrees
    <2>3. CASE d = c
        <3>1. t = s /\ role[s] = "super"
            BY <1>2, <2>1, <2>3
        <3>2. role[c] # "super"
            BY <1>1 DEF Unplaced
        <3>3. role[c] = "child" => parent'[c] = s
            BY <3>1 DEF AttachUnderLock, Invariant, TypeOK
        <3>4. QED
            BY <2>3, <3>1, <3>2, <3>3 DEF Invariant, TypeOK, Roles
    <2>4. QED
        BY <2>2, <2>3
<1>5. QED
    BY <1>3, <1>4

\* A joining peer is put into one set, and only while it is in none.
LEMMA JoinStepInv ==
    ASSUME Invariant, NEW p \in Peer, JoinStep(p)
    PROVE  RoleAtStep' /\ LocalsAtStep' /\ Custody' /\ ParentAgrees'
<1> USE DEF Goto, At, topology, views, locals
<1>0. TypeOK /\ RoleFits(pc[p], role[p])
         /\ LocalsFit(pc[p], child[p], target[p], orphans[p])
    BY DEF Invariant, RoleAtStep, LocalsAtStep
<1>1. CASE JoinAsSuper(p)
    <2>1. Quiet(p)
        BY <1>0, <1>1 DEF JoinAsSuper, Quiet, TypeOK, RoleFits, LocalsFit,
           MovingSteps, UnplacedSteps
    <2>2. QED
        BY <2>1, QuietStep
<1>2. CASE ListSupers(p)
    <2>1. Quiet(p)
        BY <1>0, <1>2 DEF ListSupers, Quiet, TypeOK, RoleFits, LocalsFit,
           MovingSteps, UnplacedSteps
    <2>2. QED
        BY <2>1, QuietStep
<1>3. CASE InsertSuper(p)
    <2>1. /\ pc[p] = "announce" /\ pc'[p] = "balance"
          /\ role'[p] = "super"
          /\ \A q \in Peer : q # p => pc'[q] = pc[q] /\ role'[q] = role[q]
          /\ parent' = parent /\ children' = children
          /\ orphans' = orphans /\ child' = child /\ target' = target
        BY <1>0, <1>3 DEF InsertSuper, TypeOK
    <2>2. RoleAtStep'
        BY <2>1 DEF Invariant, RoleAtStep, RoleFits
    <2>3. LocalsAtStep'
        BY <2>1 DEF Invariant, LocalsAtStep, LocalsFit
    <2>4. \A c \in Peer : Unplaced(c)' => Unplaced(c)
        BY <2>1 DEF Unplaced, UnplacedSteps
    <2>5. \A s \in Peer : Hand(s)' = Hand(s)
        BY <2>1 DEF Hand, MovingSteps
    <2>6. Custody'
        BY <2>1, <2>4, <2>5, StaysInPlace DEF Invariant, Custody
    <2>7. \A s \in Peer : p \notin children[s]
        BY <2>1 DEF Invariant, Custody, InOnePlace, Unplaced, UnplacedSteps
    <2>8. ParentAgrees'
        BY <2>1, <2>7 DEF Invariant, ParentAgrees
    <2>9. QED
        BY <2>2, <2>3, <2>6, <2>8
<1>4. CASE \E q \in Peer : AnnounceSuper(p, q)
    <2>1. Quiet(p)
        BY <1>0, <1>4 DEF AnnounceSuper, Quiet, TypeOK
    <2>2. QED
        BY <2>1, QuietStep
<1>5. CASE JoinAsChild(p)
    <2>1. Quiet(p)
        BY <1>0, <1>5 DEF JoinAsChild, Quiet, TypeOK, RoleFits, LocalsFit,
           MovingSteps, UnplacedSteps
    <2>2. QED
        BY <2>1, QuietStep
<1>6. CASE AddChild(p)
    <2>1. /\ pc[p] = "addChild" /\ pc'[p] = "findParent"
          /\ role[p] = "absent" /\ role'[p] = "child"
          /\ \A q \in Peer : q # p => pc'[q] = pc[q] /\ role'[q] = role[q]
          /\ parent' = parent /\ children' = children
          /\ orphans' = orphans /\ child' = child /\ target' = target
        BY <1>0, <1>6 DEF AddChild, TypeOK, RoleFits
    <2>2. RoleAtStep'
        BY <2>1 DEF Invariant, RoleAtStep, RoleFits
    <2>3. LocalsAtStep'
        BY <2>1 DEF Invariant, LocalsAtStep, LocalsFit
    <2>4. \A c \in Peer : Unplaced(c)' => Unplaced(c)
        BY <2>1 DEF Unplaced, UnplacedSteps
    <2>5. \A s \in Peer : Hand(s)' = Hand(s)
        BY <2>1 DEF Hand, MovingSteps
    <2>6. Custody'
        BY <2>1, <2>4, <2>5, StaysInPlace DEF Invariant, Custody
    <2>7. \A s \in Peer : p \notin children[s]
        BY <2>1 DEF Invariant, Custody, InOnePlace, Unplaced, UnplacedSteps
    <2>8. ParentAgrees'
        BY <2>1, <2>7 DEF Invariant, ParentAgrees
    <2>9. QED
        BY <2>2, <2>3, <2>6, <2>8
<1>7. CASE FindParent(p)
    <2>1. PICK s \in Supers : target' = [target EXCEPT ![p] = s]
        BY <1>7 DEF FindParent
    <2>2. s \in Peer
        BY DEF Supers
    <2>3. Quiet(p)
        BY <1>0, <1>7, <2>1, <2>2 DEF FindParent, Quiet, TypeOK, RoleFits,
           LocalsFit, MovingSteps, UnplacedSteps
    <2>4. QED
        BY <2>3, QuietStep
<1>8. CASE NoParentFound(p)
    <2>1. Quiet(p)
        BY <1>0, <1>8 DEF NoParentFound, Quiet, TypeOK, RoleFits, LocalsFit,
           MovingSteps, UnplacedSteps
    <2>2. QED
        BY <2>1, QuietStep
<1>9. CASE Attach(p) \/ AttachFails(p)
    <2>1. /\ pc[p] = "attach" /\ pc'[p] \in {"introduce", "done"}
          /\ \A q \in Peer : q # p => pc'[q] = pc[q] /\ target'[q] = target[q]
          /\ role' = role /\ orphans' = orphans /\ child' = child
          /\ AttachUnderLock(p, target[p])
        BY <1>0, <1>9 DEF Attach, AttachFails, AttachUnderLock, TypeOK
    <2>2. role[p] = "child" /\ target[p] \in Peer
        BY <1>0, <2>1 DEF RoleFits, LocalsFit
    <2>3. RoleAtStep'
        BY <2>1, <2>2 DEF Invariant, RoleAtStep, RoleFits
    <2>4. LocalsAtStep'
        BY <2>1 DEF Invariant, LocalsAtStep, LocalsFit
    <2>5. \A s \in Peer : p \notin children[s] /\ p \notin Hand(s)
        BY <2>1 DEF Invariant, Custody, InOnePlace, Unplaced, UnplacedSteps
    <2>6. \A s \in Peer : Hand(s)' = Hand(s)
        BY <2>1 DEF Hand, MovingSteps
    <2>7. ~Unplaced(p)'
        BY <2>1, <2>2 DEF Unplaced, UnplacedSteps
    <2>8. Custody' /\ ParentAgrees'
        BY <2>1, <2>2, <2>5, <2>6, <2>7, AttachStep DEF UnplacedSteps
    <2>9. QED
        BY <2>3, <2>4, <2>8
<1>10. CASE Introduce(p)
    <2>1. Quiet(p)
        BY <1>0, <1>10 DEF Introduce, Quiet, TypeOK, RoleFits, LocalsFit,
           MovingSteps, UnplacedSteps
    <2>2. QED
        BY <2>1, QuietStep
<1>11. CASE IntroduceFails(p)
    <2>1. Quiet(p)
        BY <1>0, <1>11 DEF IntroduceFails, Quiet, TypeOK, RoleFits, LocalsFit,
           MovingSteps, UnplacedSteps
    <2>2. QED
        BY <2>1, QuietStep
<1>12. CASE TellParent(p)
    <2>1. Quiet(p)
        BY <1>0, <1>12 DEF TellParent, Quiet, TypeOK, RoleFits, LocalsFit,
           MovingSteps, UnplacedSteps
    <2>2. QED
        BY <2>1, QuietStep
<1>13. QED
    BY <1>1, <1>2, <1>3, <1>4, <1>5, <1>6, <1>7, <1>8, <1>9, <1>10, <1>11,
       <1>12 DEF JoinStep

\* A load balance takes a child out of a set before it puts it into another.
LEMMA BalanceStepInv ==
    ASSUME Invariant, NEW p \in Peer, BalanceStep(p)
    PROVE  RoleAtStep' /\ LocalsAtStep' /\ Custody' /\ ParentAgrees'
<1> USE DEF Goto, At, topology, views, locals
<1>0. TypeOK /\ RoleFits(pc[p], role[p])
         /\ LocalsFit(pc[p], child[p], target[p], orphans[p])
    BY DEF Invariant, RoleAtStep, LocalsAtStep
<1>1. CASE TooFewSupers(p)
    <2>1. Quiet(p)
        BY <1>0, <1>1 DEF TooFewSupers, Quiet, TypeOK, RoleFits, LocalsFit,
           MovingSteps, UnplacedSteps
    <2>2. QED
        BY <2>1, QuietStep
<1>2. CASE PlanMoves(p)
    <2>1. Quiet(p)
        BY <1>0, <1>2 DEF PlanMoves, Quiet, TypeOK, RoleFits, LocalsFit,
           MovingSteps, UnplacedSteps
    <2>2. QED
        BY <2>1, QuietStep
<1>3. CASE FinishBalance(p)
    <2>1. Quiet(p)
        BY <1>0, <1>3 DEF FinishBalance, Quiet, TypeOK, RoleFits, LocalsFit,
           MovingSteps, UnplacedSteps
    <2>2. QED
        BY <2>1, QuietStep
<1>4. CASE TakeChild(p)
    <2>1. PICK i \in 1..Len(plan[p]), j \in 1..Len(plan[p]), c \in Peer :
             TakeChildFor(p, i, j, c)
        BY <1>4 DEF TakeChild
    <2> DEFINE g == plan[p][i].id
               r == plan[p][j].id
    <2>2. g \in Peer /\ r \in Peer
        <3>1. plan[p] \in Seq(Entry)
            BY <1>0 DEF TypeOK, Entry
        <3>2. plan[p][i] \in Entry /\ plan[p][j] \in Entry
            BY <3>1, ElementType
        <3>3. QED
            BY <3>2 DEF Entry
    <2>3. /\ pc[p] = "move" /\ pc'[p] = "tellGiver"
          /\ \A q \in Peer : q # p =>
                pc'[q] = pc[q] /\ child'[q] = child[q] /\ target'[q] = target[q]
          /\ role' = role /\ parent' = parent /\ orphans' = orphans
          /\ child'[p] = c /\ target'[p] = r
        BY <1>0, <2>1 DEF TakeChildFor, TypeOK
    <2>4. c \in children[g]
        BY <2>1 DEF TakeChildFor, IsLowest
    <2>5. /\ \A s \in Peer : s # g => children'[s] = children[s]
          /\ children'[g] = children[g] \ {c}
        BY <1>0, <2>1, <2>2 DEF TakeChildFor, TypeOK
    <2>6. RoleAtStep'
        BY <1>0, <2>3 DEF Invariant, RoleAtStep, RoleFits
    <2>7. LocalsAtStep'
        BY <2>2, <2>3 DEF Invariant, LocalsAtStep, LocalsFit
    <2>8. \A s, d \in Peer : d \in Hand(s)' => d \in Hand(s) \/ (s = p /\ d = c)
        BY <2>3 DEF Hand, MovingSteps
    <2>9. \A d \in Peer : Unplaced(d)' => Unplaced(d)
        BY <2>3 DEF Unplaced, UnplacedSteps
    <2>10. Custody'
        <3>1. SUFFICES ASSUME NEW d \in Peer PROVE InOnePlace(d)'
            BY DEF Custody
        <3>2. InOnePlace(d)
            BY DEF Invariant, Custody
        <3>3. \A s \in Peer : d \in children'[s] => d \in children[s]
            BY <2>5
        <3>4. CASE d # c
            BY <2>8, <2>9, <3>2, <3>3, <3>4, StaysInPlace
        <3>5. CASE d = c
            <4>1. \A s \in Peer : d \notin children'[s]
                BY <2>2, <2>4, <2>5, <3>2, <3>5 DEF InOnePlace
            <4>2. \A s \in Peer : d \in Hand(s)' => s = p
                BY <2>2, <2>4, <2>8, <3>2, <3>5 DEF InOnePlace
            <4>3. ~Unplaced(d)'
                BY <2>2, <2>4, <2>9, <3>2, <3>5 DEF InOnePlace
            <4>4. QED
                BY <4>1, <4>2, <4>3 DEF InOnePlace
        <3>6. QED
            BY <3>4, <3>5
    <2>11. ParentAgrees'
        BY <2>3, <2>5 DEF Invariant, ParentAgrees
    <2>12. QED
        BY <2>6, <2>7, <2>10, <2>11
<1>5. CASE NothingToTake(p)
    <2>1. Quiet(p)
        BY <1>0, <1>5 DEF NothingToTake, Quiet, TypeOK, RoleFits, LocalsFit,
           MovingSteps, UnplacedSteps
    <2>2. QED
        BY <2>1, QuietStep
<1>6. CASE TellGiver(p)
    <2>1. Quiet(p)
        BY <1>0, <1>6 DEF TellGiver, Quiet, TypeOK, RoleFits, LocalsFit,
           MovingSteps, UnplacedSteps
    <2>2. QED
        BY <2>1, QuietStep
<1>7. CASE TellMoved(p)
    <2>1. Quiet(p)
        BY <1>0, <1>7 DEF TellMoved, Quiet, TypeOK, RoleFits, LocalsFit,
           MovingSteps, UnplacedSteps
    <2>2. QED
        BY <2>1, QuietStep
<1>8. CASE AttachMoved(p)
    <2> DEFINE c == child[p]
               s == target[p]
    <2>1. /\ pc[p] = "attachMoved" /\ pc'[p] \in {"introduceMoved", "move"}
          /\ \A q \in Peer : q # p => pc'[q] = pc[q]
          /\ role' = role /\ orphans' = orphans
          /\ child' = child /\ target' = target
          /\ AttachUnderLock(c, s)
        BY <1>0, <1>8 DEF AttachMoved, AttachUnderLock, TypeOK
    <2>2. c \in Peer /\ s \in Peer /\ role[p] = "super"
        BY <1>0, <2>1 DEF RoleFits, LocalsFit
    <2>3. RoleAtStep'
        BY <2>1, <2>2 DEF Invariant, RoleAtStep, RoleFits
    <2>4. LocalsAtStep'
        BY <2>1, <2>2 DEF Invariant, LocalsAtStep, LocalsFit
    <2>5. InOnePlace(c) /\ c \in Hand(p)
        BY <2>1, <2>2 DEF Invariant, Custody, Hand, MovingSteps
    <2>6. \A t \in Peer : c \notin children[t]
        BY <2>5 DEF InOnePlace
    <2>7. \A t \in Peer : t # p => Hand(t)' = Hand(t)
        BY <2>1 DEF Hand
    <2>8. Hand(p)' = orphans[p]
        BY <2>1 DEF Hand, MovingSteps
    <2>9. c \notin orphans[p]
        BY <1>0, <2>1 DEF LocalsFit
    <2>10. \A t \in Peer : c \notin Hand(t)'
        BY <2>2, <2>5, <2>7, <2>8, <2>9 DEF InOnePlace
    <2>11. ~Unplaced(c)'
        BY <2>1, <2>2, <2>5 DEF InOnePlace, Unplaced, UnplacedSteps
    <2>12. Custody' /\ ParentAgrees'
        BY <2>1, <2>2, <2>6, <2>8, <2>10, <2>11, AttachStep
           DEF UnplacedSteps, Hand
    <2>13. QED
        BY <2>3, <2>4, <2>12
<1>9. CASE IntroduceMoved(p)
    <2>1. Quiet(p)
        BY <1>0, <1>9 DEF IntroduceMoved, Quiet, TypeOK, RoleFits, LocalsFit,
           MovingSteps, UnplacedSteps
    <2>2. QED
        BY <2>1, QuietStep
<1>10. QED
    BY <1>1, <1>2, <1>3, <1>4, <1>5, <1>6, <1>7, <1>8, <1>9 DEF BalanceStep

\* A leaving super peer takes its children in hand, and puts each of them
\* below the recruit, which is a super peer by then, or drops it.
LEMMA LeaveStepInv ==
    ASSUME Invariant, NEW p \in Peer, LeaveStep(p)
    PROVE  RoleAtStep' /\ LocalsAtStep' /\ Custody' /\ ParentAgrees'
<1> USE DEF Goto, At, topology, views, locals
<1>0. /\ TypeOK
      /\ RoleFits(pc[p], role[p])
      /\ LocalsFit(pc[p], child[p], target[p], orphans[p])
    BY DEF Invariant, RoleAtStep, LocalsAtStep
<1>1. CASE Close(p)
    <2>1. Quiet(p)
        BY <1>0, <1>1 DEF Close, Quiet, TypeOK, RoleFits, LocalsFit,
           MovingSteps, UnplacedSteps
    <2>2. QED
        BY <2>1, QuietStep
<1>2. CASE RemoveChild(p)
    <2>1. /\ pc[p] = "leaveChild" /\ pc'[p] \in {"tellLeft", "done"}
          /\ role[p] = "child" /\ role'[p] = "absent"
          /\ \A q \in Peer : q # p =>
                /\ pc'[q] = pc[q] /\ target'[q] = target[q]
                /\ role'[q] = role[q] /\ parent'[q] = parent[q]
          /\ orphans' = orphans /\ child' = child
        BY <1>0, <1>2 DEF RemoveChild, TypeOK
    <2>2. \A s, d \in Peer : d \in children'[s] => d \in children[s]
        BY <1>0, <1>2 DEF RemoveChild, TypeOK
    <2>3. RoleAtStep'
        BY <2>1 DEF Invariant, RoleAtStep, RoleFits
    <2>4. LocalsAtStep'
        BY <2>1 DEF Invariant, LocalsAtStep, LocalsFit
    <2>5. \A s \in Peer : Hand(s)' = Hand(s)
        BY <2>1 DEF Hand, MovingSteps
    <2>6. \A d \in Peer : Unplaced(d)' => Unplaced(d)
        BY <2>1 DEF Unplaced, UnplacedSteps
    <2>7. Custody'
        BY <2>2, <2>5, <2>6, StaysInPlace DEF Invariant, Custody
    <2>8. ParentAgrees'
        BY <2>1, <2>2 DEF Invariant, ParentAgrees
    <2>9. QED
        BY <2>3, <2>4, <2>7, <2>8
<1>3. CASE RemoveChildFails(p)
    <2>1. Quiet(p)
        BY <1>0, <1>3 DEF RemoveChildFails, Quiet, TypeOK, RoleFits, LocalsFit,
           MovingSteps, UnplacedSteps
    <2>2. QED
        BY <2>1, QuietStep
<1>4. CASE TellLeft(p)
    <2>1. Quiet(p)
        BY <1>0, <1>4 DEF TellLeft, Quiet, TypeOK, RoleFits, LocalsFit,
           MovingSteps, UnplacedSteps
    <2>2. QED
        BY <2>1, QuietStep
<1>5. CASE RemoveSuper(p)
    <2>1. /\ pc[p] = "leaveSuper" /\ pc'[p] = "handOver"
          /\ role[p] = "super" /\ role'[p] = "absent"
          /\ children'[p] = {} /\ orphans'[p] = children[p]
          /\ \A q \in Peer : q # p =>
                /\ pc'[q] = pc[q] /\ role'[q] = role[q]
                /\ children'[q] = children[q] /\ orphans'[q] = orphans[q]
          /\ parent' = parent /\ child' = child /\ target' = target
        BY <1>0, <1>5 DEF RemoveSuper, TypeOK
    <2>2. \A s \in Peer : p \notin children[s] /\ p \notin Hand(s)
        BY <2>1 DEF Invariant, Custody, InOnePlace, Unplaced
    <2>3. RoleAtStep'
        BY <2>1 DEF Invariant, RoleAtStep, RoleFits
    <2>4. LocalsAtStep'
        BY <2>1 DEF Invariant, LocalsAtStep, LocalsFit
    <2>5. /\ Hand(p)' = children[p]
          /\ \A s \in Peer : s # p => Hand(s)' = Hand(s)
        BY <2>1 DEF Hand, MovingSteps
    <2>6. \A d \in Peer : Unplaced(d)' => Unplaced(d)
        BY <2>1 DEF Unplaced, UnplacedSteps
    <2>7. Custody'
        <3>1. SUFFICES ASSUME NEW d \in Peer PROVE InOnePlace(d)'
            BY DEF Custody
        <3>2. InOnePlace(d)
            BY DEF Invariant, Custody
        <3>3. \A s \in Peer : d \in children'[s] => s # p /\ d \in children[s]
            BY <2>1
        <3>4. \A s \in Peer : d \in Hand(s)' =>
                 \/ s = p /\ d \in children[p]
                 \/ s # p /\ d \in Hand(s)
            BY <2>5
        <3>5. QED
            BY <2>6, <3>2, <3>3, <3>4 DEF InOnePlace
    <2>8. ParentAgrees'
        BY <2>1, <2>2 DEF Invariant, ParentAgrees
    <2>9. QED
        BY <2>3, <2>4, <2>7, <2>8
<1>6. CASE NoRecruit(p)
    <2>1. Quiet(p)
        BY <1>0, <1>6 DEF NoRecruit, Quiet, TypeOK, RoleFits, LocalsFit,
           MovingSteps, UnplacedSteps
    <2>2. QED
        BY <2>1, QuietStep
<1>7. CASE Recruit(p)
    <2>1. PICK r \in orphans[p] :
             /\ target' = [target EXCEPT ![p] = r]
             /\ orphans' = [orphans EXCEPT ![p] = @ \ {r}]
             /\ IF role[r] # "absent"
                THEN /\ role' = [role EXCEPT ![r] = "super"]
                     /\ parent' = [parent EXCEPT ![r] = NoPeer]
                     /\ children' = [children EXCEPT ![r] = {}]
                ELSE role' = role /\ parent' = parent /\ children' = children
        BY <1>7 DEF Recruit, OthersToReattach
    <2>2. r \in Peer
        BY <1>0 DEF TypeOK
    <2>3. /\ pc[p] = "handOver" /\ pc'[p] = "promote" /\ role[p] = "absent"
          /\ \A q \in Peer : q # p => pc'[q] = pc[q]
          /\ child' = child
        BY <1>0, <1>7 DEF Recruit, TypeOK, RoleFits
    <2>4. /\ target'[p] = r /\ orphans'[p] = orphans[p] \ {r}
          /\ \A q \in Peer : q # p =>
                target'[q] = target[q] /\ orphans'[q] = orphans[q]
          /\ \A q \in Peer : q # r =>
                /\ role'[q] = role[q] /\ parent'[q] = parent[q]
                /\ children'[q] = children[q]
          /\ role[r] = "absent" => role' = role /\ children' = children
          /\ role[r] # "absent" => role'[r] = "super" /\ children'[r] = {}
        BY <1>0, <2>1, <2>2 DEF TypeOK
    <2>5. /\ r \in Hand(p)
          /\ InOnePlace(r)
        BY <2>2 DEF Hand, Invariant, Custody
    <2>6. /\ \A s \in Peer : r \notin children[s]
          /\ \A s \in Peer : r \in Hand(s) => s = p
          /\ ~Unplaced(r)
        BY <2>2, <2>5 DEF InOnePlace
    <2>7. RoleAtStep'
        <3>1. SUFFICES ASSUME NEW q \in Peer PROVE RoleFits(pc'[q], role'[q])
            BY DEF RoleAtStep
        <3>2. RoleFits(pc[q], role[q])
            BY DEF Invariant, RoleAtStep
        <3>3. CASE q = p
            BY <2>3, <2>4, <3>3 DEF RoleFits
        <3>4. CASE q # p /\ q # r
            BY <2>3, <2>4, <3>2, <3>4
        <3>5. CASE q # p /\ q = r
            BY <2>3, <2>4, <2>6, <3>2, <3>5
               DEF RoleFits, Unplaced, UnplacedSteps
        <3>6. QED
            BY <3>3, <3>4, <3>5
    <2>8. LocalsAtStep'
        BY <2>2, <2>3, <2>4 DEF Invariant, LocalsAtStep, LocalsFit
    <2>9. /\ Hand(p)' = Hand(p) \ {r}
          /\ \A s \in Peer : s # p => Hand(s)' = Hand(s)
        BY <2>3, <2>4 DEF Hand, MovingSteps
    <2>10. \A d \in Peer : d # r /\ Unplaced(d)' => Unplaced(d)
        BY <2>3, <2>4 DEF Unplaced, UnplacedSteps
    <2>11. \A s, d \in Peer : d \in children'[s] => d \in children[s]
        BY <2>4
    <2>12. Custody'
        <3>1. SUFFICES ASSUME NEW d \in Peer PROVE InOnePlace(d)'
            BY DEF Custody
        <3>2. InOnePlace(d)
            BY DEF Invariant, Custody
        <3>3. CASE d # r
            BY <2>9, <2>10, <2>11, <3>2, <3>3, StaysInPlace
        <3>4. CASE d = r
            BY <2>6, <2>9, <2>11, <3>4 DEF InOnePlace
        <3>5. QED
            BY <3>3, <3>4
    <2>13. ParentAgrees'
        BY <2>2, <2>4, <2>6, <2>11 DEF Invariant, ParentAgrees
    <2>14. QED
        BY <2>7, <2>8, <2>12, <2>13
<1>8. CASE Promote(p)
    <2>1. Quiet(p)
        BY <1>0, <1>8 DEF Promote, Quiet, TypeOK, RoleFits, LocalsFit,
           MovingSteps, UnplacedSteps
    <2>2. QED
        BY <2>1, QuietStep
<1>9. CASE \E q \in Peer : TellSuperLeft(p, q) \/ TellChildLeft(p, q)
    <2>1. Quiet(p)
        BY <1>0, <1>9 DEF TellSuperLeft, TellChildLeft, Quiet, TypeOK
    <2>2. QED
        BY <2>1, QuietStep
<1>10. CASE \E c \in Peer : Reattach(p, c)
    <2>1. PICK c \in Peer : Reattach(p, c)
        BY <1>10
    <2> DEFINE s == target[p]
    <2>2. /\ pc[p] = "reattach" /\ pc'[p] \in {"reintroduce", "reattach"}
          /\ role[p] = "absent" /\ role' = role
          /\ \A q \in Peer : q # p =>
                /\ pc'[q] = pc[q] /\ child'[q] = child[q]
                /\ orphans'[q] = orphans[q]
          /\ orphans'[p] = orphans[p] \ {c} /\ child'[p] = c
          /\ target' = target /\ s \in Peer
          /\ AttachUnderLock(c, s)
        BY <1>0, <2>1 DEF Reattach, AttachUnderLock, TypeOK, RoleFits, LocalsFit
    <2>3. c \in Hand(p) /\ InOnePlace(c)
        BY <2>1 DEF Reattach, Hand, Invariant, Custody
    <2>4. RoleAtStep'
        BY <2>2 DEF Invariant, RoleAtStep, RoleFits
    <2>5. LocalsAtStep'
        BY <2>2 DEF Invariant, LocalsAtStep, LocalsFit
    <2>6. \A t \in Peer : c \notin children[t]
        BY <2>3 DEF InOnePlace
    <2>7. /\ Hand(p)' = Hand(p) \ {c}
          /\ \A t \in Peer : t # p => Hand(t)' = Hand(t)
        BY <2>2 DEF Hand, MovingSteps
    <2>8. \A t \in Peer : c \notin Hand(t)'
        BY <2>3, <2>7 DEF InOnePlace
    <2>9. ~Unplaced(c)'
        BY <2>2, <2>3 DEF InOnePlace, Unplaced, UnplacedSteps
    <2>10. Custody' /\ ParentAgrees'
        BY <2>2, <2>6, <2>7, <2>8, <2>9, AttachStep DEF UnplacedSteps
    <2>11. QED
        BY <2>4, <2>5, <2>10
<1>11. CASE Reintroduce(p)
    <2>1. Quiet(p)
        BY <1>0, <1>11 DEF Reintroduce, Quiet, TypeOK, RoleFits, LocalsFit,
           MovingSteps, UnplacedSteps
    <2>2. QED
        BY <2>1, QuietStep
<1>12. CASE FinishLeave(p)
    <2>1. Quiet(p)
        BY <1>0, <1>12 DEF FinishLeave, Quiet, TypeOK, RoleFits, LocalsFit,
           MovingSteps, UnplacedSteps
    <2>2. QED
        BY <2>1, QuietStep
<1>13. QED
    BY <1>1, <1>2, <1>3, <1>4, <1>5, <1>6, <1>7, <1>8, <1>9, <1>10, <1>11,
       <1>12 DEF LeaveStep

-----------------------------------------------------------------------------

LEMMA InitInv == Init => Invariant
<1> SUFFICES ASSUME Init PROVE Invariant
    OBVIOUS
<1>1. TypeOK
    BY InitType
<1>2. RoleAtStep /\ LocalsAtStep
    BY DEF Init, RoleAtStep, RoleFits, LocalsAtStep, LocalsFit
<1>3. \A p \in Peer : children[p] = {} /\ Hand(p) = {}
    BY DEF Init, Hand, MovingSteps
<1>4. Custody /\ ParentAgrees
    BY <1>3 DEF Custody, InOnePlace, ParentAgrees
<1>5. QED
    BY <1>1, <1>2, <1>4 DEF Invariant

LEMMA NextInv == Invariant /\ [Next]_vars => Invariant'
<1> SUFFICES ASSUME Invariant, [Next]_vars PROVE Invariant'
    OBVIOUS
<1> USE DEF Goto, At, topology, views, locals
<1>0. /\ TypeOK
      /\ \A p \in Peer :
            /\ RoleFits(pc[p], role[p])
            /\ LocalsFit(pc[p], child[p], target[p], orphans[p])
    BY DEF Invariant, RoleAtStep, LocalsAtStep
<1>1. ASSUME NEW p \in Peer, Connect(p)
      PROVE  Invariant'
    <2>1. TypeOK'
        BY <1>0, <1>1 DEF Connect, TypeOK, Resting, Steps
    <2>2. Quiet(p)
        BY <1>0, <1>1 DEF Connect, Quiet, TypeOK, RoleFits, LocalsFit,
           MovingSteps, UnplacedSteps
    <2>3. QED
        BY <2>1, <2>2, QuietStep DEF Invariant
<1>2. ASSUME NEW p \in Peer, Disconnect(p)
      PROVE  Invariant'
    <2>1. TypeOK'
        BY <1>0, <1>2 DEF Disconnect, TypeOK
    <2>2. Quiet(p)
        BY <1>0, <1>2 DEF Disconnect, Quiet
    <2>3. QED
        BY <2>1, <2>2, QuietStep DEF Invariant
<1>3. ASSUME NEW p \in Peer, NEW q \in Peer, Relay(p, q)
      PROVE  Invariant'
    <2>1. links' \in [Peer -> SUBSET Peer]
        BY <1>0, <1>3, SendNewPeerType DEF Relay
    <2>2. TypeOK'
        BY <1>0, <1>3, <2>1 DEF Relay, TypeOK
    <2>3. Quiet(p)
        BY <1>0, <1>3 DEF Relay, Quiet
    <2>4. QED
        BY <2>2, <2>3, QuietStep DEF Invariant
<1>4. ASSUME NEW p \in Peer, TaskStep(p)
      PROVE  Invariant'
    BY <1>0, <1>4, JoinStepType, BalanceStepType, LeaveStepType,
       JoinStepInv, BalanceStepInv, LeaveStepInv DEF TaskStep, Invariant
<1>5. CASE UNCHANGED vars
    BY <1>5 DEF vars, Invariant, TypeOK, RoleAtStep, LocalsAtStep, Custody,
       InOnePlace, Hand, Unplaced, ParentAgrees
<1>6. QED
    BY <1>1, <1>2, <1>3, <1>4, <1>5 DEF Next

\* The inductive invariant holds in every state of every interleaving.
THEOREM InvariantHolds == Spec => []Invariant
BY InitInv, NextInv, PTL DEF Spec

\* Types: in particular every plan of load_balance is over peers.
THEOREM TypeCorrect == Spec => []TypeOK
<1>1. Invariant => TypeOK
    BY DEF Invariant
<1>2. QED
    BY <1>1, InvariantHolds, PTL

\* No peer ever has two parents, none is lost to two tasks at once, and no
\* super peer is anybody's child.
THEOREM CustodyHolds == Spec => []Custody
<1>1. Invariant => Custody
    BY DEF Invariant
<1>2. QED
    BY <1>1, InvariantHolds, PTL

\* A parent's set of children and a child's parent_id never disagree about a
\* child that is in the set.
THEOREM ParentAgreesHolds == Spec => []ParentAgrees
<1>1. Invariant => ParentAgrees
    BY DEF Invariant
<1>2. QED
    BY <1>1, InvariantHolds, PTL

-----------------------------------------------------------------------------
(* HybridServer implements PeerForest: every step of every task, seen        *)
(* through the roles and the sets of children, is one step of the forest or  *)
(* none.                                                                     *)

Edges == {e \in Peer \X Peer : e[2] \in children[e[1]]}

ForestStep == [Forest!Next]_<<Supers, Edges>>

\* The map untouched: no step of the forest.
LEMMA SameMap ==
    ASSUME role' = role, children' = children
    PROVE  ForestStep
BY DEF ForestStep, Supers, Edges

\* A peer that is below nobody and no super peer yet.
LEMMA RiseStep ==
    ASSUME TypeOK, NEW p \in Peer,
           role[p] # "super", \A s \in Peer : p \notin children[s],
           role' = [role EXCEPT ![p] = "super"], children' = children
    PROVE  Forest!Rise(p)
<1>1. p \notin Supers /\ Supers' = Supers \cup {p}
    BY DEF Supers, TypeOK
<1>2. Forest!HangsBelowNone(p)
    BY DEF Forest!HangsBelowNone
<1>3. Edges' = Edges
    BY DEF Edges
<1>4. QED
    BY <1>1, <1>2, <1>3 DEF Forest!Rise, Edges

LEMMA FallStep ==
    ASSUME TypeOK, NEW p \in Peer, role[p] = "super",
           role' = [role EXCEPT ![p] = "absent"],
           children' = [children EXCEPT ![p] = {}]
    PROVE  Forest!Fall(p)
<1>1. p \in Supers /\ Supers' = Supers \ {p}
    BY DEF Supers, TypeOK
<1>2. Edges' = {e \in Edges : e[1] # p}
    BY DEF Edges, TypeOK
<1>3. QED
    BY <1>1, <1>2 DEF Forest!Fall, Edges

LEMMA TakeOffStep ==
    ASSUME TypeOK, NEW s \in Peer, NEW c \in Peer,
           Supers' = Supers,
           children' = [children EXCEPT ![s] = @ \ {c}]
    PROVE  Forest!TakeOff(s, c)
<1>1. Edges' = Edges \ {<<s, c>>}
    BY DEF Edges, TypeOK
<1>2. QED
    BY <1>1 DEF Forest!TakeOff, Edges

\* connect_child under the lock, for a child that is in no set.
LEMMA AttachForestStep ==
    ASSUME TypeOK, NEW c \in Peer, NEW s \in Peer, AttachUnderLock(c, s),
           role[c] # "super", \A t \in Peer : c \notin children[t]
    PROVE  ForestStep
<1>1. CASE role[s] # "super"
    BY <1>1, SameMap DEF AttachUnderLock
<1>2. CASE role[s] = "super"
    <2>1. s \in Supers /\ c \notin Supers /\ Supers' = Supers
        BY <1>2 DEF Supers, AttachUnderLock
    <2>2. Forest!HangsBelowNone(c)
        BY DEF Forest!HangsBelowNone
    <2>3. Edges' = Edges \cup {<<s, c>>}
        BY <1>2 DEF Edges, AttachUnderLock, TypeOK
    <2>4. Forest!Hang(s, c)
        BY <2>1, <2>2, <2>3 DEF Forest!Hang, Edges
    <2>5. QED
        BY <2>4 DEF ForestStep, Forest!Next
<1>3. QED
    BY <1>1, <1>2

LEMMA JoinForestStep ==
    ASSUME Invariant, NEW p \in Peer, JoinStep(p)
    PROVE  ForestStep
<1> USE DEF Goto, At, topology, views, locals
<1>0. TypeOK /\ RoleFits(pc[p], role[p]) /\ InOnePlace(p)
         /\ LocalsFit(pc[p], child[p], target[p], orphans[p])
    BY DEF Invariant, RoleAtStep, LocalsAtStep, Custody
<1>1. CASE InsertSuper(p)
    <2>1. pc[p] = "announce"
        BY <1>1 DEF InsertSuper
    <2>2. role[p] # "super" /\ \A s \in Peer : p \notin children[s]
        BY <1>0, <2>1 DEF RoleFits, InOnePlace, Unplaced, UnplacedSteps
    <2>3. role' = [role EXCEPT ![p] = "super"] /\ children' = children
        BY <1>1 DEF InsertSuper
    <2>4. QED
        BY <1>0, <2>2, <2>3, RiseStep DEF ForestStep, Forest!Next
<1>2. CASE AddChild(p)
    <2>1. role[p] = "absent" /\ role' = [role EXCEPT ![p] = "child"]
             /\ children' = children
        BY <1>0, <1>2 DEF AddChild, RoleFits
    <2>2. Supers' = Supers /\ Edges' = Edges
        BY <1>0, <2>1 DEF Supers, Edges, TypeOK
    <2>3. QED
        BY <2>2 DEF ForestStep
<1>3. CASE Attach(p) \/ AttachFails(p)
    <2>1. pc[p] = "attach" /\ AttachUnderLock(p, target[p])
        BY <1>3 DEF Attach, AttachFails
    <2>2. /\ role[p] = "child" /\ target[p] \in Peer
          /\ \A s \in Peer : p \notin children[s]
        BY <1>0, <2>1
           DEF RoleFits, LocalsFit, InOnePlace, Unplaced, UnplacedSteps
    <2>3. QED
        BY <1>0, <2>1, <2>2, AttachForestStep
<1>4. CASE \/ JoinAsSuper(p) \/ ListSupers(p)
           \/ \E q \in Peer : AnnounceSuper(p, q)
           \/ JoinAsChild(p) \/ FindParent(p) \/ NoParentFound(p)
           \/ Introduce(p) \/ IntroduceFails(p) \/ TellParent(p)
    <2>1. role' = role /\ children' = children
        BY <1>4 DEF JoinAsSuper, ListSupers, AnnounceSuper, JoinAsChild,
           FindParent, NoParentFound, Introduce, IntroduceFails, TellParent
    <2>2. QED
        BY <2>1, SameMap
<1>5. QED
    BY <1>1, <1>2, <1>3, <1>4 DEF JoinStep

LEMMA BalanceForestStep ==
    ASSUME Invariant, NEW p \in Peer, BalanceStep(p)
    PROVE  ForestStep
<1> USE DEF Goto, At, topology, views, locals
<1>0. TypeOK /\ LocalsFit(pc[p], child[p], target[p], orphans[p])
    BY DEF Invariant, LocalsAtStep
<1>1. CASE TakeChild(p)
    <2>1. PICK i \in 1..Len(plan[p]), j \in 1..Len(plan[p]), c \in Peer :
             TakeChildFor(p, i, j, c)
        BY <1>1 DEF TakeChild
    <2> DEFINE g == plan[p][i].id
    <2>2. g \in Peer
        <3>1. plan[p] \in Seq(Entry)
            BY <1>0 DEF TypeOK, Entry
        <3>2. plan[p][i] \in Entry
            BY <3>1, ElementType
        <3>3. QED
            BY <3>2 DEF Entry
    <2>3. role' = role /\ children' = [children EXCEPT ![g] = @ \ {c}]
        BY <2>1 DEF TakeChildFor
    <2>4. Supers' = Supers
        BY <2>3 DEF Supers
    <2>5. Forest!TakeOff(g, c)
        BY <1>0, <2>2, <2>3, <2>4, TakeOffStep
    <2>6. QED
        BY <2>2, <2>5 DEF ForestStep, Forest!Next
<1>2. CASE AttachMoved(p)
    <2>1. pc[p] = "attachMoved" /\ AttachUnderLock(child[p], target[p])
        BY <1>2 DEF AttachMoved
    <2>2. child[p] \in Peer /\ target[p] \in Peer
        BY <1>0, <2>1 DEF LocalsFit
    <2>3. InOnePlace(child[p]) /\ child[p] \in Hand(p)
        BY <2>1, <2>2 DEF Invariant, Custody, Hand, MovingSteps
    <2>4. /\ role[child[p]] # "super"
          /\ \A s \in Peer : child[p] \notin children[s]
        BY <2>3 DEF InOnePlace, Unplaced
    <2>5. QED
        BY <1>0, <2>1, <2>2, <2>4, AttachForestStep
<1>3. CASE \/ TooFewSupers(p) \/ PlanMoves(p) \/ FinishBalance(p)
           \/ NothingToTake(p) \/ TellGiver(p) \/ TellMoved(p)
           \/ IntroduceMoved(p)
    <2>1. role' = role /\ children' = children
        BY <1>3 DEF TooFewSupers, PlanMoves, FinishBalance, NothingToTake,
           TellGiver, TellMoved, IntroduceMoved
    <2>2. QED
        BY <2>1, SameMap
<1>4. QED
    BY <1>1, <1>2, <1>3 DEF BalanceStep

LEMMA LeaveForestStep ==
    ASSUME Invariant, NEW p \in Peer, LeaveStep(p)
    PROVE  ForestStep
<1> USE DEF Goto, At, topology, views, locals
<1>0. TypeOK /\ RoleFits(pc[p], role[p])
         /\ LocalsFit(pc[p], child[p], target[p], orphans[p])
    BY DEF Invariant, RoleAtStep, LocalsAtStep
<1>1. CASE RemoveChild(p)
    <2>1. role[p] = "child" /\ role' = [role EXCEPT ![p] = "absent"]
        BY <1>1 DEF RemoveChild
    <2>2. Supers' = Supers
        BY <1>0, <2>1 DEF Supers, TypeOK
    <2>3. CASE parent[p] = NoPeer
        <3>1. children' = children
            BY <1>1, <2>3 DEF RemoveChild
        <3>2. QED
            BY <2>2, <3>1 DEF ForestStep, Edges
    <2>4. CASE parent[p] # NoPeer
        <3>1. parent[p] \in Peer
            BY <1>0, <2>4 DEF TypeOK
        <3>2. children' = [children EXCEPT ![parent[p]] = @ \ {p}]
            BY <1>1, <2>4 DEF RemoveChild
        <3>3. Forest!TakeOff(parent[p], p)
            BY <1>0, <2>2, <3>1, <3>2, TakeOffStep
        <3>4. QED
            BY <3>1, <3>3 DEF ForestStep, Forest!Next
    <2>5. QED
        BY <2>3, <2>4
<1>2. CASE RemoveSuper(p)
    <2>1. /\ role[p] = "super" /\ role' = [role EXCEPT ![p] = "absent"]
          /\ children' = [children EXCEPT ![p] = {}]
        BY <1>2 DEF RemoveSuper
    <2>2. QED
        BY <1>0, <2>1, FallStep DEF ForestStep, Forest!Next
<1>3. CASE Recruit(p)
    <2>1. PICK r \in orphans[p] :
             IF role[r] # "absent"
             THEN /\ role' = [role EXCEPT ![r] = "super"]
                  /\ parent' = [parent EXCEPT ![r] = NoPeer]
                  /\ children' = [children EXCEPT ![r] = {}]
             ELSE role' = role /\ parent' = parent /\ children' = children
        BY <1>3 DEF Recruit
    <2>2. r \in Peer /\ r \in Hand(p) /\ InOnePlace(r)
        BY <1>0 DEF TypeOK, Hand, Invariant, Custody
    <2>3. role[r] # "super" /\ \A s \in Peer : r \notin children[s]
        BY <2>2 DEF InOnePlace, Unplaced
    <2>4. children[r] = {}
        BY <1>0, <2>2, <2>3 DEF Invariant, ParentAgrees, TypeOK
    <2>5. CASE role[r] = "absent"
        BY <2>1, <2>5, SameMap
    <2>6. CASE role[r] # "absent"
        <3>1. role' = [role EXCEPT ![r] = "super"] /\ children' = children
            <4>1. /\ role' = [role EXCEPT ![r] = "super"]
                  /\ children' = [children EXCEPT ![r] = {}]
                BY <2>1, <2>6
            <4>2. children = [q \in Peer |-> children[q]]
                BY <1>0 DEF TypeOK
            <4>3. [children EXCEPT ![r] = {}] = children
                BY <2>2, <2>4, <4>2
            <4>4. QED
                BY <4>1, <4>3
        <3>2. Forest!Rise(r)
            BY <1>0, <2>2, <2>3, <3>1, RiseStep
        <3>3. QED
            BY <2>2, <3>2 DEF ForestStep, Forest!Next
    <2>7. QED
        BY <2>5, <2>6
<1>4. CASE \E c \in Peer : Reattach(p, c)
    <2>1. PICK c \in Peer : Reattach(p, c)
        BY <1>4
    <2>2. /\ pc[p] = "reattach" /\ c \in orphans[p]
          /\ AttachUnderLock(c, target[p])
        BY <2>1 DEF Reattach
    <2>3. target[p] \in Peer
        BY <1>0, <2>2 DEF LocalsFit
    <2>4. InOnePlace(c) /\ c \in Hand(p)
        BY <2>2 DEF Invariant, Custody, Hand
    <2>5. role[c] # "super" /\ \A s \in Peer : c \notin children[s]
        BY <2>4 DEF InOnePlace, Unplaced
    <2>6. QED
        BY <1>0, <2>2, <2>3, <2>5, AttachForestStep
<1>5. CASE \/ Close(p) \/ RemoveChildFails(p) \/ TellLeft(p)
           \/ NoRecruit(p) \/ Promote(p)
           \/ \E q \in Peer : TellSuperLeft(p, q) \/ TellChildLeft(p, q)
           \/ Reintroduce(p) \/ FinishLeave(p)
    <2>1. role' = role /\ children' = children
        BY <1>5 DEF Close, RemoveChildFails, TellLeft, NoRecruit, Promote,
           TellSuperLeft, TellChildLeft, Reintroduce, FinishLeave
    <2>2. QED
        BY <2>1, SameMap
<1>6. QED
    BY <1>1, <1>2, <1>3, <1>4, <1>5 DEF LeaveStep

LEMMA InitForest == Init => Forest!Init
BY DEF Init, Forest!Init, Supers, Edges

LEMMA NextForest == Invariant /\ [Next]_vars => ForestStep
<1> SUFFICES ASSUME Invariant, [Next]_vars PROVE ForestStep
    OBVIOUS
<1>1. ASSUME NEW p \in Peer, Connect(p) \/ Disconnect(p)
      PROVE  ForestStep
    BY <1>1, SameMap DEF Connect, Disconnect, topology
<1>2. ASSUME NEW p \in Peer, NEW q \in Peer, Relay(p, q)
      PROVE  ForestStep
    BY <1>2, SameMap DEF Relay, topology
<1>3. ASSUME NEW p \in Peer, TaskStep(p)
      PROVE  ForestStep
    BY <1>3, JoinForestStep, BalanceForestStep, LeaveForestStep DEF TaskStep
<1>4. CASE UNCHANGED vars
    BY <1>4, SameMap DEF vars
<1>5. QED
    BY <1>1, <1>2, <1>3, <1>4 DEF Next

\* The server, whatever the number of peers and the interleaving of their
\* tasks, keeps the rules of PeerForest.
THEOREM HybridImplementsForest == Spec => ImplementsForest
<1>1. Spec => Forest!Init /\ [][ForestStep]_<<Supers, Edges>>
    BY InitForest, NextForest, InvariantHolds, PTL DEF Spec
<1>2. QED
    BY <1>1, PTL DEF ImplementsForest, Forest!Spec, ForestStep, Edges

(* The same forest with constants in place of the variables: supers A and   *)
(* edges U, and a step to supers B and edges V.                             *)

Shape(A, U) ==
    /\ A \subseteq Peer
    /\ U \subseteq A \X (Peer \ A)
    /\ \A s, t, c \in Peer : <<s, c>> \in U /\ <<t, c>> \in U => s = t

BelowNone(U, c) == \A s \in Peer : <<s, c>> \notin U

Rises(A, U, B, V, p) == p \notin A /\ BelowNone(U, p) /\ B = A \cup {p} /\ V = U

Falls(A, U, B, V, p) == p \in A /\ B = A \ {p} /\ V = {e \in U : e[1] # p}

Hangs(A, U, B, V, s, c) ==
    s \in A /\ c \notin A /\ BelowNone(U, c) /\ V = U \cup {<<s, c>>} /\ B = A

LEMMA RiseKeepsShape ==
    ASSUME NEW A, NEW U, NEW B, NEW V, NEW p \in Peer, Shape(A, U), Rises(A, U, B, V, p)
    PROVE  Shape(B, V)
<1>1. ASSUME NEW e \in V PROVE e \in B \X (Peer \ B)
    <2>1. PICK s \in A, c \in Peer \ A : e = <<s, c>>
        BY <1>1 DEF Shape, Rises
    <2>2. c # p
        BY <1>1, <2>1 DEF Shape, Rises, BelowNone
    <2>3. QED
        BY <2>1, <2>2 DEF Rises
<1>2. QED
    BY <1>1 DEF Shape, Rises

LEMMA FallKeepsShape ==
    ASSUME NEW A, NEW U, NEW B, NEW V, NEW p \in Peer, Shape(A, U), Falls(A, U, B, V, p)
    PROVE  Shape(B, V)
<1>1. ASSUME NEW e \in V PROVE e \in B \X (Peer \ B)
    BY <1>1 DEF Shape, Falls
<1>2. QED
    BY <1>1 DEF Shape, Falls

LEMMA HangKeepsShape ==
    ASSUME NEW A, NEW U, NEW B, NEW V, NEW s \in Peer, NEW c \in Peer,
           Shape(A, U), Hangs(A, U, B, V, s, c)
    PROVE  Shape(B, V)
<1>1. V \subseteq B \X (Peer \ B)
    BY DEF Shape, Hangs
<1>2. ASSUME NEW a \in Peer, NEW b \in Peer, NEW d \in Peer, <<a, d>> \in V, <<b, d>> \in V
      PROVE  a = b
    <2>1. CASE d = c
        BY <1>2, <2>1 DEF Hangs, BelowNone
    <2>2. CASE d # c
        BY <1>2, <2>2 DEF Shape, Hangs
    <2>3. QED
        BY <2>1, <2>2
<1>3. QED
    BY <1>1, <1>2 DEF Shape, Hangs

LEMMA ForestIsShape == Forest!IsForest <=> Shape(Supers, Edges)
BY DEF Forest!IsForest, Shape, Edges

\* The rules of PeerForest keep a forest a forest.
THEOREM AlwaysForest == Forest!Spec => []Forest!IsForest
<1>1. Forest!Init => Shape(Supers, Edges)
    BY DEF Forest!Init, Shape, Edges
<1>2. Shape(Supers, Edges) /\ [ForestStep]_<<Supers, Edges>> => Shape(Supers, Edges)'
    <2> SUFFICES ASSUME Shape(Supers, Edges), [ForestStep]_<<Supers, Edges>>
                 PROVE  Shape(Supers, Edges)'
        OBVIOUS
    <2>1. PICK A, U, B, V : A = Supers /\ U = Edges /\ B = Supers' /\ V = Edges'
        OBVIOUS
    <2>2. Shape(A, U) /\ (Shape(B, V) => Shape(Supers, Edges)')
        BY <2>1 DEF Shape
    <2>3. ASSUME NEW p \in Peer, Forest!Rise(p) PROVE Shape(B, V)
        <3>1. Rises(A, U, B, V, p)
            BY <2>1, <2>3 DEF Forest!Rise, Forest!HangsBelowNone, Edges, Rises, BelowNone
        <3>2. QED
            BY <2>2, <3>1, RiseKeepsShape
    <2>4. ASSUME NEW p \in Peer, Forest!Fall(p) PROVE Shape(B, V)
        <3>1. Falls(A, U, B, V, p)
            BY <2>1, <2>4 DEF Forest!Fall, Edges, Falls
        <3>2. QED
            BY <2>2, <3>1, FallKeepsShape
    <2>5. ASSUME NEW s \in Peer, NEW c \in Peer, Forest!Hang(s, c) PROVE Shape(B, V)
        <3>1. Hangs(A, U, B, V, s, c)
            BY <2>1, <2>5 DEF Forest!Hang, Forest!HangsBelowNone, Edges, Hangs, BelowNone
        <3>2. QED
            BY <2>2, <3>1, HangKeepsShape
    <2>6. ASSUME NEW s \in Peer, NEW c \in Peer, Forest!TakeOff(s, c) PROVE Shape(B, V)
        <3>1. B = A /\ V = U \ {<<s, c>>}
            BY <2>1, <2>6 DEF Forest!TakeOff, Edges
        <3>2. QED
            BY <2>2, <3>1 DEF Shape
    <2>7. CASE UNCHANGED <<Supers, Edges>>
        BY <2>1, <2>2, <2>7
    <2>8. QED
        BY <2>2, <2>3, <2>4, <2>5, <2>6, <2>7 DEF ForestStep, Forest!Next
<1>3. Forest!Spec => Forest!Init /\ [][ForestStep]_<<Supers, Edges>>
    BY PTL DEF Forest!Spec, ForestStep, Edges
<1>4. QED
    BY <1>1, <1>2, <1>3, ForestIsShape, PTL

\* Therefore the peers of the server are a forest of height one after every step
\* of every interleaving.
THEOREM ServerIsForest == Spec => []Forest!IsForest
BY HybridImplementsForest, AlwaysForest, PTL DEF ImplementsForest

-----------------------------------------------------------------------------
(* The server when requests do not overlap, as the only handler that runs    *)
(* sees it: what it has still to do.                                         *)

Alone(p) == \A q \in Peer \ {p} : pc[q] \in Resting

\* Children in the map that p has still to hang below a super peer.
Detached(p) ==
    orphans[p] \cup (IF pc[p] \in {"findParent", "attach"} THEN {p}
                     ELSE IF pc[p] \in MovingSteps THEN {child[p]} ELSE {})

SoloTree(p) ==
    /\ Detached(p) \subseteq Children
    /\ \A c \in Children \ Detached(p) : parent[c] \in Supers /\ c \in children[parent[c]]
    /\ \A s, c \in Peer : c \in children[s] => role[c] = "child"

BalanceSteps == MovingSteps \cup {"move", "introduceMoved"}

\* What the steps of p rest on.
SoloTask(p) ==
    /\ pc[p] \in {"addChild", "findParent"} => Supers # {}
    /\ pc[p] \in MovingSteps \cup {"attach", "introduce", "introduceMoved", "tellLeft",
                                   "promote", "reattach", "reintroduce"} => target[p] \in Supers
    /\ pc[p] \in BalanceSteps => \A n \in 1..Len(plan[p]) : plan[p][n].id \in Supers
    /\ pc[p] \in {"tellGiver", "tellMoved"} =>
          giver[p] \in Supers /\ parent[child[p]] = giver[p]
    /\ pc[p] = "introduce" => p \in children[target[p]]
    /\ pc[p] \in {"introduceMoved", "reintroduce"} => child[p] \in children[target[p]]
    /\ pc[p] = "handOver" => \A c \in orphans[p] : parent[c] = p

\* A child that its super peer is not told of yet, and one that it still knows.
Entering(p, c) ==
    \/ pc[p] = "introduce" /\ c = p
    \/ pc[p] \in {"introduceMoved", "reintroduce"} /\ c = child[p]

Leaving(p, s, c) ==
    \/ pc[p] = "tellGiver" /\ s = giver[p] /\ c = child[p]
    \/ pc[p] = "tellLeft" /\ s = target[p] /\ c = p

\* Peers that know nobody until p has placed them.
Waiting(p) ==
    IF pc[p] \in {"join", "addSuper", "announce", "addChild", "findParent", "attach"} THEN {p}
    ELSE IF pc[p] = "handOver" THEN orphans[p] \ todo[p]
    ELSE IF pc[p] \in {"promote", "reattach", "reintroduce"} THEN orphans[p]
    ELSE IF pc[p] = "attachMoved" THEN {child[p]} ELSE {}

ChildrenKnown(p) ==
    \A s \in Supers : open[s] => \A c \in children[s] : c \in links[s] \/ Entering(p, c)

NoneElseKnown(p) ==
    \A s \in Supers : open[s] => \A c \in links[s] : c \in children[s] \/ Leaving(p, s, c)

ParentKnown == \A c \in Children : open[c] => links[c] \subseteq {parent[c]}

WaitingKnow(p) ==
    /\ \A c \in Waiting(p) : open[c] => links[c] = {}
    /\ \A q \in Peer : pc[q] = "new" => links[q] = {}

SoloLinks(p) == ChildrenKnown(p) /\ NoneElseKnown(p) /\ ParentKnown /\ WaitingKnow(p)

Solo(p) == SoloTree(p) /\ SoloTask(p) /\ SoloLinks(p)

\* p runs, or nobody does.
Busy(p) == pc[p] \notin Resting \/ \A q \in Peer : pc[q] \in Resting

SerialServer == \A p \in Peer : Busy(p) => Alone(p) /\ Solo(p)

\* With every other task at rest it does not matter whose view is taken.
LEMMA SoloAtRest ==
    ASSUME Invariant, NEW p \in Peer, Solo(p), \A q \in Peer : pc[q] \in Resting,
           NEW r \in Peer
    PROVE  Solo(r)
<1>1. \A q \in Peer : orphans[q] = {} /\ pc[q] \in {"new", "serve", "done"}
    BY DEF Invariant, LocalsAtStep, LocalsFit, Resting
<1>2. \A q \in Peer : Detached(q) = {} /\ Waiting(q) = {}
    BY <1>1 DEF Detached, Waiting, MovingSteps
<1>3. \A q \in Peer : \A s, c : ~Entering(q, c) /\ ~Leaving(q, s, c)
    BY <1>1 DEF Entering, Leaving
<1>4. SoloTree(r)
    BY <1>2 DEF Solo, SoloTree
<1>5. SoloTask(r)
    BY <1>1 DEF SoloTask, MovingSteps, BalanceSteps
<1>6. SoloLinks(r)
    BY <1>2, <1>3 DEF Solo, SoloLinks, ChildrenKnown, NoneElseKnown, WaitingKnow
<1>7. QED
    BY <1>4, <1>5, <1>6 DEF Solo

LEMMA LoneGives ==
    ASSUME Invariant, NEW p \in Peer, Alone(p), Solo(p)
    PROVE  SerialServer
<1>1. ASSUME NEW q \in Peer, Busy(q), q # p PROVE Alone(q) /\ Solo(q)
    <2>1. \A r \in Peer : pc[r] \in Resting
        BY <1>1 DEF Alone, Busy
    <2>2. QED
        BY <2>1, SoloAtRest DEF Alone
<1>2. QED
    BY <1>1 DEF SerialServer

LEMMA InitSerial == Init => SerialServer
<1> SUFFICES ASSUME Init PROVE SerialServer
    OBVIOUS
<1>1. \A p \in Peer : /\ role[p] = "absent" /\ pc[p] = "new" /\ links[p] = {}
                      /\ orphans[p] = {} /\ children[p] = {}
    BY DEF Init
<1>2. Supers = {} /\ Children = {}
    BY <1>1 DEF Supers, Children
<1>3. \A p \in Peer : Detached(p) = {} /\ Waiting(p) = {}
    BY <1>1 DEF Detached, Waiting, MovingSteps
<1>4. \A p \in Peer : SoloTree(p) /\ SoloTask(p)
    BY <1>1, <1>2, <1>3 DEF SoloTree, SoloTask, MovingSteps, BalanceSteps
<1>5. \A p \in Peer : SoloLinks(p)
    BY <1>1, <1>2, <1>3 DEF SoloLinks, ChildrenKnown, NoneElseKnown, ParentKnown, WaitingKnow
<1>6. QED
    BY <1>1, <1>4, <1>5 DEF SerialServer, Solo, Alone, Resting

-----------------------------------------------------------------------------
(* Steps that leave the map alone.                                           *)

OthersStay(p) == \A q \in Peer \ {p} : pc'[q] = pc[q]

LEMMA StillAlone ==
    ASSUME NEW p \in Peer, Alone(p), OthersStay(p)
    PROVE  Alone(p)'
BY DEF Alone, OthersStay

\* What holds of a super peer, of a child and of a listed child.
LEMMA Places ==
    ASSUME Invariant
    PROVE  /\ Supers \subseteq Peer /\ Children \subseteq Peer
           /\ \A s \in Peer : children[s] \subseteq Peer /\ links[s] \subseteq Peer
           /\ \A s \in Peer : s \notin Supers => children[s] = {}
           /\ \A s \in Supers : s \notin Children /\ \A t \in Peer : s \notin children[t]
           /\ \A s, t \in Peer : children[s] \cap children[t] # {} => s = t
<1>1. /\ children \in [Peer -> SUBSET Peer] /\ links \in [Peer -> SUBSET Peer]
      /\ \A s, c \in Peer : c \in children[s] => role[s] = "super"
      /\ \A c \in Peer : InOnePlace(c)
    BY DEF Invariant, TypeOK, ParentAgrees, Custody
<1>2. QED
    BY <1>1 DEF Supers, Children, InOnePlace, Unplaced

LEMMA WaitingPeers ==
    ASSUME Invariant, NEW p \in Peer
    PROVE  Waiting(p) \subseteq Peer /\ Detached(p) \subseteq Peer
<1>1. orphans[p] \subseteq Peer /\ LocalsFit(pc[p], child[p], target[p], orphans[p])
    BY DEF Invariant, TypeOK, LocalsAtStep
<1>2. QED
    BY <1>1 DEF Waiting, Detached, LocalsFit, MovingSteps

\* A step that changes neither the map nor what anybody knows.
LEMMA QuietSolo ==
    ASSUME Invariant, Invariant', NEW p \in Peer, Solo(p), OthersStay(p),
           UNCHANGED <<role, parent, children, links>>,
           \A q \in Supers \cup Children : open'[q] => open[q],
           SoloTask(p)', pc'[p] # "new",
           Detached(p)' = Detached(p),
           \A s \in Supers : \A c \in children[s] :
               open[s] /\ Entering(p, c) => Entering(p, c)',
           \A s, c : Leaving(p, s, c) => Leaving(p, s, c)',
           \A c \in Waiting(p)' : open'[c] => links[c] = {}
    PROVE  Solo(p)'
<1> USE DEF Solo, SoloLinks
<1>1. Supers' = Supers /\ Children' = Children
    BY DEF Supers, Children
<1>2. SoloTree(p)'
    BY <1>1 DEF SoloTree
<1>3. ChildrenKnown(p)'
    BY <1>1 DEF ChildrenKnown
<1>4. NoneElseKnown(p)'
    BY <1>1 DEF NoneElseKnown
<1>5. ParentKnown'
    BY <1>1 DEF ParentKnown
<1>6. WaitingKnow(p)'
    <2>1. \A q \in Peer : pc'[q] = "new" => pc[q] = "new"
        BY DEF OthersStay
    <2>2. QED
        BY <2>1 DEF WaitingKnow
<1>7. QED
    BY <1>2, <1>3, <1>4, <1>5, <1>6

\* One event, that one peer comes to know another or ceases to.
Told(q, known) ==
    \A r \in Peer : links'[r] = IF r = q /\ CanHear(q) THEN known ELSE links[r]

LEMMA NewPeerTold ==
    ASSUME TypeOK, NEW q \in Peer, NEW x, SendNewPeer(q, x)
    PROVE  Told(q, links[q] \cup {x})
BY DEF SendNewPeer, Told, TypeOK

LEMMA PeerLeftTold ==
    ASSUME TypeOK, NEW q \in Peer, NEW x, SendPeerLeft(q, x)
    PROVE  Told(q, links[q] \ {x})
BY DEF SendPeerLeft, Told, TypeOK

\* A step that sends such an event.
LEMMA EventSolo ==
    ASSUME Invariant, Invariant', NEW p \in Peer, Solo(p), OthersStay(p),
           UNCHANGED <<role, parent, children, open>>,
           SoloTask(p)', pc[p] # "new", pc'[p] # "new",
           Detached(p)' = Detached(p),
           NEW q \in Peer, NEW K, Told(q, K),
           q \in Children /\ open[q] => K \subseteq {parent[q]},
           q \in Supers /\ open[q] => K \subseteq links[q] \cup children[q],
           \A s \in Supers : \A c \in children[s] : open[s] =>
               /\ Entering(p, c) => Entering(p, c)' \/ c \in links'[s]
               /\ s = q /\ c \in links[s] => c \in K,
           \A s \in Supers : \A c \in links[s] :
               Leaving(p, s, c) => Leaving(p, s, c)' \/ c \notin links'[s] \/ ~open[s],
           \A c \in Waiting(p)' : open[c] => links'[c] = {}
    PROVE  Solo(p)'
<1> USE DEF Solo, SoloLinks
<1>1. Supers' = Supers /\ Children' = Children
    BY DEF Supers, Children
<1>2. /\ Supers \subseteq Peer /\ Children \subseteq Peer
      /\ \A r \in Peer : links'[r] = IF r = q /\ CanHear(q) THEN K ELSE links[r]
    BY Places DEF Told
<1>3. SoloTree(p)'
    BY <1>1 DEF SoloTree
<1>4. ChildrenKnown(p)'
    <2>1. ASSUME NEW s \in Supers, open[s], NEW c \in children[s]
          PROVE  c \in links'[s] \/ Entering(p, c)'
        <3>1. c \in links[s] \/ Entering(p, c)
            BY <2>1 DEF ChildrenKnown
        <3>2. QED
            BY <1>2, <2>1, <3>1
    <2>2. QED
        BY <1>1, <2>1 DEF ChildrenKnown
<1>5. NoneElseKnown(p)'
    <2>1. ASSUME NEW s \in Supers, open[s], NEW c \in links'[s]
          PROVE  c \in children[s] \/ Leaving(p, s, c)'
        <3>1. c \in links[s] \/ c \in children[s]
            BY <1>2, <2>1
        <3>2. CASE c \in links[s]
            BY <2>1, <3>2 DEF NoneElseKnown
        <3>3. QED
            BY <3>1, <3>2
    <2>2. QED
        BY <1>1, <2>1 DEF NoneElseKnown
<1>6. ParentKnown'
    BY <1>1, <1>2 DEF ParentKnown
<1>7. WaitingKnow(p)'
    <2>1. \A r \in Peer : pc'[r] = "new" => pc[r] = "new" /\ r # p
        BY DEF OthersStay
    <2>2. \A r \in Peer : pc[r] = "new" => role[r] = "absent"
        BY DEF Invariant, RoleAtStep, RoleFits
    <2>3. \A r \in Peer : pc'[r] = "new" => links'[r] = {}
        BY <1>2, <2>1, <2>2 DEF WaitingKnow, CanHear
    <2>4. QED
        BY <2>3 DEF WaitingKnow
<1>8. QED
    BY <1>3, <1>4, <1>5, <1>6, <1>7

LEMMA QuietJoinSolo ==
    ASSUME Invariant, Invariant', NEW p \in Peer, Alone(p), Solo(p), OthersStay(p),
           \/ Connect(p) \/ JoinAsSuper(p) \/ ListSupers(p) \/ JoinAsChild(p)
           \/ FindParent(p) \/ NoParentFound(p) \/ AttachFails(p) \/ IntroduceFails(p)
           \/ TellParent(p) \/ \E q \in Peer : AnnounceSuper(p, q)
    PROVE  Solo(p)'
<1> USE DEF Goto, At, topology, views, locals
<1>1. /\ TypeOK /\ SoloTask(p) /\ SoloTree(p) /\ WaitingKnow(p)
      /\ RoleFits(pc[p], role[p]) /\ LocalsFit(pc[p], child[p], target[p], orphans[p])
    BY DEF Invariant, RoleAtStep, LocalsAtStep, Solo, SoloLinks
<1> USE DEF TypeOK
<1>2. CASE Connect(p)
    <2>1. /\ pc[p] = "new" /\ pc'[p] = "join" /\ p \notin Supers /\ p \notin Children
          /\ \A q \in Peer : q # p => open'[q] = open[q]
          /\ UNCHANGED <<role, parent, children, links, orphans>>
        BY <1>1, <1>2 DEF Connect, RoleFits, Supers, Children
    <2>2. SoloTask(p)' /\ Detached(p)' = Detached(p) /\ Waiting(p)' = {p}
        BY <2>1 DEF SoloTask, Detached, MovingSteps, BalanceSteps, Waiting
    <2>3. /\ \A c : ~Entering(p, c)
          /\ \A s, c : ~Leaving(p, s, c)
          /\ links[p] = {}
        BY <1>1, <2>1 DEF Entering, Leaving, WaitingKnow
    <2>4. QED
        BY <2>1, <2>2, <2>3, Places, QuietSolo
<1>3. CASE JoinAsSuper(p) \/ ListSupers(p) \/ \E q \in Peer : AnnounceSuper(p, q)
    <2>1. /\ pc[p] \in {"join", "addSuper", "announce"}
          /\ pc'[p] \in {"addSuper", "announce"}
          /\ UNCHANGED <<role, parent, children, links, orphans, open>>
        BY <1>1, <1>3 DEF JoinAsSuper, ListSupers, AnnounceSuper
    <2>2. SoloTask(p)' /\ Detached(p)' = Detached(p) /\ Waiting(p)' = Waiting(p)
        BY <2>1 DEF SoloTask, Detached, MovingSteps, BalanceSteps, Waiting
    <2>3. \A s, c : ~Entering(p, c) /\ ~Leaving(p, s, c)
        BY <2>1 DEF Entering, Leaving
    <2>4. QED
        BY <1>1, <2>1, <2>2, <2>3, QuietSolo DEF WaitingKnow
<1>4. CASE JoinAsChild(p)
    <2>1. /\ pc[p] = "join" /\ pc'[p] = "addChild"
          /\ UNCHANGED <<role, parent, children, links, orphans, open>>
          /\ Supers # {} /\ Supers' = Supers
        BY <1>1, <1>4 DEF JoinAsChild, ShouldAddSuperPeer, Supers
    <2>2. SoloTask(p)' /\ Detached(p)' = Detached(p) /\ Waiting(p)' = Waiting(p)
        BY <2>1 DEF SoloTask, Detached, MovingSteps, BalanceSteps, Waiting
    <2>3. \A s, c : ~Entering(p, c) /\ ~Leaving(p, s, c)
        BY <2>1 DEF Entering, Leaving
    <2>4. QED
        BY <1>1, <2>1, <2>2, <2>3, QuietSolo DEF WaitingKnow
<1>5. CASE FindParent(p)
    <2>1. /\ pc[p] = "findParent" /\ pc'[p] = "attach"
          /\ UNCHANGED <<role, parent, children, links, orphans, open>>
          /\ target'[p] \in Supers /\ Supers' = Supers
        BY <1>1, <1>5 DEF FindParent, Supers
    <2>2. SoloTask(p)' /\ Detached(p)' = Detached(p) /\ Waiting(p)' = Waiting(p)
        BY <2>1 DEF SoloTask, Detached, MovingSteps, BalanceSteps, Waiting
    <2>3. \A s, c : ~Entering(p, c) /\ ~Leaving(p, s, c)
        BY <2>1 DEF Entering, Leaving
    <2>4. QED
        BY <1>1, <2>1, <2>2, <2>3, QuietSolo DEF WaitingKnow
<1>6. CASE NoParentFound(p)
    BY <1>1, <1>6 DEF NoParentFound, SoloTask
<1>7. CASE AttachFails(p)
    <2>1. pc[p] = "attach" /\ role[p] = "child" /\ role[target[p]] = "super"
        BY <1>1, <1>7 DEF AttachFails, SoloTask, RoleFits, Supers
    <2>2. QED
        BY <1>7, <2>1 DEF AttachFails, Attaches
<1>8. CASE IntroduceFails(p)
    <2>1. /\ pc[p] = "introduce" /\ pc'[p] = "done"
          /\ UNCHANGED <<role, parent, children, links, orphans, open>>
          /\ target[p] \in Supers /\ p \in children[target[p]]
        BY <1>1, <1>8 DEF IntroduceFails, SoloTask
    <2>2. ~open[target[p]]
        BY <1>8, <2>1 DEF IntroduceFails, SendMayFail, Supers
    <2>3. SoloTask(p)' /\ Detached(p)' = Detached(p) /\ Waiting(p)' = {}
        BY <2>1 DEF SoloTask, Detached, MovingSteps, BalanceSteps, Waiting
    <2>4. /\ \A s, c : ~Leaving(p, s, c)
          /\ \A s \in Supers : \A c \in children[s] : open[s] => ~Entering(p, c)
        BY <2>1, <2>2, Places DEF Entering, Leaving
    <2>5. QED
        BY <2>1, <2>3, <2>4, QuietSolo
<1>9. CASE TellParent(p)
    <2>1. /\ pc[p] = "tellParent" /\ pc'[p] = "serve"
          /\ UNCHANGED <<role, parent, children, links, orphans, open>>
        BY <1>1, <1>9 DEF TellParent
    <2>2. SoloTask(p)' /\ Detached(p)' = Detached(p) /\ Waiting(p)' = {}
        BY <2>1 DEF SoloTask, Detached, MovingSteps, BalanceSteps, Waiting
    <2>3. \A s, c : ~Entering(p, c) /\ ~Leaving(p, s, c)
        BY <2>1 DEF Entering, Leaving
    <2>4. QED
        BY <2>1, <2>2, <2>3, QuietSolo
<1>10. QED
    BY <1>2, <1>3, <1>4, <1>5, <1>6, <1>7, <1>8, <1>9

LEMMA QuietBalanceSolo ==
    ASSUME Invariant, Invariant', NEW p \in Peer, Alone(p), Solo(p), OthersStay(p),
           TooFewSupers(p) \/ PlanMoves(p) \/ FinishBalance(p) \/ NothingToTake(p)
    PROVE  Solo(p)'
<1> USE DEF Goto, At, topology, views, locals
<1>1. TypeOK /\ SoloTask(p) /\ LocalsFit(pc[p], child[p], target[p], orphans[p])
    BY DEF Invariant, LocalsAtStep, Solo
<1> USE DEF TypeOK
<1>2. ASSUME pc[p] \in {"balance", "move"}, pc'[p] \in {"serve", "move"},
             UNCHANGED <<role, parent, children, links, orphans, open>>,
             pc'[p] = "move" => \A n \in 1..Len(plan'[p]) : plan'[p][n].id \in Supers
      PROVE  Solo(p)'
    <2>1. Supers' = Supers
        BY <1>2 DEF Supers
    <2>2. SoloTask(p)' /\ Detached(p)' = Detached(p) /\ Waiting(p)' = {}
        BY <1>2, <2>1 DEF SoloTask, Detached, MovingSteps, BalanceSteps, Waiting
    <2>3. \A s, c : ~Entering(p, c) /\ ~Leaving(p, s, c)
        BY <1>2 DEF Entering, Leaving
    <2>4. QED
        BY <1>2, <2>2, <2>3, QuietSolo
<1>3. CASE TooFewSupers(p)
    <2>1. /\ pc[p] = "balance" /\ pc'[p] = "serve"
          /\ UNCHANGED <<role, parent, children, links, orphans, open>>
        BY <1>1, <1>3 DEF TooFewSupers
    <2>2. QED
        BY <1>2, <2>1
<1>4. CASE FinishBalance(p)
    <2>1. /\ pc[p] = "move" /\ pc'[p] = "serve"
          /\ UNCHANGED <<role, parent, children, links, orphans, open>>
        BY <1>1, <1>4 DEF FinishBalance
    <2>2. QED
        BY <1>2, <2>1
<1>5. CASE PlanMoves(p)
    <2>1. PICK ord \in Orders(Supers, Load) : plan'[p] = PlanOf(ord, Load, TotalLoad)
        BY <1>1, <1>5 DEF PlanMoves
    <2>2. /\ pc[p] = "balance" /\ pc'[p] = "move"
          /\ UNCHANGED <<role, parent, children, links, orphans, open>>
        BY <1>1, <1>5 DEF PlanMoves
    <2>3. ord \in [1..Cardinality(Supers) -> Supers] /\ Cardinality(Supers) \in Nat
        BY <1>1, LoadIsNat DEF Orders
    <2>4. /\ Len(ord) = Cardinality(Supers)
          /\ Len(plan'[p]) = Len(ord)
          /\ \A n \in 1..Len(ord) : plan'[p][n].id = ord[n]
        BY <2>1, <2>3 DEF PlanOf
    <2>5. QED
        BY <1>2, <2>2, <2>3, <2>4
<1>6. CASE NothingToTake(p)
    <2>1. PICK i \in 1..Len(plan[p]) : \E j \in 1..Len(plan[p]) :
              plan'[p] = BookMove(plan[p], i, j)
        BY <1>1, <1>6 DEF NothingToTake
    <2>2. PICK j \in 1..Len(plan[p]) : plan'[p] = BookMove(plan[p], i, j)
        BY <2>1
    <2>3. /\ pc[p] = "move" /\ pc'[p] = "move"
          /\ UNCHANGED <<role, parent, children, links, orphans, open>>
        BY <1>1, <1>6 DEF NothingToTake
    <2>4. /\ Len(plan'[p]) = Len(plan[p])
          /\ \A n \in 1..Len(plan[p]) : plan'[p][n].id = plan[p][n].id
        BY <1>1, <2>2 DEF BookMove
    <2>5. QED
        BY <1>1, <1>2, <2>3, <2>4 DEF SoloTask, BalanceSteps
<1>7. QED
    BY <1>3, <1>4, <1>5, <1>6

LEMMA QuietLeaveSolo ==
    ASSUME Invariant, Invariant', NEW p \in Peer, Alone(p), Solo(p), OthersStay(p),
           Close(p) \/ RemoveChildFails(p) \/ NoRecruit(p) \/ Promote(p) \/ FinishLeave(p)
    PROVE  ~wedged' => Solo(p)'
<1> USE DEF Goto, At, topology, views, locals
<1>1. TypeOK /\ SoloTask(p) /\ WaitingKnow(p)
    BY DEF Invariant, Solo, SoloLinks
<1> USE DEF TypeOK
<1>2. SUFFICES ASSUME ~wedged' PROVE Solo(p)'
    OBVIOUS
<1>3. CASE Close(p) \/ RemoveChildFails(p)
    <2>1. /\ pc[p] \in {"serve", "leaveChild"}
          /\ pc'[p] \in {"leaveSuper", "leaveChild", "done"}
          /\ UNCHANGED <<role, parent, children, links, orphans, open>>
        BY <1>1, <1>3 DEF Close, RemoveChildFails
    <2>2. SoloTask(p)' /\ Detached(p)' = Detached(p) /\ Waiting(p)' = {}
        BY <2>1 DEF SoloTask, Detached, MovingSteps, BalanceSteps, Waiting
    <2>3. \A s, c : ~Entering(p, c) /\ ~Leaving(p, s, c)
        BY <2>1 DEF Entering, Leaving
    <2>4. QED
        BY <2>1, <2>2, <2>3, QuietSolo
<1>4. CASE NoRecruit(p) \/ FinishLeave(p)
    <2>1. /\ pc[p] \in {"handOver", "reattach"}
          /\ pc'[p] = "done"
          /\ UNCHANGED <<role, parent, children, links, orphans, open>>
        BY <1>1, <1>4 DEF NoRecruit, FinishLeave
    <2>2. SoloTask(p)' /\ Detached(p)' = Detached(p) /\ Waiting(p)' = {}
        BY <2>1 DEF SoloTask, Detached, MovingSteps, BalanceSteps, Waiting
    <2>3. \A s, c : ~Entering(p, c) /\ ~Leaving(p, s, c)
        BY <2>1 DEF Entering, Leaving
    <2>4. QED
        BY <2>1, <2>2, <2>3, QuietSolo
<1>5. CASE Promote(p)
    <2>1. /\ pc[p] = "promote" /\ pc'[p] = "reattach"
          /\ UNCHANGED <<role, parent, children, links, orphans, open, target>>
        BY <1>1, <1>2, <1>5 DEF Promote
    <2>2. /\ SoloTask(p)' /\ Detached(p)' = Detached(p)
          /\ Waiting(p) = orphans[p] /\ Waiting(p)' = orphans[p]
        BY <1>1, <2>1 DEF SoloTask, Detached, MovingSteps, BalanceSteps, Waiting, Supers
    <2>3. \A s, c : ~Entering(p, c) /\ ~Leaving(p, s, c)
        BY <2>1 DEF Entering, Leaving
    <2>4. QED
        BY <1>1, <2>1, <2>2, <2>3, QuietSolo DEF WaitingKnow
<1>6. QED
    BY <1>3, <1>4, <1>5

\* Events of a handler that moves a child, takes one in or hands children over.
LEMMA TellGiverSolo ==
    ASSUME Invariant, Invariant', NEW p \in Peer, Solo(p), OthersStay(p), TellGiver(p)
    PROVE  Solo(p)'
<1> USE DEF Goto, At, topology, views, locals
<1>1. /\ TypeOK /\ SoloTask(p) /\ pc[p] = "tellGiver" /\ pc'[p] = "tellMoved"
      /\ UNCHANGED <<role, parent, children, open, orphans, target, child, plan, giver>>
      /\ SendPeerLeft(giver[p], child[p])
    BY DEF TellGiver, Invariant, TypeOK, Solo
<1>2. PICK g, c : g = giver[p] /\ c = child[p]
    OBVIOUS
<1>3. /\ g \in Supers /\ g \in Peer /\ Supers' = Supers
      /\ \A s \in Peer : c \notin children[s]
    <2>1. c \in Hand(p) /\ c \in Peer
        BY <1>1, <1>2 DEF Hand, MovingSteps, Invariant, LocalsAtStep, LocalsFit
    <2>2. InOnePlace(c)
        BY <2>1 DEF Invariant, Custody
    <2>3. QED
        BY <1>1, <1>2, <2>1, <2>2 DEF SoloTask, Supers, InOnePlace
<1>4. PICK K : K = links[g] \ {c}
    OBVIOUS
<1>5. Told(g, K)
    BY <1>1, <1>2, <1>3, <1>4, PeerLeftTold
<1>6. SoloTask(p)' /\ Detached(p)' = Detached(p) /\ Waiting(p)' = {}
    BY <1>1, <1>3 DEF SoloTask, Detached, Waiting, MovingSteps, BalanceSteps
<1>7. \A s \in Supers : \A d : Leaving(p, s, d) => d \notin links'[s] \/ ~open[s]
    BY <1>1, <1>2, <1>3, <1>4, <1>5 DEF Leaving, Told, CanHear, Supers
<1>8. \A d : ~Entering(p, d)
    BY <1>1 DEF Entering
<1>9. /\ g \notin Children
      /\ \A s \in Supers : \A d \in children[s] : d \in links[s] => d # c
    BY <1>3, Places
<1>10. QED
    BY <1>1, <1>3, <1>4, <1>5, <1>6, <1>7, <1>8, <1>9, EventSolo

LEMMA TellMovedSolo ==
    ASSUME Invariant, Invariant', NEW p \in Peer, Solo(p), OthersStay(p), TellMoved(p)
    PROVE  Solo(p)'
<1> USE DEF Goto, At, topology, views, locals
<1>1. /\ TypeOK /\ SoloTask(p) /\ SoloTree(p) /\ ParentKnown
      /\ pc[p] = "tellMoved" /\ pc'[p] = "attachMoved"
      /\ UNCHANGED <<role, parent, children, open, orphans, target, child, plan>>
      /\ SendPeerLeft(child[p], giver[p])
    BY DEF TellMoved, Invariant, TypeOK, Solo, SoloLinks
<1>2. PICK g, c : g = giver[p] /\ c = child[p]
    OBVIOUS
<1>3. c \in Children /\ c \in Peer /\ Supers' = Supers /\ parent[c] = g
    BY <1>1, <1>2, Places DEF SoloTree, Detached, MovingSteps, SoloTask, Supers
<1>4. PICK K : K = links[c] \ {g}
    OBVIOUS
<1>5. Told(c, K)
    BY <1>1, <1>2, <1>3, <1>4, PeerLeftTold
<1>6. SoloTask(p)' /\ Detached(p)' = Detached(p) /\ Waiting(p)' = {c}
    BY <1>1, <1>2, <1>3 DEF SoloTask, Detached, Waiting, MovingSteps, BalanceSteps
<1>7. open[c] => K = {}
    BY <1>1, <1>3, <1>4 DEF ParentKnown
<1>8. open[c] => links'[c] = {}
    BY <1>3, <1>5, <1>7 DEF Told, CanHear, Children
<1>9. \A s, d : ~Leaving(p, s, d) /\ ~Entering(p, d)
    BY <1>1 DEF Entering, Leaving
<1>10. c \notin Supers
    BY <1>3, Places
<1>11. QED
    BY <1>1, <1>3, <1>5, <1>6, <1>7, <1>8, <1>9, <1>10, EventSolo

\* A super peer is told of a child that it has in its set already.
LEMMA IntroduceSolo ==
    ASSUME Invariant, Invariant', NEW p \in Peer, Solo(p), OthersStay(p),
           Introduce(p) \/ IntroduceMoved(p) \/ Reintroduce(p)
    PROVE  Solo(p)'
<1> USE DEF Goto, At, topology, views, locals
<1>1. PICK c : /\ SendNewPeer(target[p], c)
               /\ \/ Introduce(p) /\ c = p
                  \/ (IntroduceMoved(p) \/ Reintroduce(p)) /\ c = child[p]
    BY DEF Introduce, IntroduceMoved, Reintroduce
<1>2. PICK s : s = target[p]
    OBVIOUS
<1>3. /\ TypeOK /\ SoloTask(p) /\ WaitingKnow(p)
      /\ UNCHANGED <<role, parent, children, open, orphans, target, child, plan>>
      /\ \/ pc[p] = "introduce" /\ pc'[p] = "tellParent"
         \/ pc[p] = "introduceMoved" /\ pc'[p] = "move"
         \/ pc[p] = "reintroduce" /\ pc'[p] = "reattach"
    BY DEF Introduce, IntroduceMoved, Reintroduce, Invariant, TypeOK, Solo, SoloLinks
<1>4. /\ s \in Supers /\ s \in Peer /\ Supers' = Supers /\ c \in children[s]
    BY <1>1, <1>2, <1>3 DEF SoloTask, Supers, Introduce, IntroduceMoved, Reintroduce
<1>5. PICK K : K = links[s] \cup {c}
    OBVIOUS
<1>6. Told(s, K)
    BY <1>1, <1>2, <1>3, <1>4, <1>5, NewPeerTold
<1>7. SoloTask(p)' /\ Detached(p)' = Detached(p)
    BY <1>3, <1>4 DEF SoloTask, Detached, MovingSteps, BalanceSteps
<1>8. \A d : Entering(p, d) => d = c
    BY <1>1 DEF Entering, Introduce, IntroduceMoved, Reintroduce
<1>9. \A t \in Supers : c \in children[t] => t = s
    BY <1>4, Places
<1>10. open[s] => c \in links'[s]
    BY <1>4, <1>5, <1>6 DEF Told, CanHear, Supers
<1>11. \A t, d : ~Leaving(p, t, d)
    BY <1>3 DEF Leaving
<1>12. ASSUME NEW d \in Waiting(p)', open[d] PROVE links'[d] = {}
    <2>1. pc'[p] = "reattach" /\ d \in orphans[p] /\ pc[p] = "reintroduce"
        BY <1>3, <1>12 DEF Waiting
    <2>2. d \in Peer /\ d \in Hand(p)
        BY <1>3, <2>1 DEF TypeOK, Hand
    <2>3. d \in Children
        BY <1>3, <2>1 DEF Solo, SoloTree, Detached
    <2>4. d # s
        BY <1>4, <2>3, Places
    <2>5. links[d] = {}
        BY <1>3, <1>12, <2>1 DEF WaitingKnow, Waiting
    <2>6. QED
        BY <1>6, <2>2, <2>4, <2>5 DEF Told
<1>13. s \notin Children
    BY <1>4, Places
<1>14. QED
    BY <1>3, <1>4, <1>5, <1>6, <1>7, <1>8, <1>9, <1>10, <1>11, <1>12, <1>13, EventSolo

LEMMA TellLeftSolo ==
    ASSUME Invariant, Invariant', NEW p \in Peer, Solo(p), OthersStay(p), TellLeft(p)
    PROVE  Solo(p)'
<1> USE DEF Goto, At, topology, views, locals
<1>1. /\ TypeOK /\ SoloTask(p) /\ pc[p] = "tellLeft" /\ pc'[p] = "done"
      /\ UNCHANGED <<role, parent, children, open, orphans, child, plan, giver>>
      /\ SendPeerLeft(target[p], p)
    BY DEF TellLeft, Invariant, TypeOK, Solo
<1>2. PICK s : s = target[p]
    OBVIOUS
<1>3. /\ s \in Supers /\ s \in Peer /\ Supers' = Supers /\ s \notin Children
      /\ \A t \in Peer : p \notin children[t]
    <2>1. s \in Supers /\ s \in Peer /\ s \notin Children
        BY <1>1, <1>2, Places DEF SoloTask
    <2>2. role[p] = "absent" /\ SoloTree(p)
        BY <1>1 DEF Invariant, RoleAtStep, RoleFits, Solo
    <2>3. QED
        BY <1>1, <2>1, <2>2 DEF Supers, SoloTree
<1>4. PICK K : K = links[s] \ {p}
    OBVIOUS
<1>5. Told(s, K)
    BY <1>1, <1>2, <1>3, <1>4, PeerLeftTold
<1>6. SoloTask(p)' /\ Detached(p)' = Detached(p) /\ Waiting(p)' = {}
    BY <1>1 DEF SoloTask, Detached, Waiting, MovingSteps, BalanceSteps
<1>7. \A t \in Supers : \A d : Leaving(p, t, d) => d \notin links'[t] \/ ~open[t]
    BY <1>1, <1>2, <1>3, <1>4, <1>5 DEF Leaving, Told, CanHear, Supers
<1>8. \A d : ~Entering(p, d)
    BY <1>1 DEF Entering
<1>9. \A t \in Supers : \A d \in children[t] : d # p
    BY <1>3, Places
<1>10. QED
    BY <1>1, <1>3, <1>4, <1>5, <1>6, <1>7, <1>8, <1>9, EventSolo

\* The super peers and the former children are told that p has left.
LEMMA HandOverSolo ==
    ASSUME Invariant, Invariant', NEW p \in Peer, Solo(p), OthersStay(p), NEW q \in Peer,
           TellSuperLeft(p, q) \/ TellChildLeft(p, q)
    PROVE  Solo(p)'
<1> USE DEF Goto, At, topology, views, locals
<1>1. /\ TypeOK /\ SoloTask(p) /\ SoloTree(p) /\ pc[p] = "handOver" /\ pc' = pc
      /\ ParentKnown /\ WaitingKnow(p)
      /\ UNCHANGED <<role, parent, children, open, orphans, target, child, plan, giver>>
      /\ SendPeerLeft(q, p)
      /\ todo'[p] = todo[p] \ {q}
    BY DEF TellSuperLeft, TellChildLeft, Invariant, TypeOK, Solo, SoloLinks
<1>2. Supers' = Supers /\ \A t \in Peer : p \notin children[t]
    <2>1. role[p] = "absent"
        BY <1>1 DEF Invariant, RoleAtStep, RoleFits
    <2>2. QED
        BY <1>1, <2>1 DEF Supers, SoloTree
<1>3. PICK K : K = links[q] \ {p}
    OBVIOUS
<1>4. Told(q, K)
    BY <1>1, <1>3, PeerLeftTold
<1>5. SoloTask(p)' /\ Detached(p)' = Detached(p)
    BY <1>1, <1>2 DEF SoloTask, Detached, MovingSteps, BalanceSteps
<1>6. \A s, d : ~Entering(p, d) /\ ~Leaving(p, s, d)
    BY <1>1 DEF Entering, Leaving
<1>7. \A t \in Supers : \A d \in children[t] : d # p
    BY <1>2, Places
<1>8. q \in Children /\ open[q] => K \subseteq {parent[q]}
    BY <1>1, <1>3 DEF ParentKnown
<1>9. ASSUME NEW c \in Waiting(p)', open[c] PROVE links'[c] = {}
    <2>1. c \in orphans[p] /\ (c \in todo[p] => c = q) /\ c \in Peer /\ c \in Children
        <3>1. Waiting(p)' = orphans[p] \ (todo[p] \ {q})
            BY <1>1 DEF Waiting
        <3>2. c \in Children
            BY <1>1, <1>9, <3>1 DEF SoloTree, Detached
        <3>3. QED
            BY <1>9, <3>1, <3>2, Places
    <2>2. CASE c \in todo[p]
        <3>1. parent[c] = p /\ c = q
            BY <1>1, <2>1, <2>2 DEF SoloTask
        <3>2. K = {}
            BY <1>3, <1>8, <1>9, <2>1, <3>1
        <3>3. QED
            BY <1>4, <1>9, <2>1, <3>1, <3>2 DEF Told, CanHear, Children
    <2>3. CASE c \notin todo[p]
        <3>1. links[c] = {}
            BY <1>1, <1>9, <2>1, <2>3 DEF WaitingKnow, Waiting
        <3>2. QED
            BY <1>3, <1>4, <2>1, <3>1 DEF Told
    <2>4. QED
        BY <2>2, <2>3
<1>10. QED
    BY <1>1, <1>2, <1>3, <1>4, <1>5, <1>6, <1>7, <1>8, <1>9, EventSolo

\* A signal goes up or down one edge of the tree.
LEMMA RelaySolo ==
    ASSUME Invariant, Invariant', NEW p \in Peer, Solo(p), NEW q \in Peer, Relay(p, q)
    PROVE  OthersStay(p) /\ Solo(p)'
<1> USE DEF At, topology, views, locals
<1>1. /\ TypeOK /\ SoloTask(p) /\ SoloTree(p) /\ pc[p] = "serve"
      /\ UNCHANGED <<role, parent, children, open, pc, orphans, target, child, plan, giver, todo>>
      /\ SendNewPeer(q, p) /\ open[p] /\ q \in links[p]
      /\ orphans[p] = {}
    BY DEF Relay, Invariant, LocalsAtStep, LocalsFit, Solo
<1>2. OthersStay(p)
    BY <1>1 DEF OthersStay
<1>3. PICK K : K = links[q] \cup {p}
    OBVIOUS
<1>4. Told(q, K)
    BY <1>1, <1>3, NewPeerTold
<1>5. SoloTask(p)' /\ Detached(p)' = Detached(p) /\ Waiting(p)' = {} /\ Detached(p) = {}
    BY <1>1 DEF SoloTask, Detached, Waiting, MovingSteps, BalanceSteps
<1>6. \A s, d : ~Entering(p, d) /\ ~Leaving(p, s, d)
    BY <1>1 DEF Entering, Leaving
<1>7. \/ p \in Supers /\ q \in children[p]
      \/ p \in Children /\ q = parent[p] /\ q \in Supers /\ p \in children[q]
    <2>1. p \in Supers \/ p \in Children
        BY <1>1 DEF Invariant, RoleAtStep, RoleFits, TypeOK, Roles, Supers, Children
    <2>2. CASE p \in Supers
        BY <1>1, <1>6, <2>2 DEF Solo, SoloLinks, NoneElseKnown
    <2>3. CASE p \in Children
        BY <1>1, <1>5, <2>3 DEF Solo, SoloLinks, ParentKnown, SoloTree
    <2>4. QED
        BY <2>1, <2>2, <2>3
<1>8. /\ q \in Children => parent[q] = p
      /\ q \in Supers => p \in children[q]
    <2>1. CASE p \in Supers /\ q \in children[p]
        <3>1. q \notin Supers
            BY <2>1, Places
        <3>2. role[q] # "absent" => parent[q] = p
            BY <1>1, <2>1 DEF Invariant, ParentAgrees
        <3>3. QED
            BY <3>1, <3>2 DEF Children
    <2>2. CASE p \in Children /\ q = parent[p] /\ q \in Supers /\ p \in children[q]
        BY <2>2, Places
    <2>3. QED
        BY <1>7, <2>1, <2>2
<1>9. /\ q \in Children /\ open[q] => K \subseteq {parent[q]}
      /\ q \in Supers /\ open[q] => K \subseteq links[q] \cup children[q]
    BY <1>3, <1>8 DEF Solo, SoloLinks, ParentKnown
<1>10. Solo(p)'
    BY <1>1, <1>2, <1>3, <1>4, <1>5, <1>6, <1>9, EventSolo
<1>11. QED
    BY <1>2, <1>10

-----------------------------------------------------------------------------
(* Steps that change the map.                                                *)

LEMMA NewStayNew ==
    ASSUME NEW p \in Peer, Solo(p), OthersStay(p), pc'[p] # "new", links' = links
    PROVE  \A q \in Peer : pc'[q] = "new" => links'[q] = {}
BY DEF OthersStay, Solo, SoloLinks, WaitingKnow

LEMMA InsertSuperSolo ==
    ASSUME Invariant, Invariant', NEW p \in Peer, Solo(p), OthersStay(p), InsertSuper(p)
    PROVE  Solo(p)'
<1> USE DEF Goto, At, topology, views, locals, Solo, SoloLinks
<1>1. /\ TypeOK /\ pc[p] = "announce" /\ pc'[p] = "balance" /\ role[p] = "absent"
      /\ UNCHANGED <<parent, children, open, links, orphans>>
      /\ Supers' = Supers \cup {p} /\ Children' = Children /\ p \notin Children
    BY DEF InsertSuper, Invariant, TypeOK, RoleAtStep, RoleFits, Supers, Children
<1>2. /\ Detached(p)' = Detached(p) /\ Waiting(p)' = {} /\ Waiting(p) = {p}
      /\ \A s, c : ~Entering(p, c) /\ ~Leaving(p, s, c)
    BY <1>1 DEF Detached, Waiting, MovingSteps, Entering, Leaving
<1>3. children[p] = {} /\ (open[p] => links[p] = {})
    BY <1>1, <1>2, Places DEF WaitingKnow, Supers
<1>4. SoloTask(p)'
    BY <1>1 DEF SoloTask, MovingSteps, BalanceSteps
<1>5. SoloTree(p)'
    <2>1. ASSUME NEW s \in Peer, NEW c \in Peer, c \in children[s] PROVE c \in Children
        BY <2>1 DEF SoloTree, Children
    <2>2. \A s, c \in Peer : c \in children'[s] => role'[c] = "child"
        BY <1>1, <2>1 DEF Children
    <2>3. QED
        BY <1>1, <1>2, <2>2 DEF SoloTree
<1>6. ChildrenKnown(p)' /\ NoneElseKnown(p)'
    BY <1>1, <1>2, <1>3 DEF ChildrenKnown, NoneElseKnown
<1>7. ParentKnown' /\ WaitingKnow(p)'
    BY <1>1, <1>2, NewStayNew DEF ParentKnown, WaitingKnow
<1>8. QED
    BY <1>4, <1>5, <1>6, <1>7

LEMMA AddChildSolo ==
    ASSUME Invariant, Invariant', NEW p \in Peer, Solo(p), OthersStay(p), AddChild(p)
    PROVE  Solo(p)'
<1> USE DEF Goto, At, topology, views, locals, Solo, SoloLinks
<1>1. /\ TypeOK /\ pc[p] = "addChild" /\ pc'[p] = "findParent" /\ role[p] = "absent"
      /\ UNCHANGED <<parent, children, open, links, orphans>>
      /\ Supers' = Supers /\ Children' = Children \cup {p} /\ orphans[p] = {}
    BY DEF AddChild, Invariant, TypeOK, RoleAtStep, RoleFits, LocalsAtStep, LocalsFit,
       Supers, Children
<1>2. /\ Detached(p)' = {p} /\ Detached(p) = {} /\ Waiting(p)' = {p} /\ Waiting(p) = {p}
      /\ \A s, c : ~Entering(p, c) /\ ~Leaving(p, s, c)
    BY <1>1 DEF Detached, Waiting, MovingSteps, Entering, Leaving
<1>3. SoloTask(p)'
    BY <1>1 DEF SoloTask, MovingSteps, BalanceSteps
<1>4. SoloTree(p)'
    <2>1. ASSUME NEW s \in Peer, NEW c \in Peer, c \in children[s] PROVE c \in Children
        BY <2>1 DEF SoloTree, Children
    <2>2. \A s, c \in Peer : c \in children'[s] => role'[c] = "child"
        BY <1>1, <2>1 DEF Children
    <2>3. QED
        BY <1>1, <1>2, <2>2 DEF SoloTree
<1>5. ChildrenKnown(p)' /\ NoneElseKnown(p)'
    BY <1>1, <1>2 DEF ChildrenKnown, NoneElseKnown
<1>6. ParentKnown' /\ WaitingKnow(p)'
    BY <1>1, <1>2, NewStayNew DEF ParentKnown, WaitingKnow
<1>7. QED
    BY <1>3, <1>4, <1>5, <1>6

\* connect_child under the lock: the child gets its parent, which has still to be
\* introduced to it.
LEMMA HungSolo ==
    ASSUME Invariant, Invariant', NEW p \in Peer, Solo(p), OthersStay(p),
           NEW c \in Peer, NEW s \in Peer,
           c \in Detached(p), s \in Supers, AttachUnderLock(c, s),
           UNCHANGED <<open, links>>, pc'[p] # "new",
           SoloTask(p)',
           Detached(p)' = Detached(p) \ {c},
           c \in Waiting(p), Waiting(p)' \subseteq Waiting(p),
           \A d : ~Entering(p, d), \A t, d : ~Leaving(p, t, d), Entering(p, c)'
    PROVE  Solo(p)'
<1> USE DEF Solo, SoloLinks
<1>1. /\ TypeOK /\ c \in Children /\ s \notin Children
      /\ Supers' = Supers /\ Children' = Children /\ role' = role
    BY Places DEF Invariant, SoloTree, AttachUnderLock, Supers, Children
<1>2. /\ \A t \in Peer : children'[t] = IF t = s THEN children[s] \cup {c} ELSE children[t]
      /\ \A d \in Peer : parent'[d] = IF d = c THEN s ELSE parent[d]
    BY <1>1 DEF AttachUnderLock, Supers, Children, TypeOK
<1>3. SoloTree(p)'
    <2>1. ASSUME NEW d \in Children, d \notin Detached(p)'
          PROVE  parent'[d] \in Supers /\ d \in children'[parent'[d]]
        <3>1. CASE d = c
            BY <1>1, <1>2, <3>1
        <3>2. CASE d # c
            <4>1. parent[d] \in Supers /\ d \in children[parent[d]] /\ d \in Peer
                BY <2>1, <3>2, Places DEF SoloTree
            <4>2. QED
                BY <1>2, <3>2, <4>1, Places
        <3>3. QED
            BY <3>1, <3>2
    <2>2. \A t, d \in Peer : d \in children'[t] => role'[d] = "child"
        BY <1>1, <1>2 DEF SoloTree, Children
    <2>3. QED
        BY <1>1, <2>1, <2>2 DEF SoloTree
<1>4. ChildrenKnown(p)'
    <2>1. \A t \in Supers : open[t] => \A d \in children'[t] : d \in links[t] \/ d = c
        BY <1>2, Places DEF ChildrenKnown
    <2>2. QED
        BY <1>1, <2>1 DEF ChildrenKnown
<1>5. NoneElseKnown(p)'
    <2>1. \A t \in Supers : open[t] => \A d \in links[t] : d \in children'[t]
        BY <1>2, Places DEF NoneElseKnown
    <2>2. QED
        BY <1>1, <2>1 DEF NoneElseKnown
<1>6. ParentKnown'
    <2>1. open[c] => links[c] = {}
        BY DEF WaitingKnow
    <2>2. \A d \in Children : open[d] => links[d] \subseteq {parent'[d]}
        BY <1>2, <2>1, Places DEF ParentKnown
    <2>3. QED
        BY <1>1, <2>2 DEF ParentKnown
<1>7. WaitingKnow(p)'
    BY NewStayNew DEF WaitingKnow
<1>8. QED
    BY <1>3, <1>4, <1>5, <1>6, <1>7

LEMMA AttachSolo ==
    ASSUME Invariant, Invariant', NEW p \in Peer, Solo(p), OthersStay(p), Attach(p)
    PROVE  Solo(p)'
<1> USE DEF Goto, At, topology, views, locals
<1>1. /\ TypeOK /\ pc[p] = "attach" /\ pc'[p] = "introduce" /\ SoloTask(p)
      /\ UNCHANGED <<open, links, orphans, target, child, plan, giver>> /\ orphans[p] = {}
      /\ AttachUnderLock(p, target[p])
    BY DEF Attach, Invariant, TypeOK, LocalsAtStep, LocalsFit, Solo, AttachUnderLock
<1>2. PICK s : s = target[p]
    OBVIOUS
<1>3. s \in Supers /\ s \in Peer /\ Supers' = Supers
    BY <1>1, <1>2, Places DEF SoloTask, AttachUnderLock, Supers
<1>4. p \in children'[s]
    BY <1>1, <1>2, <1>3 DEF AttachUnderLock, Supers, TypeOK
<1>5. SoloTask(p)'
    BY <1>1, <1>2, <1>3, <1>4 DEF SoloTask, MovingSteps, BalanceSteps
<1>6. /\ Detached(p) = {p} /\ Detached(p)' = {} /\ Waiting(p) = {p} /\ Waiting(p)' = {}
      /\ Entering(p, p)' /\ \A d : ~Entering(p, d)
      /\ \A t, d : ~Leaving(p, t, d)
    BY <1>1 DEF Detached, Waiting, Entering, Leaving, MovingSteps
<1>7. QED
    BY <1>1, <1>2, <1>3, <1>5, <1>6, HungSolo

LEMMA AttachMovedSolo ==
    ASSUME Invariant, Invariant', NEW p \in Peer, Solo(p), OthersStay(p), AttachMoved(p)
    PROVE  Solo(p)'
<1> USE DEF Goto, At, topology, views, locals
<1>1. PICK s, c : s = target[p] /\ c = child[p]
    OBVIOUS
<1>2. /\ TypeOK /\ pc[p] = "attachMoved" /\ SoloTask(p) /\ SoloTree(p)
      /\ UNCHANGED <<open, links, orphans, target, child, plan, giver>> /\ orphans[p] = {}
      /\ AttachUnderLock(c, s)
    BY <1>1 DEF AttachMoved, Invariant, TypeOK, LocalsAtStep, LocalsFit, Solo
<1>3. s \in Supers /\ s \in Peer /\ Supers' = Supers /\ c \in Children /\ c \in Peer
    BY <1>1, <1>2, Places DEF SoloTask, SoloTree, Detached, MovingSteps, AttachUnderLock, Supers
<1>4. pc'[p] = "introduceMoved"
    BY <1>1, <1>2, <1>3 DEF AttachMoved, Attaches, TypeOK, Supers, Children
<1>5. c \in children'[s]
    BY <1>2, <1>3 DEF AttachUnderLock, Supers, TypeOK
<1>6. SoloTask(p)'
    BY <1>1, <1>2, <1>3, <1>4, <1>5 DEF SoloTask, MovingSteps, BalanceSteps
<1>7. /\ Detached(p) = {c} /\ Detached(p)' = {} /\ Waiting(p) = {c} /\ Waiting(p)' = {}
      /\ Entering(p, c)' /\ \A d : ~Entering(p, d)
      /\ \A t, d : ~Leaving(p, t, d)
    BY <1>1, <1>2, <1>4 DEF Detached, Waiting, Entering, Leaving, MovingSteps
<1>8. QED
    BY <1>2, <1>3, <1>4, <1>6, <1>7, HungSolo

LEMMA ReattachSolo ==
    ASSUME Invariant, Invariant', NEW p \in Peer, Solo(p), OthersStay(p),
           NEW c \in Peer, Reattach(p, c)
    PROVE  Solo(p)'
<1> USE DEF Goto, At, topology, views, locals
<1>1. PICK s : s = target[p]
    OBVIOUS
<1>2. /\ TypeOK /\ pc[p] = "reattach" /\ SoloTask(p) /\ SoloTree(p)
      /\ UNCHANGED <<open, links, target, plan>> /\ c \in orphans[p]
      /\ AttachUnderLock(c, s) /\ child'[p] = c /\ orphans'[p] = orphans[p] \ {c}
    BY <1>1 DEF Reattach, Invariant, TypeOK, Solo
<1>3. s \in Supers /\ s \in Peer /\ Supers' = Supers /\ c \in Children
    BY <1>1, <1>2, Places DEF SoloTask, SoloTree, Detached, AttachUnderLock, Supers
<1>4. pc'[p] = "reintroduce"
    BY <1>1, <1>2, <1>3 DEF Reattach, Attaches, TypeOK, Supers, Children
<1>5. c \in children'[s]
    BY <1>2, <1>3 DEF AttachUnderLock, Supers, TypeOK
<1>6. SoloTask(p)'
    BY <1>1, <1>2, <1>3, <1>4, <1>5 DEF SoloTask, MovingSteps, BalanceSteps
<1>7. /\ Detached(p) = orphans[p] /\ Detached(p)' = orphans[p] \ {c}
      /\ Waiting(p) = orphans[p] /\ Waiting(p)' = orphans[p] \ {c}
      /\ Entering(p, c)' /\ \A d : ~Entering(p, d)
      /\ \A t, d : ~Leaving(p, t, d)
    BY <1>1, <1>2, <1>4 DEF Detached, Waiting, Entering, Leaving, MovingSteps
<1>8. QED
    BY <1>2, <1>3, <1>4, <1>6, <1>7, HungSolo

\* The giver's child is out of its set; giver and child know each other still.
LEMMA TakeChildSolo ==
    ASSUME Invariant, Invariant', NEW p \in Peer, Solo(p), OthersStay(p), TakeChild(p)
    PROVE  Solo(p)'
<1> USE DEF Goto, At, topology, views, locals, Solo, SoloLinks
<1>1. PICK i \in 1..Len(plan[p]), j \in 1..Len(plan[p]), c \in Peer : TakeChildFor(p, i, j, c)
    BY DEF TakeChild
<1>2. PICK g, t : g = plan[p][i].id /\ t = plan[p][j].id
    OBVIOUS
<1>3. /\ TypeOK /\ pc[p] = "move" /\ pc'[p] = "tellGiver" /\ orphans[p] = {}
      /\ UNCHANGED <<role, parent, open, links, orphans>>
      /\ c \in children[g] /\ child'[p] = c /\ giver'[p] = g /\ target'[p] = t
      /\ children' = [children EXCEPT ![g] = @ \ {c}]
      /\ plan'[p] = BookMove(plan[p], i, j)
    <2>1. TypeOK /\ LocalsFit(pc[p], child[p], target[p], orphans[p])
        BY DEF Invariant, LocalsAtStep
    <2>2. pc[p] = "move" /\ orphans[p] = {} /\ c \in children[g]
        BY <1>1, <1>2, <2>1 DEF TakeChildFor, LocalsFit, IsLowest
    <2>3. /\ UNCHANGED <<role, parent, open, links, orphans>>
          /\ children' = [children EXCEPT ![g] = @ \ {c}]
        BY <1>1, <1>2 DEF TakeChildFor
    <2>4. pc'[p] = "tellGiver" /\ child'[p] = c /\ giver'[p] = g /\ target'[p] = t
        BY <1>1, <1>2, <2>1 DEF TakeChildFor, TypeOK
    <2>5. plan'[p] = BookMove(plan[p], i, j)
        BY <1>1, <2>1 DEF TakeChildFor, TypeOK
    <2>6. QED
        BY <2>1, <2>2, <2>3, <2>4, <2>5
<1>4. /\ g \in Supers /\ t \in Supers /\ g \in Peer
      /\ Supers' = Supers /\ Children' = Children
    BY <1>2, <1>3, Places DEF SoloTask, BalanceSteps, Supers, Children
<1>5. /\ Detached(p) = {} /\ Detached(p)' = {c} /\ Waiting(p)' = {}
      /\ \A d : ~Entering(p, d)
      /\ \A s, d : ~Leaving(p, s, d)
      /\ Leaving(p, g, c)'
    BY <1>3 DEF Detached, Waiting, Entering, Leaving, MovingSteps
<1>6. \A s \in Peer : children'[s] = IF s = g THEN children[g] \ {c} ELSE children[s]
    BY <1>3, <1>4 DEF TypeOK
<1>7. c \in Children /\ parent[c] = g
    <2>1. role[c] = "child" /\ parent[c] = g
        BY <1>3, <1>4 DEF SoloTree, Invariant, ParentAgrees
    <2>2. QED
        BY <2>1 DEF Children
<1>8. SoloTask(p)'
    <2>1. /\ Len(plan'[p]) = Len(plan[p])
          /\ \A n \in 1..Len(plan[p]) : plan'[p][n].id = plan[p][n].id
        BY <1>3 DEF BookMove, TypeOK
    <2>2. \A n \in 1..Len(plan'[p]) : plan'[p][n].id \in Supers
        BY <1>3, <2>1 DEF SoloTask, BalanceSteps
    <2>3. QED
        BY <1>3, <1>4, <1>7, <2>2 DEF SoloTask, MovingSteps, BalanceSteps
<1>9. SoloTree(p)'
    <2>1. \A d \in Children \ {c} :
              parent[d] \in Supers /\ d \in Peer /\ d \in children'[parent[d]]
        BY <1>4, <1>5, <1>6, Places DEF SoloTree
    <2>2. \A s, d \in Peer : d \in children'[s] => role'[d] = "child"
        BY <1>3, <1>6 DEF SoloTree
    <2>3. QED
        BY <1>3, <1>4, <1>5, <1>7, <2>1, <2>2 DEF SoloTree
<1>10. ChildrenKnown(p)'
    <2>1. \A s \in Supers : open[s] => \A d \in children'[s] : d \in links[s]
        BY <1>5, <1>6, Places DEF ChildrenKnown
    <2>2. QED
        BY <1>3, <1>4, <2>1 DEF ChildrenKnown
<1>11. NoneElseKnown(p)'
    <2>1. \A s \in Supers : open[s] => \A d \in links[s] :
              d \in children'[s] \/ (s = g /\ d = c)
        BY <1>5, <1>6, Places DEF NoneElseKnown
    <2>2. QED
        BY <1>3, <1>4, <1>5, <2>1 DEF NoneElseKnown
<1>12. ParentKnown' /\ WaitingKnow(p)'
    BY <1>3, <1>4, <1>5, NewStayNew DEF ParentKnown, WaitingKnow
<1>13. QED
    BY <1>8, <1>9, <1>10, <1>11, <1>12

LEMMA RemoveChildSolo ==
    ASSUME Invariant, Invariant', NEW p \in Peer, Solo(p), OthersStay(p), RemoveChild(p)
    PROVE  Solo(p)'
<1> USE DEF Goto, At, topology, views, locals, Solo, SoloLinks
<1>1. PICK s : s = parent[p]
    OBVIOUS
<1>2. /\ TypeOK /\ pc[p] = "leaveChild" /\ orphans[p] = {} /\ role[p] = "child"
      /\ role' = [role EXCEPT ![p] = "absent"]
      /\ UNCHANGED <<open, links, orphans>>
      /\ parent' = [parent EXCEPT ![p] = NoPeer]
      /\ children' = IF s # NoPeer THEN [children EXCEPT ![s] = @ \ {p}] ELSE children
      /\ target'[p] = s
      /\ pc'[p] = IF s # NoPeer THEN "tellLeft" ELSE "done"
    BY <1>1 DEF RemoveChild, Invariant, TypeOK, LocalsAtStep, LocalsFit
<1>3. Detached(p) = {}
    BY <1>2 DEF Detached, MovingSteps
<1>4. /\ p \in Children /\ p \notin Supers
      /\ Supers' = Supers /\ Children' = Children \ {p}
    BY <1>2 DEF Supers, Children, TypeOK
<1>5. s \in Supers /\ s \in Peer /\ p \in children[s] /\ s # NoPeer
    BY <1>1, <1>3, <1>4, Places, NoPeerAssumption DEF SoloTree
<1>6. /\ pc'[p] = "tellLeft"
      /\ \A t \in Peer : children'[t] = IF t = s THEN children[s] \ {p} ELSE children[t]
      /\ \A d \in Peer : d # p => parent'[d] = parent[d]
    BY <1>2, <1>5 DEF TypeOK
<1>7. /\ Detached(p)' = {} /\ Waiting(p)' = {}
      /\ \A d : ~Entering(p, d)
      /\ \A t, d : ~Leaving(p, t, d)
      /\ Leaving(p, s, p)'
    BY <1>2, <1>6 DEF Detached, Waiting, Entering, Leaving, MovingSteps
<1>8. SoloTask(p)'
    BY <1>2, <1>4, <1>5, <1>6 DEF SoloTask, MovingSteps, BalanceSteps
<1>9. SoloTree(p)'
    <2>1. \A d \in Children \ {p} :
              parent'[d] \in Supers /\ d \in Peer /\ d \in children'[parent'[d]]
        BY <1>3, <1>6, Places DEF SoloTree
    <2>2. \A t, d \in Peer : d \in children'[t] => d # p /\ d \in children[t]
        BY <1>5, <1>6, Places
    <2>3. \A t, d \in Peer : d \in children'[t] => role'[d] = "child"
        BY <1>2, <2>2 DEF SoloTree, TypeOK
    <2>4. QED
        BY <1>4, <1>7, <2>1, <2>3 DEF SoloTree
<1>10. ChildrenKnown(p)'
    <2>1. \A t \in Supers : open[t] => \A d \in children'[t] : d \in links[t]
        BY <1>6, <1>7, Places DEF ChildrenKnown
    <2>2. QED
        BY <1>2, <1>4, <2>1 DEF ChildrenKnown
<1>11. NoneElseKnown(p)'
    <2>1. \A t \in Supers : open[t] => \A d \in links[t] :
              d \in children'[t] \/ (t = s /\ d = p)
        BY <1>6, <1>7, Places DEF NoneElseKnown
    <2>2. QED
        BY <1>2, <1>4, <1>7, <2>1 DEF NoneElseKnown
<1>12. ParentKnown'
    BY <1>2, <1>4, <1>6, Places DEF ParentKnown
<1>13. WaitingKnow(p)'
    BY <1>2, <1>6, <1>7, NewStayNew DEF WaitingKnow
<1>14. QED
    BY <1>8, <1>9, <1>10, <1>11, <1>12, <1>13

\* The leaver's children are in its own hands, and know nobody but it.
LEMMA RemoveSuperSolo ==
    ASSUME Invariant, Invariant', NEW p \in Peer, Solo(p), OthersStay(p), RemoveSuper(p)
    PROVE  Solo(p)'
<1> USE DEF Goto, At, topology, views, locals, Solo, SoloLinks
<1>1. /\ TypeOK /\ pc[p] = "leaveSuper" /\ pc'[p] = "handOver" /\ role[p] = "super"
      /\ orphans[p] = {}
      /\ role' = [role EXCEPT ![p] = "absent"]
      /\ UNCHANGED <<parent, open, links>>
      /\ orphans'[p] = children[p]
      /\ todo'[p] = (Supers \ {p}) \cup children[p]
      /\ \A t \in Peer : children'[t] = IF t = p THEN {} ELSE children[t]
    <2>1. TypeOK /\ LocalsFit(pc[p], child[p], target[p], orphans[p])
        BY DEF Invariant, LocalsAtStep
    <2>2. /\ pc[p] = "leaveSuper" /\ role[p] = "super" /\ orphans[p] = {}
          /\ role' = [role EXCEPT ![p] = "absent"] /\ UNCHANGED <<parent, open, links>>
        BY <2>1 DEF RemoveSuper, LocalsFit
    <2>3. /\ pc'[p] = "handOver" /\ orphans'[p] = children[p]
          /\ todo'[p] = (Supers \ {p}) \cup children[p]
        BY <2>1 DEF RemoveSuper, TypeOK
    <2>4. \A t \in Peer : children'[t] = IF t = p THEN {} ELSE children[t]
        BY <2>1 DEF RemoveSuper, TypeOK
    <2>5. QED
        BY <2>1, <2>2, <2>3, <2>4
<1>2. /\ p \in Supers /\ p \notin Children
      /\ Supers' = Supers \ {p} /\ Children' = Children
    BY <1>1 DEF Supers, Children, TypeOK
<1>3. /\ Detached(p) = {} /\ Detached(p)' = children[p] /\ Waiting(p)' = {}
      /\ \A d : ~Entering(p, d)
      /\ \A t, d : ~Leaving(p, t, d)
    BY <1>1 DEF Detached, Waiting, Entering, Leaving, MovingSteps
<1>4. children[p] \subseteq Children /\ \A c \in children[p] : parent[c] = p
    BY <1>1, <1>2, Places DEF SoloTree, Children, Invariant, ParentAgrees
<1>5. SoloTask(p)'
    BY <1>1, <1>4 DEF SoloTask, MovingSteps, BalanceSteps
<1>6. SoloTree(p)'
    <2>1. \A d \in Children \ children[p] :
              /\ parent[d] \in Supers \ {p} /\ d \in Peer
              /\ d \in children'[parent[d]]
        BY <1>1, <1>3, Places DEF SoloTree
    <2>2. \A t, d \in Peer : d \in children'[t] => d # p /\ d \in children[t]
        BY <1>1, <1>2, Places
    <2>3. \A t, d \in Peer : d \in children'[t] => role'[d] = "child"
        BY <1>1, <2>2 DEF SoloTree, TypeOK
    <2>4. QED
        BY <1>1, <1>2, <1>3, <1>4, <2>1, <2>3 DEF SoloTree
<1>7. ChildrenKnown(p)' /\ NoneElseKnown(p)'
    <2>1. \A t \in Supers \ {p} : open[t] => \A d : d \in children'[t] <=> d \in links[t]
        BY <1>1, <1>3, Places DEF ChildrenKnown, NoneElseKnown
    <2>2. QED
        BY <1>1, <1>2, <2>1 DEF ChildrenKnown, NoneElseKnown
<1>8. ParentKnown' /\ WaitingKnow(p)'
    BY <1>1, <1>2, <1>3, NewStayNew DEF ParentKnown, WaitingKnow
<1>9. QED
    BY <1>5, <1>6, <1>7, <1>8

\* The recruit has been told that its parent has left, so it knows nobody.
LEMMA RecruitSolo ==
    ASSUME Invariant, Invariant', NEW p \in Peer, Solo(p), OthersStay(p), Recruit(p)
    PROVE  Solo(p)'
<1> USE DEF Goto, At, topology, views, locals, Solo, SoloLinks
<1>1. PICK r \in orphans[p] :
          /\ target'[p] = r
          /\ orphans'[p] = orphans[p] \ {r}
          /\ IF role[r] # "absent"
             THEN /\ role' = [role EXCEPT ![r] = "super"]
                  /\ parent' = [parent EXCEPT ![r] = NoPeer]
                  /\ children' = [children EXCEPT ![r] = {}]
             ELSE UNCHANGED topology
    BY DEF Recruit, OthersToReattach, Invariant, TypeOK
<1>2. /\ TypeOK /\ pc[p] = "handOver" /\ pc'[p] = "promote" /\ todo[p] = {}
      /\ UNCHANGED <<open, links, todo>>
    BY DEF Recruit, Invariant, TypeOK
<1>3. /\ Detached(p) = orphans[p] /\ Waiting(p) = orphans[p]
      /\ Detached(p)' = orphans[p] \ {r} /\ Waiting(p)' = orphans[p] \ {r}
      /\ \A d : ~Entering(p, d)
      /\ \A t, d : ~Leaving(p, t, d)
    BY <1>1, <1>2 DEF Detached, Waiting, Entering, Leaving, MovingSteps
<1>4. /\ r \in Children /\ r \in Peer /\ r \notin Supers /\ role[r] = "child"
      /\ \A t \in Peer : r \notin children[t]
    <2>1. r \in Children /\ r \in Peer /\ r \in Hand(p)
        BY <1>1, <1>3, Places DEF SoloTree, Hand
    <2>2. InOnePlace(r)
        BY <2>1 DEF Invariant, Custody
    <2>3. QED
        BY <2>1, <2>2, Places DEF InOnePlace, Children
<1>5. /\ Supers' = Supers \cup {r} /\ Children' = Children \ {r}
      /\ \A t \in Peer : children'[t] = children[t]
      /\ children[r] = {}
      /\ \A d \in Peer : d # r => parent'[d] = parent[d] /\ role'[d] = role[d]
    <2>1. children[r] = {}
        BY <1>4, Places
    <2>2. /\ role' = [role EXCEPT ![r] = "super"]
          /\ parent' = [parent EXCEPT ![r] = NoPeer]
          /\ children' = [children EXCEPT ![r] = {}]
        BY <1>1, <1>4
    <2>3. \A t \in Peer : children'[t] = children[t]
        BY <1>2, <2>1, <2>2 DEF TypeOK
    <2>4. Supers' = Supers \cup {r} /\ Children' = Children \ {r}
        BY <1>2, <1>4, <2>2 DEF Supers, Children, TypeOK
    <2>5. \A d \in Peer : d # r => parent'[d] = parent[d] /\ role'[d] = role[d]
        BY <1>2, <2>2 DEF TypeOK
    <2>6. QED
        BY <2>1, <2>3, <2>4, <2>5
<1>6. open[r] => links[r] = {}
    BY <1>3 DEF WaitingKnow
<1>7. SoloTask(p)'
    BY <1>1, <1>2, <1>5 DEF SoloTask, MovingSteps, BalanceSteps
<1>8. SoloTree(p)'
    <2>1. \A d \in Children \ orphans[p] :
              /\ parent'[d] \in Supers' /\ d \in Peer /\ d # r
              /\ d \in children'[parent'[d]]
        BY <1>1, <1>3, <1>5, Places DEF SoloTree
    <2>2. \A t, d \in Peer : d \in children'[t] => role'[d] = "child"
        BY <1>4, <1>5 DEF SoloTree
    <2>3. QED
        BY <1>3, <1>5, <2>1, <2>2 DEF SoloTree
<1>9. ChildrenKnown(p)' /\ NoneElseKnown(p)'
    <2>1. \A t \in Supers : open[t] => \A d : d \in children'[t] <=> d \in links[t]
        BY <1>3, <1>5, Places DEF ChildrenKnown, NoneElseKnown
    <2>2. open[r] => \A d : d \in children'[r] <=> d \in links[r]
        BY <1>4, <1>5, <1>6
    <2>3. QED
        BY <1>2, <1>5, <2>1, <2>2 DEF ChildrenKnown, NoneElseKnown
<1>10. ParentKnown'
    BY <1>2, <1>5, Places DEF ParentKnown
<1>11. WaitingKnow(p)'
    BY <1>2, <1>3, NewStayNew DEF WaitingKnow
<1>12. QED
    BY <1>7, <1>8, <1>9, <1>10, <1>11

-----------------------------------------------------------------------------

LEMMA StepFrame ==
    ASSUME TypeOK, NEW p \in Peer, TaskStep(p)
    PROVE  OthersStay(p) /\ (~wedged' => ~wedged)
<1> USE DEF TypeOK, OthersStay, Goto, topology, views, locals, At
<1>1. CASE JoinStep(p)
    BY <1>1 DEF JoinStep, JoinAsSuper, ListSupers, InsertSuper, AnnounceSuper, JoinAsChild,
       AddChild, FindParent, NoParentFound, Attach, AttachFails, Introduce, IntroduceFails,
       TellParent
<1>2. CASE BalanceStep(p)
    BY <1>2 DEF BalanceStep, TooFewSupers, PlanMoves, FinishBalance, TakeChild, TakeChildFor,
       NothingToTake, TellGiver, TellMoved, AttachMoved, IntroduceMoved
<1>3. CASE LeaveStep(p)
    BY <1>3 DEF LeaveStep, Close, RemoveChild, RemoveChildFails, TellLeft, RemoveSuper,
       NoRecruit, Recruit, Promote, TellSuperLeft, TellChildLeft, Reattach, Reintroduce,
       FinishLeave
<1>4. QED
    BY <1>1, <1>2, <1>3 DEF TaskStep

\* Whoever takes a step runs, or nobody does.
LEMMA StepBusy ==
    ASSUME Serial, NEW p \in Peer, TaskStep(p)
    PROVE  Busy(p)
<1>1. CASE Close(p)
    BY <1>1 DEF Close, MayStart, Busy
<1>2. CASE ~Close(p)
    BY <1>2 DEF TaskStep, Busy, Resting, At, JoinStep, JoinAsSuper, ListSupers,
       InsertSuper, AnnounceSuper, JoinAsChild, AddChild, FindParent, NoParentFound,
       Attach, AttachFails, Introduce, IntroduceFails, TellParent, BalanceStep,
       TooFewSupers, PlanMoves, FinishBalance, TakeChild, TakeChildFor,
       NothingToTake, TellGiver, TellMoved, AttachMoved, IntroduceMoved, LeaveStep,
       RemoveChild, RemoveChildFails, TellLeft, RemoveSuper, NoRecruit, Recruit,
       Promote, TellSuperLeft, TellChildLeft, Reattach, Reintroduce, FinishLeave
<1>3. QED
    BY <1>1, <1>2

LEMMA TaskSolo ==
    ASSUME Invariant, Invariant', NEW p \in Peer, Alone(p), Solo(p), TaskStep(p), ~wedged'
    PROVE  Solo(p)'
<1>1. OthersStay(p)
    BY StepFrame DEF Invariant
<1>2. CASE JoinStep(p)
    BY <1>1, <1>2, QuietJoinSolo, InsertSuperSolo, AddChildSolo, AttachSolo, IntroduceSolo
    DEF JoinStep
<1>3. CASE BalanceStep(p)
    BY <1>1, <1>3, QuietBalanceSolo, TakeChildSolo, TellGiverSolo, TellMovedSolo,
       AttachMovedSolo, IntroduceSolo
    DEF BalanceStep
<1>4. CASE LeaveStep(p)
    BY <1>1, <1>4, QuietLeaveSolo, RemoveChildSolo, TellLeftSolo, RemoveSuperSolo,
       RecruitSolo, HandOverSolo, ReattachSolo, IntroduceSolo
    DEF LeaveStep
<1>5. QED
    BY <1>2, <1>3, <1>4 DEF TaskStep

\* Whoever goes away, the handler that runs has the same left to do.
LEMMA DisconnectSerial ==
    ASSUME Invariant, Invariant', SerialServer, NEW q \in Peer, Disconnect(q)
    PROVE  SerialServer'
<1>1. /\ UNCHANGED <<role, parent, children, links, pc, todo, orphans, target, child,
                     plan, giver>>
      /\ \A r \in Peer : open'[r] => open[r]
    BY DEF Disconnect, topology, views, locals, Invariant, TypeOK
<1>2. ASSUME NEW p \in Peer, Busy(p)' PROVE Alone(p)' /\ Solo(p)'
    <2>1. Busy(p)
        BY <1>1, <1>2 DEF Busy
    <2>2. Alone(p) /\ Solo(p)
        BY <2>1 DEF SerialServer
    <2>3. Alone(p)'
        BY <1>1, <2>2 DEF Alone
    <2>4. /\ Detached(p)' = Detached(p) /\ Waiting(p)' = Waiting(p)
          /\ Supers' = Supers /\ Children' = Children
          /\ \A c : Entering(p, c)' = Entering(p, c)
          /\ \A s, c : Leaving(p, s, c)' = Leaving(p, s, c)
        BY <1>1 DEF Detached, Waiting, Supers, Children, Entering, Leaving
    <2>5. SoloTree(p)' /\ SoloTask(p)'
        BY <1>1, <2>2, <2>4 DEF Solo, SoloTree, SoloTask
    <2>6. ChildrenKnown(p)' /\ NoneElseKnown(p)' /\ ParentKnown'
        BY <1>1, <2>2, <2>4, Places DEF Solo, SoloLinks, ChildrenKnown, NoneElseKnown,
           ParentKnown
    <2>7. WaitingKnow(p)'
        BY <1>1, <2>2, <2>4, WaitingPeers DEF Solo, SoloLinks, WaitingKnow
    <2>8. QED
        BY <2>3, <2>5, <2>6, <2>7 DEF Solo, SoloLinks
<1>3. QED
    BY <1>2 DEF SerialServer

LEMMA LoneServes == \A p \in Peer : Invariant /\ Alone(p) /\ Solo(p) => SerialServer
BY LoneGives

SerialInvariant == Serial /\ ~wedged => SerialServer

LEMMA NextSerial ==
    Invariant /\ Invariant' /\ SerialInvariant /\ [Next]_vars => SerialInvariant'
<1> SUFFICES ASSUME Invariant, Invariant', SerialInvariant, [Next]_vars, Serial, ~wedged'
             PROVE  SerialServer'
    BY DEF SerialInvariant
<1> USE DEF SerialInvariant
<1>1. (\A p \in Peer : Invariant /\ Alone(p) /\ Solo(p) => SerialServer)'
    BY LoneServes, PTL
<1>2. ASSUME NEW p \in Peer, TaskStep(p) PROVE SerialServer'
    <2>1. OthersStay(p) /\ SerialServer
        BY <1>2, StepFrame DEF Invariant
    <2>2. Busy(p)
        BY <1>2, StepBusy
    <2>3. Alone(p) /\ Solo(p)
        BY <2>1, <2>2 DEF SerialServer
    <2>4. Alone(p)' /\ Solo(p)'
        BY <1>2, <2>1, <2>3, StillAlone, TaskSolo
    <2>5. QED
        BY <1>1, <2>4
<1>3. ASSUME NEW p \in Peer, Connect(p) PROVE SerialServer'
    <2>1. Busy(p) /\ ~wedged
        BY <1>3 DEF Connect, MayStart, Busy
    <2>2. Alone(p) /\ Solo(p)
        BY <2>1 DEF SerialServer
    <2>3. OthersStay(p)
        BY <1>3 DEF Connect, Goto, OthersStay, Invariant, TypeOK
    <2>4. Alone(p)' /\ Solo(p)'
        BY <1>3, <2>2, <2>3, StillAlone, QuietJoinSolo
    <2>5. QED
        BY <1>1, <2>4
<1>4. ASSUME NEW p \in Peer, Disconnect(p) PROVE SerialServer'
    BY <1>4, DisconnectSerial DEF Disconnect
<1>5. ASSUME NEW p \in Peer, NEW q \in Peer, Relay(p, q) PROVE SerialServer'
    <2>1. Busy(p) /\ ~wedged
        BY <1>5 DEF Relay, MayStart, Busy
    <2>2. Alone(p) /\ Solo(p)
        BY <2>1 DEF SerialServer
    <2>3. Alone(p)' /\ Solo(p)'
        BY <1>5, <2>2, StillAlone, RelaySolo
    <2>4. QED
        BY <1>1, <2>3
<1>6. CASE UNCHANGED vars
    BY <1>6 DEF vars, SerialServer, Busy, Alone, Solo, SoloTree, SoloTask, SoloLinks,
       Detached, Waiting, Entering, Leaving, Supers, Children, ChildrenKnown,
       NoneElseKnown, ParentKnown, WaitingKnow
<1>7. QED
    BY <1>2, <1>3, <1>4, <1>5, <1>6 DEF Next

\* When requests do not overlap, and as long as the mutex is not held for ever, what
\* the lone handler has still to do is all that the tree and the clients lack.
THEOREM SerialInvariantHolds == Spec => []SerialInvariant
<1>1. Init => SerialInvariant
    BY InitSerial DEF SerialInvariant
<1>2. QED
    BY <1>1, InitInv, NextInv, NextSerial, PTL DEF Spec

\* Between requests that do not overlap every child hangs below a super peer that
\* lists it, and who knows whom follows that tree.
THEOREM RestTreeHolds ==
    ASSUME Serial
    PROVE  Spec => []RestTree
<1>1. ASSUME Invariant, SerialInvariant PROVE RestTree
    <2>1. ASSUME AtRest
          PROVE  /\ \A c \in Children : parent[c] \in Supers /\ c \in children[parent[c]]
                 /\ \A s \in Supers : open[s] => links[s] = children[s]
                 /\ \A c \in Children : open[c] => links[c] \subseteq {parent[c]}
        <3>1. SerialServer /\ \A p \in Peer : pc[p] \in {"new", "serve", "done"}
            BY <1>1, <2>1 DEF SerialInvariant, AtRest, Resting
        <3>2. \A p \in Peer : Solo(p) /\ orphans[p] = {}
            BY <1>1, <3>1 DEF SerialServer, Busy, Resting, Invariant, LocalsAtStep, LocalsFit
        <3>3. ASSUME NEW p \in Peer
              PROVE  /\ p \in Children => parent[p] \in Supers /\ p \in children[parent[p]]
                     /\ p \in Supers => (open[p] => links[p] = children[p])
                     /\ p \in Children => (open[p] => links[p] \subseteq {parent[p]})
            <4>1. /\ Detached(p) = {}
                  /\ \A s, c : ~Entering(p, c) /\ ~Leaving(p, s, c)
                BY <3>1, <3>2 DEF Detached, Entering, Leaving, MovingSteps
            <4>2. /\ p \in Children => parent[p] \in Supers /\ p \in children[parent[p]]
                  /\ p \in Children => (open[p] => links[p] \subseteq {parent[p]})
                BY <3>2, <4>1 DEF Solo, SoloTree, SoloLinks, ParentKnown
            <4>3. p \in Supers => (open[p] => \A c : c \in links[p] <=> c \in children[p])
                BY <3>2, <4>1 DEF Solo, SoloLinks, ChildrenKnown, NoneElseKnown
            <4>4. links[p] \subseteq Peer /\ children[p] \subseteq Peer
                BY <1>1, Places
            <4>5. QED
                BY <4>2, <4>3, <4>4
        <3>4. QED
            BY <1>1, <3>3, Places
    <2>2. QED
        BY <2>1 DEF RestTree
<1>2. Invariant /\ SerialInvariant => RestTree
    BY <1>1
<1>3. QED
    BY <1>2, InvariantHolds, SerialInvariantHolds, PTL

-----------------------------------------------------------------------------
(* Counting the pairs of a parent and a child.                               *)

\* Who has at most, or at least, n children each has at most, or at least, that many
\* together.
LEMMA PairsAtMost ==
    ASSUME NEW P, IsFiniteSet(P), NEW f \in [P -> SUBSET P], NEW S \in SUBSET P,
           NEW n \in Nat,
           \A s \in P : s \notin S => f[s] = {},
           \A s \in P : Cardinality(f[s]) <= n
    PROVE  Cardinality({e \in P \X P : e[2] \in f[e[1]]}) <= n * Cardinality(S)
<1> DEFINE Pairs == {e \in P \X P : e[2] \in f[e[1]]}
           Number(s) == Bijection(f[s], 1..Cardinality(f[s]))
           g == [s \in P |-> CHOOSE h \in Number(s) : TRUE]
           k == [e \in Pairs |-> <<e[1], g[e[1]][e[2]]>>]
<1>1. \A s \in P : g[s] \in Number(s) /\ Cardinality(f[s]) \in Nat
    <2>1. SUFFICES ASSUME NEW s \in P PROVE Number(s) # {} /\ Cardinality(f[s]) \in Nat
        OBVIOUS
    <2>2. IsFiniteSet(f[s]) /\ Cardinality(f[s]) \in Nat
        BY FS_Subset, FS_CardinalityType
    <2>3. /\ IsFiniteSet(1..Cardinality(f[s]))
          /\ Cardinality(1..Cardinality(f[s])) = Cardinality(f[s])
        BY <2>2, FS_Interval
    <2>4. QED
        BY <2>2, <2>3, FS_SameCardinalityBij DEF ExistsBijection
<1>2. ASSUME NEW s \in P
      PROVE  /\ \A c \in f[s] : g[s][c] \in 1..n
             /\ \A c, d \in f[s] : g[s][c] = g[s][d] => c = d
    <2>1. g[s] \in Injection(f[s], 1..Cardinality(f[s])) /\ Cardinality(f[s]) \in Nat
        BY <1>1 DEF Bijection
    <2>2. /\ g[s] \in [f[s] -> 1..Cardinality(f[s])]
          /\ \A c, d \in f[s] : g[s][c] = g[s][d] => c = d
        BY <2>1 DEF Injection, IsInjective
    <2>3. 1..Cardinality(f[s]) \subseteq 1..n
        BY <2>1
    <2> HIDE DEF g
    <2>4. QED
        BY <2>2, <2>3
<1> HIDE DEF g
<1>3. k \in Injection(Pairs, S \X (1..n))
    <2>1. k \in [Pairs -> S \X (1..n)]
        BY <1>2
    <2>2. \A d, e \in Pairs : k[d] = k[e] => d = e
        BY <1>2
    <2>3. QED
        BY <2>1, <2>2 DEF Injection, IsInjective
<1> HIDE DEF k, Pairs
<1>4. IsFiniteSet(S) /\ IsFiniteSet(1..n) /\ Cardinality(1..n) = n /\ Cardinality(S) \in Nat
    <2>1. IsFiniteSet(S)
        BY FS_Subset
    <2>2. Cardinality(S) \in Nat
        BY <2>1, FS_CardinalityType
    <2>3. 1 \in Int /\ n \in Int
        OBVIOUS
    <2>4. IsFiniteSet(1..n) /\ Cardinality(1..n) = IF 1 > n THEN 0 ELSE n - 1 + 1
        BY <2>3, FS_Interval
    <2>5. QED
        BY <2>1, <2>2, <2>4
<1>5. /\ IsFiniteSet(S \X (1..n))
      /\ Cardinality(S \X (1..n)) = Cardinality(S) * n
    BY <1>4, FS_Product
<1>6. Cardinality(Pairs) <= Cardinality(S) * n
    BY <1>3, <1>5, FS_Injection
<1>7. QED
    BY <1>4, <1>6 DEF Pairs

LEMMA PairsAtLeast ==
    ASSUME NEW P, IsFiniteSet(P), NEW f \in [P -> SUBSET P], NEW S \in SUBSET P,
           NEW n \in Nat,
           \A s \in S : Cardinality(f[s]) >= n
    PROVE  Cardinality({e \in P \X P : e[2] \in f[e[1]]}) >= n * Cardinality(S)
<1> DEFINE Pairs == {e \in P \X P : e[2] \in f[e[1]]}
           Number(s) == Bijection(1..Cardinality(f[s]), f[s])
           g == [s \in P |-> CHOOSE h \in Number(s) : TRUE]
           k == [e \in S \X (1..n) |-> <<e[1], g[e[1]][e[2]]>>]
<1>1. \A s \in P : g[s] \in Number(s) /\ Cardinality(f[s]) \in Nat
    <2>1. SUFFICES ASSUME NEW s \in P PROVE Number(s) # {} /\ Cardinality(f[s]) \in Nat
        OBVIOUS
    <2>2. IsFiniteSet(f[s])
        BY FS_Subset
    <2>3. QED
        BY <2>2, FS_CardinalityType DEF ExistsBijection
<1>2. ASSUME NEW s \in S
      PROVE  /\ \A i \in 1..n : g[s][i] \in f[s]
             /\ \A i, j \in 1..n : g[s][i] = g[s][j] => i = j
    <2>1. /\ g[s] \in Injection(1..Cardinality(f[s]), f[s])
          /\ Cardinality(f[s]) \in Nat /\ Cardinality(f[s]) >= n
        BY <1>1 DEF Bijection
    <2>2. /\ g[s] \in [1..Cardinality(f[s]) -> f[s]]
          /\ \A i, j \in 1..Cardinality(f[s]) : g[s][i] = g[s][j] => i = j
        BY <2>1 DEF Injection, IsInjective
    <2>3. 1..n \subseteq 1..Cardinality(f[s])
        BY <2>1
    <2>4. QED
        BY <2>2, <2>3
<1> HIDE DEF g
<1>3. k \in Injection(S \X (1..n), Pairs)
    <2>1. k \in [S \X (1..n) -> Pairs]
        BY <1>2
    <2>2. \A d, e \in S \X (1..n) : k[d] = k[e] => d = e
        BY <1>2
    <2>3. QED
        BY <2>1, <2>2 DEF Injection, IsInjective
<1>4. IsFiniteSet(Pairs) /\ Cardinality(Pairs) \in Nat
    <2>1. IsFiniteSet(P \X P) /\ Pairs \subseteq P \X P
        BY FS_Product
    <2>2. QED
        BY <2>1, FS_Subset, FS_CardinalityType
<1> HIDE DEF k, Pairs
<1>5. IsFiniteSet(S) /\ IsFiniteSet(1..n) /\ Cardinality(1..n) = n /\ Cardinality(S) \in Nat
    <2>1. IsFiniteSet(S)
        BY FS_Subset
    <2>2. Cardinality(S) \in Nat
        BY <2>1, FS_CardinalityType
    <2>3. 1 \in Int /\ n \in Int
        OBVIOUS
    <2>4. IsFiniteSet(1..n) /\ Cardinality(1..n) = IF 1 > n THEN 0 ELSE n - 1 + 1
        BY <2>3, FS_Interval
    <2>5. QED
        BY <2>1, <2>2, <2>4
<1>6. Cardinality(S \X (1..n)) = Cardinality(S) * n
    BY <1>5, FS_Product
<1>7. Cardinality(Pairs) >= Cardinality(S) * n
    BY <1>3, <1>4, <1>6, FS_Injection, FS_CardinalityType
<1>8. QED
    BY <1>5, <1>7 DEF Pairs

\* Who is in one set only is counted once.
LEMMA PairsAtMostChildren ==
    ASSUME NEW P, IsFiniteSet(P), NEW f \in [P -> SUBSET P], NEW C \in SUBSET P,
           \A s \in P : f[s] \subseteq C,
           \A s, t \in P : f[s] \cap f[t] # {} => s = t
    PROVE  Cardinality({e \in P \X P : e[2] \in f[e[1]]}) <= Cardinality(C)
<1> DEFINE Pairs == {e \in P \X P : e[2] \in f[e[1]]}
           k == [e \in Pairs |-> e[2]]
<1>1. k \in Injection(Pairs, C)
    <2>1. k \in [Pairs -> C]
        OBVIOUS
    <2>2. ASSUME NEW d \in Pairs, NEW e \in Pairs, k[d] = k[e] PROVE d = e
        <3>1. d[2] = e[2] /\ d[2] \in f[d[1]] \cap f[e[1]]
            BY <2>2
        <3>2. d[1] = e[1]
            BY <3>1
        <3>3. QED
            BY <3>1, <3>2
    <2>3. QED
        BY <2>1, <2>2 DEF Injection, IsInjective
<1>2. IsFiniteSet(C)
    BY FS_Subset
<1>3. QED
    BY <1>1, <1>2, FS_Injection

-----------------------------------------------------------------------------
(* Loads.                                                                    *)

\* The children of s, and one more that p is just moving to it.
Expected(p, s) ==
    Cardinality(children[s]) + (IF pc[p] \in MovingSteps /\ s = target[p] THEN 1 ELSE 0)

\* No entry of the plan is further above its target than the super peer is above
\* PEER_RATIO.
PlanFits(p) ==
    /\ \A m, n \in 1..Len(plan[p]) : m # n => plan[p][m].id # plan[p][n].id
    /\ \A n \in 1..Len(plan[p]) :
          Expected(p, plan[p][n].id) <= plan[p][n].excess + PEER_RATIO

\* What the steps of p know of the room that is left.
RoomLeft(p) ==
    /\ pc[p] = "addChild" => Cardinality(Children) < PEER_RATIO * Cardinality(Supers)
    /\ pc[p] = "findParent" => Cardinality(Children) <= PEER_RATIO * Cardinality(Supers)
    /\ pc[p] \in MovingSteps \cup {"attach"} => Cardinality(children[target[p]]) < PEER_RATIO
    /\ pc[p] = "handOver" => Cardinality(orphans[p]) <= PEER_RATIO
    /\ pc[p] \in {"promote", "reattach", "reintroduce"} =>
          Cardinality(children[target[p]]) + Cardinality(orphans[p]) <= PEER_RATIO
    /\ pc[p] \in BalanceSteps => PlanFits(p)

Capped(p) == LoadCap /\ RoomLeft(p)

RoomSteps == {"addChild", "findParent", "attach", "handOver", "promote", "reattach",
              "reintroduce"} \cup BalanceSteps

LEMMA SizesAreNat ==
    ASSUME TypeOK
    PROVE  /\ \A s \in Peer : /\ IsFiniteSet(children[s]) /\ Cardinality(children[s]) \in Nat
                              /\ IsFiniteSet(orphans[s]) /\ Cardinality(orphans[s]) \in Nat
           /\ IsFiniteSet(Supers) /\ Cardinality(Supers) \in Nat
           /\ IsFiniteSet(Children) /\ Cardinality(Children) \in Nat
<1>1. ASSUME NEW T \in SUBSET Peer PROVE IsFiniteSet(T) /\ Cardinality(T) \in Nat
    <2>1. IsFiniteSet(T)
        BY FS_Subset, PeerAssumption
    <2>2. QED
        BY <2>1, FS_CardinalityType
<1>2. /\ \A s \in Peer : children[s] \in SUBSET Peer /\ orphans[s] \in SUBSET Peer
      /\ Supers \in SUBSET Peer /\ Children \in SUBSET Peer
    BY DEF TypeOK, Supers, Children
<1>3. QED
    BY <1>1, <1>2

\* A target is no more than PEER_RATIO if the children fit below the super peers.
LEMMA TargetAtMost ==
    ASSUME NEW n \in Nat, n >= 1, NEW total \in Nat, NEW supers \in Nat, supers >= 1,
           NEW ratio \in Nat, total <= ratio * supers
    PROVE  Target(n, total, supers) <= ratio /\ Target(n, total, supers) \in Int
<1>1. PICK q \in Int, r \in Int : q = total \div supers /\ r = total % supers
    OBVIOUS
<1>2. total = supers * q + r /\ 0 <= r /\ r < supers
    BY <1>1
<1>3. q <= ratio
    <2>1. SUFFICES ASSUME q >= ratio + 1 PROVE FALSE
        OBVIOUS
    <2>2. supers * q >= supers * (ratio + 1)
        BY <2>1
    <2>3. supers * (ratio + 1) = ratio * supers + supers
        OBVIOUS
    <2>4. QED
        BY <1>2, <2>2, <2>3
<1>4. r > 0 => q # ratio
    BY <1>2
<1>5. QED
    BY <1>1, <1>2, <1>3, <1>4 DEF Target

LEMMA TotalAtMost ==
    ASSUME Invariant, LoadCap
    PROVE  TotalLoad <= PEER_RATIO * Cardinality(Supers)
<1>1. /\ children \in [Peer -> SUBSET Peer] /\ Supers \in SUBSET Peer
      /\ \A s \in Peer : s \notin Supers => children[s] = {}
    BY Places DEF Invariant, TypeOK
<1>2. QED
    BY <1>1, PairsAtMost, PeerAssumption, RatioAssumption DEF TotalLoad, LoadCap

LEMMA TotalAtLeast ==
    ASSUME Invariant, \A s \in Supers : Cardinality(children[s]) >= PEER_RATIO
    PROVE  TotalLoad >= PEER_RATIO * Cardinality(Supers)
<1>1. children \in [Peer -> SUBSET Peer] /\ Supers \in SUBSET Peer
    BY DEF Invariant, TypeOK, Supers
<1>2. QED
    BY <1>1, PairsAtLeast, PeerAssumption, RatioAssumption DEF TotalLoad

\* A joining child in the map counts, and hangs below nobody.
LEMMA TotalBelowChildren ==
    ASSUME Invariant, NEW p \in Peer, Solo(p), pc[p] = "findParent"
    PROVE  TotalLoad < Cardinality(Children)
<1>1. p \in Children
    BY DEF Solo, SoloTree, Detached
<1>2. \A s \in Peer : children[s] \subseteq Children \ {p}
    <2>1. InOnePlace(p) /\ Unplaced(p)
        BY DEF Invariant, Custody, Unplaced, UnplacedSteps
    <2>2. QED
        BY <2>1, Places DEF InOnePlace, Solo, SoloTree, Children
<1>3. children \in [Peer -> SUBSET Peer] /\ Children \ {p} \in SUBSET Peer
    BY Places DEF Invariant, TypeOK
<1>4. TotalLoad <= Cardinality(Children \ {p})
    BY <1>2, <1>3, Places, PairsAtMostChildren, PeerAssumption DEF TotalLoad
<1>5. Cardinality(Children \ {p}) = Cardinality(Children) - 1
    BY <1>1, SizesAreNat, FS_RemoveElement DEF Invariant
<1>6. QED
    BY <1>4, <1>5, SizesAreNat, LoadIsNat DEF Invariant

\* So a least loaded super peer has room for it.
LEMMA RoomBelowLeast ==
    ASSUME Invariant, NEW p \in Peer, Solo(p), Capped(p), pc[p] = "findParent",
           NEW s \in Supers, IsLeastLoaded(s)
    PROVE  Cardinality(children[s]) < PEER_RATIO
<1>1. SUFFICES ASSUME Cardinality(children[s]) >= PEER_RATIO PROVE FALSE
    BY SizesAreNat, Places, RatioAssumption DEF Invariant
<1>2. \A q \in Supers : Cardinality(children[q]) >= PEER_RATIO
    <2>1. ASSUME NEW q \in Supers PROVE Cardinality(children[s]) <= Cardinality(children[q])
        <3>1. s \in Peer /\ q \in Peer
            BY Places
        <3>2. Cardinality(children[s]) \in Nat /\ Cardinality(children[q]) \in Nat
            BY <3>1, SizesAreNat DEF Invariant
        <3>3. Load[s] = Cardinality(children[s]) /\ Load[q] = Cardinality(children[q])
            BY <3>1 DEF Load
        <3>4. QED
            BY <3>2, <3>3 DEF IsLeastLoaded
    <2>2. QED
        BY <1>1, <2>1, SizesAreNat, Places, RatioAssumption DEF Invariant
<1>3. PEER_RATIO * Cardinality(Supers) <= TotalLoad
    BY <1>2, TotalAtLeast
<1>4. Cardinality(Children) <= PEER_RATIO * Cardinality(Supers)
    BY DEF Capped, RoomLeft
<1>5. PEER_RATIO * Cardinality(Supers) \in Nat
    BY SizesAreNat, RatioAssumption DEF Invariant
<1>6. QED
    BY <1>3, <1>4, <1>5, TotalBelowChildren, SizesAreNat, LoadIsNat DEF Invariant

\* Steps after which nothing is said of the room left, and no super peer has more
\* children than before.
LEMMA NoMoreCap ==
    ASSUME TypeOK, NEW p \in Peer, Capped(p), pc'[p] \notin RoomSteps,
           \A s \in Peer : children'[s] \subseteq children[s]
    PROVE  Capped(p)'
<1>1. RoomLeft(p)'
    BY DEF RoomLeft, RoomSteps, MovingSteps, BalanceSteps
<1>2. ASSUME NEW s \in Peer PROVE Cardinality(children'[s]) <= PEER_RATIO
    <2>1. IsFiniteSet(children[s]) /\ Cardinality(children[s]) \in Nat
        BY SizesAreNat
    <2>2. IsFiniteSet(children'[s]) /\ Cardinality(children'[s]) <= Cardinality(children[s])
        BY <2>1, FS_Subset
    <2>3. Cardinality(children'[s]) \in Nat
        BY <2>2, FS_CardinalityType
    <2>4. QED
        BY <2>1, <2>2, <2>3, RatioAssumption DEF Capped, LoadCap
<1>3. QED
    BY <1>1, <1>2 DEF Capped, LoadCap

\* Steps that leave the map, and what p has in hand, alone.
LEMMA SameCap ==
    ASSUME NEW p \in Peer, Capped(p), UNCHANGED <<role, children>>,
           orphans'[p] = orphans[p], target'[p] = target[p], plan'[p] = plan[p],
           \/ pc'[p] = pc[p]
           \/ pc[p] \in MovingSteps /\ pc'[p] \in MovingSteps
           \/ pc[p] = "introduceMoved" /\ pc'[p] = "move"
           \/ {pc[p], pc'[p]} \subseteq {"promote", "reattach", "reintroduce"}
    PROVE  Capped(p)'
<1>1. LoadCap' /\ Supers' = Supers /\ Children' = Children
    BY DEF Capped, LoadCap, Supers, Children
<1>2. PlanFits(p) /\ pc[p] \in BalanceSteps => PlanFits(p)'
    BY DEF PlanFits, Expected, MovingSteps, BalanceSteps
<1>3. RoomLeft(p)'
    BY <1>1, <1>2 DEF Capped, RoomLeft, MovingSteps, BalanceSteps
<1>4. QED
    BY <1>1, <1>3 DEF Capped

LEMMA AddChildCap ==
    ASSUME Invariant, NEW p \in Peer, Capped(p), AddChild(p)
    PROVE  Capped(p)'
<1>1. /\ TypeOK /\ pc[p] = "addChild" /\ pc'[p] = "findParent" /\ role[p] = "absent"
      /\ role' = [role EXCEPT ![p] = "child"] /\ children' = children
    BY DEF AddChild, At, Goto, Invariant, TypeOK, RoleAtStep, RoleFits
<1>2. Children' = Children \cup {p} /\ p \notin Children /\ Supers' = Supers
    BY <1>1 DEF Children, Supers, TypeOK
<1>3. Cardinality(Children') = Cardinality(Children) + 1
    BY <1>1, <1>2, SizesAreNat, FS_AddElement
<1>4. Cardinality(Children) < PEER_RATIO * Cardinality(Supers)
    BY <1>1 DEF Capped, RoomLeft
<1>5. PEER_RATIO * Cardinality(Supers) \in Nat
    BY <1>1, SizesAreNat, RatioAssumption
<1>6. Cardinality(Children') <= PEER_RATIO * Cardinality(Supers')
    BY <1>1, <1>2, <1>3, <1>4, <1>5, SizesAreNat
<1>7. RoomLeft(p)'
    BY <1>1, <1>6 DEF RoomLeft, MovingSteps, BalanceSteps
<1>8. QED
    BY <1>1, <1>7 DEF Capped, LoadCap

\* A super peer with room for one more takes one.
LEMMA OneMoreCap ==
    ASSUME TypeOK, LoadCap, NEW c \in Peer, NEW s \in Peer, AttachUnderLock(c, s),
           Cardinality(children[s]) < PEER_RATIO
    PROVE  /\ LoadCap'
           /\ \A t \in Peer : /\ t # s => children'[t] = children[t]
                              /\ Cardinality(children'[t]) <=
                                     Cardinality(children[t]) + (IF t = s THEN 1 ELSE 0)
                              /\ Cardinality(children'[t]) \in Nat
<1>1. /\ \A t \in Peer : t # s => children'[t] = children[t]
      /\ children'[s] = children[s] \/ children'[s] = children[s] \cup {c}
    BY DEF AttachUnderLock, TypeOK
<1>2. /\ Cardinality(children[s]) \in Nat /\ Cardinality(children'[s]) \in Nat
      /\ Cardinality(children'[s]) <= Cardinality(children[s]) + 1
    <2>1. IsFiniteSet(children[s]) /\ Cardinality(children[s]) \in Nat
        BY SizesAreNat
    <2>2. \/ Cardinality(children[s] \cup {c}) = Cardinality(children[s])
          \/ Cardinality(children[s] \cup {c}) = Cardinality(children[s]) + 1
        BY <2>1, FS_AddElement
    <2>3. CASE children'[s] = children[s]
        BY <2>1, <2>3
    <2>4. CASE children'[s] = children[s] \cup {c}
        BY <2>1, <2>2, <2>4
    <2>5. QED
        BY <1>1, <2>3, <2>4
<1>3. \A t \in Peer : Cardinality(children[t]) \in Nat /\ Cardinality(children[t]) <= PEER_RATIO
    BY SizesAreNat DEF LoadCap
<1>4. Cardinality(children'[s]) <= PEER_RATIO
    BY <1>2, RatioAssumption
<1>5. LoadCap'
    BY <1>1, <1>3, <1>4 DEF LoadCap
<1>6. QED
    BY <1>1, <1>2, <1>3, <1>5

LEMMA JoinCap ==
    ASSUME Invariant, NEW p \in Peer, Solo(p), Capped(p), JoinStep(p)
    PROVE  Capped(p)'
<1> USE DEF Goto, At, topology, views, locals
<1>1. /\ TypeOK /\ SoloTask(p)
      /\ RoleFits(pc[p], role[p]) /\ LocalsFit(pc[p], child[p], target[p], orphans[p])
    BY DEF Invariant, RoleAtStep, LocalsAtStep, Solo
<1>2. CASE JoinAsChild(p)
    <2>1. /\ pc'[p] = "addChild" /\ UNCHANGED <<role, children>>
          /\ ~ (Cardinality(Children) >= PEER_RATIO * Cardinality(Supers))
        BY <1>1, <1>2 DEF JoinAsChild, ShouldAddSuperPeer, TypeOK
    <2>2. Cardinality(Children) < PEER_RATIO * Cardinality(Supers)
        <3>1. PEER_RATIO * Cardinality(Supers) \in Nat
            BY <1>1, SizesAreNat, RatioAssumption
        <3>2. QED
            BY <1>1, <2>1, <3>1, SizesAreNat
    <2>3. Supers' = Supers /\ Children' = Children
        BY <2>1 DEF Supers, Children
    <2>4. RoomLeft(p)'
        BY <2>1, <2>2, <2>3 DEF RoomLeft, MovingSteps, BalanceSteps
    <2>5. QED
        BY <2>1, <2>4 DEF Capped, LoadCap
<1>3. CASE AddChild(p)
    BY <1>3, AddChildCap
<1>4. CASE FindParent(p)
    <2>1. /\ pc[p] = "findParent" /\ pc'[p] = "attach" /\ UNCHANGED <<role, children>>
          /\ target'[p] \in Supers /\ IsLeastLoaded(target'[p])
        BY <1>1, <1>4 DEF FindParent, TypeOK
    <2>2. Cardinality(children[target'[p]]) < PEER_RATIO
        BY <2>1, RoomBelowLeast
    <2>3. RoomLeft(p)'
        BY <2>1, <2>2 DEF RoomLeft, MovingSteps, BalanceSteps
    <2>4. QED
        BY <2>1, <2>3 DEF Capped, LoadCap
<1>5. CASE Attach(p)
    <2>1. /\ pc[p] = "attach" /\ pc'[p] = "introduce" /\ target[p] \in Peer
          /\ AttachUnderLock(p, target[p])
        BY <1>1, <1>5 DEF Attach, LocalsFit, TypeOK
    <2>2. Cardinality(children[target[p]]) < PEER_RATIO /\ LoadCap
        BY <2>1 DEF Capped, RoomLeft
    <2>3. LoadCap'
        BY <1>1, <2>1, <2>2, OneMoreCap
    <2>4. RoomLeft(p)'
        BY <2>1 DEF RoomLeft, MovingSteps, BalanceSteps
    <2>5. QED
        BY <2>3, <2>4 DEF Capped
<1>6. CASE AttachFails(p)
    <2>1. pc[p] = "attach" /\ role[p] = "child" /\ role[target[p]] = "super"
        BY <1>1, <1>6 DEF AttachFails, SoloTask, RoleFits, Supers
    <2>2. QED
        BY <1>6, <2>1 DEF AttachFails, Attaches
<1>7. CASE \/ JoinAsSuper(p) \/ ListSupers(p) \/ InsertSuper(p)
           \/ \E q \in Peer : AnnounceSuper(p, q)
           \/ NoParentFound(p) \/ Introduce(p) \/ IntroduceFails(p) \/ TellParent(p)
    <2>1. children' = children
        BY <1>7 DEF JoinAsSuper, ListSupers, InsertSuper, AnnounceSuper, NoParentFound,
           Introduce, IntroduceFails, TellParent
    <2>2. CASE InsertSuper(p)
        <3>1. pc'[p] = "balance"
            BY <1>1, <2>2 DEF InsertSuper, TypeOK
        <3>2. QED
            BY <1>1, <2>1, <3>1, NoMoreCap DEF RoomSteps, BalanceSteps, MovingSteps
    <2>3. CASE ~InsertSuper(p)
        <3>1. pc'[p] \in {"addSuper", "announce", "serve", "tellParent", "done"}
            BY <1>1, <1>7, <2>3 DEF JoinAsSuper, ListSupers, AnnounceSuper, NoParentFound,
               Introduce, IntroduceFails, TellParent, TypeOK
        <3>2. QED
            BY <1>1, <2>1, <3>1, NoMoreCap DEF RoomSteps, BalanceSteps, MovingSteps
    <2>4. QED
        BY <2>2, <2>3
<1>8. QED
    BY <1>2, <1>3, <1>4, <1>5, <1>6, <1>7 DEF JoinStep

\* The plan: whoever is in it is above its target by no more than it is above
\* PEER_RATIO, because no target is more than PEER_RATIO.
LEMMA PlanMovesCap ==
    ASSUME Invariant, NEW p \in Peer, Capped(p), PlanMoves(p)
    PROVE  Capped(p)'
<1>1. /\ TypeOK /\ pc'[p] = "move" /\ UNCHANGED <<role, children>>
      /\ Cardinality(Supers) >= 2
    BY DEF PlanMoves, At, Goto, topology, Invariant, TypeOK
<1>2. PICK ord \in Orders(Supers, Load) : plan'[p] = PlanOf(ord, Load, TotalLoad)
    BY DEF PlanMoves, Invariant, TypeOK
<1>3. PICK supers \in Nat : supers = Cardinality(Supers)
    BY <1>1, SizesAreNat
<1>4. /\ ord \in [1..supers -> Supers] /\ Len(ord) = supers
      /\ \A m, n \in 1..supers : m # n => ord[m] # ord[n]
    <2>1. /\ ord \in [1..supers -> Supers]
          /\ \A m, n \in 1..supers : m < n => ord[m] # ord[n]
        BY <1>3 DEF Orders
    <2>2. \A m, n \in 1..supers : m < n \/ n < m \/ m = n
        BY <1>3
    <2>3. Len(ord) = supers
        BY <1>3, <2>1
    <2>4. QED
        BY <2>1, <2>2, <2>3
<1>5. PICK total \in Nat : total = TotalLoad
    BY <1>1, LoadIsNat
<1>6. total <= PEER_RATIO * supers
    BY <1>3, <1>5, TotalAtMost DEF Capped
<1>7. \A n \in 1..supers :
          /\ Target(n, total, supers) \in Int
          /\ Target(n, total, supers) <= PEER_RATIO
    BY <1>1, <1>3, <1>6, TargetAtMost, RatioAssumption
<1>8. /\ Len(plan'[p]) = supers
      /\ \A n \in 1..supers :
            /\ plan'[p][n].id = ord[n]
            /\ plan'[p][n].excess = Load[ord[n]] - Target(n, total, supers)
    BY <1>2, <1>4, <1>5 DEF PlanOf
<1>9. ASSUME NEW n \in 1..supers
      PROVE  Cardinality(children[ord[n]]) <= Load[ord[n]] - Target(n, total, supers) + PEER_RATIO
    <2>1. ord[n] \in Peer
        BY <1>4, Places
    <2>2. Load[ord[n]] = Cardinality(children[ord[n]]) /\ Load[ord[n]] \in Nat
        BY <1>1, <2>1, LoadIsNat DEF Load
    <2>3. QED
        BY <1>7, <2>2, RatioAssumption
<1>10. PlanFits(p)'
    <2>1. ASSUME NEW n \in 1..supers
          PROVE  Expected(p, plan[p][n].id)' = Cardinality(children[ord[n]])
        <3>1. Expected(p, ord[n])' = Cardinality(children[ord[n]]) + 0
            BY <1>1 DEF Expected, MovingSteps
        <3>2. Cardinality(children[ord[n]]) \in Nat
            BY <1>1, <1>4, Places, SizesAreNat
        <3>3. plan'[p][n].id = ord[n]
            BY <1>8
        <3>4. QED
            BY <1>1, <3>2, <3>3 DEF Expected, MovingSteps
    <2>2. QED
        BY <1>4, <1>8, <1>9, <2>1 DEF PlanFits
<1>11. RoomLeft(p)'
    BY <1>1, <1>10 DEF RoomLeft, MovingSteps, BalanceSteps
<1>12. QED
    BY <1>1, <1>11 DEF Capped, LoadCap

\* Booking a move that takes no child, and one that does.
LEMMA BookMoveFits ==
    ASSUME NEW q \in Seq(Entry), NEW i \in 1..Len(q), NEW j \in 1..Len(q),
           q[i].excess > 0, q[j].excess < 0
    PROVE  LET b == BookMove(q, i, j)
           IN  /\ i # j /\ Len(b) = Len(q)
               /\ \A n \in 1..Len(q) :
                     /\ b[n].id = q[n].id
                     /\ b[n].excess = IF n = i THEN q[n].excess - 1
                                      ELSE IF n = j THEN q[n].excess + 1 ELSE q[n].excess
                     /\ q[n].excess \in Int /\ q[n].id \in Peer
<1>1. \A n \in 1..Len(q) : q[n].excess \in Int /\ q[n].id \in Peer
    <2>1. SUFFICES ASSUME NEW n \in 1..Len(q) PROVE q[n].excess \in Int /\ q[n].id \in Peer
        OBVIOUS
    <2>2. q[n] \in Entry
        BY ElementType
    <2>3. QED
        BY <2>2 DEF Entry
<1>2. i # j
    BY <1>1
<1>3. Len(BookMove(q, i, j)) = Len(q)
    BY DEF BookMove
<1>4. ASSUME NEW n \in 1..Len(q)
      PROVE  /\ BookMove(q, i, j)[n].id = q[n].id
             /\ BookMove(q, i, j)[n].excess = IF n = i THEN q[n].excess - 1
                                ELSE IF n = j THEN q[n].excess + 1 ELSE q[n].excess
    BY <1>1, <1>2 DEF BookMove
<1>5. QED
    BY <1>1, <1>2, <1>3, <1>4

LEMMA NothingToTakeCap ==
    ASSUME Invariant, NEW p \in Peer, Capped(p), NothingToTake(p)
    PROVE  Capped(p)'
<1>1. /\ TypeOK /\ pc[p] = "move" /\ pc'[p] = "move" /\ UNCHANGED <<role, children>>
      /\ plan[p] \in Seq(Entry)
    BY DEF NothingToTake, At, topology, Invariant, TypeOK, Entry
<1>2. PICK i \in 1..Len(plan[p]), j \in 1..Len(plan[p]) :
          /\ plan[p][i].excess > 0 /\ plan[p][j].excess < 0
          /\ plan'[p] = BookMove(plan[p], i, j)
          /\ role[plan[p][i].id] # "super" \/ children[plan[p][i].id] = {}
    BY <1>1 DEF NothingToTake, IsGiver, IsReceiver, TypeOK
<1>3. PICK q \in Seq(Entry) : q = plan[p]
    BY <1>1
<1>4. /\ i # j /\ Len(plan'[p]) = Len(q)
      /\ \A n \in 1..Len(q) :
            /\ plan'[p][n].id = q[n].id
            /\ plan'[p][n].excess = IF n = i THEN q[n].excess - 1
                                    ELSE IF n = j THEN q[n].excess + 1 ELSE q[n].excess
            /\ q[n].excess \in Int /\ q[n].id \in Peer
    BY <1>2, <1>3, BookMoveFits
<1>5. children[q[i].id] = {} /\ q[i].excess > 0
    BY <1>1, <1>2, <1>3, <1>4, Places DEF Supers
<1>6. Cardinality(children[q[i].id]) = 0
    BY <1>5, FS_EmptySet
<1>7. /\ \A m, n \in 1..Len(q) : m # n => q[m].id # q[n].id
      /\ \A n \in 1..Len(q) : Expected(p, q[n].id) <= q[n].excess + PEER_RATIO
    BY <1>1, <1>3 DEF Capped, RoomLeft, PlanFits, BalanceSteps
<1>8. \A s \in Peer : /\ Expected(p, s) = Cardinality(children[s])
                      /\ Cardinality(children[s]) \in Nat
    BY <1>1, SizesAreNat DEF Expected, MovingSteps
<1>10. ASSUME NEW n \in 1..Len(q)
       PROVE  Cardinality(children[q[n].id]) <= plan'[p][n].excess + PEER_RATIO
    <2>1. /\ q[n].excess \in Int /\ q[n].id \in Peer
          /\ Cardinality(children[q[n].id]) \in Nat
          /\ Cardinality(children[q[n].id]) <= q[n].excess + PEER_RATIO
        BY <1>4, <1>7, <1>8
    <2>2. CASE n = i
        <3>1. plan'[p][n].excess = q[n].excess - 1
            BY <1>4, <2>2
        <3>2. q[n].excess > 0 /\ Cardinality(children[q[n].id]) = 0
            BY <1>5, <1>6, <2>2
        <3>3. PICK x \in Int : x = q[n].excess /\ plan'[p][n].excess = x - 1
            BY <2>1, <3>1
        <3>4. QED
            BY <3>2, <3>3, RatioAssumption
    <2>3. CASE n # i
        <3>1. plan'[p][n].excess >= q[n].excess /\ plan'[p][n].excess \in Int
            BY <1>4, <2>1, <2>3
        <3>2. QED
            BY <2>1, <3>1, RatioAssumption
    <2>4. QED
        BY <2>2, <2>3
<1>11. PlanFits(p)'
    <2>1. \A n \in 1..Len(q) : Expected(p, plan[p][n].id)' = Cardinality(children[q[n].id])
        <3>1. SUFFICES ASSUME NEW n \in 1..Len(q)
                       PROVE  Expected(p, plan[p][n].id)' = Cardinality(children[q[n].id])
            OBVIOUS
        <3>2. plan'[p][n].id = q[n].id /\ q[n].id \in Peer
            BY <1>4
        <3>3. QED
            BY <1>1, <1>8, <3>2 DEF Expected, MovingSteps
    <2>2. QED
        BY <1>4, <1>7, <1>10, <2>1 DEF PlanFits
<1>12. RoomLeft(p)'
    BY <1>1, <1>11 DEF RoomLeft, MovingSteps, BalanceSteps
<1>13. QED
    BY <1>1, <1>12 DEF Capped, LoadCap

LEMMA TakeChildCap ==
    ASSUME Invariant, NEW p \in Peer, Capped(p), TakeChild(p)
    PROVE  Capped(p)'
<1>1. /\ TypeOK /\ pc[p] = "move" /\ pc'[p] = "tellGiver" /\ UNCHANGED role
      /\ plan[p] \in Seq(Entry)
    BY DEF TakeChild, TakeChildFor, At, Goto, Invariant, TypeOK, Entry
<1>2. PICK i \in 1..Len(plan[p]), j \in 1..Len(plan[p]), c \in Peer : TakeChildFor(p, i, j, c)
    BY DEF TakeChild
<1>3. PICK q \in Seq(Entry) : q = plan[p]
    BY <1>1
<1>4. /\ i \in 1..Len(q) /\ j \in 1..Len(q)
      /\ q[i].excess > 0 /\ q[j].excess < 0
      /\ plan'[p] = BookMove(q, i, j)
    BY <1>1, <1>2, <1>3 DEF TakeChildFor, IsGiver, IsReceiver, TypeOK
<1>5. /\ i # j /\ Len(plan'[p]) = Len(q)
      /\ \A n \in 1..Len(q) :
            /\ plan'[p][n].id = q[n].id
            /\ plan'[p][n].excess = IF n = i THEN q[n].excess - 1
                                    ELSE IF n = j THEN q[n].excess + 1 ELSE q[n].excess
            /\ q[n].excess \in Int /\ q[n].id \in Peer
    BY <1>3, <1>4, BookMoveFits
<1>6. PICK give \in Peer, take \in Peer : give = q[i].id /\ take = q[j].id
    BY <1>4, <1>5
<1>7. /\ \A m, n \in 1..Len(q) : m # n => q[m].id # q[n].id
      /\ \A n \in 1..Len(q) : Expected(p, q[n].id) <= q[n].excess + PEER_RATIO
    BY <1>1, <1>3 DEF Capped, RoomLeft, PlanFits, BalanceSteps
<1>8. \A s \in Peer : /\ Expected(p, s) = Cardinality(children[s])
                      /\ Cardinality(children[s]) \in Nat
                      /\ Cardinality(children[s]) <= PEER_RATIO
    BY <1>1, SizesAreNat DEF Expected, MovingSteps, Capped, LoadCap
<1>9. /\ target'[p] = take /\ c \in children[give]
      /\ children'[give] = children[give] \ {c}
      /\ \A s \in Peer : s # give => children'[s] = children[s]
    BY <1>1, <1>2, <1>3, <1>6 DEF TakeChildFor, IsLowest, TypeOK
<1>10. Cardinality(children'[give]) = Cardinality(children[give]) - 1
    <2>1. IsFiniteSet(children[give])
        BY <1>1, SizesAreNat
    <2>2. Cardinality(children[give] \ {c}) = Cardinality(children[give]) - 1
        BY <1>9, <2>1, FS_RemoveElement
    <2>3. QED
        BY <1>9, <2>2
<1>11. LoadCap'
    <2>1. \A s \in Peer : Cardinality(children'[s]) <= PEER_RATIO
        <3>1. SUFFICES ASSUME NEW s \in Peer PROVE Cardinality(children'[s]) <= PEER_RATIO
            OBVIOUS
        <3>2. CASE s = give
            BY <1>8, <1>10, <3>2, RatioAssumption
        <3>3. CASE s # give
            BY <1>8, <1>9, <3>3
        <3>4. QED
            BY <3>2, <3>3
    <2>2. QED
        BY <2>1 DEF LoadCap
<1>12. give # take
    BY <1>4, <1>5, <1>6, <1>7
<1>13. /\ children'[take] = children[take]
       /\ Cardinality(children'[take]) < PEER_RATIO
    <2>1. Cardinality(children[take]) <= q[j].excess + PEER_RATIO /\ q[j].excess \in Int
        BY <1>4, <1>5, <1>6, <1>7, <1>8
    <2>2. Cardinality(children[take]) < PEER_RATIO
        BY <1>4, <1>8, <2>1, RatioAssumption
    <2>3. QED
        BY <1>9, <1>12, <2>2
<1>14. ASSUME NEW s \in Peer
       PROVE  Expected(p, s)' = IF s = give THEN Cardinality(children[s]) - 1
                                ELSE IF s = take THEN Cardinality(children[s]) + 1
                                ELSE Cardinality(children[s])
    <2>1. Expected(p, s)' = Cardinality(children'[s]) + (IF s = take THEN 1 ELSE 0)
        BY <1>1, <1>9 DEF Expected, MovingSteps
    <2>2. CASE s = give
        BY <1>8, <1>10, <1>12, <2>1, <2>2
    <2>3. CASE s # give
        BY <1>8, <1>9, <2>1, <2>3
    <2>4. QED
        BY <2>2, <2>3
<1>15. ASSUME NEW n \in 1..Len(q)
       PROVE  Expected(p, plan[p][n].id)' <= plan'[p][n].excess + PEER_RATIO
    <2>1. PICK s \in Peer : s = q[n].id
        BY <1>5
    <2>2. plan'[p][n].id = s
        BY <1>5, <2>1
    <2>3. Expected(p, plan[p][n].id)' = Expected(p, s)'
        BY <2>2 DEF Expected
    <2>4. PICK x \in Int : x = q[n].excess
        BY <1>5
    <2>5. PICK l \in Nat : l = Cardinality(children[s])
        BY <1>8
    <2>6. l <= x + PEER_RATIO
        BY <1>7, <1>8, <2>1, <2>4, <2>5
    <2>7. CASE n = i
        <3>1. plan'[p][n].excess = x - 1 /\ s = give
            BY <1>5, <1>6, <2>1, <2>4, <2>7
        <3>2. Expected(p, s)' = l - 1
            BY <1>14, <2>5, <3>1
        <3>3. QED
            BY <2>3, <2>6, <3>1, <3>2, RatioAssumption
    <2>8. CASE n = j
        <3>1. plan'[p][n].excess = x + 1 /\ s = take
            BY <1>5, <1>6, <2>1, <2>4, <2>8
        <3>2. Expected(p, s)' = l + 1
            BY <1>12, <1>14, <2>5, <3>1
        <3>3. QED
            BY <2>3, <2>6, <3>1, <3>2, RatioAssumption
    <2>9. CASE n # i /\ n # j
        <3>1. plan'[p][n].excess = x /\ s # give /\ s # take
            BY <1>4, <1>5, <1>6, <1>7, <2>1, <2>4, <2>9
        <3>2. Expected(p, s)' = l
            BY <1>14, <2>5, <3>1
        <3>3. QED
            BY <2>3, <2>6, <3>1, <3>2
    <2>10. QED
        BY <2>7, <2>8, <2>9
<1>16. PlanFits(p)'
    BY <1>5, <1>7, <1>15 DEF PlanFits
<1>17. RoomLeft(p)'
    BY <1>1, <1>9, <1>13, <1>16 DEF RoomLeft, MovingSteps, BalanceSteps
<1>18. QED
    BY <1>11, <1>17 DEF Capped

LEMMA AttachMovedCap ==
    ASSUME Invariant, NEW p \in Peer, Solo(p), Capped(p), AttachMoved(p)
    PROVE  Capped(p)'
<1>1. /\ TypeOK /\ pc[p] = "attachMoved" /\ pc'[p] \in {"introduceMoved", "move"}
      /\ UNCHANGED <<plan, target>>
      /\ child[p] \in Peer /\ target[p] \in Peer /\ plan[p] \in Seq(Entry)
      /\ AttachUnderLock(child[p], target[p])
    <2>1. TypeOK /\ LocalsFit(pc[p], child[p], target[p], orphans[p])
        BY DEF Invariant, LocalsAtStep
    <2>2. QED
        BY <2>1 DEF AttachMoved, At, Goto, locals, LocalsFit, TypeOK, Entry
<1>2. PICK t \in Peer : t = target[p]
    BY <1>1
<1>3. Cardinality(children[t]) < PEER_RATIO /\ LoadCap
    BY <1>1, <1>2 DEF Capped, RoomLeft, MovingSteps
<1>4. /\ LoadCap'
      /\ \A s \in Peer : /\ Cardinality(children'[s]) <=
                                Cardinality(children[s]) + (IF s = t THEN 1 ELSE 0)
                         /\ Cardinality(children'[s]) \in Nat
    BY <1>1, <1>2, <1>3, OneMoreCap
<1>5. ASSUME NEW s \in Peer
      PROVE  /\ Expected(p, s)' <= Expected(p, s)
             /\ Expected(p, s)' \in Nat /\ Expected(p, s) \in Nat
    <2>1. Expected(p, s)' = Cardinality(children'[s])
        BY <1>1, <1>4 DEF Expected, MovingSteps
    <2>2. Expected(p, s) = Cardinality(children[s]) + (IF s = t THEN 1 ELSE 0)
        BY <1>1, <1>2 DEF Expected, MovingSteps
    <2>3. Cardinality(children[s]) \in Nat
        BY <1>1, SizesAreNat
    <2>4. QED
        BY <1>4, <2>1, <2>2, <2>3
<1>6. PlanFits(p)
    BY <1>1 DEF Capped, RoomLeft, BalanceSteps, MovingSteps
<1>7. ASSUME NEW n \in 1..Len(plan[p])
      PROVE  Expected(p, plan[p][n].id)' <= plan[p][n].excess + PEER_RATIO
    <2>1. plan[p][n] \in Entry
        BY <1>1, ElementType
    <2>2. PICK s \in Peer : s = plan[p][n].id
        BY <2>1 DEF Entry
    <2>3. plan[p][n].excess \in Int
        BY <2>1 DEF Entry
    <2>4. Expected(p, s) <= plan[p][n].excess + PEER_RATIO
        BY <1>6, <2>2 DEF PlanFits
    <2>5. Expected(p, plan[p][n].id)' = Expected(p, s)'
        BY <1>1, <2>2 DEF Expected
    <2>6. QED
        BY <1>5, <2>3, <2>4, <2>5, RatioAssumption
<1>8. PlanFits(p)'
    BY <1>1, <1>6, <1>7 DEF PlanFits
<1>9. RoomLeft(p)'
    BY <1>1, <1>8 DEF RoomLeft, MovingSteps
<1>10. QED
    BY <1>4, <1>9 DEF Capped

LEMMA BalanceCap ==
    ASSUME Invariant, NEW p \in Peer, Solo(p), Capped(p), BalanceStep(p)
    PROVE  Capped(p)'
<1> USE DEF Goto, At, topology, views, locals
<1>1. TypeOK
    BY DEF Invariant
<1>2. CASE TooFewSupers(p) \/ FinishBalance(p)
    <2>1. children' = children /\ pc'[p] = "serve"
        BY <1>1, <1>2 DEF TooFewSupers, FinishBalance, TypeOK
    <2>2. QED
        BY <1>1, <2>1, NoMoreCap DEF RoomSteps, BalanceSteps, MovingSteps
<1>3. CASE TellGiver(p) \/ TellMoved(p) \/ IntroduceMoved(p)
    <2>1. /\ UNCHANGED <<role, children, orphans, target, plan>>
          /\ \/ pc[p] \in MovingSteps /\ pc'[p] \in MovingSteps
             \/ pc[p] = "introduceMoved" /\ pc'[p] = "move"
        BY <1>1, <1>3 DEF TellGiver, TellMoved, IntroduceMoved, TypeOK, MovingSteps
    <2>2. QED
        BY <2>1, SameCap
<1>4. QED
    BY <1>2, <1>3, PlanMovesCap, NothingToTakeCap, TakeChildCap, AttachMovedCap
    DEF BalanceStep

LEMMA RemoveSuperCap ==
    ASSUME Invariant, NEW p \in Peer, Capped(p), RemoveSuper(p)
    PROVE  Capped(p)'
<1>1. /\ TypeOK /\ pc'[p] = "handOver" /\ orphans'[p] = children[p]
      /\ \A s \in Peer : children'[s] = IF s = p THEN {} ELSE children[s]
    <2>1. TypeOK
        BY DEF Invariant
    <2>2. pc'[p] = "handOver" /\ orphans'[p] = children[p]
        BY <2>1 DEF RemoveSuper, At, Goto, TypeOK
    <2>3. QED
        BY <2>1, <2>2 DEF RemoveSuper, TypeOK
<1>2. Cardinality(orphans'[p]) <= PEER_RATIO
    BY <1>1 DEF Capped, LoadCap
<1>3. LoadCap'
    BY <1>1, FS_EmptySet, RatioAssumption DEF Capped, LoadCap
<1>4. QED
    BY <1>1, <1>2, <1>3 DEF Capped, RoomLeft, MovingSteps, BalanceSteps

\* The recruit has no children, and there is one orphan less.
LEMMA RecruitCap ==
    ASSUME Invariant, NEW p \in Peer, Solo(p), Capped(p), Recruit(p)
    PROVE  Capped(p)'
<1>1. TypeOK /\ pc[p] = "handOver" /\ pc'[p] = "promote"
    BY DEF Recruit, At, Goto, Invariant, TypeOK
<1>2. PICK r \in orphans[p] :
          /\ target'[p] = r
          /\ orphans'[p] = orphans[p] \ {r}
          /\ \/ children' = [children EXCEPT ![r] = {}]
             \/ children' = children
    BY <1>1 DEF Recruit, OthersToReattach, topology, TypeOK
<1>3. r \in Peer /\ children[r] = {}
    <2>1. r \in Detached(p)
        BY DEF Detached
    <2>2. r \in Children
        BY <2>1 DEF Solo, SoloTree
    <2>3. QED
        BY <2>2, Places DEF Children, Supers
<1>4. \A s \in Peer : children'[s] = children[s]
    BY <1>1, <1>2, <1>3 DEF TypeOK
<1>5. Cardinality(children'[r]) = 0
    BY <1>3, <1>4, FS_EmptySet
<1>6. /\ Cardinality(orphans'[p]) = Cardinality(orphans[p]) - 1
      /\ Cardinality(orphans[p]) \in Nat
    <2>1. IsFiniteSet(orphans[p]) /\ Cardinality(orphans[p]) \in Nat
        BY <1>1, SizesAreNat
    <2>2. Cardinality(orphans[p] \ {r}) = Cardinality(orphans[p]) - 1
        BY <2>1, FS_RemoveElement
    <2>3. QED
        BY <1>2, <2>1, <2>2
<1>7. Cardinality(orphans[p]) <= PEER_RATIO
    BY <1>1 DEF Capped, RoomLeft
<1>8. Cardinality(children'[target'[p]]) + Cardinality(orphans'[p]) <= PEER_RATIO
    BY <1>2, <1>5, <1>6, <1>7, RatioAssumption
<1>9. RoomLeft(p)'
    BY <1>1, <1>8 DEF RoomLeft, MovingSteps, BalanceSteps
<1>10. QED
    BY <1>4, <1>9 DEF Capped, LoadCap

LEMMA ReattachCap ==
    ASSUME Invariant, NEW p \in Peer, NEW c \in Peer, Solo(p), Capped(p), Reattach(p, c)
    PROVE  Capped(p)'
<1>1. /\ TypeOK /\ pc[p] = "reattach" /\ pc'[p] \in {"reattach", "reintroduce"}
      /\ c \in orphans[p] /\ orphans'[p] = orphans[p] \ {c}
      /\ target' = target /\ target[p] \in Peer
      /\ AttachUnderLock(c, target[p])
    <2>1. TypeOK /\ LocalsFit(pc[p], child[p], target[p], orphans[p])
        BY DEF Invariant, LocalsAtStep
    <2>2. QED
        BY <2>1 DEF Reattach, At, Goto, LocalsFit, TypeOK
<1>2. PICK t \in Peer : t = target[p]
    BY <1>1
<1>3. /\ Cardinality(orphans'[p]) = Cardinality(orphans[p]) - 1
      /\ Cardinality(orphans'[p]) \in Nat
    <2>1. IsFiniteSet(orphans[p])
        BY <1>1, SizesAreNat
    <2>2. /\ IsFiniteSet(orphans[p] \ {c})
          /\ Cardinality(orphans[p] \ {c}) = Cardinality(orphans[p]) - 1
        BY <1>1, <2>1, FS_RemoveElement
    <2>3. QED
        BY <1>1, <2>2, FS_CardinalityType
<1>4. Cardinality(children[t]) + Cardinality(orphans[p]) <= PEER_RATIO
    BY <1>1, <1>2 DEF Capped, RoomLeft
<1>5. Cardinality(children[t]) \in Nat /\ Cardinality(orphans[p]) \in Nat
    BY <1>1, SizesAreNat
<1>6. Cardinality(children[t]) < PEER_RATIO
    BY <1>3, <1>4, <1>5, RatioAssumption
<1>7. /\ LoadCap'
      /\ Cardinality(children'[t]) <= Cardinality(children[t]) + 1
      /\ Cardinality(children'[t]) \in Nat
    BY <1>1, <1>2, <1>6, OneMoreCap DEF Capped
<1>8. Cardinality(children'[t]) + Cardinality(orphans'[p]) <= PEER_RATIO
    BY <1>3, <1>4, <1>5, <1>7, RatioAssumption
<1>9. RoomLeft(p)'
    BY <1>1, <1>2, <1>8 DEF RoomLeft, MovingSteps, BalanceSteps
<1>10. QED
    BY <1>7, <1>9 DEF Capped

LEMMA LeaveCap ==
    ASSUME Invariant, NEW p \in Peer, Solo(p), Capped(p), LeaveStep(p), ~wedged'
    PROVE  Capped(p)'
<1> USE DEF Goto, At, topology, views, locals
<1>1. TypeOK
    BY DEF Invariant
<1>2. CASE \/ Close(p) \/ RemoveChild(p) \/ RemoveChildFails(p) \/ TellLeft(p)
           \/ NoRecruit(p) \/ FinishLeave(p)
    <2>1. pc'[p] \in {"leaveSuper", "leaveChild", "tellLeft", "done"}
        BY <1>1, <1>2 DEF Close, RemoveChild, RemoveChildFails, TellLeft, NoRecruit,
           FinishLeave, TypeOK
    <2>2. \/ children' = children
          \/ children' = [children EXCEPT ![parent[p]] = @ \ {p}]
        BY <1>2 DEF Close, RemoveChild, RemoveChildFails, TellLeft, NoRecruit, FinishLeave
    <2>3. \A s \in Peer : children'[s] = children[s] \/ children'[s] = children[s] \ {p}
        <3>1. children \in [Peer -> SUBSET Peer]
            BY <1>1 DEF TypeOK
        <3>2. PICK x : x = parent[p]
            OBVIOUS
        <3>3. QED
            BY <2>2, <3>1, <3>2
    <2>4. QED
        BY <1>1, <2>1, <2>3, NoMoreCap DEF RoomSteps, BalanceSteps, MovingSteps
<1>3. CASE \/ \E q \in Peer : TellSuperLeft(p, q) \/ TellChildLeft(p, q)
           \/ Promote(p) \/ Reintroduce(p)
    <2>1. /\ UNCHANGED <<role, children, orphans, target, plan>>
          /\ \/ pc'[p] = pc[p]
             \/ {pc[p], pc'[p]} \subseteq {"promote", "reattach", "reintroduce"}
        BY <1>1, <1>3 DEF TellSuperLeft, TellChildLeft, Promote, Reintroduce, TypeOK
    <2>2. QED
        BY <2>1, SameCap
<1>4. QED
    BY <1>2, <1>3, RemoveSuperCap, RecruitCap, ReattachCap DEF LeaveStep

-----------------------------------------------------------------------------

\* When requests do not overlap, whoever runs knows how much room there is.
LoadInvariant ==
    Serial => LoadCap /\ (~wedged => \A p \in Peer : RoomLeft(p))

LEMMA RestingCap == \A p \in Peer : pc[p] \in Resting => RoomLeft(p)
BY DEF RoomLeft, Resting, MovingSteps, BalanceSteps

\* The step after which the mutex is held for ever, and every later one, leaves the
\* children alone.
LEMMA WedgedCap ==
    ASSUME Invariant, NEW p \in Peer, TaskStep(p), wedged'
    PROVE  children' = children
<1> USE DEF Goto, At, topology, views, locals
<1>1. CASE JoinStep(p)
    BY <1>1 DEF JoinStep, JoinAsSuper, ListSupers, InsertSuper, AnnounceSuper, JoinAsChild,
       AddChild, FindParent, NoParentFound, Attach, AttachFails, Introduce, IntroduceFails,
       TellParent
<1>2. CASE BalanceStep(p)
    BY <1>2 DEF BalanceStep, TooFewSupers, PlanMoves, FinishBalance, TakeChild, TakeChildFor,
       NothingToTake, TellGiver, TellMoved, AttachMoved, IntroduceMoved
<1>3. CASE LeaveStep(p)
    BY <1>3 DEF LeaveStep, Close, RemoveChild, RemoveChildFails, TellLeft, RemoveSuper,
       NoRecruit, Recruit, Promote, TellSuperLeft, TellChildLeft, Reattach, Reintroduce,
       FinishLeave
<1>4. QED
    BY <1>1, <1>2, <1>3 DEF TaskStep

LEMMA NextLoads ==
    Invariant /\ Invariant' /\ SerialInvariant /\ LoadInvariant /\ [Next]_vars
        => LoadInvariant'
<1> SUFFICES ASSUME Invariant, Invariant', SerialInvariant, LoadInvariant, [Next]_vars,
                    Serial
             PROVE  LoadCap' /\ (~wedged' => \A p \in Peer : RoomLeft(p)')
    BY DEF LoadInvariant
<1> USE DEF LoadInvariant, SerialInvariant
<1>1. (\A p \in Peer : pc[p] \in Resting => RoomLeft(p))'
    BY RestingCap, PTL
<1>2. ASSUME NEW p \in Peer, TaskStep(p)
      PROVE  LoadCap' /\ (~wedged' => \A r \in Peer : RoomLeft(r)')
    <2>1. CASE wedged'
        BY <1>2, <2>1, WedgedCap DEF LoadCap
    <2>2. CASE ~wedged'
        <3>1. OthersStay(p) /\ ~wedged
            BY <1>2, <2>2, StepFrame DEF Invariant
        <3>2. Alone(p) /\ Solo(p) /\ Capped(p)
            BY <1>2, <3>1, StepBusy DEF SerialServer, Capped
        <3>3. Capped(p)'
            BY <1>2, <2>2, <3>2, JoinCap, BalanceCap, LeaveCap DEF TaskStep
        <3>4. \A r \in Peer \ {p} : pc'[r] \in Resting
            BY <3>1, <3>2 DEF OthersStay, Alone
        <3>5. QED
            BY <1>1, <3>3, <3>4 DEF Capped
    <2>3. QED
        BY <2>1, <2>2
<1>3. ASSUME NEW p \in Peer, Connect(p)
      PROVE  LoadCap' /\ (~wedged' => \A r \in Peer : RoomLeft(r)')
    <2>1. /\ children' = children /\ ~wedged /\ OthersStay(p) /\ Busy(p)
          /\ pc'[p] = "join"
        BY <1>3 DEF Connect, MayStart, Busy, Goto, OthersStay, topology, Invariant, TypeOK
    <2>2. Alone(p)
        BY <2>1 DEF SerialServer
    <2>3. \A r \in Peer \ {p} : pc'[r] \in Resting
        BY <2>1, <2>2 DEF OthersStay, Alone
    <2>4. RoomLeft(p)'
        BY <2>1 DEF RoomLeft, MovingSteps, BalanceSteps
    <2>5. QED
        BY <1>1, <2>1, <2>3, <2>4 DEF LoadCap
<1>4. ASSUME UNCHANGED <<role, children, wedged, pc, orphans, target, plan>>
      PROVE  LoadCap' /\ (~wedged' => \A r \in Peer : RoomLeft(r)')
    BY <1>4 DEF LoadCap, RoomLeft, PlanFits, Expected, Supers, Children
<1>5. ASSUME NEW p \in Peer, Disconnect(p) \/ \E q \in Peer : Relay(p, q)
      PROVE  LoadCap' /\ (~wedged' => \A r \in Peer : RoomLeft(r)')
    BY <1>4, <1>5 DEF Disconnect, Relay, topology, locals
<1>6. CASE UNCHANGED vars
    BY <1>4, <1>6 DEF vars
<1>7. QED
    BY <1>2, <1>3, <1>5, <1>6 DEF Next

\* When requests do not overlap no super peer has more than PEER_RATIO children, and the
\* lone handler has room for whatever it is about to hang below one.
THEOREM LoadInvariantHolds == Spec => []LoadInvariant
<1>1. Init => LoadInvariant
    <2> SUFFICES ASSUME Init PROVE LoadInvariant
        OBVIOUS
    <2>1. \A p \in Peer : children[p] = {} /\ pc[p] = "new"
        BY DEF Init
    <2>2. \A p \in Peer : RoomLeft(p)
        BY <2>1, RestingCap DEF Resting
    <2>3. LoadCap
        BY <2>1, FS_EmptySet, RatioAssumption DEF LoadCap
    <2>4. QED
        BY <2>2, <2>3 DEF LoadInvariant
<1>2. QED
    BY <1>1, InvariantHolds, SerialInvariantHolds, NextLoads, PTL DEF Spec

\* Requests that do not overlap never leave a super peer with more than PEER_RATIO
\* children: not a join, not the moves of load_balance, not a handover.
THEOREM LoadCapHolds ==
    ASSUME Serial
    PROVE  Spec => []LoadCap
<1>1. LoadInvariant => LoadCap
    BY DEF LoadInvariant
<1>2. QED
    BY <1>1, LoadInvariantHolds, PTL

-----------------------------------------------------------------------------
(* The mutex that is held for ever.                                          *)

\* p has promoted a recruit, which is in the map, and another super peer is there.
HandsOverAmongSupers(p) ==
    pc[p] = "promote" /\ target[p] \in Supers /\ Supers # {target[p]}

\* A peer that is past its join and no child is none again.
NoChildAgain(r) == pc[r] \notin UnplacedSteps /\ role[r] # "child"

\* The recruit is a super peer, or it is gone.
RecruitFits == \A p \in Peer : pc[p] = "promote" => NoChildAgain(target[p])

WedgeHasCause == wedged => \E p \in Peer : HandsOverAmongSupers(p)

\* The map, and what clients are told of each other.
MapAndNews == <<role, parent, children, links, announced>>

WedgeIsFinal == [][wedged => wedged' /\ UNCHANGED MapAndNews]_vars

\* What a task can still do when the mutex is held: what needs no mutex.
LEMMA TaskWhenWedged ==
    ASSUME NEW p \in Peer, TaskStep(p), wedged
    PROVE  TellParent(p) \/ NoRecruit(p) \/ FinishLeave(p)
<1> USE DEF At
<1>1. CASE JoinStep(p)
    BY <1>1 DEF JoinStep, JoinAsSuper, ListSupers, InsertSuper, AnnounceSuper, JoinAsChild,
       AddChild, FindParent, NoParentFound, Attach, AttachFails, Introduce, IntroduceFails
<1>2. CASE BalanceStep(p)
    BY <1>2 DEF BalanceStep, TooFewSupers, PlanMoves, FinishBalance, TakeChild, TakeChildFor,
       NothingToTake, TellGiver, TellMoved, AttachMoved, IntroduceMoved
<1>3. CASE LeaveStep(p)
    BY <1>3 DEF LeaveStep, Close, RemoveChild, RemoveChildFails, TellLeft, RemoveSuper,
       Recruit, Promote, TellSuperLeft, TellChildLeft, Reattach, Reintroduce
<1>4. QED
    BY <1>1, <1>2, <1>3 DEF TaskStep

LEMMA StepWhenWedged ==
    ASSUME Invariant, [Next]_vars, wedged
    PROVE  /\ wedged' /\ UNCHANGED MapAndNews
           /\ \A p \in Peer : pc[p] = "promote" => pc'[p] = pc[p] /\ target'[p] = target[p]
<1> USE DEF Goto, topology, views, locals, MapAndNews
<1>0. TypeOK
    BY DEF Invariant
<1>1. ASSUME NEW p \in Peer, TaskStep(p)
      PROVE  /\ wedged' /\ UNCHANGED MapAndNews
             /\ \A q \in Peer : pc[q] = "promote" => pc'[q] = pc[q] /\ target'[q] = target[q]
    <2>1. TellParent(p) \/ NoRecruit(p) \/ FinishLeave(p)
        BY <1>1, TaskWhenWedged
    <2>2. QED
        BY <1>0, <2>1 DEF TypeOK, TellParent, NoRecruit, FinishLeave
<1>2. ASSUME NEW p \in Peer, Disconnect(p)
      PROVE  /\ wedged' /\ UNCHANGED MapAndNews
             /\ \A q \in Peer : pc[q] = "promote" => pc'[q] = pc[q] /\ target'[q] = target[q]
    BY <1>2 DEF Disconnect
<1>3. ASSUME NEW p \in Peer, NEW q \in Peer PROVE ~Connect(p) /\ ~Relay(p, q)
    BY DEF Connect, Relay, MayStart, At
<1>4. CASE UNCHANGED vars
    BY <1>4 DEF vars
<1>5. QED
    BY <1>1, <1>2, <1>3, <1>4 DEF Next

\* Only Promote can leave the mutex held.
LEMMA TaskWedges ==
    ASSUME NEW p \in Peer, TaskStep(p), ~wedged, wedged'
    PROVE  Promote(p)
<1> USE DEF At, topology, views, locals
<1>1. CASE JoinStep(p)
    BY <1>1 DEF JoinStep, JoinAsSuper, ListSupers, InsertSuper, AnnounceSuper, JoinAsChild,
       AddChild, FindParent, NoParentFound, Attach, AttachFails, Introduce, IntroduceFails,
       TellParent
<1>2. CASE BalanceStep(p)
    BY <1>2 DEF BalanceStep, TooFewSupers, PlanMoves, FinishBalance, TakeChild, TakeChildFor,
       NothingToTake, TellGiver, TellMoved, AttachMoved, IntroduceMoved
<1>3. CASE LeaveStep(p)
    BY <1>3 DEF LeaveStep, Close, RemoveChild, RemoveChildFails, TellLeft, RemoveSuper,
       NoRecruit, Recruit, TellSuperLeft, TellChildLeft, Reattach, Reintroduce,
       FinishLeave
<1>4. QED
    BY <1>1, <1>2, <1>3 DEF TaskStep

LEMMA StaysNoChild ==
    ASSUME Invariant, NEW p \in Peer, TaskStep(p), NEW r \in Peer, NoChildAgain(r)
    PROVE  NoChildAgain(r)'
<1> USE DEF Goto, At, topology, views, locals, NoChildAgain, UnplacedSteps
<1>0. TypeOK
    BY DEF Invariant
<1>1. CASE JoinStep(p)
    BY <1>0, <1>1 DEF TypeOK, JoinStep, JoinAsSuper, ListSupers, InsertSuper, AnnounceSuper,
       JoinAsChild, AddChild, FindParent, NoParentFound, Attach, AttachFails, AttachUnderLock,
       Introduce, IntroduceFails, TellParent
<1>2. CASE BalanceStep(p)
    BY <1>0, <1>2 DEF TypeOK, BalanceStep, TooFewSupers, PlanMoves, FinishBalance, TakeChild,
       TakeChildFor, NothingToTake, TellGiver, TellMoved, AttachMoved, AttachUnderLock,
       IntroduceMoved
<1>3. CASE LeaveStep(p)
    BY <1>0, <1>3 DEF TypeOK, LeaveStep, Close, RemoveChild, RemoveChildFails, TellLeft,
       RemoveSuper, NoRecruit, Recruit, Promote, TellSuperLeft, TellChildLeft, Reattach,
       AttachUnderLock, Reintroduce, FinishLeave
<1>4. QED
    BY <1>1, <1>2, <1>3 DEF TaskStep

\* Only Recruit leads to the step, with a peer that was an orphan in p's hand.
LEMMA ComesToPromote ==
    ASSUME Invariant, NEW p \in Peer, TaskStep(p), NEW q \in Peer, pc'[q] = "promote"
    PROVE  \/ pc[q] = "promote" /\ target'[q] = target[q]
           \/ q = p /\ Recruit(p)
<1> USE DEF Goto, At, topology, views, locals
<1>0. TypeOK
    BY DEF Invariant
<1>1. CASE JoinStep(p)
    BY <1>0, <1>1 DEF TypeOK, JoinStep, JoinAsSuper, ListSupers, InsertSuper, AnnounceSuper,
       JoinAsChild, AddChild, FindParent, NoParentFound, Attach, AttachFails,
       Introduce, IntroduceFails, TellParent
<1>2. CASE BalanceStep(p)
    BY <1>0, <1>2 DEF TypeOK, BalanceStep, TooFewSupers, PlanMoves, FinishBalance, TakeChild,
       TakeChildFor, NothingToTake, TellGiver, TellMoved, AttachMoved, IntroduceMoved
<1>3. CASE \/ Close(p) \/ RemoveChild(p) \/ RemoveChildFails(p) \/ TellLeft(p)
           \/ RemoveSuper(p) \/ NoRecruit(p) \/ FinishLeave(p) \/ Promote(p)
    BY <1>0, <1>3 DEF TypeOK, Close, RemoveChild, RemoveChildFails, TellLeft,
       RemoveSuper, NoRecruit, FinishLeave, Promote
<1>4. ASSUME NEW r \in Peer,
             \/ TellSuperLeft(p, r) \/ TellChildLeft(p, r) \/ Reattach(p, r) \/ Reintroduce(p)
      PROVE  pc[q] = "promote" /\ target'[q] = target[q]
    BY <1>0, <1>4 DEF TypeOK, TellSuperLeft, TellChildLeft, Reattach, Reintroduce
<1>5. CASE Recruit(p)
    BY <1>0, <1>5 DEF TypeOK, Recruit
<1>6. QED
    BY <1>1, <1>2, <1>3, <1>4, <1>5 DEF TaskStep, LeaveStep

LEMMA NextRecruitFits == Invariant /\ RecruitFits /\ [Next]_vars => RecruitFits'
<1> SUFFICES ASSUME Invariant, RecruitFits, [Next]_vars, NEW q \in Peer, pc'[q] = "promote"
             PROVE  NoChildAgain(target[q])'
    BY DEF RecruitFits
<1> USE DEF topology, views, locals
<1>0. TypeOK /\ \A p \in Peer : pc[p] = "promote" => target[p] \in Peer
    BY DEF Invariant, LocalsAtStep, LocalsFit
<1>1. ASSUME NEW p \in Peer, TaskStep(p) PROVE NoChildAgain(target[q])'
    <2>1. CASE pc[q] = "promote" /\ target'[q] = target[q]
        <3>1. target[q] \in Peer /\ NoChildAgain(target[q])
            BY <1>0, <2>1 DEF RecruitFits
        <3>2. PICK r \in Peer : r = target[q] /\ NoChildAgain(r)
            BY <3>1
        <3>3. NoChildAgain(r)'
            BY <1>1, <3>2, StaysNoChild
        <3>4. QED
            BY <2>1, <3>2, <3>3 DEF NoChildAgain
    <2>2. CASE q = p /\ Recruit(p)
        <3>1. PICK r \in orphans[p] : /\ target' = [target EXCEPT ![p] = r]
                                      /\ role' = IF role[r] # "absent"
                                                 THEN [role EXCEPT ![r] = "super"] ELSE role
            BY <2>2 DEF Recruit
        <3>2. r \in Peer /\ target'[q] = r /\ role'[r] # "child" /\ pc[p] = "handOver"
            BY <1>0, <2>2, <3>1 DEF TypeOK, Recruit, At
        <3>3. pc[r] \notin UnplacedSteps
            BY <3>1, <3>2 DEF Invariant, Custody, InOnePlace, Unplaced, Hand
        <3>4. pc'[r] \notin UnplacedSteps
            BY <1>0, <2>2, <3>2, <3>3 DEF TypeOK, Recruit, Goto, UnplacedSteps
        <3>5. QED
            BY <3>2, <3>4 DEF NoChildAgain
    <2>3. QED
        BY <1>1, <2>1, <2>2, ComesToPromote
<1>2. ASSUME /\ role' = role /\ target' = target
             /\ pc' = pc \/ \E p \in Peer : pc[p] = "new" /\ pc' = [pc EXCEPT ![p] = "join"]
      PROVE  NoChildAgain(target[q])'
    <2>1. pc[q] = "promote"
        BY <1>0, <1>2 DEF TypeOK
    <2>2. target[q] \in Peer /\ NoChildAgain(target[q])
        BY <1>0, <2>1 DEF RecruitFits
    <2>3. pc'[target[q]] \notin UnplacedSteps
        BY <1>0, <1>2, <2>2 DEF TypeOK, NoChildAgain, UnplacedSteps
    <2>4. QED
        BY <1>2, <2>2, <2>3 DEF NoChildAgain
<1>3. QED
    BY <1>1, <1>2 DEF Next, Connect, Disconnect, Relay, Goto, vars

LEMMA NextWedges ==
    Invariant /\ RecruitFits /\ WedgeHasCause /\ [Next]_vars => WedgeHasCause'
<1> SUFFICES ASSUME Invariant, RecruitFits, WedgeHasCause, [Next]_vars, wedged'
             PROVE  \E p \in Peer : HandsOverAmongSupers(p)'
    BY DEF WedgeHasCause
<1>1. CASE wedged
    <2>1. PICK p \in Peer : HandsOverAmongSupers(p)
        BY <1>1 DEF WedgeHasCause
    <2>2. pc'[p] = "promote" /\ target'[p] = target[p] /\ role' = role
        BY <1>1, <2>1, StepWhenWedged DEF HandsOverAmongSupers, MapAndNews
    <2>3. HandsOverAmongSupers(p)'
        BY <2>1, <2>2 DEF HandsOverAmongSupers, Supers
    <2>4. QED
        BY <2>3
<1>2. CASE ~wedged
    <2>1. PICK p \in Peer : TaskStep(p)
        BY <1>2 DEF Next, Connect, Disconnect, Relay, vars
    <2>2. Promote(p)
        BY <1>2, <2>1, TaskWedges
    <2>3. /\ role' = role /\ target' = target /\ pc[p] = "promote" /\ pc'[p] = "promote"
          /\ role[target[p]] # "absent" /\ Supers \ {target[p]} # {}
        BY <1>2, <2>2 DEF Promote, At, Goto, topology, locals, Invariant, TypeOK
    <2>4. target[p] \in Peer /\ role[target[p]] = "super"
        BY <2>3 DEF Invariant, TypeOK, LocalsAtStep, LocalsFit, RecruitFits, NoChildAgain, Roles
    <2>5. HandsOverAmongSupers(p)'
        BY <2>3, <2>4 DEF HandsOverAmongSupers, Supers
    <2>6. QED
        BY <2>5
<1>3. QED
    BY <1>1, <1>2

\* The mutex is held for ever for one reason only: a super peer that leaves has
\* promoted a former child, which is in the map, while there is another super peer.
\* So a server in whose map two super peers never meet does not stop.
THEOREM WedgeHasCauseHolds == Spec => []WedgeHasCause
<1>1. Init => WedgeHasCause /\ RecruitFits
    BY DEF Init, WedgeHasCause, RecruitFits
<1>2. QED
    BY <1>1, NextWedges, NextRecruitFits, InvariantHolds, PTL DEF Spec

\* Then nothing more happens: the mutex is not released, the map stays as it is,
\* and no client is told of another one again.
THEOREM WedgeIsFinalHolds == Spec => WedgeIsFinal
<1>1. Invariant /\ [Next]_vars => [wedged => wedged' /\ UNCHANGED MapAndNews]_vars
    BY StepWhenWedged
<1>2. QED
    BY <1>1, InvariantHolds, PTL DEF Spec, WedgeIsFinal
=============================================================================
