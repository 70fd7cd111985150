----------------------- MODULE SignalingHybridProofs -----------------------
(***************************************************************************)
(* Proofs about SignalingHybrid, for any finite set of peers, any start    *)
(* and any interleaving of the tasks and their nested locks.               *)
(***************************************************************************)
EXTENDS SignalingHybrid, FiniteSetTheorems, TLAPS

-----------------------------------------------------------------------------
(* Type correctness. *)

LEMMA Membership ==
    ASSUME NEW S
    PROVE  [p \in Peer |-> p \in S] \in [Peer -> BOOLEAN]
BY SMT

LEMMA InitType == Init => TypeOK
<1> SUFFICES ASSUME Init PROVE TypeOK
    OBVIOUS
<1>1. PICK start \in Starts : /\ serial = start.serial
                              /\ StartsWith(start.elders, start.joiners)
    BY DEF Init
<1>2. /\ start.serial \in BOOLEAN
      /\ start.elders \subseteq Peer
    BY StartsAssumption
<1>3. serial \in BOOLEAN /\ superPeers \subseteq Peer
    BY <1>1, <1>2 DEF StartsWith
<1>4. superFlag \in [Peer -> BOOLEAN] /\ open \in [Peer -> BOOLEAN]
    BY <1>1, Membership, Zenon DEF StartsWith
<1>5. links \in [Peer -> SUBSET Peer]
    BY <1>1, <1>2 DEF StartsWith
<1>6. pc \in [Peer -> Resting]
    BY <1>1 DEF StartsWith, Resting
<1>7. QED
    BY <1>3, <1>4, <1>5, <1>6 DEF Init, TypeOK

LEMMA TellType ==
    ASSUME TypeOK, NEW m, NEW q, NEW K \in SUBSET Peer, Tell(m, q, K)
    PROVE  links' \in [Peer -> SUBSET Peer]
BY DEF TypeOK, Tell

LEMMA JoinStepType ==
    ASSUME TypeOK, NEW p \in Peer, LocalsFit(p), JoinStep(p)
    PROVE  TypeOK'
<1> USE DEF TypeOK, shape, locals, Goto, At, Resting, SuperSteps, ChildSteps
<1>1. CASE Join(p)
    BY <1>1 DEF Join
<1>2. CASE ListSupers(p)
    BY <1>2 DEF ListSupers
<1>3. CASE InsertSuper(p)
    BY <1>3 DEF InsertSuper, LocalsFit
<1>4. ASSUME NEW q \in Peer, Announce(p, q) PROVE TypeOK'
    <2>1. links[q] \cup {target[p]} \in SUBSET Peer
        BY <1>4 DEF Announce, LocalsFit
    <2>2. links' \in [Peer -> SUBSET Peer]
        BY <1>4, <2>1, TellType DEF Announce
    <2>3. QED
        BY <1>4, <2>2 DEF Announce
<1>5. CASE AddChild(p)
    BY <1>5 DEF AddChild
<1>6. CASE Find(p)
    BY <1>6 DEF Find
<1>7. CASE FindsNone(p)
    BY <1>7 DEF FindsNone
<1>8. CASE Attach(p)
    BY <1>8 DEF Attach, LocalsFit
<1>9. CASE SetParent(p)
    BY <1>9 DEF SetParent
<1>10. CASE Introduce(p)
    <2>1. links[target[p]] \cup {child[p]} \in SUBSET Peer
        BY <1>10 DEF Introduce, LocalsFit
    <2>2. links' \in [Peer -> SUBSET Peer]
        BY <1>10, <2>1, TellType DEF Introduce
    <2>3. QED
        BY <1>10, <2>2 DEF Introduce
<1>11. CASE IntroduceFails(p)
    BY <1>11 DEF IntroduceFails
<1>12. CASE Check(p)
    BY <1>12 DEF Check
<1>13. QED
    BY <1>1, <1>2, <1>3, <1>4, <1>5, <1>6, <1>7, <1>8, <1>9, <1>10, <1>11,
       <1>12 DEF JoinStep

LEMMA LeaveStepType ==
    ASSUME TypeOK, NEW p \in Peer, LocalsFit(p), LeaveStep(p)
    PROVE  TypeOK'
<1> USE DEF TypeOK, shape, locals, Goto, At, Resting, SuperSteps, ChildSteps
<1>1. CASE Close(p)
    BY <1>1 DEF Close
<1>2. CASE RemoveChild(p)
    BY <1>2 DEF RemoveChild
<1>3. CASE TellParent(p)
    <2>1. links[target[p]] \ {p} \in SUBSET Peer
        BY <1>3 DEF TellParent, LocalsFit
    <2>2. links' \in [Peer -> SUBSET Peer]
        BY <1>3, <2>1, TellType DEF TellParent
    <2>3. QED
        BY <1>3, <2>2 DEF TellParent
<1>4. CASE Forget(p)
    BY <1>4 DEF Forget
<1>5. CASE RemoveSuper(p)
    BY <1>5 DEF RemoveSuper
<1>6. CASE CopySupers(p)
    BY <1>6 DEF CopySupers
<1>7. CASE SupersTold(p)
    BY <1>7 DEF SupersTold
<1>8. CASE ChildrenTold(p)
    BY <1>8 DEF ChildrenTold
<1>9. ASSUME NEW q \in Peer, TellSuper(p, q) \/ TellChild(p, q) PROVE TypeOK'
    <2>1. links[q] \ {p} \in SUBSET Peer
        OBVIOUS
    <2>2. links' \in [Peer -> SUBSET Peer]
        BY <1>9, <2>1, TellType DEF TellSuper, TellChild
    <2>3. QED
        BY <1>9, <2>2 DEF TellSuper, TellChild
<1>10. ASSUME NEW q \in Peer, Reattach(p, q) PROVE TypeOK'
    BY <1>10 DEF Reattach
<1>11. CASE Recruit(p)
    BY <1>11 DEF Recruit
<1>12. CASE FinishLeave(p)
    BY <1>12 DEF FinishLeave
<1>13. QED
    BY <1>1, <1>2, <1>3, <1>4, <1>5, <1>6, <1>7, <1>8, <1>9, <1>10, <1>11,
       <1>12 DEF LeaveStep

-----------------------------------------------------------------------------
(* A task changes nothing that other tasks have in their hands. *)

OnlyTask(p) ==
    \A q \in Peer \ {p} :
        /\ pc'[q] = pc[q] /\ superFlag'[q] = superFlag[q]
        /\ orphans'[q] = orphans[q] /\ target'[q] = target[q] /\ child'[q] = child[q]

LEMMA JoinStepFrame ==
    ASSUME TypeOK, NEW p \in Peer, JoinStep(p)
    PROVE  OnlyTask(p)
<1> USE DEF TypeOK, OnlyTask, Goto, shape, locals
<1>1. CASE Join(p)
    BY <1>1 DEF Join
<1>2. CASE ListSupers(p)
    BY <1>2 DEF ListSupers
<1>3. CASE InsertSuper(p)
    BY <1>3 DEF InsertSuper
<1>4. CASE AddChild(p)
    BY <1>4 DEF AddChild
<1>5. CASE Find(p)
    BY <1>5 DEF Find
<1>6. CASE FindsNone(p)
    BY <1>6 DEF FindsNone
<1>7. CASE Attach(p)
    BY <1>7 DEF Attach
<1>8. CASE SetParent(p)
    BY <1>8 DEF SetParent
<1>9. CASE Introduce(p)
    BY <1>9 DEF Introduce
<1>10. CASE IntroduceFails(p)
    BY <1>10 DEF IntroduceFails
<1>11. CASE Check(p)
    BY <1>11 DEF Check
<1>12. ASSUME NEW q \in Peer, Announce(p, q) PROVE OnlyTask(p)
    BY <1>12 DEF Announce
<1>13. QED
    BY <1>1, <1>2, <1>3, <1>4, <1>5, <1>6, <1>7, <1>8, <1>9, <1>10, <1>11,
       <1>12 DEF JoinStep

LEMMA LeaveStepFrame ==
    ASSUME TypeOK, NEW p \in Peer, LeaveStep(p)
    PROVE  OnlyTask(p)
<1> USE DEF TypeOK, OnlyTask, Goto, shape, locals
<1>1. CASE Close(p)
    BY <1>1 DEF Close
<1>2. CASE RemoveChild(p)
    BY <1>2 DEF RemoveChild
<1>3. CASE TellParent(p)
    BY <1>3 DEF TellParent
<1>4. CASE Forget(p)
    BY <1>4 DEF Forget
<1>5. CASE RemoveSuper(p)
    BY <1>5 DEF RemoveSuper
<1>6. CASE CopySupers(p)
    BY <1>6 DEF CopySupers
<1>7. CASE SupersTold(p)
    BY <1>7 DEF SupersTold
<1>8. CASE ChildrenTold(p)
    BY <1>8 DEF ChildrenTold
<1>9. CASE Recruit(p)
    BY <1>9 DEF Recruit
<1>10. CASE FinishLeave(p)
    BY <1>10 DEF FinishLeave
<1>11. ASSUME NEW q \in Peer, TellSuper(p, q) PROVE OnlyTask(p)
    BY <1>11 DEF TellSuper
<1>12. ASSUME NEW q \in Peer, TellChild(p, q) PROVE OnlyTask(p)
    BY <1>12 DEF TellChild
<1>13. ASSUME NEW q \in Peer, Reattach(p, q) PROVE OnlyTask(p)
    BY <1>13 DEF Reattach
<1>14. QED
    BY <1>1, <1>2, <1>3, <1>4, <1>5, <1>6, <1>7, <1>8, <1>9, <1>10, <1>11,
       <1>12, <1>13 DEF LeaveStep

LEMMA OtherHands ==
    ASSUME NEW p, OnlyTask(p), NEW q \in Peer, q # p
    PROVE  /\ Moved(q)' = Moved(q) /\ Hand(q)' = Hand(q)
           /\ HandsOver(q)' <=> HandsOver(q)
           /\ Placeless(q)' <=> Placeless(q)
           /\ NoChild(q)' <=> NoChild(q)
<1>1. Moved(q)' = Moved(q) /\ Hand(q)' = Hand(q)
    BY DEF OnlyTask, Moved, Hand
<1>2. HandsOver(q)' <=> HandsOver(q)
    BY DEF OnlyTask, HandsOver
<1>3. QED
    BY <1>1, <1>2 DEF OnlyTask, Placeless, NoChild

\* What holds of the other tasks goes on to hold when a step of p takes no other
\* peer out of super_peers, puts none but an unplaced p into child_peers, and
\* puts no other unplaced peer anywhere.
LEMMA OthersFit ==
    ASSUME NEW p \in Peer, OnlyTask(p), NEW q \in Peer, q # p, TaskFits(q),
           superPeers \ {p} \subseteq superPeers',
           childPeers' \subseteq childPeers \cup {p},
           p \in childPeers' => p \in childPeers \/ Unplaced(p),
           \A c \in Peer \ {p} : Unplaced(c) => Unplaced(c)'
    PROVE  TaskFits(q)'
<1>1. /\ Moved(q)' = Moved(q) /\ Hand(q)' = Hand(q)
      /\ HandsOver(q)' <=> HandsOver(q)
      /\ Placeless(q)' <=> Placeless(q)
      /\ NoChild(q)' <=> NoChild(q)
    BY OtherHands
<1>2. LocalsFit(q)'
    <2>1. pc[q] \in {"listSupers", "announce"} => Moved(q) \cap childPeers' = {}
        BY DEF TaskFits, LocalsFit, Unplaced, Hand
    <2>2. QED
        BY <1>1, <2>1 DEF TaskFits, LocalsFit, OnlyTask
<1>3. FlagFits(q)'
    BY <1>1 DEF TaskFits, FlagFits, OnlyTask
<1>4. QED
    BY <1>1, <1>2, <1>3 DEF TaskFits

\* Steps after which every peer is where it was, or nowhere.
LEMMA PlacesShrink ==
    ASSUME Custody,
           superPeers' \subseteq superPeers, childPeers' \subseteq childPeers,
           \A s \in Peer : /\ children'[s] \subseteq children[s]
                           /\ Hand(s)' \subseteq Hand(s)
                           /\ children'[s] # {} => s \in superPeers'
    PROVE  Custody' /\ \A c \in Peer : Unplaced(c) => Unplaced(c)'
BY DEF Custody, InOnePlace, Unplaced

-----------------------------------------------------------------------------
(* What a step of task p must give, for the invariant to hold again. *)

Keeps(p) ==
    /\ Custody'
    /\ TaskFits(p)'
    /\ superPeers \ {p} \subseteq superPeers'
    /\ childPeers' \subseteq childPeers \cup {p}
    /\ p \in childPeers' => p \in childPeers \/ Unplaced(p)
    /\ \A c \in Peer \ {p} : Unplaced(c) => Unplaced(c)'

\* A step that moves nobody: the maps, the children and the orphans stay.
LEMMA QuietStep ==
    ASSUME Custody, NEW p \in Peer, OnlyTask(p),
           UNCHANGED <<superPeers, children, childPeers, orphans>>,
           Moved(p)' \subseteq Moved(p),
           LocalsFit(p)', FlagFits(p)',
           Placeless(p)' => Unplaced(p), NoChild(p)' => p \notin childPeers
    PROVE  Keeps(p)
<1>1. \A s \in Peer : Hand(s)' \subseteq Hand(s)
    BY OtherHands DEF Hand
<1>2. Custody' /\ \A c \in Peer : Unplaced(c) => Unplaced(c)'
    BY <1>1, PlacesShrink DEF Custody
<1>3. QED
    BY <1>2 DEF Keeps, TaskFits

LEMMA QuietJoinStep ==
    ASSUME PlacesFit, NEW p \in Peer, \/ Join(p) \/ ListSupers(p) \/ Find(p) \/ FindsNone(p)
           \/ SetParent(p) \/ Introduce(p) \/ IntroduceFails(p) \/ Check(p)
           \/ \E q \in Peer : Announce(p, q),
           OnlyTask(p)
    PROVE  Keeps(p)
<1> USE DEF Goto, At, shape, locals, TypeOK, TaskFits, LocalsFit, FlagFits, Placeless,
            NoChild, HandsOver, Moved
<1>0. TypeOK /\ Custody /\ TaskFits(p)
    BY DEF PlacesFit
<1>1. CASE Join(p)
    <2>1. UNCHANGED <<superPeers, children, childPeers, orphans>>
        BY <1>1 DEF Join
    <2>2. Moved(p)' \subseteq Moved(p)
        BY <1>0, <1>1 DEF Join
    <2>3. LocalsFit(p)' /\ FlagFits(p)'
        BY <1>0, <1>1 DEF Join
    <2>4. (Placeless(p)' => Unplaced(p)) /\ (NoChild(p)' => p \notin childPeers)
        BY <1>0, <1>1 DEF Join
    <2>5. QED
        BY <1>0, <2>1, <2>2, <2>3, <2>4, QuietStep
<1>2. CASE ListSupers(p)
    <2>1. UNCHANGED <<superPeers, children, childPeers, orphans>>
        BY <1>2 DEF ListSupers
    <2>2. Moved(p)' \subseteq Moved(p)
        BY <1>0, <1>2 DEF ListSupers
    <2>3. LocalsFit(p)' /\ FlagFits(p)'
        BY <1>0, <1>2 DEF ListSupers
    <2>4. (Placeless(p)' => Unplaced(p)) /\ (NoChild(p)' => p \notin childPeers)
        BY <1>0, <1>2 DEF ListSupers
    <2>5. QED
        BY <1>0, <2>1, <2>2, <2>3, <2>4, QuietStep
<1>3. CASE Find(p)
    <2>1. UNCHANGED <<superPeers, children, childPeers, orphans>>
        BY <1>3 DEF Find
    <2>2. Moved(p)' \subseteq Moved(p)
        BY <1>0, <1>3 DEF Find
    <2>3. LocalsFit(p)' /\ FlagFits(p)'
        BY <1>0, <1>3 DEF Find
    <2>4. (Placeless(p)' => Unplaced(p)) /\ (NoChild(p)' => p \notin childPeers)
        BY <1>0, <1>3 DEF Find
    <2>5. QED
        BY <1>0, <2>1, <2>2, <2>3, <2>4, QuietStep
<1>4. CASE FindsNone(p)
    <2>1. UNCHANGED <<superPeers, children, childPeers, orphans>>
        BY <1>4 DEF FindsNone
    <2>2. Moved(p)' \subseteq Moved(p)
        BY <1>0, <1>4 DEF FindsNone
    <2>3. LocalsFit(p)' /\ FlagFits(p)'
        BY <1>0, <1>4 DEF FindsNone
    <2>4. (Placeless(p)' => Unplaced(p)) /\ (NoChild(p)' => p \notin childPeers)
        BY <1>0, <1>4 DEF FindsNone
    <2>5. QED
        BY <1>0, <2>1, <2>2, <2>3, <2>4, QuietStep
<1>5. CASE SetParent(p)
    <2>1. UNCHANGED <<superPeers, children, childPeers, orphans>>
        BY <1>5 DEF SetParent
    <2>2. Moved(p)' \subseteq Moved(p)
        BY <1>0, <1>5 DEF SetParent
    <2>3. LocalsFit(p)' /\ FlagFits(p)'
        BY <1>0, <1>5 DEF SetParent
    <2>4. (Placeless(p)' => Unplaced(p)) /\ (NoChild(p)' => p \notin childPeers)
        BY <1>0, <1>5 DEF SetParent
    <2>5. QED
        BY <1>0, <2>1, <2>2, <2>3, <2>4, QuietStep
<1>6. CASE Introduce(p)
    <2>1. UNCHANGED <<superPeers, children, childPeers, orphans>>
        BY <1>6 DEF Introduce
    <2>2. Moved(p)' \subseteq Moved(p)
        BY <1>0, <1>6 DEF Introduce
    <2>3. LocalsFit(p)' /\ FlagFits(p)'
        BY <1>0, <1>6 DEF Introduce
    <2>4. (Placeless(p)' => Unplaced(p)) /\ (NoChild(p)' => p \notin childPeers)
        BY <1>0, <1>6 DEF Introduce
    <2>5. QED
        BY <1>0, <2>1, <2>2, <2>3, <2>4, QuietStep
<1>7. CASE IntroduceFails(p)
    <2>1. UNCHANGED <<superPeers, children, childPeers, orphans>>
        BY <1>7 DEF IntroduceFails
    <2>2. Moved(p)' \subseteq Moved(p)
        BY <1>0, <1>7 DEF IntroduceFails
    <2>3. LocalsFit(p)' /\ FlagFits(p)'
        BY <1>0, <1>7 DEF IntroduceFails
    <2>4. (Placeless(p)' => Unplaced(p)) /\ (NoChild(p)' => p \notin childPeers)
        BY <1>0, <1>7 DEF IntroduceFails
    <2>5. QED
        BY <1>0, <2>1, <2>2, <2>3, <2>4, QuietStep
<1>8. CASE Check(p)
    <2>1. UNCHANGED <<superPeers, children, childPeers, orphans>>
        BY <1>8 DEF Check
    <2>2. Moved(p)' \subseteq Moved(p)
        BY <1>0, <1>8 DEF Check
    <2>3. LocalsFit(p)' /\ FlagFits(p)'
        BY <1>0, <1>8 DEF Check
    <2>4. (Placeless(p)' => Unplaced(p)) /\ (NoChild(p)' => p \notin childPeers)
        BY <1>0, <1>8 DEF Check
    <2>5. QED
        BY <1>0, <2>1, <2>2, <2>3, <2>4, QuietStep
<1>9. ASSUME NEW q \in Peer, Announce(p, q) PROVE Keeps(p)
    <2>1. UNCHANGED <<superPeers, children, childPeers, orphans>>
        BY <1>9 DEF Announce
    <2>2. Moved(p)' \subseteq Moved(p)
        BY <1>0, <1>9 DEF Announce
    <2>3. LocalsFit(p)' /\ FlagFits(p)'
        BY <1>0, <1>9 DEF Announce
    <2>4. (Placeless(p)' => Unplaced(p)) /\ (NoChild(p)' => p \notin childPeers)
        BY <1>0, <1>9 DEF Announce
    <2>5. QED
        BY <1>0, <2>1, <2>2, <2>3, <2>4, QuietStep
<1>10. QED
    BY <1>1, <1>2, <1>3, <1>4, <1>5, <1>6, <1>7, <1>8, <1>9

LEMMA QuietLeaveStep ==
    ASSUME PlacesFit, NEW p \in Peer, \/ Close(p) \/ TellParent(p) \/ CopySupers(p) \/ SupersTold(p)
           \/ ChildrenTold(p) \/ FinishLeave(p)
           \/ \E q \in Peer : TellSuper(p, q) \/ TellChild(p, q),
           OnlyTask(p)
    PROVE  Keeps(p)
<1> USE DEF Goto, At, shape, locals, TypeOK, TaskFits, LocalsFit, FlagFits, Placeless,
            NoChild, HandsOver, Moved
<1>0. TypeOK /\ Custody /\ TaskFits(p)
    BY DEF PlacesFit
<1>1. CASE Close(p)
    <2>1. UNCHANGED <<superPeers, children, childPeers, orphans>>
        BY <1>1 DEF Close
    <2>2. Moved(p)' \subseteq Moved(p)
        BY <1>0, <1>1 DEF Close
    <2>3. LocalsFit(p)' /\ FlagFits(p)'
        BY <1>0, <1>1 DEF Close
    <2>4. (Placeless(p)' => Unplaced(p)) /\ (NoChild(p)' => p \notin childPeers)
        BY <1>0, <1>1 DEF Close
    <2>5. QED
        BY <1>0, <2>1, <2>2, <2>3, <2>4, QuietStep
<1>2. CASE TellParent(p)
    <2>1. UNCHANGED <<superPeers, children, childPeers, orphans>>
        BY <1>2 DEF TellParent
    <2>2. Moved(p)' \subseteq Moved(p)
        BY <1>0, <1>2 DEF TellParent
    <2>3. LocalsFit(p)' /\ FlagFits(p)'
        BY <1>0, <1>2 DEF TellParent
    <2>4. (Placeless(p)' => Unplaced(p)) /\ (NoChild(p)' => p \notin childPeers)
        BY <1>0, <1>2 DEF TellParent
    <2>5. QED
        BY <1>0, <2>1, <2>2, <2>3, <2>4, QuietStep
<1>3. CASE CopySupers(p)
    <2>1. UNCHANGED <<superPeers, children, childPeers, orphans>>
        BY <1>3 DEF CopySupers
    <2>2. Moved(p)' \subseteq Moved(p)
        BY <1>0, <1>3 DEF CopySupers
    <2>3. LocalsFit(p)' /\ FlagFits(p)'
        BY <1>0, <1>3 DEF CopySupers
    <2>4. (Placeless(p)' => Unplaced(p)) /\ (NoChild(p)' => p \notin childPeers)
        BY <1>0, <1>3 DEF CopySupers
    <2>5. QED
        BY <1>0, <2>1, <2>2, <2>3, <2>4, QuietStep
<1>4. CASE SupersTold(p)
    <2>1. UNCHANGED <<superPeers, children, childPeers, orphans>>
        BY <1>4 DEF SupersTold
    <2>2. Moved(p)' \subseteq Moved(p)
        BY <1>0, <1>4 DEF SupersTold
    <2>3. LocalsFit(p)' /\ FlagFits(p)'
        BY <1>0, <1>4 DEF SupersTold
    <2>4. (Placeless(p)' => Unplaced(p)) /\ (NoChild(p)' => p \notin childPeers)
        BY <1>0, <1>4 DEF SupersTold
    <2>5. QED
        BY <1>0, <2>1, <2>2, <2>3, <2>4, QuietStep
<1>5. CASE ChildrenTold(p)
    <2>1. UNCHANGED <<superPeers, children, childPeers, orphans>>
        BY <1>5 DEF ChildrenTold
    <2>2. Moved(p)' \subseteq Moved(p)
        BY <1>0, <1>5 DEF ChildrenTold
    <2>3. LocalsFit(p)' /\ FlagFits(p)'
        BY <1>0, <1>5 DEF ChildrenTold
    <2>4. (Placeless(p)' => Unplaced(p)) /\ (NoChild(p)' => p \notin childPeers)
        BY <1>0, <1>5 DEF ChildrenTold
    <2>5. QED
        BY <1>0, <2>1, <2>2, <2>3, <2>4, QuietStep
<1>6. CASE FinishLeave(p)
    <2>1. UNCHANGED <<superPeers, children, childPeers, orphans>>
        BY <1>6 DEF FinishLeave
    <2>2. Moved(p)' \subseteq Moved(p)
        BY <1>0, <1>6 DEF FinishLeave
    <2>3. LocalsFit(p)' /\ FlagFits(p)'
        BY <1>0, <1>6 DEF FinishLeave
    <2>4. (Placeless(p)' => Unplaced(p)) /\ (NoChild(p)' => p \notin childPeers)
        BY <1>0, <1>6 DEF FinishLeave
    <2>5. QED
        BY <1>0, <2>1, <2>2, <2>3, <2>4, QuietStep
<1>7. ASSUME NEW q \in Peer, TellSuper(p, q) PROVE Keeps(p)
    <2>1. UNCHANGED <<superPeers, children, childPeers, orphans>>
        BY <1>7 DEF TellSuper
    <2>2. Moved(p)' \subseteq Moved(p)
        BY <1>0, <1>7 DEF TellSuper
    <2>3. LocalsFit(p)' /\ FlagFits(p)'
        BY <1>0, <1>7 DEF TellSuper
    <2>4. (Placeless(p)' => Unplaced(p)) /\ (NoChild(p)' => p \notin childPeers)
        BY <1>0, <1>7 DEF TellSuper
    <2>5. QED
        BY <1>0, <2>1, <2>2, <2>3, <2>4, QuietStep
<1>8. ASSUME NEW q \in Peer, TellChild(p, q) PROVE Keeps(p)
    <2>1. UNCHANGED <<superPeers, children, childPeers, orphans>>
        BY <1>8 DEF TellChild
    <2>2. Moved(p)' \subseteq Moved(p)
        BY <1>0, <1>8 DEF TellChild
    <2>3. LocalsFit(p)' /\ FlagFits(p)'
        BY <1>0, <1>8 DEF TellChild
    <2>4. (Placeless(p)' => Unplaced(p)) /\ (NoChild(p)' => p \notin childPeers)
        BY <1>0, <1>8 DEF TellChild
    <2>5. QED
        BY <1>0, <2>1, <2>2, <2>3, <2>4, QuietStep
<1>9. QED
    BY <1>1, <1>2, <1>3, <1>4, <1>5, <1>6, <1>7, <1>8

-----------------------------------------------------------------------------
(* The steps that move a peer. *)

\* p joins, or hands its place to a recruit.
LEMMA KeepsInsertSuper ==
    ASSUME PlacesFit, NEW p \in Peer, OnlyTask(p), InsertSuper(p)
    PROVE  Keeps(p)
<1> USE DEF Goto, At, shape, locals
<1> DEFINE r == target[p]
<1>1. TypeOK /\ Custody /\ TaskFits(p) /\ pc[p] = "announce" /\ r \in Peer
    BY DEF PlacesFit, TaskFits, LocalsFit, InsertSuper
<1>2. Unplaced(p) /\ (r = p \/ r \in Hand(p))
    BY <1>1 DEF TaskFits, Placeless, Hand, Moved
<1>3. r \notin childPeers
    BY <1>1 DEF TaskFits, NoChild, LocalsFit, Moved
<1>4. /\ r \notin superPeers
      /\ \A s \in Peer : r \notin children[s] /\ (s # p => r \notin Hand(s))
    BY <1>1, <1>2 DEF Unplaced, Custody, InOnePlace
<1>5. r \notin orphans[p]
    BY <1>1, <1>2 DEF TaskFits, LocalsFit, Moved, Unplaced, Hand
<1>6. /\ superPeers' = superPeers \cup {r} /\ childPeers' = childPeers
      /\ children' = [children EXCEPT ![r] = {}]
    BY DEF InsertSuper
<1>7. Hand(p)' = orphans[p] /\ \A s \in Peer \ {p} : Hand(s)' = Hand(s)
    BY <1>1, OtherHands DEF InsertSuper, Hand, Moved, TypeOK
<1>8. Custody'
    <2>1. ASSUME NEW c \in Peer PROVE InOnePlace(c)'
        <3>1. \A t \in Peer : children'[t] \subseteq children[t] /\ Hand(t)' \subseteq Hand(t)
            BY <1>1, <1>6, <1>7 DEF TypeOK, Hand
        <3>2. \A t \in Peer : r \notin children'[t] /\ r \notin Hand(t)'
            BY <1>4, <1>5, <1>7, <3>1
        <3>3. InOnePlace(c)
            BY <1>1 DEF Custody
        <3>4. QED
            BY <1>3, <1>6, <3>1, <3>2, <3>3 DEF InOnePlace
    <2>2. ASSUME NEW s \in Peer, children'[s] # {} PROVE s \in superPeers'
        BY <1>1, <1>6, <2>2 DEF Custody, TypeOK
    <2>3. QED
        BY <2>1, <2>2 DEF Custody
<1>9. ASSUME NEW c \in Peer, c # r, Unplaced(c)
      PROVE  Unplaced(c)'
    BY <1>1, <1>6, <1>7, <1>9 DEF Unplaced, TypeOK, Hand
<1>10. ASSUME NEW c \in Peer \ {p}, Unplaced(c) PROVE Unplaced(c)'
    BY <1>2, <1>9, <1>10 DEF Unplaced
<1>11. TaskFits(p)'
    <2>1. CASE r = p
        BY <1>1, <2>1 DEF InsertSuper, TypeOK, TaskFits, LocalsFit, FlagFits,
           Placeless, NoChild, HandsOver, Moved
    <2>2. CASE r # p
        <3>1. Unplaced(p)'
            BY <1>1, <1>9, <2>2 DEF TaskFits, Placeless
        <3>2. QED
            BY <1>1, <2>2, <3>1 DEF InsertSuper, TypeOK, TaskFits, LocalsFit,
               FlagFits, Placeless, NoChild, HandsOver, Moved
    <2>3. QED
        BY <2>1, <2>2
<1>12. QED
    BY <1>6, <1>8, <1>10, <1>11 DEF Keeps

LEMMA KeepsAddChild ==
    ASSUME PlacesFit, NEW p \in Peer, OnlyTask(p), AddChild(p)
    PROVE  Keeps(p)
<1> USE DEF Goto, At, shape, locals
<1>1. TypeOK /\ Custody /\ TaskFits(p) /\ pc[p] = "addChild" /\ Unplaced(p)
    BY DEF PlacesFit, TaskFits, Placeless, AddChild
<1>2. /\ UNCHANGED <<superPeers, children, orphans>>
      /\ childPeers' = childPeers \cup {p}
    BY DEF AddChild
<1>3. \A s \in Peer : Hand(s)' = Hand(s)
    BY <1>1, OtherHands DEF AddChild, Hand, Moved, TypeOK
<1>4. Custody'
    BY <1>1, <1>2, <1>3 DEF Custody, InOnePlace, Unplaced
<1>5. ASSUME NEW c \in Peer, Unplaced(c) PROVE Unplaced(c)'
    BY <1>2, <1>3, <1>5 DEF Unplaced
<1>6. TaskFits(p)'
    BY <1>1, <1>5 DEF AddChild, TypeOK, TaskFits, LocalsFit, FlagFits, Placeless,
       NoChild, HandsOver, Moved
<1>7. QED
    BY <1>1, <1>2, <1>4, <1>5, <1>6 DEF Keeps

\* A peer that joins, or an orphan, is put below a super peer if that is there.
LEMMA KeepsAttach ==
    ASSUME PlacesFit, NEW p \in Peer, OnlyTask(p), Attach(p)
    PROVE  Keeps(p)
<1> USE DEF Goto, At, shape, locals
<1> DEFINE c == child[p]
           s == target[p]
<1>1. /\ TypeOK /\ Custody /\ TaskFits(p) /\ pc[p] = "attach"
      /\ c \in Peer /\ s \in Peer /\ Unplaced(p)
    BY DEF PlacesFit, TaskFits, LocalsFit, Placeless, Attach
<1>2. c = p \/ c \in Hand(p)
    BY <1>1 DEF Hand, Moved
<1>3. /\ c \notin superPeers
      /\ \A t \in Peer : c \notin children[t] /\ (t # p => c \notin Hand(t))
    BY <1>1, <1>2 DEF Unplaced, Custody, InOnePlace
<1>4. c \notin orphans[p]
    BY <1>1, <1>2 DEF TaskFits, LocalsFit, Moved, Unplaced, Hand
<1>5. /\ UNCHANGED <<superPeers, childPeers, orphans, child, target>>
      /\ \A t \in Peer : children'[t] \subseteq
            (IF t = s /\ s \in superPeers THEN children[t] \cup {c} ELSE children[t])
    BY <1>1 DEF Attach, TypeOK
<1>6. Hand(p)' = orphans[p] /\ \A t \in Peer \ {p} : Hand(t)' = Hand(t)
    BY <1>1, OtherHands DEF Attach, Hand, Moved, TypeOK
<1>7. Custody'
    <2>1. ASSUME NEW d \in Peer PROVE InOnePlace(d)'
        BY <1>1, <1>3, <1>4, <1>5, <1>6 DEF Custody, InOnePlace, Hand
    <2>2. ASSUME NEW t \in Peer, children'[t] # {} PROVE t \in superPeers'
        BY <1>1, <1>5, <2>2 DEF Custody
    <2>3. QED
        BY <2>1, <2>2 DEF Custody
<1>8. ASSUME NEW d \in Peer, d # c, Unplaced(d) PROVE Unplaced(d)'
    BY <1>5, <1>6, <1>8 DEF Unplaced, Hand
<1>9. ASSUME NEW d \in Peer \ {p}, Unplaced(d) PROVE Unplaced(d)'
    BY <1>2, <1>8, <1>9 DEF Unplaced
<1>10. TaskFits(p)'
    <2>1. c # p => Unplaced(p)'
        BY <1>1, <1>8
    <2>2. QED
        BY <1>1, <1>5, <2>1 DEF Attach, TypeOK, TaskFits, LocalsFit, FlagFits,
           Placeless, NoChild, HandsOver, Moved
<1>11. QED
    BY <1>5, <1>7, <1>9, <1>10 DEF Keeps

\* A child leaves: out of child_peers, then out of its parent's children.
LEMMA KeepsRemoveChild ==
    ASSUME PlacesFit, NEW p \in Peer, OnlyTask(p), RemoveChild(p) \/ Forget(p)
    PROVE  Keeps(p)
<1> USE DEF Goto, At, shape, locals
<1>1. /\ TypeOK /\ Custody /\ TaskFits(p)
      /\ pc[p] = "leaveChild" \/ pc[p] \in {"forget"}
    BY DEF PlacesFit, RemoveChild, Forget
<1>2. /\ UNCHANGED <<superPeers, orphans>> /\ childPeers' \subseteq childPeers \ {p}
      /\ \A t \in Peer : children'[t] \subseteq children[t]
    BY <1>1 DEF RemoveChild, Forget, TypeOK, TaskFits, NoChild
<1>3. \A t \in Peer : Hand(t)' = Hand(t)
    BY <1>1, OtherHands DEF RemoveChild, Forget, Hand, Moved, TypeOK
<1>4. Custody' /\ \A c \in Peer : Unplaced(c) => Unplaced(c)'
    BY <1>1, <1>2, <1>3, PlacesShrink DEF Custody
<1>5. TaskFits(p)'
    BY <1>1, <1>2 DEF RemoveChild, Forget, TypeOK, TaskFits, LocalsFit, FlagFits,
       Placeless, NoChild, HandsOver, Moved
<1>6. QED
    BY <1>2, <1>4, <1>5 DEF Keeps

\* A super peer leaves, and has its children in hand.
LEMMA KeepsRemoveSuper ==
    ASSUME PlacesFit, NEW p \in Peer, OnlyTask(p), RemoveSuper(p)
    PROVE  Keeps(p)
<1> USE DEF Goto, At, shape, locals
<1>1. /\ TypeOK /\ Custody /\ TaskFits(p) /\ pc[p] = "leaveSuper"
      /\ p \in superPeers
    BY DEF PlacesFit, RemoveSuper
<1>2. /\ superPeers' = superPeers \ {p} /\ childPeers' = childPeers
      /\ children' = [children EXCEPT ![p] = {}]
    BY DEF RemoveSuper
<1>3. Hand(p)' = children[p] /\ \A t \in Peer \ {p} : Hand(t)' = Hand(t)
    BY <1>1, OtherHands DEF RemoveSuper, Hand, Moved, TypeOK
<1>4. Custody'
    <2>1. ASSUME NEW c \in Peer PROVE InOnePlace(c)'
        <3>1. /\ children'[p] = {}
              /\ \A t \in Peer \ {p} : children'[t] = children[t]
            BY <1>1, <1>2 DEF TypeOK
        <3>2. InOnePlace(c)
            BY <1>1 DEF Custody
        <3>3. QED
            BY <1>2, <1>3, <3>1, <3>2 DEF InOnePlace
    <2>2. ASSUME NEW t \in Peer, children'[t] # {} PROVE t \in superPeers'
        BY <1>1, <1>2, <2>2 DEF Custody, TypeOK
    <2>3. QED
        BY <2>1, <2>2 DEF Custody
<1>5. ASSUME NEW c \in Peer, Unplaced(c) PROVE Unplaced(c)'
    BY <1>1, <1>2, <1>3, <1>5 DEF Unplaced, TypeOK
<1>6. Unplaced(p)'
    BY <1>1, <1>2, <1>3 DEF Unplaced, Custody, InOnePlace, TypeOK
<1>7. TaskFits(p)'
    BY <1>1, <1>6 DEF RemoveSuper, TypeOK, TaskFits, LocalsFit, FlagFits, Placeless,
       NoChild, HandsOver, Moved, Custody, InOnePlace
<1>8. QED
    BY <1>2, <1>4, <1>5, <1>7 DEF Keeps

\* The recruit stays in hand, but is no orphan any more; or nobody is recruited.
LEMMA KeepsRecruit ==
    ASSUME PlacesFit, NEW p \in Peer, OnlyTask(p), Recruit(p)
    PROVE  Keeps(p)
<1> USE DEF Goto, At, shape, locals
<1>1. /\ TypeOK /\ Custody /\ TaskFits(p) /\ pc[p] = "recruit" /\ Unplaced(p)
    BY DEF PlacesFit, TaskFits, Placeless, HandsOver, Recruit
<1>2. PICK r \in orphans[p] :
         IF r \in childPeers
         THEN /\ childPeers' = childPeers \ {r}
              /\ target' = [target EXCEPT ![p] = r]
              /\ orphans' = [orphans EXCEPT ![p] = @ \ {r}]
              /\ pc' = [pc EXCEPT ![p] = "listSupers"]
         ELSE /\ orphans' = [orphans EXCEPT ![p] = {}]
              /\ pc' = [pc EXCEPT ![p] = "done"]
              /\ UNCHANGED <<childPeers, target>>
    BY DEF Recruit
<1>3. r \in Peer /\ r # p
    BY <1>1 DEF TypeOK, Unplaced, Hand
<1>4. UNCHANGED <<superPeers, children, superFlag>> /\ childPeers' \subseteq childPeers
    BY <1>2 DEF Recruit
<1>5. Hand(p)' \subseteq Hand(p)
    BY <1>1, <1>2 DEF Hand, Moved, TypeOK
<1>6. \A s \in Peer : Hand(s)' \subseteq Hand(s)
    BY <1>5, OtherHands
<1>7. Custody' /\ \A c \in Peer : Unplaced(c) => Unplaced(c)'
    BY <1>1, <1>4, <1>6, PlacesShrink DEF Custody
<1>8. TaskFits(p)'
    <2>1. Unplaced(p)' /\ p \notin childPeers'
        BY <1>1, <1>4, <1>7 DEF TaskFits, NoChild, HandsOver
    <2>2. FlagFits(p)'
        BY <1>1, <1>2, <1>3, <1>4 DEF TypeOK, TaskFits, FlagFits, HandsOver
    <2>3. LocalsFit(p)'
        BY <1>1, <1>2, <1>3 DEF TypeOK, LocalsFit, Moved
    <2>4. QED
        BY <2>1, <2>2, <2>3 DEF TaskFits
<1>9. QED
    BY <1>4, <1>7, <1>8 DEF Keeps

\* The next orphan is in hand as the child to attach.
LEMMA KeepsReattach ==
    ASSUME PlacesFit, NEW p \in Peer, OnlyTask(p), NEW c \in Peer, Reattach(p, c)
    PROVE  Keeps(p)
<1> USE DEF Goto, At, shape, locals
<1>1. /\ TypeOK /\ Custody /\ TaskFits(p) /\ pc[p] = "reattach" /\ Unplaced(p)
      /\ c \in orphans[p] /\ c # p /\ p \notin childPeers
    BY DEF PlacesFit, TaskFits, Placeless, HandsOver, Reattach, Unplaced, Hand, NoChild
<1>2. UNCHANGED <<superPeers, children, childPeers>>
    BY DEF Reattach
<1>3. Hand(p)' \subseteq Hand(p)
    BY <1>1 DEF Hand, Moved, TypeOK, Reattach
<1>4. \A s \in Peer : Hand(s)' \subseteq Hand(s)
    BY <1>3, OtherHands
<1>5. Custody' /\ \A d \in Peer : Unplaced(d) => Unplaced(d)'
    BY <1>1, <1>2, <1>4, PlacesShrink DEF Custody
<1>6. TaskFits(p)'
    BY <1>1, <1>5 DEF Reattach, TypeOK, TaskFits, LocalsFit, FlagFits, HandsOver, Moved
<1>7. QED
    BY <1>2, <1>5, <1>6 DEF Keeps

-----------------------------------------------------------------------------
(* The invariant. *)

LEMMA KeptByAll ==
    ASSUME PlacesFit, NEW p \in Peer, OnlyTask(p), Keeps(p)
    PROVE  Custody' /\ \A q \in Peer : TaskFits(q)'
<1>1. ASSUME NEW q \in Peer, q # p PROVE TaskFits(q)'
    BY <1>1, OthersFit DEF PlacesFit, Keeps
<1>2. QED
    BY <1>1 DEF Keeps

LEMMA JoinStepKeeps ==
    ASSUME PlacesFit, NEW p \in Peer, JoinStep(p)
    PROVE  OnlyTask(p) /\ Keeps(p)
<1>1. OnlyTask(p)
    BY JoinStepFrame DEF PlacesFit
<1>2. QED
    BY <1>1, QuietJoinStep, KeepsInsertSuper, KeepsAddChild, KeepsAttach DEF JoinStep

LEMMA LeaveStepKeeps ==
    ASSUME PlacesFit, NEW p \in Peer, LeaveStep(p)
    PROVE  OnlyTask(p) /\ Keeps(p)
<1>1. OnlyTask(p)
    BY LeaveStepFrame DEF PlacesFit
<1>2. QED
    BY <1>1, QuietLeaveStep, KeepsRemoveChild, KeepsRemoveSuper, KeepsRecruit,
       KeepsReattach DEF LeaveStep

\* remove_child_peer comes to its first step with the guard only when nobody
\* has it, and keeps it until its end.
LEMMA HeldOnceKept ==
    ASSUME PlacesFit, NEW p \in Peer, JoinStep(p) \/ LeaveStep(p)
    PROVE  HeldOnce'
<1> USE DEF Goto, At, shape, locals
<1>1. TypeOK /\ HeldOnce /\ OnlyTask(p)
    BY JoinStepFrame, LeaveStepFrame DEF PlacesFit
<1>2. CASE pc'[p] \notin {"tellParent", "forget"}
    BY <1>1, <1>2 DEF HeldOnce, Holds, OnlyTask
<1>3. CASE pc[p] \in {"tellParent", "forget"}
    BY <1>1, <1>3 DEF HeldOnce, Holds, OnlyTask
<1>4. CASE /\ pc[p] \notin {"tellParent", "forget"}
           /\ pc'[p] \in {"tellParent", "forget"}
    <2>1. RemoveChild(p)
        <3>1. CASE JoinStep(p)
            BY <1>1, <1>4, <3>1 DEF TypeOK, JoinStep, Join, ListSupers, InsertSuper,
               Announce, AddChild, Find, FindsNone, Attach, SetParent, Introduce,
               IntroduceFails, Check
        <3>2. CASE LeaveStep(p)
            BY <1>1, <1>4, <3>2 DEF TypeOK, LeaveStep, Close, TellParent, Forget,
               RemoveSuper, CopySupers, SupersTold, ChildrenTold, TellSuper,
               TellChild, Reattach, Recruit, FinishLeave
        <3>3. QED
            BY <3>1, <3>2
    <2>2. \A q \in Peer \ {p} : Holds(pc[q]) = {}
        BY <2>1 DEF RemoveChild, CanTake, Holds, Takes, ChildSteps, SuperSteps
    <2>3. QED
        BY <1>1, <2>2 DEF HeldOnce, OnlyTask
<1>5. QED
    BY <1>2, <1>3, <1>4

LEMMA InitPlaces == Init => PlacesFit
<1> SUFFICES ASSUME Init PROVE PlacesFit
    OBVIOUS
<1>1. PICK start \in Starts : StartsWith(start.elders, start.joiners)
    BY DEF Init
<1>2. /\ TypeOK /\ superPeers \subseteq Peer
      /\ \A p \in Peer : /\ superFlag[p] <=> p \in superPeers
                         /\ p \in superPeers <=> pc[p] = "serve"
                         /\ pc[p] \in {"new", "serve", "done"}
    <2>1. TypeOK
        BY InitType
    <2>2. \A p \in Peer : superFlag[p] = (p \in start.elders)
        BY <1>1, Zenon DEF StartsWith
    <2>3. superPeers = start.elders
        BY <1>1 DEF StartsWith
    <2>4. \A p \in Peer : pc[p] = IF p \in start.elders THEN "serve"
                                  ELSE IF p \in start.joiners THEN "new" ELSE "done"
        BY <1>1 DEF StartsWith
    <2>5. QED
        BY <2>1, <2>2, <2>3, <2>4 DEF TypeOK
<1>3. /\ \A p \in Peer : children[p] = {} /\ orphans[p] = {}
      /\ childPeers = {}
    BY DEF Init
<1>4. \A p \in Peer : Hand(p) = {} /\ Moved(p) = {}
    BY <1>2, <1>3 DEF Hand, Moved
<1>5. Custody
    BY <1>3, <1>4 DEF Custody, InOnePlace
<1>6. HeldOnce
    BY <1>2 DEF HeldOnce, Holds
<1>7. ASSUME NEW p \in Peer PROVE TaskFits(p)
    BY <1>2, <1>3, <1>4 DEF TaskFits, LocalsFit, FlagFits, Placeless, NoChild,
       HandsOver, Unplaced
<1>8. QED
    BY <1>2, <1>5, <1>6, <1>7 DEF PlacesFit

LEMMA NextPlaces == PlacesFit /\ [Next]_vars => PlacesFit'
<1> SUFFICES ASSUME PlacesFit, [Next]_vars PROVE PlacesFit'
    OBVIOUS
<1>1. ASSUME NEW p \in Peer, JoinStep(p) \/ LeaveStep(p)
      PROVE  PlacesFit'
    <2>1. TypeOK'
        BY <1>1, JoinStepType, LeaveStepType DEF PlacesFit, TaskFits
    <2>2. Custody' /\ \A q \in Peer : TaskFits(q)'
        BY <1>1, JoinStepKeeps, LeaveStepKeeps, KeptByAll
    <2>3. HeldOnce'
        BY <1>1, HeldOnceKept
    <2>4. QED
        BY <2>1, <2>2, <2>3 DEF PlacesFit
<1>2. CASE UNCHANGED <<superPeers, children, childPeers, superFlag, pc, orphans,
                       target, child>> /\ TypeOK'
    <2>1. \A p \in Peer : Hand(p)' = Hand(p) /\ Moved(p)' = Moved(p)
        BY <1>2 DEF Hand, Moved
    <2>2. Custody' /\ HeldOnce'
        BY <1>2, <2>1 DEF PlacesFit, Custody, InOnePlace, HeldOnce
    <2>3. \A p \in Peer : TaskFits(p)'
        BY <1>2, <2>1 DEF PlacesFit, TaskFits, LocalsFit, FlagFits, Placeless, NoChild,
           HandsOver, Unplaced
    <2>4. QED
        BY <1>2, <2>2, <2>3 DEF PlacesFit
<1>3. ASSUME NEW p \in Peer, NEW q \in Peer, Disconnect(p) \/ Relay(p, q)
      PROVE  PlacesFit'
    <2>1. CASE Disconnect(p)
        BY <1>2, <2>1 DEF Disconnect, shape, locals, TypeOK, PlacesFit
    <2>2. CASE Relay(p, q)
        <3>1. links' \in [Peer -> SUBSET Peer]
            BY <2>2, TellType DEF Relay, PlacesFit, TypeOK
        <3>2. QED
            BY <1>2, <2>2, <3>1 DEF Relay, shape, locals, TypeOK, PlacesFit
    <2>3. QED
        BY <1>3, <2>1, <2>2
<1>4. ASSUME NEW p \in Peer, Connect(p)
      PROVE  PlacesFit'
    <2> USE DEF Connect, Goto, shape, locals
    <2>1. TypeOK /\ TypeOK' /\ OnlyTask(p)
        BY <1>4 DEF PlacesFit, TypeOK, OnlyTask, Resting, SuperSteps
    <2>2. Custody /\ TaskFits(p)
        BY DEF PlacesFit
    <2>3. /\ UNCHANGED <<superPeers, children, childPeers, orphans>>
          /\ Moved(p)' \subseteq Moved(p)
          /\ LocalsFit(p)' /\ FlagFits(p)'
          /\ Placeless(p)' => Unplaced(p)
          /\ NoChild(p)' => p \notin childPeers
        BY <1>4, <2>1, <2>2 DEF TypeOK, TaskFits, Moved, LocalsFit, FlagFits,
           Placeless, NoChild, HandsOver
    <2>4. Keeps(p)
        BY <2>1, <2>2, <2>3, QuietStep
    <2>5. HeldOnce'
        BY <1>4, <2>1 DEF PlacesFit, HeldOnce, Holds, OnlyTask, TypeOK
    <2>6. QED
        BY <2>1, <2>4, <2>5, KeptByAll DEF PlacesFit
<1>5. CASE UNCHANGED vars
    BY <1>2, <1>5 DEF vars, PlacesFit, TypeOK
<1>6. QED
    BY <1>1, <1>3, <1>4, <1>5 DEF Next, TaskStep

\* Whatever joins, handovers and departures overlap, no peer gets two places, and
\* the guard of remove_child_peer is kept by one task at a time.
LEMMA PlacesHold == Spec => []PlacesFit
BY InitPlaces, NextPlaces, PTL DEF Spec

\* No peer has two parents or is below and above, in any interleaving.
THEOREM CustodyHolds == Spec => []Custody
<1>1. PlacesFit => Custody
    BY DEF PlacesFit
<1>2. QED
    BY <1>1, PlacesHold, PTL

\* A task that has ended leaves no entry behind, but for a recruit's, whose task
\* does not know of it.
THEOREM NoTraceHolds == Spec => []NoTrace
<1>1. PlacesFit => NoTrace
    BY DEF PlacesFit, TaskFits, NoTrace, NoChild, Placeless, Unplaced
<1>2. QED
    BY <1>1, PlacesHold, PTL

-----------------------------------------------------------------------------
(* The refinement: seen through super_peers and the children, every step is *)
(* one step of PeerForest or none.                                          *)

Edges == {e \in Peer \X Peer : e[2] \in children[e[1]]}

ForestStep == [Forest!Next]_<<superPeers, Edges>>

LEMMA SameShape ==
    ASSUME superPeers' = superPeers, children' = children
    PROVE  ForestStep
BY DEF ForestStep, Edges

LEMMA RiseStep ==
    ASSUME PlacesFit, NEW p \in Peer, InsertSuper(p), NEW r \in Peer, r = target[p]
    PROVE  Forest!Rise(r)
<1>1. TypeOK /\ Custody /\ TaskFits(p) /\ pc[p] = "announce"
    BY DEF PlacesFit, TaskFits, LocalsFit, InsertSuper, At
<1>2. Unplaced(p) /\ (r = p \/ r \in Hand(p))
    BY <1>1 DEF TaskFits, Placeless, Hand, Moved
<1>3. r \notin superPeers /\ \A s \in Peer : r \notin children[s]
    BY <1>1, <1>2 DEF Unplaced, Custody, InOnePlace
<1>4. Forest!HangsBelowNone(r)
    BY <1>3 DEF Forest!HangsBelowNone
<1>5. Edges' = Edges
    <2>1. children[r] = {}
        BY <1>1, <1>3 DEF Custody
    <2>2. \A s \in Peer : children'[s] = children[s]
        BY <1>1, <2>1 DEF InsertSuper, TypeOK
    <2>3. QED
        BY <2>2 DEF Edges
<1>6. superPeers' = superPeers \cup {r}
    BY DEF InsertSuper
<1>7. QED
    BY <1>3, <1>4, <1>5, <1>6 DEF Forest!Rise, Edges

LEMMA FallStep ==
    ASSUME PlacesFit, NEW p \in Peer, RemoveSuper(p)
    PROVE  Forest!Fall(p)
<1>1. Edges' = {e \in Edges : e[1] # p}
    BY DEF Edges, RemoveSuper, PlacesFit, TypeOK
<1>2. QED
    BY <1>1 DEF Forest!Fall, Edges, RemoveSuper

LEMMA HangStep ==
    ASSUME PlacesFit, NEW p \in Peer, Attach(p), target[p] \in superPeers,
           NEW s \in Peer, s = target[p], NEW c \in Peer, c = child[p]
    PROVE  Forest!Hang(s, c)
<1>1. TypeOK /\ Custody /\ TaskFits(p) /\ pc[p] = "attach" /\ Unplaced(p)
    BY DEF PlacesFit, TaskFits, LocalsFit, Placeless, Attach, At
<1>2. c = p \/ c \in Hand(p)
    BY <1>1 DEF Hand, Moved
<1>3. c \notin superPeers /\ \A t \in Peer : c \notin children[t]
    BY <1>1, <1>2 DEF Unplaced, Custody, InOnePlace
<1>4. Forest!HangsBelowNone(c)
    BY <1>3 DEF Forest!HangsBelowNone
<1>5. Edges' = Edges \cup {<<s, c>>}
    BY <1>1 DEF Edges, Attach, TypeOK
<1>6. QED
    BY <1>3, <1>4, <1>5 DEF Forest!Hang, Edges, Attach

LEMMA TakeOffStep ==
    ASSUME PlacesFit, NEW p \in Peer, Forget(p), target[p] \in superPeers,
           NEW s \in Peer, s = target[p]
    PROVE  Forest!TakeOff(s, p)
<1>1. Edges' = Edges \ {<<s, p>>}
    BY DEF Edges, Forget, PlacesFit, TypeOK
<1>2. QED
    BY <1>1 DEF Forest!TakeOff, Edges, Forget

LEMMA NextForest == PlacesFit /\ [Next]_vars => ForestStep
<1> SUFFICES ASSUME PlacesFit, [Next]_vars PROVE ForestStep
    OBVIOUS
<1> USE DEF shape, locals
<1>0. TypeOK
    BY DEF PlacesFit
<1>1. ASSUME NEW p \in Peer, JoinStep(p)
      PROVE  ForestStep
    <2>1. CASE InsertSuper(p)
        <3>1. target[p] \in Peer
            BY <2>1 DEF PlacesFit, TaskFits, LocalsFit, InsertSuper, At
        <3>2. QED
            <4>1. PICK r \in Peer : r = target[p]
                BY <3>1
            <4>2. Forest!Rise(r)
                BY <2>1, <4>1, RiseStep
            <4>3. QED
                BY <4>2 DEF ForestStep, Forest!Next
    <2>2. CASE Attach(p)
        <3>1. target[p] \in Peer /\ child[p] \in Peer
            BY <2>2 DEF PlacesFit, TaskFits, LocalsFit, Attach, At
        <3>2. CASE target[p] \in superPeers
            <4>1. PICK s \in Peer, c \in Peer : s = target[p] /\ c = child[p]
                BY <3>1
            <4>2. Forest!Hang(s, c)
                BY <2>2, <3>2, <4>1, HangStep
            <4>3. QED
                BY <4>2 DEF ForestStep, Forest!Next
        <3>3. CASE target[p] \notin superPeers
            BY <2>2, <3>3, SameShape DEF Attach
        <3>4. QED
            BY <3>2, <3>3
    <2>3. CASE ~InsertSuper(p) /\ ~Attach(p)
        <3>1. superPeers' = superPeers /\ children' = children
            BY <1>1, <2>3 DEF JoinStep, Join, ListSupers, Announce, AddChild, Find,
               FindsNone, SetParent, Introduce, IntroduceFails, Check
        <3>2. QED
            BY <3>1, SameShape
    <2>4. QED
        BY <2>1, <2>2, <2>3
<1>2. ASSUME NEW p \in Peer, LeaveStep(p)
      PROVE  ForestStep
    <2>1. CASE RemoveSuper(p)
        BY <2>1, FallStep DEF ForestStep, Forest!Next
    <2>2. CASE Forget(p)
        <3>1. CASE target[p] \in superPeers
            <4>1. PICK s \in Peer : s = target[p]
                BY <1>0, <3>1 DEF TypeOK
            <4>2. Forest!TakeOff(s, p)
                BY <2>2, <3>1, <4>1, TakeOffStep
            <4>3. QED
                BY <4>2 DEF ForestStep, Forest!Next
        <3>2. CASE target[p] \notin superPeers
            BY <2>2, <3>2, SameShape DEF Forget
        <3>3. QED
            BY <3>1, <3>2
    <2>3. CASE ~RemoveSuper(p) /\ ~Forget(p)
        <3>1. superPeers' = superPeers /\ children' = children
            BY <1>2, <2>3 DEF LeaveStep, Close, RemoveChild, TellParent, CopySupers,
               SupersTold, ChildrenTold, TellSuper, TellChild, Reattach, Recruit,
               FinishLeave
        <3>2. QED
            BY <3>1, SameShape
    <2>4. QED
        BY <2>1, <2>2, <2>3
<1>3. ASSUME NEW p \in Peer, NEW q \in Peer, Connect(p) \/ Disconnect(p) \/ Relay(p, q)
      PROVE  ForestStep
    BY <1>3, SameShape DEF Connect, Disconnect, Relay
<1>4. CASE UNCHANGED vars
    BY <1>4, SameShape DEF vars
<1>5. QED
    BY <1>1, <1>2, <1>3, <1>4 DEF Next, TaskStep

\* The library's hybrid topology keeps the rules of PeerForest, as the server of
\* matchbox_server_hybrid does: two implementations of one specification.
THEOREM LibraryImplementsForest == Spec => ImplementsForest
<1>1. Init => Forest!Init
    <2>1. Init => superPeers \subseteq Peer /\ Edges = {}
        BY InitPlaces DEF Init, Edges, PlacesFit, TypeOK
    <2>2. QED
        BY <2>1 DEF Forest!Init, Edges
<1>2. Spec => Forest!Init /\ [][ForestStep]_<<superPeers, Edges>>
    BY <1>1, NextForest, PlacesHold, PTL DEF Spec
<1>3. QED
    BY <1>2, PTL DEF ImplementsForest, Forest!Spec, ForestStep, Edges

\* The library's topology is that forest after every step of every interleaving:
\* what is said of custody says so, the places of a peer being the edges.
THEOREM LibraryIsForest == Spec => []Forest!IsForest
<1>1. PlacesFit => Forest!IsForest
    <2> SUFFICES ASSUME PlacesFit PROVE Forest!IsForest
        OBVIOUS
    <2>1. superPeers \subseteq Peer /\ Custody
        BY DEF PlacesFit, TypeOK
    <2>2. ASSUME NEW e \in Edges PROVE e \in superPeers \X (Peer \ superPeers)
        <3>1. PICK s \in Peer, c \in Peer : e = <<s, c>> /\ c \in children[s]
            BY <2>2 DEF Edges
        <3>2. s \in superPeers /\ c \notin superPeers
            BY <2>1, <3>1 DEF Custody, InOnePlace
        <3>3. QED
            BY <3>1, <3>2
    <2>3. ASSUME NEW s \in Peer, NEW t \in Peer, NEW c \in Peer,
                 <<s, c>> \in Edges, <<t, c>> \in Edges
          PROVE  s = t
        BY <2>1, <2>3 DEF Edges, Custody, InOnePlace
    <2>4. QED
        BY <2>1, <2>2, <2>3 DEF Forest!IsForest, Edges
<1>2. QED
    BY <1>1, PlacesHold, PTL

-----------------------------------------------------------------------------
(* Requests that do not overlap: the server as the only handler p sees it,   *)
(* when the others rest.                                                     *)

OthersRest(p) == \A q \in Peer \ {p} : pc[q] \in Resting /\ orphans[q] = {}

SoloTree(p) ==
    /\ Cardinality(superPeers) <= 2
    /\ \A c \in childPeers :
          \/ parent[c] \in superPeers /\ c \in children[parent[c]]
          \/ c \in Detached(p)
    /\ \A s \in superPeers : \A c \in children[s] :
          c \in childPeers \/ (c = p /\ Forgets(p, s))

SoloTask(p) ==
    /\ Detached(p) \subseteq childPeers
    /\ orphans[p] # {} => HandsOver(p)
    /\ pc[p] \in {"listSupers", "announce", "copySupers", "tellSupers", "tellChildren",
                  "recruit"} => Cardinality(superPeers) <= 1
    /\ pc[p] \in {"addChild", "find"} => superPeers # {}
    /\ pc[p] \in {"attach", "setParent", "introduce", "reattach", "tellParent",
                  "forget"} => target[p] \in superPeers
    /\ pc[p] \in {"setParent", "introduce"} => child[p] \in children[target[p]]
    /\ pc[p] \in {"tellParent", "forget"} => p \in children[target[p]]

Served(p) ==
    \A q \in Peer : pc[q] \in {"check", "serve"} =>
        \/ q \in superPeers \cup childPeers
        \/ pc[p] \in {"listSupers", "announce"} /\ target[p] = q

SupersMeet ==
    \A s, t \in superPeers :
        open[s] /\ open[t] /\ s # t => s \in links[t] \/ t \in links[s]

Announced(p) ==
    pc[p] = "announce" =>
        \A s \in superPeers \ todo[p] : open[s] => target[p] \in links[s]

ChildrenKnown(p) ==
    \A s \in superPeers : open[s] =>
        \A c \in children[s] :
            \/ c \in links[s]
            \/ pc[c] = "forget"
            \/ pc[p] \in {"setParent", "introduce"} /\ child[p] = c

Passes(p, s, q) ==
    \/ pc[p] = "announce" /\ q = target[p] /\ s \notin todo[p]
    \/ pc[p] = "copySupers" /\ q = p
    \/ pc[p] = "tellSupers" /\ q = p /\ s \in todo[p]

NoneElseKnown(p) ==
    \A s \in superPeers : open[s] =>
        \A q \in links[s] : \/ (q \in children[s] /\ pc[q] # "forget")
                            \/ q \in superPeers \ {s}
                            \/ Passes(p, s, q)

ParentKnown(p) ==
    \A c \in childPeers : open[c] => links[c] \subseteq {parent[c]} \/ c \in Detached(p)

WaitingKnow(p) ==
    /\ \A c \in Waiting(p) : open[c] \/ pc[c] = "new" => links[c] \subseteq StillKnown(p, c)
    /\ \A q \in Peer : pc[q] = "new" => links[q] = {}

SoloLinks(p) ==
    /\ SupersMeet /\ Announced(p) /\ ChildrenKnown(p) /\ NoneElseKnown(p)
    /\ ParentKnown(p) /\ WaitingKnow(p)

Solo(p) == OthersRest(p) /\ SoloTree(p) /\ SoloTask(p) /\ Served(p) /\ SoloLinks(p)

\* The others, at rest, have nothing left to do.
LEMMA OthersIdle ==
    ASSUME NEW p \in Peer, OthersRest(p), NEW q \in Peer, q # p
    PROVE  /\ Detached(q) = {}
           /\ Waiting(q) = IF pc[q] = "new" THEN {q} ELSE {}
           /\ ~HandsOver(q)
           /\ pc[q] \in {"new", "serve", "done", "refused"}
<1>1. orphans[q] = {} /\ pc[q] \in {"new", "serve", "done", "refused"}
    BY DEF OthersRest, Resting
<1>2. Detached(q) = {}
    BY <1>1 DEF Detached
<1>3. QED
    BY <1>1, <1>2 DEF Waiting, HandsOver

LEMMA SoloOf ==
    ASSUME PlacesFit, SerialServer, NEW p \in Peer,
           pc[p] \notin Resting \/ AtRest
    PROVE  Solo(p)
<1>1. OthersRest(p)
    <2>1. ASSUME NEW q \in Peer, q # p
          PROVE  pc[q] \in Resting /\ orphans[q] = {}
        <3>1. pc[q] \in Resting
            BY <2>1 DEF SerialServer, OneAtATime, AtRest
        <3>2. ~HandsOver(q)
            BY <3>1 DEF Resting, HandsOver
        <3>3. QED
            BY <3>1, <3>2 DEF SerialServer, SerialTask
    <2>2. QED
        BY <2>1 DEF OthersRest
<1>2. \A q \in Peer : q # p => /\ Detached(q) = {}
                               /\ pc[q] \in {"new", "serve", "done", "refused"}
    BY <1>1, OthersIdle
<1>3. SoloTree(p)
    BY <1>2 DEF PlacesFit, TypeOK, SerialServer, SerialTree, SoloTree, Forgets
<1>4. SoloTask(p)
    BY DEF SerialServer, SerialTask, SoloTask
<1>5. Served(p)
    BY <1>2 DEF SerialServer, SerialTask, Served
<1>6. SupersMeet /\ Announced(p)
    BY DEF SerialServer, SerialLinks, SupersMeet, Announced
<1>7. ChildrenKnown(p)
    BY <1>2 DEF SerialServer, SerialLinks, NotKnown, ChildrenKnown
<1>8. NoneElseKnown(p)
    <2>1. \A s, q : Passing(s, q) => Passes(p, s, q)
        BY <1>2 DEF Passing, Passes
    <2>2. QED
        BY <2>1 DEF SerialServer, SerialLinks, NoneElseKnown
<1>9. ParentKnown(p)
    BY <1>2 DEF SerialServer, SerialLinks, ParentKnown
<1>10. WaitingKnow(p)
    <2>1. ASSUME NEW q \in Peer, pc[q] = "new" PROVE links[q] = {}
        BY <2>1 DEF SerialServer, SerialLinks, Waiting, StillKnown
    <2>2. QED
        BY <2>1 DEF SerialServer, SerialLinks, WaitingKnow
<1>11. QED
    BY <1>1, <1>3, <1>4, <1>5, <1>6, <1>7, <1>8, <1>9, <1>10 DEF Solo, SoloLinks

LEMMA SoloGives ==
    ASSUME PlacesFit, NEW p \in Peer, Solo(p)
    PROVE  SerialServer
<1>1. \A q \in Peer : q # p => /\ Detached(q) = {}
                               /\ Waiting(q) = IF pc[q] = "new" THEN {q} ELSE {}
                               /\ pc[q] \in {"new", "serve", "done", "refused"}
                               /\ orphans[q] = {}
    BY OthersIdle DEF Solo, OthersRest
<1>2. OneAtATime
    BY DEF Solo, OthersRest, OneAtATime
<1>3. SerialTree
    BY DEF Solo, SoloTree, SerialTree
<1>4. ASSUME NEW q \in Peer PROVE SerialTask(q)
    <2>1. pc[q] \in {"check", "serve"} =>
             \/ q \in superPeers \cup childPeers
             \/ \E r \in Peer : pc[r] \in {"listSupers", "announce"} /\ target[r] = q
        BY DEF Solo, Served
    <2>2. CASE q = p
        BY <2>1, <2>2 DEF Solo, SoloTask, SerialTask
    <2>3. CASE q # p
        BY <1>1, <2>1, <2>3 DEF SerialTask
    <2>4. QED
        BY <2>2, <2>3
<1>5. SerialLinks
    <2> USE DEF Solo, SoloLinks
    <2>1. \A s, q : Passes(p, s, q) => Passing(s, q)
        BY DEF Passing, Passes
    <2>2. \A r \in Peer : pc[r] = "announce" =>
              \A s \in superPeers \ todo[r] : open[s] => target[r] \in links[s]
        BY <1>1 DEF Announced
    <2>3. \A s \in superPeers : open[s] => \A c \in children[s] : c \in links[s] \/ NotKnown(c)
        BY DEF ChildrenKnown, NotKnown
    <2>4. \A s \in superPeers : open[s] =>
              \A q \in links[s] : \/ (q \in children[s] /\ pc[q] # "forget")
                                  \/ q \in superPeers \ {s}
                                  \/ Passing(s, q)
        BY <2>1 DEF NoneElseKnown
    <2>5. \A c \in childPeers : open[c] =>
              links[c] \subseteq {parent[c]} \/ \E r \in Peer : c \in Detached(r)
        BY DEF ParentKnown
    <2>6. \A r \in Peer : \A c \in Waiting(r) :
              open[c] \/ pc[c] = "new" => links[c] \subseteq StillKnown(r, c)
        BY <1>1 DEF WaitingKnow
    <2>7. QED
        BY <2>2, <2>3, <2>4, <2>5, <2>6 DEF SerialLinks, SupersMeet
<1>6. QED
    BY <1>2, <1>3, <1>4, <1>5 DEF SerialServer

\* A super peer is in no other place, and waits for nothing.
LEMMA SupersApart ==
    ASSUME PlacesFit, NEW p \in Peer, Solo(p), NEW s \in superPeers
    PROVE  /\ s \in Peer /\ s \notin childPeers /\ s \notin Waiting(p) /\ pc[s] # "new"
           /\ \A t \in Peer : s \notin children[t]
<1>1. /\ s \in Peer /\ s \notin childPeers
      /\ \A t \in Peer : s \notin children[t] /\ s \notin Hand(t)
    BY DEF PlacesFit, TypeOK, Custody, InOnePlace
<1>2. TaskFits(p) /\ TaskFits(s)
    BY <1>1 DEF PlacesFit
<1>3. pc[s] # "new"
    BY <1>2 DEF TaskFits, Placeless, Unplaced
<1>4. s \notin Detached(p)
    BY <1>1 DEF Solo, SoloTask
<1>5. pc[p] \in {"new", "join", "addChild", "listSupers", "announce"} => p # s
    BY <1>2 DEF TaskFits, Placeless, Unplaced
<1>6. pc[p] \in {"listSupers", "announce"} => target[p] # s
    BY <1>1, <1>5 DEF Hand, Moved
<1>7. QED
    BY <1>1, <1>3, <1>4, <1>5, <1>6 DEF Waiting

LEMMA StillAlone ==
    ASSUME NEW p \in Peer, OthersRest(p), OnlyTask(p)
    PROVE  OthersRest(p)' /\ \A q \in Peer : q # p => pc'[q] = pc[q] /\ pc[q] \in Resting
BY DEF OthersRest, OnlyTask

LEMMA WaitingPeers ==
    ASSUME PlacesFit, NEW p \in Peer
    PROVE  Detached(p) \subseteq Peer /\ Waiting(p) \subseteq Peer
<1>1. orphans[p] \subseteq Peer /\ LocalsFit(p)
    BY DEF PlacesFit, TypeOK, TaskFits
<1>2. QED
    BY <1>1 DEF LocalsFit, Detached, Waiting

\* A step that changes neither the maps nor what anybody knows.
LEMMA QuietSolo ==
    ASSUME PlacesFit, NEW p \in Peer, OnlyTask(p), Solo(p),
           UNCHANGED <<superPeers, children, childPeers, parent, links, open>>,
           pc[p] \notin {"tellParent", "forget", "setParent", "introduce"},
           pc'[p] \notin {"forget", "new"},
           SoloTask(p)',
           pc'[p] \in {"check", "serve"} => p \in superPeers \cup childPeers,
           pc[p] \in {"listSupers", "announce"} =>
               pc'[p] \in {"listSupers", "announce"} /\ target'[p] = target[p],
           Detached(p) \subseteq Detached(p)', Waiting(p)' \subseteq Waiting(p),
           \A c \in Waiting(p)' : StillKnown(p, c) \subseteq StillKnown(p, c)',
           Announced(p)',
           \A s \in superPeers : \A q : Passes(p, s, q) => Passes(p, s, q)'
    PROVE  Solo(p)'
<1> USE DEF Solo, SoloLinks
<1>1. OthersRest(p)' /\ \A q \in Peer : q # p => pc'[q] = pc[q] /\ pc[q] \in Resting
    BY StillAlone
<1>2. TypeOK
    BY DEF PlacesFit
<1>3. SoloTree(p)'
    BY DEF SoloTree, Forgets
<1>4. Served(p)'
    BY <1>1 DEF Served
<1>5. SupersMeet'
    BY DEF SupersMeet
<1>6. ChildrenKnown(p)'
    BY <1>1, <1>2 DEF ChildrenKnown, Resting, TypeOK
<1>7. NoneElseKnown(p)'
    <2>1. \A q \in Peer : pc'[q] = "forget" => pc[q] = "forget"
        BY <1>1 DEF Resting
    <2>2. ASSUME NEW s \in superPeers, open[s], NEW q \in links[s]
          PROVE  \/ (q \in children[s] /\ pc'[q] # "forget")
                 \/ q \in superPeers \ {s}
                 \/ Passes(p, s, q)'
        <3>1. q \in Peer
            BY <1>2, <2>2 DEF TypeOK
        <3>2. QED
            BY <2>1, <2>2, <3>1 DEF NoneElseKnown
    <2>3. QED
        BY <2>2 DEF NoneElseKnown
<1>8. ParentKnown(p)'
    BY DEF ParentKnown
<1>9. WaitingKnow(p)'
    <2>1. \A q \in Peer : pc'[q] = "new" => pc[q] = "new"
        BY <1>1
    <2>2. ASSUME NEW c \in Waiting(p)', open[c] \/ pc'[c] = "new"
          PROVE  links[c] \subseteq StillKnown(p, c)'
        <3>1. pc'[c] = "new" => pc[c] = "new"
            BY <2>1, WaitingPeers
        <3>2. QED
            BY <2>2, <3>1 DEF WaitingKnow
    <2>3. QED
        BY <2>1, <2>2 DEF WaitingKnow
<1>10. QED
    BY <1>1, <1>3, <1>4, <1>5, <1>6, <1>7, <1>8, <1>9

LEMMA QuietJoinSolo ==
    ASSUME PlacesFit, PlacesFit', NEW p \in Peer, OnlyTask(p), Solo(p),
           Join(p) \/ ListSupers(p) \/ Find(p) \/ FindsNone(p) \/ Check(p)
    PROVE  Solo(p)'
<1> USE DEF Goto, At, shape, locals
<1>1. TypeOK /\ TypeOK' /\ SoloTask(p) /\ WaitingKnow(p)
    BY DEF PlacesFit, Solo, SoloLinks
<1>2. IsFiniteSet(superPeers) /\ Cardinality(superPeers) \in Nat
    BY <1>1, PeerAssumption, FS_Subset, FS_CardinalityType DEF TypeOK
<1>3. CASE Join(p)
    <2>1. superPeers = {} => Cardinality(superPeers) = 0
        BY FS_EmptySet
    <2>2. SoloTask(p)'
        BY <1>1, <1>2, <1>3, <2>1 DEF TypeOK, Join, SoloTask, Detached, HandsOver
    <2>3. /\ Detached(p) \subseteq Detached(p)' /\ Waiting(p)' \subseteq Waiting(p)
          /\ \A c : StillKnown(p, c)' = StillKnown(p, c)
        BY <1>1, <1>3 DEF TypeOK, Join, Detached, Waiting, StillKnown
    <2>4. QED
        BY <1>1, <1>3, <2>2, <2>3, QuietSolo DEF TypeOK, Join, Announced, Passes
<1>4. CASE ListSupers(p)
    <2>2. SoloTask(p)'
        BY <1>1, <1>4 DEF TypeOK, ListSupers, SoloTask, Detached, HandsOver
    <2>3. /\ Detached(p) \subseteq Detached(p)' /\ Waiting(p)' \subseteq Waiting(p)
          /\ \A c : StillKnown(p, c)' = StillKnown(p, c)
        BY <1>1, <1>4 DEF TypeOK, ListSupers, Detached, Waiting, StillKnown
    <2>4. QED
        BY <1>1, <1>4, <2>2, <2>3, QuietSolo DEF TypeOK, ListSupers, Announced, Passes
<1>5. CASE Find(p)
    <2>2. SoloTask(p)'
        BY <1>1, <1>5 DEF TypeOK, Find, SoloTask, Detached, HandsOver
    <2>3. /\ Detached(p) \subseteq Detached(p)' /\ Waiting(p)' \subseteq Waiting(p)
          /\ \A c : StillKnown(p, c)' = StillKnown(p, c)
        BY <1>1, <1>5 DEF TypeOK, Find, Detached, Waiting, StillKnown
    <2>4. QED
        BY <1>1, <1>5, <2>2, <2>3, QuietSolo DEF TypeOK, Find, Announced, Passes
<1>6. CASE FindsNone(p)
    BY <1>1, <1>6 DEF FindsNone, SoloTask
<1>7. CASE Check(p)
    <2>2. SoloTask(p)'
        BY <1>1, <1>7 DEF TypeOK, Check, SoloTask, Detached, HandsOver
    <2>3. /\ Detached(p) \subseteq Detached(p)' /\ Waiting(p)' \subseteq Waiting(p)
          /\ \A c : StillKnown(p, c)' = StillKnown(p, c)
        BY <1>1, <1>7 DEF TypeOK, Check, Detached, Waiting, StillKnown
    <2>4. p \in superPeers \cup childPeers
        BY <1>7 DEF Check, Solo, Served
    <2>5. QED
        BY <1>1, <1>7, <2>2, <2>3, <2>4, QuietSolo DEF TypeOK, Check, Announced, Passes
<1>8. QED
    BY <1>3, <1>4, <1>5, <1>6, <1>7

LEMMA QuietLeaveSolo ==
    ASSUME PlacesFit, PlacesFit', NEW p \in Peer, OnlyTask(p), Solo(p),
           \/ Close(p) \/ CopySupers(p) \/ SupersTold(p) \/ ChildrenTold(p) \/ FinishLeave(p)
           \/ \E c \in Peer : Reattach(p, c)
    PROVE  Solo(p)'
<1> USE DEF Goto, At, shape, locals
<1>1. TypeOK /\ TypeOK' /\ SoloTask(p) /\ WaitingKnow(p)
    BY DEF PlacesFit, Solo, SoloLinks
<1>2. CASE Close(p)
    <2>2. SoloTask(p)'
        BY <1>1, <1>2 DEF TypeOK, Close, SoloTask, Detached, HandsOver
    <2>3. /\ Detached(p) \subseteq Detached(p)' /\ Waiting(p)' \subseteq Waiting(p)
          /\ \A c : StillKnown(p, c)' = StillKnown(p, c)
        BY <1>1, <1>2 DEF TypeOK, Close, Detached, Waiting, StillKnown
    <2>4. QED
        BY <1>1, <1>2, <2>2, <2>3, QuietSolo DEF TypeOK, Close, Announced, Passes
<1>3. CASE CopySupers(p)
    <2>2. SoloTask(p)'
        BY <1>1, <1>3 DEF TypeOK, CopySupers, SoloTask, Detached, HandsOver
    <2>3. /\ Detached(p) \subseteq Detached(p)' /\ Waiting(p)' \subseteq Waiting(p)
          /\ \A c : StillKnown(p, c)' = StillKnown(p, c)
        BY <1>1, <1>3 DEF TypeOK, CopySupers, Detached, Waiting, StillKnown
    <2>4. QED
        BY <1>1, <1>3, <2>2, <2>3, QuietSolo DEF TypeOK, CopySupers, Announced, Passes
<1>4. CASE SupersTold(p)
    <2>2. SoloTask(p)'
        BY <1>1, <1>4 DEF TypeOK, SupersTold, SoloTask, Detached, HandsOver
    <2>3. /\ Detached(p) \subseteq Detached(p)' /\ Waiting(p)' \subseteq Waiting(p)
          /\ \A c \in Waiting(p)' : StillKnown(p, c) \subseteq StillKnown(p, c)'
        BY <1>1, <1>4 DEF TypeOK, SupersTold, Detached, Waiting, StillKnown
    <2>4. QED
        BY <1>1, <1>4, <2>2, <2>3, QuietSolo DEF TypeOK, SupersTold, Announced, Passes
<1>5. CASE ChildrenTold(p)
    <2>2. SoloTask(p)'
        BY <1>1, <1>5 DEF TypeOK, ChildrenTold, SoloTask, Detached, HandsOver
    <2>3. /\ Detached(p) \subseteq Detached(p)' /\ Waiting(p)' \subseteq Waiting(p)
          /\ \A c \in Waiting(p)' : StillKnown(p, c) \subseteq StillKnown(p, c)'
        BY <1>1, <1>5 DEF TypeOK, ChildrenTold, Detached, Waiting, StillKnown
    <2>4. QED
        BY <1>1, <1>5, <2>2, <2>3, QuietSolo DEF TypeOK, ChildrenTold, Announced, Passes
<1>6. CASE FinishLeave(p)
    <2>2. SoloTask(p)'
        BY <1>1, <1>6 DEF TypeOK, FinishLeave, SoloTask, Detached, HandsOver
    <2>3. /\ Detached(p) \subseteq Detached(p)' /\ Waiting(p)' \subseteq Waiting(p)
          /\ \A c : StillKnown(p, c)' = StillKnown(p, c)
        BY <1>1, <1>6 DEF TypeOK, FinishLeave, Detached, Waiting, StillKnown
    <2>4. QED
        BY <1>1, <1>6, <2>2, <2>3, QuietSolo DEF TypeOK, FinishLeave, Announced, Passes
<1>7. ASSUME NEW c \in Peer, Reattach(p, c)
      PROVE  Solo(p)'
    <2>1. c # p
        BY <1>7 DEF PlacesFit, TaskFits, Placeless, HandsOver, Unplaced, Hand, Reattach
    <2>2. SoloTask(p)'
        BY <1>1, <1>7, <2>1 DEF TypeOK, Reattach, SoloTask, Detached, HandsOver
    <2>3. /\ Detached(p) \subseteq Detached(p)' /\ Waiting(p)' \subseteq Waiting(p)
          /\ \A d : StillKnown(p, d)' = StillKnown(p, d)
        BY <1>1, <1>7 DEF TypeOK, Reattach, Detached, Waiting, StillKnown
    <2>4. QED
        BY <1>1, <1>7, <2>2, <2>3, QuietSolo DEF TypeOK, Reattach, Announced, Passes
<1>8. QED
    BY <1>2, <1>3, <1>4, <1>5, <1>6, <1>7

\* A send leaves every client that it does not reach with what it knew.
LEMMA TellOne ==
    ASSUME TypeOK, NEW m, NEW q \in Peer, NEW known, Tell(m, q, known)
    PROVE  /\ \A r \in Peer : r # q => links'[r] = links[r]
           /\ (q \notin m \/ ~open[q]) => links'[q] = links[q]
           /\ (q \in m /\ open[q]) => links'[q] = known
BY DEF Tell, TypeOK

LEMMA AnnounceSolo ==
    ASSUME PlacesFit, PlacesFit', NEW p \in Peer, OnlyTask(p), Solo(p), NEW q \in Peer,
           Announce(p, q)
    PROVE  Solo(p)'
<1> USE DEF Goto, At, shape, locals, Solo, SoloLinks
<1>1. /\ TypeOK /\ TypeOK' /\ pc[p] = "announce" /\ q \in todo[p]
      /\ todo'[p] = todo[p] \ {q}
      /\ UNCHANGED <<superPeers, children, childPeers, parent, open, pc, orphans, target, child>>
    BY DEF PlacesFit, Announce, TypeOK
<1>2. PICK t \in Peer : t = target[p]
    BY <1>1 DEF PlacesFit, TaskFits, LocalsFit
<1>3. /\ \A r \in Peer : r # q => links'[r] = links[r]
      /\ q \notin superPeers => links'[q] = links[q]
      /\ q \in superPeers /\ open[q] => links'[q] = links[q] \cup {t}
      /\ ~open[q] => links'[q] = links[q]
    BY <1>1, <1>2, TellOne DEF Announce
<1>4. \A s \in superPeers : /\ s \in Peer /\ s \notin childPeers /\ s \notin Waiting(p)
                            /\ pc[s] # "new"
    BY SupersApart
<1>5. OthersRest(p)' /\ SoloTree(p)' /\ SoloTask(p)' /\ Served(p)'
    BY <1>1 DEF OthersRest, SoloTree, Detached, Forgets, SoloTask, HandsOver, Served
<1>6. SupersMeet'
    BY <1>1, <1>3, <1>4 DEF SupersMeet
<1>7. Announced(p)'
    BY <1>1, <1>2, <1>3, <1>4 DEF Announced
<1>8. ChildrenKnown(p)'
    BY <1>1, <1>3, <1>4 DEF ChildrenKnown
<1>9. NoneElseKnown(p)'
    BY <1>1, <1>2, <1>3, <1>4 DEF NoneElseKnown, Passes
<1>10. ParentKnown(p)'
    BY <1>1, <1>3, <1>4 DEF ParentKnown, Detached, TypeOK
<1>11. WaitingKnow(p)'
    <2>1. Waiting(p)' = Waiting(p) /\ Waiting(p) \subseteq Peer
          /\ \A c : StillKnown(p, c)' = StillKnown(p, c)
        BY <1>1, WaitingPeers DEF Waiting, Detached, StillKnown
    <2>2. QED
        BY <1>1, <1>3, <1>4, <2>1 DEF WaitingKnow
<1>12. QED
    BY <1>5, <1>6, <1>7, <1>8, <1>9, <1>10, <1>11

LEMMA IntroduceSolo ==
    ASSUME PlacesFit, PlacesFit', NEW p \in Peer, OnlyTask(p), Solo(p), Introduce(p)
    PROVE  Solo(p)'
<1> USE DEF Goto, At, shape, locals, Solo, SoloLinks
<1>1. /\ TypeOK /\ TypeOK' /\ pc[p] = "introduce"
      /\ UNCHANGED <<superPeers, children, childPeers, parent, open, orphans, target, child, todo>>
      /\ pc'[p] = IF child[p] = p THEN "check" ELSE "reattach"
    BY DEF PlacesFit, Introduce, TypeOK
<1>2. PICK t \in Peer, c \in Peer : t = target[p] /\ c = child[p]
    BY <1>1 DEF PlacesFit, TaskFits, LocalsFit
<1>3. t \in superPeers /\ c \in children[t]
    BY <1>1, <1>2 DEF SoloTask
<1>4. /\ \A r \in Peer : r # t => links'[r] = links[r]
      /\ open[t] => links'[t] = links[t] \cup {c}
      /\ ~open[t] => links'[t] = links[t]
    BY <1>1, <1>2, <1>3, TellOne DEF Introduce
<1>5. \A s \in superPeers : /\ s \in Peer /\ s \notin childPeers /\ s \notin Waiting(p)
                            /\ pc[s] # "new"
    BY SupersApart
<1>6. /\ OthersRest(p)' /\ \A q \in Peer : q # p => pc'[q] = pc[q] /\ pc[q] \in Resting
      /\ \A q \in Peer : /\ pc'[q] \in {"forget", "new"} => pc'[q] = pc[q]
                         /\ pc[q] = "forget" => FALSE
    BY <1>1, StillAlone DEF Resting
<1>7. /\ Detached(p)' = orphans[p] /\ Detached(p) = orphans[p]
      /\ Waiting(p)' = orphans[p] /\ Waiting(p) = orphans[p]
      /\ \A d : StillKnown(p, d)' = {} /\ StillKnown(p, d) = {}
    BY <1>1 DEF Detached, Waiting, StillKnown
<1>8. SoloTree(p)'
    BY <1>1, <1>7 DEF SoloTree, Forgets
<1>9. SoloTask(p)'
    BY <1>1, <1>2, <1>3, <1>7 DEF SoloTask, HandsOver
<1>10. Served(p)'
    <2>1. c \in childPeers
        BY <1>1, <1>3 DEF SoloTree, Forgets
    <2>2. QED
        BY <1>1, <1>2, <1>6, <2>1 DEF Served
<1>11. SupersMeet' /\ Announced(p)'
    BY <1>1, <1>4, <1>5 DEF SupersMeet, Announced
<1>12. ChildrenKnown(p)'
    <2>1. ASSUME NEW s \in superPeers, open[s], NEW d \in children[s]
          PROVE  d \in links'[s]
        <3>1. d \in Peer /\ pc[d] # "forget"
            BY <1>1, <1>5, <1>6, <2>1 DEF TypeOK
        <3>2. CASE d \in links[s]
            BY <1>4, <1>5, <3>2
        <3>3. CASE d \notin links[s]
            <4>1. d = c
                BY <1>1, <1>2, <2>1, <3>1, <3>3 DEF ChildrenKnown
            <4>2. s = t
                BY <1>3, <1>5, <2>1, <4>1 DEF PlacesFit, Custody, InOnePlace
            <4>3. QED
                BY <1>4, <2>1, <4>1, <4>2
        <3>4. QED
            BY <3>2, <3>3
    <2>2. QED
        BY <1>1, <2>1 DEF ChildrenKnown
<1>13. NoneElseKnown(p)'
    <2>1. \A s, q : ~Passes(p, s, q)
        BY <1>1 DEF Passes
    <2>2. \A s \in superPeers : open[s] =>
              \A q \in links[s] : q \in children[s] \/ q \in superPeers \ {s}
        BY <2>1 DEF NoneElseKnown
    <2>3. \A q : q \in Peer => pc'[q] # "forget"
        BY <1>1, <1>6 DEF Resting
    <2>4. ASSUME NEW s \in superPeers, open[s], NEW q \in links'[s]
          PROVE  q \in Peer /\ (q \in children[s] \/ q \in superPeers \ {s})
        BY <1>1, <1>3, <1>4, <1>5, <2>2, <2>4 DEF TypeOK
    <2>5. QED
        BY <1>1, <2>3, <2>4 DEF NoneElseKnown
<1>14. ParentKnown(p)'
    BY <1>1, <1>3, <1>4, <1>5, <1>7 DEF ParentKnown, TypeOK
<1>15. WaitingKnow(p)'
    <2>1. orphans[p] \subseteq Peer /\ t \notin orphans[p] /\ pc[t] # "new"
        BY <1>1, <1>3, <1>5, <1>7 DEF TypeOK
    <2>2. \A d \in orphans[p] : pc'[d] = "new" => pc[d] = "new"
        BY <1>6, <2>1
    <2>3. \A q \in Peer : pc'[q] = "new" => pc[q] = "new" /\ q # t
        BY <1>6, <2>1
    <2>4. QED
        BY <1>1, <1>4, <1>7, <2>1, <2>2, <2>3 DEF WaitingKnow
<1>16. QED
    BY <1>6, <1>8, <1>9, <1>10, <1>11, <1>12, <1>13, <1>14, <1>15

LEMMA TellParentSolo ==
    ASSUME PlacesFit, PlacesFit', NEW p \in Peer, OnlyTask(p), Solo(p), TellParent(p)
    PROVE  Solo(p)'
<1> USE DEF Goto, At, shape, locals, Solo, SoloLinks
<1>1. /\ TypeOK /\ TypeOK' /\ pc[p] = "tellParent" /\ pc'[p] = "forget"
      /\ UNCHANGED <<superPeers, children, childPeers, parent, open, orphans, target, child, todo>>
    BY DEF PlacesFit, TellParent, TypeOK
<1>2. PICK t \in Peer : t = target[p]
    BY <1>1 DEF PlacesFit, TaskFits, LocalsFit
<1>3. /\ t \in superPeers /\ p \in children[t] /\ p \notin superPeers
      /\ \A s \in Peer : s # t => p \notin children[s]
    <2>1. t \in superPeers /\ p \in children[t]
        BY <1>1, <1>2 DEF SoloTask
    <2>2. QED
        BY <2>1 DEF PlacesFit, Custody, InOnePlace
<1>4. /\ \A r \in Peer : r # t => links'[r] = links[r]
      /\ open[t] => links'[t] = links[t] \ {p}
      /\ ~open[t] => links'[t] = links[t]
    BY <1>1, <1>2, <1>3, TellOne DEF TellParent
<1>5. \A s \in superPeers : /\ s \in Peer /\ s \notin childPeers /\ s \notin Waiting(p)
                            /\ pc[s] # "new"
    BY SupersApart
<1>6. OthersRest(p)' /\ \A q \in Peer : q # p => pc'[q] = pc[q] /\ pc[q] \in Resting
    BY StillAlone
<1>7. /\ Detached(p)' = {} /\ Detached(p) = {} /\ orphans[p] = {}
      /\ Waiting(p)' = {} /\ Waiting(p) = {}
    BY <1>1 DEF Detached, Waiting, HandsOver, SoloTask
<1>8. SoloTree(p)'
    BY <1>1, <1>7 DEF SoloTree, Forgets
<1>9. SoloTask(p)'
    BY <1>1, <1>7 DEF SoloTask
<1>10. Served(p)'
    BY <1>1, <1>6 DEF Served
<1>11. SupersMeet' /\ Announced(p)'
    BY <1>1, <1>3, <1>4, <1>5 DEF SupersMeet, Announced
<1>12. ChildrenKnown(p)'
    BY <1>1, <1>4, <1>5, <1>6 DEF ChildrenKnown, Resting, TypeOK
<1>13. NoneElseKnown(p)'
    <2>1. \A s, q : ~Passes(p, s, q)
        BY <1>1 DEF Passes
    <2>2. \A s \in superPeers : open[s] =>
              \A q \in links[s] : (q \in children[s] /\ pc[q] # "forget") \/ q \in superPeers \ {s}
        BY <2>1 DEF NoneElseKnown
    <2>3. ASSUME NEW s \in superPeers, open[s], NEW q \in links'[s]
          PROVE  /\ q \in Peer /\ q # p
                 /\ \/ q \in children[s] /\ pc[q] # "forget"
                    \/ q \in superPeers \ {s}
        BY <1>1, <1>3, <1>4, <1>5, <2>2, <2>3 DEF TypeOK
    <2>4. QED
        BY <1>1, <1>6, <2>3 DEF NoneElseKnown
<1>14. ParentKnown(p)'
    BY <1>1, <1>3, <1>4, <1>5, <1>7 DEF ParentKnown, TypeOK
<1>15. WaitingKnow(p)'
    BY <1>1, <1>3, <1>4, <1>5, <1>6, <1>7 DEF WaitingKnow
<1>16. QED
    BY <1>6, <1>8, <1>9, <1>10, <1>11, <1>12, <1>13, <1>14, <1>15

LEMMA TellSuperSolo ==
    ASSUME PlacesFit, PlacesFit', NEW p \in Peer, OnlyTask(p), Solo(p), NEW q \in Peer,
           TellSuper(p, q)
    PROVE  Solo(p)'
<1> USE DEF Goto, At, shape, locals, Solo, SoloLinks
<1>1. /\ TypeOK /\ TypeOK' /\ pc[p] = "tellSupers" /\ q \in todo[p]
      /\ todo'[p] = todo[p] \ {q}
      /\ UNCHANGED <<superPeers, children, childPeers, parent, open, pc, orphans, target, child>>
    BY DEF PlacesFit, TellSuper, TypeOK
<1>2. p \notin superPeers /\ \A s \in Peer : p \notin children[s]
    BY <1>1 DEF PlacesFit, TaskFits, Placeless, HandsOver, Unplaced
<1>3. /\ \A r \in Peer : r # q => links'[r] = links[r]
      /\ q \notin superPeers => links'[q] = links[q]
      /\ q \in superPeers /\ open[q] => links'[q] = links[q] \ {p}
      /\ ~open[q] => links'[q] = links[q]
    <2>1. Tell(superPeers, q, links[q] \ {p})
        BY DEF TellSuper
    <2>2. QED
        BY <1>1, <2>1 DEF Tell, TypeOK
<1>4. \A s \in superPeers : /\ s \in Peer /\ s \notin childPeers /\ s \notin Waiting(p)
                            /\ pc[s] # "new"
    BY SupersApart
<1>5. OthersRest(p)' /\ SoloTree(p)' /\ SoloTask(p)' /\ Served(p)'
    BY <1>1 DEF OthersRest, SoloTree, Detached, Forgets, SoloTask, HandsOver, Served
<1>6. SupersMeet' /\ Announced(p)'
    BY <1>1, <1>2, <1>3, <1>4 DEF SupersMeet, Announced
<1>7. ChildrenKnown(p)'
    BY <1>1, <1>2, <1>3, <1>4 DEF ChildrenKnown
<1>8. NoneElseKnown(p)'
    BY <1>1, <1>2, <1>3, <1>4 DEF NoneElseKnown, Passes
<1>9. ParentKnown(p)'
    BY <1>1, <1>3, <1>4 DEF ParentKnown, Detached, TypeOK
<1>10. WaitingKnow(p)'
    <2>1. Waiting(p)' = Waiting(p) /\ Waiting(p) \subseteq Peer
          /\ \A c : StillKnown(p, c)' = StillKnown(p, c)
        BY <1>1, WaitingPeers DEF Waiting, Detached, StillKnown
    <2>2. QED
        BY <1>1, <1>3, <1>4, <2>1 DEF WaitingKnow
<1>11. QED
    BY <1>5, <1>6, <1>7, <1>8, <1>9, <1>10

LEMMA TellChildSolo ==
    ASSUME PlacesFit, PlacesFit', NEW p \in Peer, OnlyTask(p), Solo(p), NEW q \in Peer,
           TellChild(p, q)
    PROVE  Solo(p)'
<1> USE DEF Goto, At, shape, locals, Solo, SoloLinks
<1>1. /\ TypeOK /\ TypeOK' /\ pc[p] = "tellChildren" /\ q \in todo[p]
      /\ todo'[p] = todo[p] \ {q}
      /\ UNCHANGED <<superPeers, children, childPeers, parent, open, pc, orphans, target, child>>
    BY DEF PlacesFit, TellChild, TypeOK
<1>2. /\ \A r \in Peer : r # q => links'[r] = links[r]
      /\ q \notin childPeers => links'[q] = links[q]
      /\ q \in childPeers /\ open[q] => links'[q] = links[q] \ {p}
      /\ ~open[q] => links'[q] = links[q]
    <2>1. Tell(childPeers, q, links[q] \ {p})
        BY DEF TellChild
    <2>2. QED
        BY <1>1, <2>1 DEF Tell, TypeOK
<1>3. \A s \in superPeers : /\ s \in Peer /\ s \notin childPeers /\ links'[s] = links[s]
    BY <1>2, SupersApart
<1>4. OthersRest(p)' /\ SoloTree(p)' /\ SoloTask(p)' /\ Served(p)'
    BY <1>1 DEF OthersRest, SoloTree, Detached, Forgets, SoloTask, HandsOver, Served
<1>5. SupersMeet' /\ Announced(p)' /\ ChildrenKnown(p)' /\ NoneElseKnown(p)'
    BY <1>1, <1>3 DEF SupersMeet, Announced, ChildrenKnown, NoneElseKnown, Passes
<1>6. \A r \in Peer : links'[r] \subseteq links[r]
    BY <1>2
<1>7. ParentKnown(p)'
    BY <1>1, <1>6 DEF ParentKnown, Detached, TypeOK
<1>8. WaitingKnow(p)'
    <2>1. /\ Waiting(p)' = orphans[p] /\ Waiting(p) = orphans[p] /\ orphans[p] \subseteq childPeers
          /\ orphans[p] \subseteq Peer
          /\ \A c : StillKnown(p, c) = IF c \in todo[p] THEN {p} ELSE {}
          /\ \A c : StillKnown(p, c)' = IF c \in todo[p] /\ c # q THEN {p} ELSE {}
        BY <1>1, WaitingPeers DEF Waiting, Detached, StillKnown, SoloTask
    <2>2. ASSUME NEW c \in orphans[p], open[c] \/ pc[c] = "new"
          PROVE  links'[c] \subseteq StillKnown(p, c)'
        <3>1. links[c] \subseteq StillKnown(p, c) /\ c \in childPeers /\ c \in Peer
            BY <2>1, <2>2 DEF WaitingKnow
        <3>2. pc[c] # "new"
            BY <3>1 DEF PlacesFit, TaskFits, NoChild
        <3>3. CASE c = q
            BY <1>2, <2>1, <2>2, <3>1, <3>2, <3>3
        <3>4. CASE c # q
            BY <1>2, <2>1, <3>1, <3>4
        <3>5. QED
            BY <3>3, <3>4
    <2>3. QED
        BY <1>1, <1>6, <2>1, <2>2 DEF WaitingKnow
<1>9. QED
    BY <1>4, <1>5, <1>7, <1>8

LEMMA InsertSuperSolo ==
    ASSUME PlacesFit, PlacesFit', NEW p \in Peer, OnlyTask(p), Solo(p), InsertSuper(p)
    PROVE  Solo(p)'
<1> USE DEF Goto, At, shape, locals, Solo, SoloLinks
<1>1. /\ TypeOK /\ TypeOK' /\ pc[p] = "announce" /\ todo[p] = {}
      /\ UNCHANGED <<childPeers, parent, open, links, orphans, target, child, todo>>
      /\ pc'[p] = IF target[p] = p THEN "check" ELSE "reattach"
    BY DEF PlacesFit, InsertSuper, TypeOK
<1>2. PICK r \in Peer : r = target[p]
    BY <1>1 DEF PlacesFit, TaskFits, LocalsFit
<1>3. r \notin superPeers /\ r \notin childPeers /\ r \in Waiting(p)
      /\ \A s \in Peer : r \notin children[s]
    <2>1. r \in Waiting(p)
        BY <1>1, <1>2 DEF Waiting
    <2>2. r \notin superPeers
        BY <2>1, SupersApart
    <2>3. r = p => Unplaced(r) /\ NoChild(r)
        BY <1>1, <1>2 DEF PlacesFit, TaskFits, Placeless, NoChild
    <2>4. r # p => r \in Moved(p)
        BY <1>1, <1>2 DEF Moved
    <2>5. r # p => \A s \in Peer : r \notin children[s]
        BY <2>4 DEF PlacesFit, Custody, InOnePlace, Hand
    <2>6. r \notin childPeers
        BY <1>1, <2>3, <2>4 DEF PlacesFit, TaskFits, LocalsFit
    <2>7. QED
        BY <2>1, <2>2, <2>3, <2>5, <2>6 DEF Unplaced
<1>4. /\ superPeers' = superPeers \cup {r}
      /\ \A s \in Peer : children'[s] = children[s]
      /\ children[r] = {}
    <2>1. children[r] = {}
        BY <1>3 DEF PlacesFit, Custody
    <2>2. QED
        BY <1>1, <1>2, <2>1 DEF InsertSuper, TypeOK
<1>5. \A s \in superPeers : s \in Peer
    BY SupersApart
<1>6. OthersRest(p)' /\ \A q \in Peer : q # p => pc'[q] = pc[q] /\ pc[q] \in Resting
    BY StillAlone
<1>7. \A q \in Peer : (pc'[q] = "forget" => pc[q] = "forget") /\ (pc'[q] = "new" => pc[q] = "new")
    BY <1>1, <1>6
<1>8. SoloTree(p)'
    <2>1. Cardinality(superPeers) <= 1
        BY <1>1 DEF SoloTask
    <2>2. Cardinality(superPeers') <= 2
        <3>1. IsFiniteSet(superPeers) /\ Cardinality(superPeers) \in Nat
            BY <1>1, PeerAssumption, FS_Subset, FS_CardinalityType DEF TypeOK
        <3>2. Cardinality(superPeers') = Cardinality(superPeers) + 1
            BY <1>3, <1>4, <3>1, FS_AddElement
        <3>3. QED
            BY <2>1, <3>1, <3>2
    <2>3. Detached(p)' = orphans[p] /\ Detached(p) = orphans[p]
        BY <1>1 DEF Detached
    <2>4. \A c \in childPeers : \/ parent[c] \in superPeers /\ c \in children[parent[c]]
                                \/ c \in orphans[p]
        BY <2>3 DEF SoloTree
    <2>5. \A s \in superPeers : \A c \in children[s] : c \in childPeers
        BY <1>1 DEF SoloTree, Forgets
    <2>6. QED
        BY <1>1, <1>4, <1>5, <2>2, <2>3, <2>4, <2>5 DEF SoloTree
<1>9. SoloTask(p)'
    BY <1>1, <1>2, <1>4 DEF SoloTask, HandsOver, Detached
<1>10. Served(p)'
    BY <1>1, <1>2, <1>4, <1>6 DEF Served
<1>11. SupersMeet'
    BY <1>1, <1>2, <1>4 DEF SupersMeet, Announced
<1>12. Announced(p)'
    BY <1>1 DEF Announced
<1>13. ChildrenKnown(p)'
    BY <1>1, <1>4, <1>5, <1>6, <1>7 DEF ChildrenKnown, TypeOK, Resting
<1>14. NoneElseKnown(p)'
    <2>1. open[r] => links[r] = {}
        BY <1>1, <1>3 DEF WaitingKnow, StillKnown
    <2>2. ASSUME NEW s \in superPeers, open[s], NEW q \in links[s]
          PROVE  (q \in children'[s] /\ pc'[q] # "forget") \/ q \in superPeers' \ {s}
        <3>1. q \in Peer /\ s \in Peer
            BY <1>1, <1>5, <2>2 DEF TypeOK
        <3>2. (q \in children[s] /\ pc[q] # "forget") \/ q \in superPeers \ {s} \/ q = r
            BY <1>1, <1>2, <2>2 DEF NoneElseKnown, Passes
        <3>3. QED
            BY <1>3, <1>4, <1>7, <2>2, <3>1, <3>2
    <2>3. QED
        BY <1>1, <1>4, <2>1, <2>2 DEF NoneElseKnown
<1>15. ParentKnown(p)'
    BY <1>1 DEF ParentKnown, Detached
<1>16. WaitingKnow(p)'
    <2>1. Waiting(p)' \subseteq Waiting(p) /\ Waiting(p) \subseteq Peer
          /\ \A c : StillKnown(p, c)' = {} /\ StillKnown(p, c) = {}
        BY <1>1, WaitingPeers DEF Waiting, Detached, StillKnown
    <2>2. QED
        BY <1>1, <1>7, <2>1 DEF WaitingKnow
<1>17. QED
    BY <1>6, <1>8, <1>9, <1>10, <1>11, <1>12, <1>13, <1>14, <1>15, <1>16

LEMMA AddChildSolo ==
    ASSUME PlacesFit, PlacesFit', NEW p \in Peer, OnlyTask(p), Solo(p), AddChild(p)
    PROVE  Solo(p)'
<1> USE DEF Goto, At, shape, locals, Solo, SoloLinks
<1>1. /\ TypeOK /\ TypeOK' /\ pc[p] = "addChild" /\ pc'[p] = "find"
      /\ childPeers' = childPeers \cup {p}
      /\ UNCHANGED <<superPeers, children, parent, open, links, orphans, target, child, todo>>
    BY DEF PlacesFit, AddChild, TypeOK
<1>2. OthersRest(p)' /\ \A q \in Peer : q # p => pc'[q] = pc[q] /\ pc[q] \in Resting
    BY StillAlone
<1>3. /\ Detached(p)' = {p} /\ Detached(p) = {} /\ orphans[p] = {}
      /\ Waiting(p)' = {p} /\ Waiting(p) = {p}
      /\ \A c : StillKnown(p, c)' = {} /\ StillKnown(p, c) = {}
    BY <1>1 DEF Detached, Waiting, StillKnown, SoloTask, HandsOver
<1>4. SoloTree(p)'
    BY <1>1, <1>3 DEF SoloTree, Forgets
<1>5. SoloTask(p)' /\ Served(p)'
    BY <1>1, <1>2, <1>3 DEF SoloTask, Served
<1>6. SupersMeet' /\ Announced(p)'
    BY <1>1 DEF SupersMeet, Announced
<1>7. ChildrenKnown(p)'
    BY <1>1, <1>2, SupersApart DEF ChildrenKnown, TypeOK, Resting
<1>8. NoneElseKnown(p)'
    BY <1>1, <1>2, SupersApart DEF NoneElseKnown, Passes, TypeOK, Resting
<1>9. ParentKnown(p)' /\ WaitingKnow(p)'
    BY <1>1, <1>2, <1>3 DEF ParentKnown, WaitingKnow
<1>10. QED
    BY <1>2, <1>4, <1>5, <1>6, <1>7, <1>8, <1>9

LEMMA AttachSolo ==
    ASSUME PlacesFit, PlacesFit', NEW p \in Peer, OnlyTask(p), Solo(p), Attach(p)
    PROVE  Solo(p)'
<1> USE DEF Goto, At, shape, locals, Solo, SoloLinks
<1>1. /\ TypeOK /\ TypeOK' /\ pc[p] = "attach" /\ pc'[p] = "setParent"
      /\ UNCHANGED <<superPeers, childPeers, parent, open, links, orphans, target, child, todo>>
    BY DEF PlacesFit, Attach, TypeOK
<1>2. PICK t \in Peer, c \in Peer : t = target[p] /\ c = child[p]
    BY <1>1 DEF PlacesFit, TaskFits, LocalsFit
<1>3. t \in superPeers /\ c \in childPeers
    BY <1>1, <1>2 DEF SoloTask, Detached
<1>4. \A s \in Peer : children'[s] = IF s = t THEN children[s] \cup {c} ELSE children[s]
    <2>1. children' = [children EXCEPT ![t] = children[t] \cup {c}]
        BY <1>2, <1>3 DEF Attach
    <2>2. children \in [Peer -> SUBSET Peer]
        BY <1>1 DEF TypeOK
    <2>3. QED
        BY <2>1, <2>2
<1>5. \A s \in superPeers : s \in Peer /\ s # c
    BY <1>3, SupersApart
<1>6. OthersRest(p)' /\ \A q \in Peer : q # p => pc'[q] = pc[q] /\ pc[q] \in Resting
    BY StillAlone
<1>7. /\ Detached(p)' = Detached(p) /\ Waiting(p)' = Waiting(p) /\ Waiting(p) \subseteq Peer
      /\ \A d : StillKnown(p, d)' = {} /\ StillKnown(p, d) = {}
    BY <1>1, WaitingPeers DEF Detached, Waiting, StillKnown
<1>8. \A q \in Peer : (pc'[q] = "forget" => FALSE) /\ (pc'[q] = "new" => pc[q] = "new")
    BY <1>1, <1>6 DEF Resting
<1>9. SoloTree(p)'
    BY <1>1, <1>3, <1>4, <1>5, <1>7 DEF SoloTree, Forgets
<1>10. SoloTask(p)' /\ Served(p)'
    BY <1>1, <1>2, <1>3, <1>4, <1>6, <1>7 DEF SoloTask, Served, HandsOver
<1>11. SupersMeet' /\ Announced(p)' /\ ParentKnown(p)'
    BY <1>1, <1>7 DEF SupersMeet, Announced, ParentKnown
<1>12. ChildrenKnown(p)'
    <2>1. ASSUME NEW s \in superPeers, open[s], NEW d \in children'[s]
          PROVE  d \in links[s] \/ d = c
        <3>1. d = c \/ d \in children[s]
            BY <1>4, <1>5, <2>1
        <3>2. d \in children[s] => d \in Peer /\ pc[d] # "forget"
            BY <1>1, <1>5, <1>6 DEF TypeOK, Resting
        <3>3. QED
            BY <1>1, <2>1, <3>1, <3>2 DEF ChildrenKnown
    <2>2. QED
        BY <1>1, <1>2, <2>1 DEF ChildrenKnown
<1>13. NoneElseKnown(p)'
    <2>1. ASSUME NEW s \in superPeers, open[s], NEW q \in links[s]
          PROVE  (q \in children'[s] /\ pc'[q] # "forget") \/ q \in superPeers \ {s}
        <3>1. q \in children[s] \/ q \in superPeers \ {s}
            BY <1>1, <2>1 DEF NoneElseKnown, Passes
        <3>2. q \in Peer
            BY <1>1, <1>5, <2>1 DEF TypeOK
        <3>3. QED
            BY <1>4, <1>5, <1>8, <3>1, <3>2
    <2>2. QED
        BY <1>1, <2>1 DEF NoneElseKnown
<1>14. WaitingKnow(p)'
    BY <1>1, <1>7, <1>8 DEF WaitingKnow
<1>15. QED
    BY <1>6, <1>9, <1>10, <1>11, <1>12, <1>13, <1>14

LEMMA SetParentSolo ==
    ASSUME PlacesFit, PlacesFit', NEW p \in Peer, OnlyTask(p), Solo(p), SetParent(p)
    PROVE  Solo(p)'
<1> USE DEF Goto, At, shape, locals, Solo, SoloLinks
<1>1. /\ TypeOK /\ TypeOK' /\ pc[p] = "setParent" /\ pc'[p] = "introduce"
      /\ UNCHANGED <<superPeers, childPeers, children, open, links, orphans, target, child, todo>>
    BY DEF PlacesFit, SetParent, TypeOK
<1>2. PICK t \in Peer, c \in Peer : t = target[p] /\ c = child[p]
    BY <1>1 DEF PlacesFit, TaskFits, LocalsFit
<1>3. t \in superPeers /\ c \in childPeers /\ c \in children[t]
    BY <1>1, <1>2 DEF SoloTask, Detached
<1>4. \A d \in Peer : parent'[d] = IF d = c THEN t ELSE parent[d]
    BY <1>1, <1>2, <1>3 DEF SetParent, TypeOK
<1>5. childPeers \subseteq Peer
    BY <1>1 DEF TypeOK
<1>6. OthersRest(p)' /\ \A q \in Peer : q # p => pc'[q] = pc[q] /\ pc[q] \in Resting
    BY StillAlone
<1>7. /\ Detached(p)' = orphans[p] /\ Detached(p) = orphans[p] \cup {c}
      /\ Waiting(p)' = orphans[p] /\ Waiting(p) = orphans[p] \cup {c} /\ orphans[p] \subseteq Peer
      /\ \A d : StillKnown(p, d)' = {} /\ StillKnown(p, d) = {}
    BY <1>1, <1>2, WaitingPeers DEF Detached, Waiting, StillKnown
<1>8. \A q \in Peer : /\ pc'[q] = "forget" => pc[q] = "forget"
                      /\ pc[q] = "forget" => pc'[q] = "forget"
                      /\ pc'[q] = "new" => pc[q] = "new"
    BY <1>1, <1>6 DEF Resting
<1>9. SoloTree(p)'
    BY <1>1, <1>3, <1>4, <1>5, <1>7 DEF SoloTree, Forgets
<1>10. SoloTask(p)' /\ Served(p)'
    BY <1>1, <1>2, <1>3, <1>6, <1>7 DEF SoloTask, Served, HandsOver
<1>11. SupersMeet' /\ Announced(p)'
    BY <1>1 DEF SupersMeet, Announced
<1>12. ParentKnown(p)'
    <2>1. open[c] => links[c] = {}
        BY <1>7 DEF WaitingKnow
    <2>2. QED
        BY <1>1, <1>4, <1>5, <1>7, <2>1 DEF ParentKnown
<1>13. ChildrenKnown(p)' /\ NoneElseKnown(p)'
    <2>1. \A s \in superPeers : s \in Peer /\ children[s] \subseteq Peer /\ links[s] \subseteq Peer
        BY <1>1 DEF TypeOK
    <2>2. ChildrenKnown(p)'
        BY <1>1, <1>8, <2>1 DEF ChildrenKnown
    <2>3. NoneElseKnown(p)'
        BY <1>1, <1>8, <2>1 DEF NoneElseKnown, Passes
    <2>4. QED
        BY <2>2, <2>3
<1>14. WaitingKnow(p)'
    BY <1>1, <1>7, <1>8 DEF WaitingKnow
<1>15. QED
    BY <1>6, <1>9, <1>10, <1>11, <1>12, <1>13, <1>14

LEMMA IntroduceFailsSolo ==
    ASSUME PlacesFit, PlacesFit', NEW p \in Peer, OnlyTask(p), Solo(p), IntroduceFails(p)
    PROVE  Solo(p)'
<1> USE DEF Goto, At, shape, locals, Solo, SoloLinks
<1>1. /\ TypeOK /\ TypeOK' /\ pc[p] = "introduce" /\ pc'[p] = "refused"
      /\ child[p] = p /\ (target[p] \in superPeers => ~open[target[p]])
      /\ UNCHANGED <<superPeers, childPeers, children, parent, open, links, orphans, todo>>
    BY DEF PlacesFit, IntroduceFails, TypeOK
<1>2. PICK t \in Peer : t = target[p]
    BY <1>1 DEF PlacesFit, TaskFits, LocalsFit
<1>3. /\ t \in superPeers /\ ~open[t]
      /\ \A s \in Peer : p \in children[s] => s = t
    <2>1. t \in superPeers /\ ~open[t] /\ p \in children[t]
        BY <1>1, <1>2 DEF SoloTask
    <2>2. QED
        BY <2>1 DEF PlacesFit, Custody, InOnePlace
<1>4. OthersRest(p)' /\ \A q \in Peer : q # p => pc'[q] = pc[q] /\ pc[q] \in Resting
    BY StillAlone
<1>5. /\ Detached(p)' = {} /\ Detached(p) = {} /\ orphans[p] = {}
      /\ Waiting(p)' = {} /\ Waiting(p) = {}
    BY <1>1 DEF Detached, Waiting, HandsOver, SoloTask
<1>6. \A q \in Peer : pc[q] # "forget" /\ pc'[q] # "forget" /\ (pc'[q] = "new" => pc[q] = "new")
    BY <1>1, <1>4 DEF Resting
<1>7. SoloTree(p)' /\ SoloTask(p)' /\ Served(p)'
    BY <1>1, <1>4, <1>5 DEF SoloTree, SoloTask, Served, Forgets
<1>8. SupersMeet' /\ Announced(p)' /\ ParentKnown(p)'
    BY <1>1, <1>5 DEF SupersMeet, Announced, ParentKnown
<1>9. \A s \in superPeers : s \in Peer /\ children[s] \subseteq Peer /\ links[s] \subseteq Peer
    BY <1>1 DEF TypeOK
<1>10. ChildrenKnown(p)'
    BY <1>1, <1>3, <1>6, <1>9 DEF ChildrenKnown
<1>11. NoneElseKnown(p)'
    BY <1>1, <1>6, <1>9 DEF NoneElseKnown, Passes
<1>12. WaitingKnow(p)'
    BY <1>1, <1>5, <1>6 DEF WaitingKnow
<1>13. QED
    BY <1>4, <1>7, <1>8, <1>10, <1>11, <1>12

LEMMA RemoveChildSolo ==
    ASSUME PlacesFit, PlacesFit', NEW p \in Peer, OnlyTask(p), Solo(p), RemoveChild(p)
    PROVE  Solo(p)'
<1> USE DEF Goto, At, shape, locals, Solo, SoloLinks
<1>1. /\ TypeOK /\ TypeOK' /\ pc[p] = "leaveChild"
      /\ childPeers' = childPeers \ {p}
      /\ \A c \in Peer : c # p => parent'[c] = parent[c]
      /\ UNCHANGED <<superPeers, children, open, links, orphans, todo>>
      /\ pc'[p] \in {"tellParent", "done"}
    BY DEF PlacesFit, RemoveChild, TypeOK
<1>2. OthersRest(p)' /\ \A q \in Peer : q # p => pc'[q] = pc[q] /\ pc[q] \in Resting
    BY StillAlone
<1>3. /\ Detached(p)' = {} /\ Detached(p) = {} /\ orphans[p] = {}
      /\ Waiting(p)' = {} /\ Waiting(p) = {}
    BY <1>1 DEF Detached, Waiting, HandsOver, SoloTask
<1>4. \A q \in Peer : pc[q] # "forget" /\ pc'[q] # "forget" /\ (pc'[q] = "new" => pc[q] = "new")
    BY <1>1, <1>2 DEF Resting
<1>5. \A s \in superPeers : s \in Peer /\ children[s] \subseteq Peer /\ links[s] \subseteq Peer
    BY <1>1 DEF TypeOK
<1>6. ASSUME p \in childPeers
      PROVE  SoloTree(p)' /\ SoloTask(p)'
    <2>1. parent[p] \in superPeers /\ p \in children[parent[p]] /\ parent[p] # NoPeer
        BY <1>3, <1>5, <1>6, NoPeerAssumption DEF SoloTree
    <2>2. pc'[p] = "tellParent" /\ target'[p] = parent[p]
        BY <1>1, <1>6, <2>1 DEF RemoveChild, TypeOK
    <2>3. \A s \in superPeers : p \in children[s] => s = parent[p]
        BY <1>5, <2>1 DEF PlacesFit, Custody, InOnePlace
    <2>4. SoloTree(p)'
        <3>1. \A s \in superPeers : \A c \in children[s] : c \in childPeers
            BY <1>1 DEF SoloTree, Forgets
        <3>2. \A s \in superPeers : \A c \in children[s] :
                  c \in childPeers' \/ (c = p /\ Forgets(p, s)')
            BY <1>1, <2>2, <2>3, <3>1 DEF Forgets
        <3>3. childPeers' \subseteq Peer
            BY <1>1 DEF TypeOK
        <3>4. QED
            BY <1>1, <1>3, <3>2, <3>3 DEF SoloTree
    <2>5. SoloTask(p)'
        BY <1>1, <1>3, <2>1, <2>2 DEF SoloTask
    <2>6. QED
        BY <2>4, <2>5
<1>7. ASSUME p \notin childPeers
      PROVE  SoloTree(p)' /\ SoloTask(p)'
    <2>1. pc'[p] = "done" /\ childPeers' = childPeers
        BY <1>1, <1>7 DEF RemoveChild, TypeOK
    <2>2. SoloTree(p)'
        BY <1>1, <1>3, <1>7, <2>1 DEF SoloTree, Forgets, TypeOK
    <2>3. SoloTask(p)'
        BY <1>1, <1>3, <2>1 DEF SoloTask
    <2>4. QED
        BY <2>2, <2>3
<1>8. Served(p)'
    BY <1>1, <1>2 DEF Served
<1>9. SupersMeet' /\ Announced(p)'
    BY <1>1 DEF SupersMeet, Announced
<1>10. ChildrenKnown(p)'
    BY <1>1, <1>4, <1>5 DEF ChildrenKnown
<1>11. NoneElseKnown(p)'
    BY <1>1, <1>4, <1>5 DEF NoneElseKnown, Passes
<1>12. ParentKnown(p)'
    BY <1>1, <1>3 DEF ParentKnown, TypeOK
<1>13. WaitingKnow(p)'
    BY <1>1, <1>3, <1>4 DEF WaitingKnow
<1>14. QED
    BY <1>2, <1>6, <1>7, <1>8, <1>9, <1>10, <1>11, <1>12, <1>13

LEMMA ForgetSolo ==
    ASSUME PlacesFit, PlacesFit', NEW p \in Peer, OnlyTask(p), Solo(p), Forget(p)
    PROVE  Solo(p)'
<1> USE DEF Goto, At, shape, locals, Solo, SoloLinks
<1>1. /\ TypeOK /\ TypeOK' /\ pc[p] = "forget" /\ pc'[p] = "done" /\ p \notin childPeers
      /\ UNCHANGED <<superPeers, childPeers, parent, open, links, orphans, todo>>
    BY DEF PlacesFit, TaskFits, NoChild, Forget, TypeOK
<1>2. PICK t \in Peer : t = target[p]
    BY <1>1 DEF PlacesFit, TaskFits, LocalsFit
<1>3. /\ t \in superPeers /\ p \in children[t]
      /\ \A s \in Peer : p \in children[s] => s = t
    <2>1. t \in superPeers /\ p \in children[t]
        BY <1>1, <1>2 DEF SoloTask
    <2>2. QED
        BY <2>1 DEF PlacesFit, Custody, InOnePlace
<1>4. \A s \in Peer : children'[s] = children[s] \ {p}
    BY <1>1, <1>2, <1>3 DEF Forget, TypeOK
<1>5. OthersRest(p)' /\ \A q \in Peer : q # p => pc'[q] = pc[q] /\ pc[q] \in Resting
    BY StillAlone
<1>6. /\ Detached(p)' = {} /\ Detached(p) = {} /\ orphans[p] = {}
      /\ Waiting(p)' = {} /\ Waiting(p) = {}
    BY <1>1 DEF Detached, Waiting, HandsOver, SoloTask
<1>7. \A q \in Peer : /\ pc'[q] # "forget" /\ (pc'[q] = "new" => pc[q] = "new")
                      /\ pc[q] = "forget" <=> q = p
    BY <1>1, <1>5 DEF Resting
<1>8. \A s \in superPeers : s \in Peer /\ children[s] \subseteq Peer /\ links[s] \subseteq Peer
    BY <1>1 DEF TypeOK
<1>9. SoloTree(p)' /\ SoloTask(p)' /\ Served(p)'
    <2>1. SoloTree(p)'
        BY <1>1, <1>4, <1>6, <1>8 DEF SoloTree
    <2>2. QED
        BY <1>1, <1>5, <1>6, <2>1 DEF SoloTask, Served
<1>10. SupersMeet' /\ Announced(p)' /\ ParentKnown(p)'
    BY <1>1, <1>6 DEF SupersMeet, Announced, ParentKnown
<1>11. ChildrenKnown(p)'
    BY <1>1, <1>4, <1>7, <1>8 DEF ChildrenKnown
<1>12. NoneElseKnown(p)'
    BY <1>1, <1>4, <1>7, <1>8 DEF NoneElseKnown, Passes
<1>13. WaitingKnow(p)'
    BY <1>1, <1>6, <1>7 DEF WaitingKnow
<1>14. QED
    BY <1>5, <1>9, <1>10, <1>11, <1>12, <1>13

LEMMA RemoveSuperSolo ==
    ASSUME PlacesFit, PlacesFit', NEW p \in Peer, OnlyTask(p), Solo(p), RemoveSuper(p)
    PROVE  Solo(p)'
<1> USE DEF Goto, At, shape, locals, Solo, SoloLinks
<1>1. /\ TypeOK /\ TypeOK' /\ pc[p] = "leaveSuper" /\ pc'[p] = "copySupers"
      /\ p \in superPeers /\ superPeers' = superPeers \ {p}
      /\ \A s \in Peer : children'[s] = IF s = p THEN {} ELSE children[s]
      /\ orphans'[p] = children[p]
      /\ UNCHANGED <<childPeers, parent, open, links, todo>>
    BY DEF PlacesFit, RemoveSuper, TypeOK
<1>2. OthersRest(p)' /\ \A q \in Peer : q # p => pc'[q] = pc[q] /\ pc[q] \in Resting
    BY StillAlone
<1>3. /\ Detached(p)' = children[p] /\ Detached(p) = {} /\ orphans[p] = {}
      /\ Waiting(p)' = children[p] /\ Waiting(p) = {}
      /\ \A c : StillKnown(p, c)' = {p}
    BY <1>1 DEF Detached, Waiting, HandsOver, SoloTask, StillKnown
<1>4. \A q \in Peer : pc[q] # "forget" /\ pc'[q] # "forget" /\ (pc'[q] = "new" => pc[q] = "new")
    BY <1>1, <1>2 DEF Resting
<1>5. \A s \in superPeers : s \in Peer /\ children[s] \subseteq Peer /\ links[s] \subseteq Peer
    BY <1>1 DEF TypeOK
<1>6. /\ \A s \in superPeers : children[s] \subseteq childPeers
      /\ \A c \in childPeers : parent[c] \in superPeers /\ c \in children[parent[c]]
    BY <1>1, <1>3 DEF SoloTree, Forgets
<1>7. \A c \in children[p] : c \in Peer /\ c \in childPeers /\ parent[c] = p
    BY <1>1, <1>5, <1>6 DEF PlacesFit, Custody, InOnePlace
<1>8. Cardinality(superPeers') <= 1
    <2>1. IsFiniteSet(superPeers) /\ Cardinality(superPeers) \in Nat
        BY <1>1, PeerAssumption, FS_Subset, FS_CardinalityType DEF TypeOK
    <2>2. Cardinality(superPeers') = Cardinality(superPeers) - 1
        BY <1>1, <2>1, FS_RemoveElement
    <2>3. QED
        BY <2>1, <2>2 DEF SoloTree
<1>9. SoloTree(p)'
    <2>1. Cardinality(superPeers') <= 2
        <3>1. Cardinality(superPeers') \in Nat
            BY <1>1, PeerAssumption, FS_Subset, FS_CardinalityType DEF TypeOK
        <3>2. QED
            BY <1>8, <3>1
    <2>2. QED
        BY <1>1, <1>3, <1>5, <1>6, <2>1 DEF SoloTree
<1>10. SoloTask(p)'
    BY <1>1, <1>3, <1>7, <1>8 DEF SoloTask, HandsOver
<1>11. Served(p)'
    BY <1>1, <1>2 DEF Served
<1>12. SupersMeet' /\ Announced(p)' /\ ParentKnown(p)'
    BY <1>1, <1>3 DEF SupersMeet, Announced, ParentKnown
<1>13. ChildrenKnown(p)'
    BY <1>1, <1>4, <1>5 DEF ChildrenKnown
<1>14. NoneElseKnown(p)'
    BY <1>1, <1>4, <1>5 DEF NoneElseKnown, Passes
<1>15. WaitingKnow(p)'
    <2>1. ASSUME NEW c \in children[p], open[c] \/ pc'[c] = "new"
          PROVE  links[c] \subseteq {p}
        <3>1. pc[c] # "new"
            BY <1>7 DEF PlacesFit, TaskFits, NoChild
        <3>2. QED
            BY <1>3, <1>4, <1>7, <2>1, <3>1 DEF ParentKnown
    <2>2. QED
        BY <1>1, <1>3, <1>4, <2>1 DEF WaitingKnow
<1>16. QED
    BY <1>2, <1>9, <1>10, <1>11, <1>12, <1>13, <1>14, <1>15

LEMMA RecruitSolo ==
    ASSUME PlacesFit, PlacesFit', NEW p \in Peer, OnlyTask(p), Solo(p), Recruit(p)
    PROVE  Solo(p)'
<1> USE DEF Goto, At, shape, locals, Solo, SoloLinks
<1>1. /\ TypeOK /\ TypeOK' /\ pc[p] = "recruit"
      /\ UNCHANGED <<superPeers, children, parent, open, links, todo>>
    BY DEF PlacesFit, Recruit
<1>2. /\ Detached(p) = orphans[p] /\ Waiting(p) = orphans[p]
      /\ orphans[p] \subseteq childPeers /\ orphans[p] \subseteq Peer
      /\ \A c : StillKnown(p, c) = {}
    BY <1>1 DEF Detached, Waiting, SoloTask, StillKnown, TypeOK
<1>3. PICK r \in orphans[p] : /\ childPeers' = childPeers \ {r}
                              /\ target' = [target EXCEPT ![p] = r]
                              /\ orphans' = [orphans EXCEPT ![p] = orphans[p] \ {r}]
                              /\ pc' = [pc EXCEPT ![p] = "listSupers"]
    BY <1>2 DEF Recruit
<1>4. /\ r \in Peer /\ target'[p] = r /\ orphans'[p] = orphans[p] \ {r}
      /\ pc'[p] = "listSupers"
    BY <1>1, <1>2, <1>3 DEF TypeOK
<1>5. r # p /\ \A s \in Peer : r \notin children[s]
    <2>1. r \in Hand(p)
        BY DEF Hand
    <2>2. Unplaced(p)
        BY <1>1 DEF PlacesFit, TaskFits, Placeless, HandsOver
    <2>3. QED
        BY <1>4, <2>1, <2>2 DEF PlacesFit, Custody, InOnePlace, Unplaced
<1>6. /\ Detached(p)' = orphans[p] \ {r} /\ Waiting(p)' = orphans[p]
      /\ \A c : StillKnown(p, c)' = {}
    BY <1>4 DEF Detached, Waiting, StillKnown
<1>7. OthersRest(p)' /\ \A q \in Peer : q # p => pc'[q] = pc[q] /\ pc[q] \in Resting
    BY StillAlone
<1>8. \A q \in Peer : pc[q] # "forget" /\ pc'[q] # "forget" /\ (pc'[q] = "new" => pc[q] = "new")
    BY <1>1, <1>4, <1>7 DEF Resting
<1>9. \A s \in superPeers : s \in Peer /\ children[s] \subseteq Peer /\ links[s] \subseteq Peer
    BY <1>1 DEF TypeOK
<1>10. SoloTree(p)'
    <2>1. \A s \in superPeers : children[s] \subseteq childPeers
        BY <1>1 DEF SoloTree, Forgets
    <2>2. QED
        BY <1>1, <1>2, <1>3, <1>5, <1>6, <1>9, <2>1 DEF SoloTree
<1>11. SoloTask(p)'
    BY <1>1, <1>2, <1>3, <1>4, <1>5, <1>6 DEF SoloTask, HandsOver
<1>12. Served(p)'
    BY <1>1, <1>3, <1>4, <1>7 DEF Served
<1>13. SupersMeet' /\ Announced(p)' /\ ParentKnown(p)'
    BY <1>1, <1>2, <1>3, <1>4, <1>6 DEF SupersMeet, Announced, ParentKnown
<1>14. ChildrenKnown(p)'
    BY <1>1, <1>8, <1>9 DEF ChildrenKnown
<1>15. NoneElseKnown(p)'
    BY <1>1, <1>8, <1>9 DEF NoneElseKnown, Passes
<1>16. WaitingKnow(p)'
    BY <1>1, <1>2, <1>6, <1>8 DEF WaitingKnow
<1>17. QED
    BY <1>7, <1>10, <1>11, <1>12, <1>13, <1>14, <1>15, <1>16

LEMMA ConnectSolo ==
    ASSUME PlacesFit, PlacesFit', NEW p \in Peer, OnlyTask(p), Solo(p), Connect(p)
    PROVE  Solo(p)'
<1> USE DEF Goto, shape, locals, Solo, SoloLinks
<1>1. /\ TypeOK /\ TypeOK' /\ pc[p] = "new" /\ pc'[p] = "join"
      /\ p \notin superPeers /\ p \notin childPeers
      /\ \A q \in Peer : q # p => open'[q] = open[q]
      /\ UNCHANGED <<superPeers, childPeers, children, parent, links, orphans, todo>>
    BY DEF PlacesFit, TaskFits, Placeless, NoChild, Unplaced, Connect, TypeOK
<1>2. OthersRest(p)' /\ \A q \in Peer : q # p => pc'[q] = pc[q] /\ pc[q] \in Resting
    BY StillAlone
<1>3. /\ Detached(p)' = {} /\ Detached(p) = {} /\ orphans[p] = {}
      /\ Waiting(p)' = {p} /\ links[p] = {}
    BY <1>1 DEF Detached, Waiting, HandsOver, SoloTask, WaitingKnow
<1>4. \A q \in Peer : pc[q] # "forget" /\ pc'[q] # "forget" /\ (pc'[q] = "new" => pc[q] = "new")
    BY <1>1, <1>2 DEF Resting
<1>5. /\ \A s \in superPeers : /\ s \in Peer /\ children[s] \subseteq Peer
                               /\ links[s] \subseteq Peer /\ open'[s] = open[s]
      /\ \A c \in childPeers : c \in Peer /\ open'[c] = open[c]
    BY <1>1 DEF TypeOK
<1>6. SoloTree(p)' /\ SoloTask(p)' /\ Served(p)'
    BY <1>1, <1>2, <1>3 DEF SoloTree, SoloTask, Served, Forgets
<1>7. SupersMeet' /\ Announced(p)' /\ ParentKnown(p)'
    BY <1>1, <1>3, <1>5 DEF SupersMeet, Announced, ParentKnown
<1>8. ChildrenKnown(p)'
    BY <1>1, <1>4, <1>5 DEF ChildrenKnown
<1>9. NoneElseKnown(p)'
    BY <1>1, <1>4, <1>5 DEF NoneElseKnown, Passes
<1>10. WaitingKnow(p)'
    BY <1>1, <1>3, <1>4 DEF WaitingKnow
<1>11. QED
    BY <1>2, <1>6, <1>7, <1>8, <1>9, <1>10

LEMMA RelaySolo ==
    ASSUME PlacesFit, PlacesFit', NEW p \in Peer, Solo(p), NEW q \in Peer, Relay(p, q)
    PROVE  Solo(p)'
<1> USE DEF shape, locals, Solo, SoloLinks
<1>1. /\ TypeOK /\ TypeOK' /\ pc[p] = "serve" /\ open[p] /\ q \in links[p]
      /\ Tell(superPeers \cup childPeers, q, links[q] \cup {p})
      /\ UNCHANGED <<superPeers, childPeers, children, parent, pc, open,
                     orphans, target, child, todo>>
    BY DEF PlacesFit, Relay
<1>2. /\ \A r \in Peer : r # q => links'[r] = links[r]
      /\ links'[q] = links[q] \/ links'[q] = links[q] \cup {p}
    BY <1>1 DEF Tell, TypeOK
<1>3. /\ Detached(p)' = {} /\ Detached(p) = {} /\ orphans[p] = {}
      /\ Waiting(p)' = {} /\ Waiting(p) = {}
    BY <1>1 DEF Detached, Waiting, HandsOver, SoloTask
<1>4. \A r \in Peer : pc[r] # "forget"
    BY <1>1 DEF OthersRest, Resting
<1>5. \A s \in superPeers : s \in Peer /\ children[s] \subseteq childPeers
    BY <1>1 DEF SoloTree, Forgets, TypeOK
<1>6. OthersRest(p)' /\ SoloTree(p)' /\ SoloTask(p)' /\ Served(p)'
    BY <1>1, <1>3 DEF OthersRest, SoloTree, SoloTask, Served, Forgets
<1>7. \/ p \in superPeers /\ q \in superPeers \ {p}
      \/ p \in superPeers /\ q \in childPeers /\ parent[q] = p
      \/ q \in superPeers /\ p \in children[q]
    <2>1. CASE p \in superPeers
        <3>1. q \in children[p] \/ q \in superPeers \ {p}
            BY <1>1, <2>1 DEF NoneElseKnown, Passes
        <3>2. q \in children[p] => q \in childPeers /\ parent[q] = p
            <4>1. q \in children[p] => /\ q \in childPeers /\ parent[q] \in superPeers
                                       /\ q \in children[parent[q]]
                BY <1>3, <1>5, <2>1 DEF SoloTree
            <4>2. QED
                BY <1>5, <2>1, <4>1 DEF PlacesFit, Custody, InOnePlace
        <3>3. QED
            BY <2>1, <3>1, <3>2
    <2>2. CASE p \in childPeers
        <3>1. links[p] \subseteq {parent[p]}
            BY <1>1, <1>3, <2>2 DEF ParentKnown
        <3>2. QED
            BY <1>1, <1>3, <2>2, <3>1 DEF SoloTree
    <2>3. p \in superPeers \cup childPeers
        BY <1>1 DEF Served
    <2>4. QED
        BY <2>1, <2>2, <2>3
<1>8. SupersMeet' /\ Announced(p)'
    BY <1>1, <1>2, <1>5 DEF SupersMeet, Announced
<1>9. ChildrenKnown(p)'
    BY <1>1, <1>2, <1>5 DEF ChildrenKnown
<1>10. NoneElseKnown(p)'
    <2>1. \A s \in superPeers : s \notin childPeers
        BY SupersApart
    <2>2. ASSUME NEW s \in superPeers, open[s], NEW r \in links'[s]
          PROVE  (r \in children[s] /\ pc[r] # "forget") \/ r \in superPeers \ {s}
        <3>1. CASE r \in links[s]
            BY <1>1, <2>2, <3>1 DEF NoneElseKnown, Passes
        <3>2. CASE r \notin links[s]
            <4>1. s = q /\ r = p
                BY <1>2, <1>5, <2>2, <3>2
            <4>2. QED
                BY <1>4, <1>7, <2>1, <2>2, <4>1
        <3>3. QED
            BY <3>1, <3>2
    <2>3. QED
        BY <1>1, <2>2 DEF NoneElseKnown
<1>11. ParentKnown(p)'
    <2>1. \A s \in superPeers : s \notin childPeers
        BY SupersApart
    <2>2. ASSUME NEW c \in childPeers, open[c]
          PROVE  links'[c] \subseteq {parent[c]}
        <3>1. links[c] \subseteq {parent[c]} /\ c \in Peer
            BY <1>1, <1>3, <2>2 DEF ParentKnown, TypeOK
        <3>2. QED
            BY <1>2, <1>7, <2>1, <2>2, <3>1
    <2>3. QED
        BY <1>1, <2>2 DEF ParentKnown
<1>12. WaitingKnow(p)'
    <2>1. pc[q] # "new"
        BY <1>5, <1>7 DEF PlacesFit, TaskFits, NoChild, Placeless, Unplaced
    <2>2. QED
        BY <1>1, <1>2, <1>3, <2>1 DEF WaitingKnow
<1>13. QED
    BY <1>6, <1>8, <1>9, <1>10, <1>11, <1>12


\* The first super peers joined one after the other: each knows the later ones.
LEMMA InitSerial == Init => (serial => SerialServer)
<1> SUFFICES ASSUME Init, serial PROVE SerialServer
    OBVIOUS
<1>1. PICK start \in Starts : start.serial /\ StartsWith(start.elders, start.joiners)
    BY DEF Init
<1>2. /\ start.elders \subseteq Peer
      /\ Cardinality(start.elders) <= 2
    BY <1>1, StartsAssumption
<1>3. /\ superPeers = start.elders
      /\ \A p \in Peer :
            /\ links[p] = IF p \in superPeers THEN {q \in superPeers : q > p} ELSE {}
            /\ pc[p] \in {"new", "serve", "done"}
            /\ pc[p] = "serve" <=> p \in superPeers
            /\ children[p] = {} /\ orphans[p] = {}
      /\ childPeers = {}
    BY <1>1 DEF Init, StartsWith
<1>4. /\ \A p \in Peer : Detached(p) = {}
      /\ \A p \in Peer : Waiting(p) = IF pc[p] = "new" THEN {p} ELSE {}
    <2>1. \A p \in Peer : Detached(p) = {}
        BY <1>3 DEF Detached
    <2>2. QED
        BY <1>3, <2>1 DEF Waiting
<1>5. OneAtATime
    BY <1>3 DEF OneAtATime, Resting
<1>6. SerialTree
    BY <1>2, <1>3 DEF SerialTree
<1>7. \A p \in Peer : SerialTask(p)
    BY <1>3, <1>4 DEF SerialTask
<1>8. \A s, t \in superPeers : s # t => s \in links[t] \/ t \in links[s]
    <2>1. ASSUME NEW s \in superPeers, NEW t \in superPeers, s # t
          PROVE  s \in links[t] \/ t \in links[s]
        <3>1. s \in Nat /\ t \in Nat /\ s \in Peer /\ t \in Peer
            BY <1>2, <1>3, PeerAssumption
        <3>2. s > t \/ t > s
            BY <2>1, <3>1
        <3>3. QED
            BY <1>3, <3>1, <3>2
    <2>2. QED
        BY <2>1
<1>9. \A s \in superPeers : links[s] \subseteq superPeers \ {s}
    <2>1. ASSUME NEW s \in superPeers, NEW q \in links[s]
          PROVE  q \in superPeers \ {s}
        <3>1. s \in Nat /\ s \in Peer
            BY <1>2, <1>3, PeerAssumption
        <3>2. q \in superPeers /\ q > s
            BY <1>3, <2>1, <3>1
        <3>3. QED
            BY <3>1, <3>2
    <2>2. QED
        BY <2>1
<1>10. SerialLinks
    <2>1. \A p \in Peer : \A c \in Waiting(p) :
              open[c] \/ pc[c] = "new" => links[c] \subseteq StillKnown(p, c)
        BY <1>3, <1>4
    <2>2. \A s \in superPeers : children[s] = {} /\ s \in Peer
        BY <1>2, <1>3
    <2>3. \A p \in Peer : pc[p] # "announce"
        BY <1>3
    <2>4. QED
        BY <1>3, <1>8, <1>9, <2>1, <2>2, <2>3 DEF SerialLinks
<1>11. QED
    BY <1>5, <1>6, <1>7, <1>10 DEF SerialServer

\* A websocket that closes is one less to speak of.
LEMMA DisconnectSerial ==
    ASSUME PlacesFit, SerialServer, NEW p \in Peer, Disconnect(p)
    PROVE  SerialServer'
<1>1. /\ UNCHANGED <<shape, childPeers, parent, links, pc, locals>>
      /\ \A q \in Peer : open'[q] => open[q]
      /\ superPeers \subseteq Peer /\ childPeers \subseteq Peer
    BY DEF Disconnect, PlacesFit, TypeOK
<1> USE DEF shape, locals
<1>2. \A q : /\ Detached(q)' = Detached(q) /\ Waiting(q)' = Waiting(q)
             /\ \A c : StillKnown(q, c)' = StillKnown(q, c)
    BY <1>1 DEF Detached, Waiting, StillKnown
<1>3. \A s, q : Passing(s, q)' = Passing(s, q) /\ NotKnown(q)' = NotKnown(q)
    BY <1>1 DEF Passing, NotKnown
<1>4. OneAtATime' /\ SerialTree' /\ \A q \in Peer : SerialTask(q)'
    BY <1>1, <1>2 DEF SerialServer, OneAtATime, SerialTree, SerialTask, Forgets, HandsOver
<1>5. \A q \in Peer : Waiting(q) \subseteq Peer
    BY WaitingPeers
<1>6. SerialLinks'
    BY <1>1, <1>2, <1>3, <1>5 DEF SerialServer, SerialLinks
<1>7. QED
    BY <1>4, <1>6 DEF SerialServer

\* The lone handler takes a step.
LEMMA StepSolo ==
    ASSUME PlacesFit, PlacesFit', SerialServer, serial,
           NEW p \in Peer, JoinStep(p) \/ LeaveStep(p)
    PROVE  Solo(p)'
<1>1. OnlyTask(p)
    BY JoinStepFrame, LeaveStepFrame DEF PlacesFit
<1>2. Solo(p)
    <2>1. CASE Close(p)
        BY <2>1, SoloOf DEF Close, MayStart
    <2>2. CASE pc[p] \notin Resting
        BY <2>2, SoloOf
    <2>3. Close(p) \/ pc[p] \notin Resting
        BY DEF JoinStep, LeaveStep, At, Resting, Join, ListSupers, InsertSuper, Announce,
           AddChild, Find, FindsNone, Attach, SetParent, Introduce, IntroduceFails, Check,
           RemoveChild, TellParent, Forget, RemoveSuper, CopySupers, SupersTold,
           ChildrenTold, TellSuper, TellChild, Reattach, Recruit, FinishLeave
    <2>4. QED
        BY <2>1, <2>2, <2>3
<1>3. CASE JoinStep(p)
    BY <1>1, <1>2, <1>3, QuietJoinSolo, InsertSuperSolo, AnnounceSolo, AddChildSolo,
       AttachSolo, SetParentSolo, IntroduceSolo, IntroduceFailsSolo DEF JoinStep
<1>4. CASE LeaveStep(p)
    BY <1>1, <1>2, <1>4, QuietLeaveSolo, RemoveChildSolo, TellParentSolo, ForgetSolo,
       RemoveSuperSolo, TellSuperSolo, TellChildSolo, RecruitSolo DEF LeaveStep
<1>5. QED
    BY <1>3, <1>4

LEMMA SoloServes == \A p \in Peer : PlacesFit /\ Solo(p) => SerialServer
BY SoloGives

LEMMA NextSerial ==
    PlacesFit /\ PlacesFit' /\ (serial => SerialServer) /\ [Next]_vars
    => (serial => SerialServer)'
<1> SUFFICES ASSUME PlacesFit, PlacesFit', serial', serial => SerialServer, [Next]_vars
             PROVE  SerialServer'
    OBVIOUS
<1>1. (\A p \in Peer : PlacesFit /\ Solo(p) => SerialServer)'
    BY SoloServes, PTL
<1>2. serial
    BY DEF Next, TaskStep, vars, JoinStep, LeaveStep, Join, ListSupers, InsertSuper,
       Announce, AddChild, Find, FindsNone, Attach, SetParent, Introduce, IntroduceFails,
       Check, Close, RemoveChild, TellParent, Forget, RemoveSuper, CopySupers, SupersTold,
       ChildrenTold, TellSuper, TellChild, Reattach, Recruit, FinishLeave, Connect,
       Disconnect, Relay
<1>3. ASSUME NEW p \in Peer, JoinStep(p) \/ LeaveStep(p) PROVE SerialServer'
    BY <1>1, <1>2, <1>3, StepSolo
<1>4. ASSUME NEW p \in Peer, Connect(p) PROVE SerialServer'
    <2>1. Solo(p)
        BY <1>2, <1>4, SoloOf DEF Connect, MayStart
    <2>2. OnlyTask(p)
        BY <1>4 DEF Connect, Goto, shape, locals, OnlyTask, PlacesFit, TypeOK
    <2>3. Solo(p)'
        BY <1>4, <2>1, <2>2, ConnectSolo
    <2>4. QED
        BY <1>1, <2>3
<1>5. ASSUME NEW p \in Peer, Disconnect(p) PROVE SerialServer'
    BY <1>2, <1>5, DisconnectSerial
<1>6. ASSUME NEW p \in Peer, NEW q \in Peer, Relay(p, q) PROVE SerialServer'
    <2>1. Solo(p)
        BY <1>2, <1>6, SoloOf DEF Relay, MayStart
    <2>2. Solo(p)'
        BY <1>6, <2>1, RelaySolo
    <2>3. QED
        BY <1>1, <2>2
<1>7. CASE UNCHANGED vars
    BY <1>2, <1>7 DEF vars, SerialServer, OneAtATime, SerialTree, SerialTask, SerialLinks,
       Detached, Waiting, StillKnown, Passing, NotKnown, Forgets, HandsOver
<1>8. QED
    BY <1>3, <1>4, <1>5, <1>6, <1>7 DEF Next, TaskStep

\* In every interleaving a peer has one place; and when requests do not overlap,
\* what the lone handler has still to do is all that the maps and the clients lack.
THEOREM InvariantHolds == Spec => []Invariant
<1>1. Init => PlacesFit /\ (serial => SerialServer)
    BY InitPlaces, InitSerial
<1>2. PlacesFit /\ (serial => SerialServer) /\ [Next]_vars
      => (PlacesFit /\ (serial => SerialServer))'
    BY NextPlaces, NextSerial
<1>3. QED
    BY <1>1, <1>2, PTL DEF Spec, Invariant

\* Between requests nothing is left to do.
LEMMA AllAtRest ==
    ASSUME Invariant, serial, AtRest
    PROVE  /\ SerialServer
           /\ \A p \in Peer : /\ Detached(p) = {}
                              /\ pc[p] \in {"new", "serve", "done", "refused"}
<1>1. SerialServer /\ \A p \in Peer : pc[p] \in {"new", "serve", "done", "refused"}
    BY DEF Invariant, AtRest, Resting
<1>2. \A p \in Peer : orphans[p] = {}
    BY <1>1 DEF SerialServer, SerialTask, HandsOver
<1>3. QED
    BY <1>1, <1>2 DEF Detached

\* Requests that do not overlap leave at most two super peers, and two maps that
\* tell the same tree, whoever joined, left or was recruited.
THEOREM TreeWhenSerialHolds == Spec => []TreeWhenSerial
<1>1. ASSUME Invariant PROVE TreeWhenSerial
    <2>1. ASSUME serial, AtRest
          PROVE  /\ Cardinality(superPeers) <= 2
                 /\ \A c \in childPeers : /\ parent[c] \in superPeers
                                          /\ c \in children[parent[c]]
                 /\ \A s \in superPeers : children[s] \subseteq childPeers
        <3>1. children \in [Peer -> SUBSET Peer] /\ superPeers \subseteq Peer
            BY <1>1 DEF Invariant, PlacesFit, TypeOK
        <3>2. QED
            BY <1>1, <2>1, <3>1, AllAtRest DEF SerialServer, SerialTree, Forgets
    <2>2. QED
        BY <2>1 DEF TreeWhenSerial
<1>2. Invariant => TreeWhenSerial
    BY <1>1
<1>3. QED
    BY <1>2, InvariantHolds, PTL

\* Requests that do not overlap leave every super peer knowing its children, one of
\* any two super peers knowing the other, and nobody knowing anybody else.
THEOREM IntroducedWhenSerialHolds == Spec => []IntroducedWhenSerial
<1>1. ASSUME Invariant PROVE IntroducedWhenSerial
    <2>1. ASSUME serial, AtRest
          PROVE  /\ \A s, t \in superPeers :
                       open[s] /\ open[t] /\ s # t => s \in links[t] \/ t \in links[s]
                 /\ \A s \in superPeers : open[s] =>
                       /\ \A c \in children[s] : pc[c] = "serve" => c \in links[s]
                       /\ links[s] \subseteq children[s] \cup (superPeers \ {s})
                 /\ \A c \in childPeers : open[c] => links[c] \subseteq {parent[c]}
        <3>1. /\ children \in [Peer -> SUBSET Peer] /\ superPeers \subseteq Peer
              /\ links \in [Peer -> SUBSET Peer]
            BY <1>1 DEF Invariant, PlacesFit, TypeOK
        <3>2. /\ SerialLinks
              /\ \A p \in Peer : /\ Detached(p) = {}
                                 /\ pc[p] \in {"new", "serve", "done", "refused"}
            BY <1>1, <2>1, AllAtRest DEF SerialServer
        <3>3. \A s, q : ~Passing(s, q) /\ (q \in Peer => ~NotKnown(q))
            BY <3>2 DEF Passing, NotKnown
        <3>4. QED
            BY <3>1, <3>2, <3>3 DEF SerialLinks
    <2>2. QED
        BY <2>1 DEF IntroducedWhenSerial
<1>2. Invariant => IntroducedWhenSerial
    BY <1>1
<1>3. QED
    BY <1>2, InvariantHolds, PTL
=============================================================================
