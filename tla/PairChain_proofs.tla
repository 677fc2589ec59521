--------------------------- MODULE PairChain_proofs ---------------------------
(* Proofs about PairChain, for every number of providers and pairs, in every *)
(* order, and every number of keys, edits and faults.                        *)
EXTENDS PairChain, Applier_proofs

-----------------------------------------------------------------------------
(* Types *)

LEMMA PairsType ==
    ChainTypeOK => /\ pairs \in Seq(Providers \X Providers) /\ pairs # <<>>
                   /\ Left \in Providers /\ Right \in Providers /\ Here \subseteq Providers
BY ChainAssumption DEF ChainTypeOK, Left, Right, Here

LEMMA PartnerHere == \A p \in Here : Partner(p) \in Here
BY DEF Partner, Here

LEMMA FirstPair ==
    ASSUME pairs \in Topologies
    PROVE  1 \in DOMAIN pairs
BY ChainAssumption

LEMMA ChainFaultType ==
    ASSUME faults \in 0..MaxFaults, NEW kind, Fault(kind)
    PROVE  faults' \in 0..MaxFaults
BY ChainAssumption DEF Fault

LEMMA WrittenPart ==
    ASSUME faults \in 0..MaxFaults, NEW W, NEW done, Written(W, done)
    PROVE  faults' \in 0..MaxFaults
BY ChainFaultType DEF Written

LEMMA InitChainType == Init => ChainTypeOK
<1> SUFFICES ASSUME Init PROVE ChainTypeOK
  OBVIOUS
<1>1. 0 \in 0..TTL /\ edits \in 0..MaxEdits /\ faults \in 0..MaxFaults
  BY ChainAssumption DEF Init
<1>2. tomb \in [DOMAIN pairs -> [Keys -> 0..TTL]]
  BY <1>1 DEF Init
<1>3. pend \in [DOMAIN pairs -> [Providers -> SUBSET Keys]]
  BY DEF Init, Nothing
<1>4. cur \in DOMAIN pairs
  BY FirstPair DEF Init
<1> QED BY <1>1, <1>2, <1>3, <1>4 DEF Init, Nothing, ChainTypeOK

LEMMA ChainOverType ==
    ASSUME ChainTypeOK, RunOver \/ NextPair, UNCHANGED pairs
    PROVE  /\ pc' \in {"idle", "left"} /\ cur' \in DOMAIN pairs /\ loaded' \in BOOLEAN
           /\ prev' \in [Providers -> SUBSET Keys] /\ snap' \in [Providers -> SUBSET Keys]
           /\ rem' \in [Providers -> SUBSET Keys] /\ add' \in [Providers -> SUBSET Keys]
<1>1. CASE RunOver
  BY <1>1, FirstPair DEF ChainTypeOK, RunOver, Nothing
<1>2. CASE NextPair /\ ~RunOver
  <2>1. cur' \in DOMAIN pairs
    BY <1>2, PairsType DEF ChainTypeOK, NextPair
  <2> QED BY <1>2, <2>1 DEF ChainTypeOK, NextPair, Nothing
<1> QED BY <1>1, <1>2

LEMMA ChainUserType ==
    ASSUME ChainTypeOK, NEW p \in Providers, NEW k \in Keys, UserAdd(p, k) \/ UserDelete(p, k)
    PROVE  ChainTypeOK'
<1>1. edits' \in 0..MaxEdits
  BY ChainAssumption DEF ChainTypeOK, UserAdd, UserDelete
<1>2. CASE UserAdd(p, k)
  BY <1>1, <1>2 DEF ChainTypeOK, UserAdd, files, locals
<1>3. CASE UserDelete(p, k)
  <2>1. lists' \in [Providers -> SUBSET Keys]
    BY <1>3 DEF ChainTypeOK, UserDelete
  <2>2. gone' \subseteq Keys /\ lost' \subseteq Keys /\ known' \subseteq lost'
    BY <1>3 DEF ChainTypeOK, UserDelete
  <2> QED BY <1>1, <1>3, <2>1, <2>2 DEF ChainTypeOK, UserDelete, files, locals
<1> QED BY <1>2, <1>3

LEMMA ChainTickType == ChainTypeOK /\ Tick => ChainTypeOK'
<1> SUFFICES ASSUME ChainTypeOK, Tick PROVE ChainTypeOK'
  OBVIOUS
<1>1. \A n \in 0..TTL : AtLeastZero(n - 1) \in 0..TTL
  BY ChainAssumption DEF AtLeastZero
<1>2. tomb' \in [DOMAIN pairs -> [Keys -> 0..TTL]]
  BY <1>1 DEF ChainTypeOK, Tick
<1> QED BY <1>2 DEF ChainTypeOK, Tick, locals, history

LEMMA SnapshotType ==
    ASSUME ChainTypeOK, NEW p \in Providers, NEW here, NEW next \in {"right", "plan"},
           TakeSnapshot(p, here, next)
    PROVE  ChainTypeOK'
BY DEF ChainTypeOK, TakeSnapshot, files, history

LEMMA KnownType == ChainTypeOK => Known \in [Providers -> SUBSET Keys]
BY DEF ChainTypeOK, Known

LEMMA OnlyOnType == ChainTypeOK => \A p \in Providers : OnlyOn(p) \subseteq Keys
BY DEF ChainTypeOK, OnlyOn

LEMMA ChainPlanType == ChainTypeOK /\ Plan => ChainTypeOK'
<1> SUFFICES ASSUME ChainTypeOK, Plan PROVE ChainTypeOK'
  OBVIOUS
<1>1. prev' \in [Providers -> SUBSET Keys]
  BY KnownType DEF Plan
<1>2. tomb' \in [DOMAIN pairs -> [Keys -> 0..TTL]]
  <2>1. tomb[cur] \in [Keys -> 0..TTL] /\ TTL \in 0..TTL
    BY ChainAssumption DEF ChainTypeOK
  <2>2. \A X : Mark(tomb[cur], X, TTL) \in [Keys -> 0..TTL]
    BY <2>1, MarkType
  <2> QED BY <2>2 DEF ChainTypeOK, Plan
<1>3. \A p \in Here : PlannedRemovals(p) \subseteq Keys /\ PlannedAdds(p) \subseteq Keys
  <2>1. \A p \in Here : OnlyOn(p) \subseteq Keys /\ OnlyOn(Partner(p)) \subseteq Keys
    BY OnlyOnType, PairsType, PartnerHere
  <2> QED BY <2>1 DEF PlannedRemovals, PlannedAdds, Retried
<1>4. rem' \in [Providers -> SUBSET Keys] /\ add' \in [Providers -> SUBSET Keys]
  BY <1>3 DEF Plan
<1>5. pend' \in [DOMAIN pairs -> [Providers -> SUBSET Keys]]
  <2>1. [p \in Providers |-> IF p \in Here THEN pend[cur][p] \cap OnlyOn(p) ELSE pend[cur][p]]
          \in [Providers -> SUBSET Keys]
    BY DEF ChainTypeOK
  <2> QED BY <2>1 DEF ChainTypeOK, Plan
<1> QED BY <1>1, <1>2, <1>4, <1>5 DEF ChainTypeOK, Plan, history

LEMMA ChainRemoveType ==
    ASSUME ChainTypeOK, NEW p \in Here, NEW here, NEW next \in {"rem_right", "add_left"},
           Remove(p, here, next)
    PROVE  ChainTypeOK'
<1>1. PICK done \in SUBSET rem[p] :
         LET success == RemoveSuccess(rem[p], Answer("apply:remove", rem[p], done))
         IN  /\ Written(rem[p], done)
             /\ lists' = [lists EXCEPT ![p] = @ \ done]
             /\ snap' = [snap EXCEPT ![p] = @ \ success]
             /\ tomb' = [tomb EXCEPT ![cur] = Mark(@, success \ Tombs, TTL)]
             /\ pend' = [pend EXCEPT ![cur][p] = (@ \ success) \cup (rem[p] \ success)]
  BY DEF Remove
<1> DEFINE success == RemoveSuccess(rem[p], Answer("apply:remove", rem[p], done))
<1>2. p \in Providers /\ rem[p] \subseteq Keys
  BY PairsType DEF ChainTypeOK
<1>3. tomb' \in [DOMAIN pairs -> [Keys -> 0..TTL]]
  <2>1. tomb[cur] \in [Keys -> 0..TTL] /\ TTL \in 0..TTL
    BY ChainAssumption DEF ChainTypeOK
  <2>2. Mark(tomb[cur], success \ Tombs, TTL) \in [Keys -> 0..TTL]
    BY <2>1, MarkType
  <2> QED BY <1>1, <2>2 DEF ChainTypeOK
<1>4. pend' \in [DOMAIN pairs -> [Providers -> SUBSET Keys]]
  BY <1>1, <1>2 DEF ChainTypeOK
<1>5. faults' \in 0..MaxFaults
  BY <1>1, WrittenPart DEF ChainTypeOK
<1>6. lists' \in [Providers -> SUBSET Keys] /\ snap' \in [Providers -> SUBSET Keys]
  BY <1>1 DEF ChainTypeOK
<1> QED BY <1>3, <1>4, <1>5, <1>6 DEF ChainTypeOK, Remove, history

LEMMA ChainAddType ==
    ASSUME ChainTypeOK, NEW p \in Here, NEW here, NEW next \in {"add_right", "commit"},
           Add(p, here, next)
    PROVE  ChainTypeOK'
<1>1. PICK done \in SUBSET add[p] :
         LET res == Answer("apply:add", add[p], done)
         IN  /\ Written(add[p], done)
             /\ \E success \in AddSuccesses(add[p], res, FALSE) :
                   /\ lists' = [lists EXCEPT ![p] = @ \cup done]
                   /\ snap' = [snap EXCEPT ![p] = @ \cup success]
                   /\ tomb' = [tomb EXCEPT ![cur] = Mark(@, success, 0)]
                   /\ pend' = [pend EXCEPT ![cur][p] = @ \ (success \cup res.ukeys)]
  BY DEF Add
<1> DEFINE res == Answer("apply:add", add[p], done)
<1>2. PICK success \in AddSuccesses(add[p], res, FALSE) :
         /\ lists' = [lists EXCEPT ![p] = @ \cup done]
         /\ snap' = [snap EXCEPT ![p] = @ \cup success]
         /\ tomb' = [tomb EXCEPT ![cur] = Mark(@, success, 0)]
         /\ pend' = [pend EXCEPT ![cur][p] = @ \ (success \cup res.ukeys)]
  BY <1>1
<1>3. p \in Providers /\ add[p] \subseteq Keys /\ success \subseteq add[p]
  BY PairsType, AddSuccessInBatch DEF ChainTypeOK
<1>4. tomb' \in [DOMAIN pairs -> [Keys -> 0..TTL]]
  <2>1. tomb[cur] \in [Keys -> 0..TTL] /\ 0 \in 0..TTL
    BY ChainAssumption DEF ChainTypeOK
  <2>2. Mark(tomb[cur], success, 0) \in [Keys -> 0..TTL]
    BY <2>1, MarkType
  <2> QED BY <1>2, <2>2 DEF ChainTypeOK
<1>5. pend' \in [DOMAIN pairs -> [Providers -> SUBSET Keys]]
  BY <1>2, <1>3 DEF ChainTypeOK
<1>6. faults' \in 0..MaxFaults
  BY <1>1, WrittenPart DEF ChainTypeOK
<1>7. lists' \in [Providers -> SUBSET Keys] /\ snap' \in [Providers -> SUBSET Keys]
  BY <1>2, <1>3 DEF ChainTypeOK
<1> QED BY <1>4, <1>5, <1>6, <1>7 DEF ChainTypeOK, Add, history

LEMMA ChainRaisesType ==
    ASSUME ChainTypeOK, NEW p \in Providers, WriteRaises(p)
    PROVE  ChainTypeOK'
<1>1. faults' \in 0..MaxFaults /\ NextPair /\ UNCHANGED pairs
  BY ChainFaultType DEF ChainTypeOK, WriteRaises
<1>2. /\ lists \in [Providers -> SUBSET Keys]
      /\ rem[p] \subseteq Keys /\ add[p] \subseteq Keys /\ lists[p] \subseteq Keys
  BY DEF ChainTypeOK
<1>3. ASSUME NEW list \in SUBSET Keys
      PROVE  [lists EXCEPT ![p] = list] \in [Providers -> SUBSET Keys]
  BY <1>2
<1>4. ASSUME \E done \in SUBSET rem[p] : lists' = [lists EXCEPT ![p] = @ \ done]
      PROVE  lists' \in [Providers -> SUBSET Keys]
  <2>1. PICK done \in SUBSET rem[p] : lists' = [lists EXCEPT ![p] = lists[p] \ done]
    BY <1>4
  <2>2. lists[p] \ done \in SUBSET Keys
    BY <1>2
  <2>3. [lists EXCEPT ![p] = lists[p] \ done] \in [Providers -> SUBSET Keys]
    BY <2>2, <1>3, Zenon
  <2> QED BY <2>1, <2>3, Zenon
<1>5. ASSUME \E done \in SUBSET add[p] : lists' = [lists EXCEPT ![p] = @ \cup done]
      PROVE  lists' \in [Providers -> SUBSET Keys]
  <2>1. PICK done \in SUBSET add[p] : lists' = [lists EXCEPT ![p] = lists[p] \cup done]
    BY <1>5
  <2>2. lists[p] \cup done \in SUBSET Keys
    BY <1>2, <2>1
  <2>3. [lists EXCEPT ![p] = lists[p] \cup done] \in [Providers -> SUBSET Keys]
    BY <2>2, <1>3, Zenon
  <2> QED BY <2>1, <2>3, Zenon
<1>6. lists' \in [Providers -> SUBSET Keys]
  BY <1>4, <1>5, Zenon DEF WriteRaises
<1> QED BY <1>1, <1>6, ChainOverType DEF ChainTypeOK, WriteRaises, files, history

LEMMA ChainEndType ==
    ChainTypeOK /\ (SnapshotFails \/ Commit \/ Crash \/ StartRun) => ChainTypeOK'
<1> SUFFICES ASSUME ChainTypeOK, SnapshotFails \/ Commit \/ Crash \/ StartRun
             PROVE  ChainTypeOK'
  OBVIOUS
<1>1. faults' \in 0..MaxFaults /\ UNCHANGED pairs
  BY ChainFaultType DEF ChainTypeOK, SnapshotFails, Commit, Crash, StartRun
<1>2. CASE SnapshotFails \/ Crash
  BY <1>1, <1>2, ChainOverType DEF ChainTypeOK, SnapshotFails, Crash, files, history
<1>3. CASE Commit
  <2>1. base' \in [Providers -> SUBSET Keys]
    BY <1>3 DEF ChainTypeOK, Commit
  <2> QED BY <1>1, <1>3, <2>1, ChainOverType DEF ChainTypeOK, Commit, history
<1>4. CASE StartRun
  BY <1>4 DEF ChainTypeOK, StartRun, files, locals, history
<1> QED BY <1>2, <1>3, <1>4

LEMMA NextChainType == ChainTypeOK /\ [Next]_vars => ChainTypeOK'
<1> SUFFICES ASSUME ChainTypeOK, [Next]_vars PROVE ChainTypeOK'
  OBVIOUS
<1>1. ASSUME NEW p \in Providers, NEW k \in Keys, UserAdd(p, k) \/ UserDelete(p, k)
      PROVE  ChainTypeOK'
  BY <1>1, ChainUserType
<1>2. CASE TakeSnapshot(Left, "left", "right") \/ TakeSnapshot(Right, "right", "plan")
  BY <1>2, SnapshotType, PairsType
<1>3. CASE Remove(Left, "rem_left", "rem_right") \/ Remove(Right, "rem_right", "add_left")
  BY <1>3, ChainRemoveType DEF Here
<1>4. CASE Add(Left, "add_left", "add_right") \/ Add(Right, "add_right", "commit")
  BY <1>4, ChainAddType DEF Here
<1>5. ASSUME NEW p \in Providers, WriteRaises(p) PROVE ChainTypeOK'
  BY <1>5, ChainRaisesType
<1>6. CASE Tick \/ Plan \/ SnapshotFails \/ Commit \/ Crash \/ StartRun
  BY <1>6, ChainTickType, ChainPlanType, ChainEndType
<1>7. CASE UNCHANGED vars
  BY <1>7 DEF ChainTypeOK, vars, files, locals, history
<1> QED BY <1>1, <1>2, <1>3, <1>4, <1>5, <1>6, <1>7 DEF Next, RunStep, BeforeCommit

\* Every variable keeps its type in every behaviour of the model.
THEOREM ChainTypeCorrect == Spec => []ChainTypeOK
BY InitChainType, NextChainType, PTL DEF Spec

-----------------------------------------------------------------------------
(* Whatever a pair takes for a deletion is one, whichever pair wrote it down *)

\* A run begins with no snapshots; this makes ChainEvidence inductive.
IdleIsClean == pc = "idle" => snap = Nothing
Evidence(D) == StoresTell(D) /\ PairTells(D) /\ IdleIsClean
ChainInvariant == Evidence(gone)

LEMMA ChainEvidenceInit == Init => ChainInvariant
<1> SUFFICES ASSUME Init PROVE ChainInvariant
  OBVIOUS
<1>1. /\ \A p \in Providers : base[p] = {} /\ prev[p] = {} /\ rem[p] = {} /\ add[p] = {}
      /\ pc = "idle" /\ snap = Nothing
  BY DEF Init, Nothing
<1>2. Here \subseteq Providers
  BY InitChainType, PairsType
<1>3. \A i \in DOMAIN pairs, k \in Keys : tomb[i][k] = 0
  BY DEF Init
<1>4. \A i \in DOMAIN pairs, p \in Providers : pend[i][p] = {}
  BY DEF Init, Nothing
<1>5. StoresTell(gone)
  BY <1>1, <1>3, <1>4 DEF StoresTell
<1>6. PairTells(gone)
  BY <1>1, <1>2 DEF PairTells
<1> QED BY <1>1, <1>5, <1>6 DEF ChainInvariant, Evidence, IdleIsClean

\* More may count as deleted.
LEMMA EvidenceWider ==
    ASSUME ChainTypeOK, NEW G, NEW H, G \subseteq H, Evidence(G)
    PROVE  Evidence(H)
<1>1. StoresTell(H)
  BY DEF Evidence, StoresTell
<1>2. PairTells(H)
  BY DEF Evidence, PairTells
<1> QED BY <1>1, <1>2 DEF Evidence

\* The set of keys on a list, or once on it and deleted, does not shrink.
LEMMA OnceThere ==
    ASSUME NEW G, NEW p, lists[p] \ lists'[p] \subseteq G
    PROVE  lists[p] \cup G \subseteq lists'[p] \cup G
OBVIOUS

\* Steps that change the lists, deleting nothing silently, and leave the rest.
LEMMA EvidenceListsOnly ==
    ASSUME ChainTypeOK, NEW G, Evidence(G),
           \A p \in Providers : lists[p] \ lists'[p] \subseteq G,
           UNCHANGED <<pairs, base, tomb, pend, loaded, prev, snap, rem, add, cur>>,
           pc' = pc \/ (pc = "idle" /\ pc' = "left")
    PROVE  Evidence(G)'
<1>1. \A p \in Providers : lists[p] \cup G \subseteq lists'[p] \cup G
  BY OnceThere
<1>2. StoresTell(G)'
  BY <1>1 DEF Evidence, StoresTell
<1>3. UNCHANGED <<Left, Right, Here, Known>> /\ \A p \in Here : Partner(p)' = Partner(p)
  BY DEF Left, Right, Here, Known, Partner
<1>4. (\A p \in Here : snap[p] \subseteq lists'[p] \cup G)
  BY <1>1, PairsType DEF Evidence, PairTells, IdleIsClean, Nothing
<1>5. \A p \in Here : add[p] \subseteq lists'[Partner(p)] \cup G
  BY <1>1, PairsType, PartnerHere DEF Evidence, PairTells
<1>6. PairTells(G)'
  BY <1>3, <1>4, <1>5
     DEF Evidence, PairTells, Shrunk
<1>7. IdleIsClean'
  BY DEF Evidence, IdleIsClean, Nothing
<1> QED BY <1>2, <1>6, <1>7 DEF Evidence

LEMMA EvidenceChainUser ==
    ASSUME ChainTypeOK, NEW G, Evidence(G), NEW p \in Providers, NEW k \in Keys,
           UserAdd(p, k) \/ (UserDelete(p, k) /\ k \in G)
    PROVE  Evidence(G)'
<1>1. \A q \in Providers : lists[q] \ lists'[q] \subseteq G
  <2>1. CASE UserAdd(p, k)
    BY <2>1 DEF ChainTypeOK, UserAdd
  <2>2. CASE UserDelete(p, k) /\ k \in G
    BY <2>2 DEF ChainTypeOK, UserDelete
  <2> QED BY <2>1, <2>2
<1>2. UNCHANGED <<pairs, base, tomb, pend, loaded, prev, snap, rem, add, cur, pc>>
  BY DEF UserAdd, UserDelete, files, locals
<1> QED BY <1>1, <1>2, EvidenceListsOnly

\* The run, or the pair, is over: what it holds is dropped.
LEMMA EvidenceOver ==
    ASSUME ChainTypeOK, NEW G, Evidence(G), RunOver \/ NextPair,
           UNCHANGED <<pairs, tomb, pend>>,
           \A p \in Providers : lists[p] \ lists'[p] \subseteq G,
           \A p \in Providers : base'[p] \subseteq lists'[p] \cup G
    PROVE  Evidence(G)'
<1>1. \A p \in Providers : prev'[p] \subseteq prev[p]
  BY DEF RunOver, NextPair, Nothing
<1>2. \A p \in Providers : prev[p] \subseteq lists'[p] \cup G
  BY OnceThere DEF Evidence, StoresTell
<1>3. StoresTell(G)'
  BY <1>1, <1>2 DEF Evidence, StoresTell
<1>4. snap' = Nothing /\ rem' = Nothing /\ add' = Nothing /\ pc' \in {"idle", "left"}
  BY DEF RunOver, NextPair
<1>5. Here' \subseteq Providers
  <2>1. cur' \in DOMAIN pairs
    BY ChainOverType
  <2> QED BY <2>1, PairsType DEF Here, Left, Right
<1>6. PairTells(G)'
  BY <1>4, <1>5 DEF PairTells, Nothing
<1>7. IdleIsClean'
  BY <1>4 DEF IdleIsClean, Nothing
<1> QED BY <1>3, <1>6, <1>7 DEF Evidence

LEMMA EvidenceChainSnapshot ==
    ASSUME ChainTypeOK, NEW G, Evidence(G),
           TakeSnapshot(Left, "left", "right") \/ TakeSnapshot(Right, "right", "plan")
    PROVE  Evidence(G)'
<1>1. UNCHANGED <<lists, pairs, base, tomb, pend, cur, loaded, prev, rem, add>>
  BY DEF TakeSnapshot, files, history
<1>2. UNCHANGED <<Left, Right, Here, Known>> /\ \A p \in Here : Partner(p)' = Partner(p)
  BY <1>1 DEF Left, Right, Here, Known, Partner
<1>3. Left \in Here /\ Right \in Here /\ Here \subseteq Providers
  BY PairsType DEF Here
<1>4. \A p \in Providers : Known[p] \ lists[p] \subseteq G
  BY DEF Evidence, StoresTell, Known
<1>5. \A p \in Here : snap[p] \subseteq lists[p] \cup G
  BY DEF Evidence, PairTells, TakeSnapshot
<1>6. \A p \in Here : snap'[p] \in {snap[p], lists[p]}
  BY <1>3 DEF ChainTypeOK, TakeSnapshot
<1>7. CASE TakeSnapshot(Left, "left", "right")
  <2>1. snap'[Left] = lists[Left] /\ pc' = "right"
    BY <1>3, <1>7 DEF ChainTypeOK, TakeSnapshot
  <2>2. PairTells(G)'
    BY <1>1, <1>2, <1>3, <1>4, <1>5, <1>6, <2>1
       DEF Evidence, PairTells, Shrunk
  <2> QED BY <1>1, <2>1, <2>2
       DEF Evidence, StoresTell, IdleIsClean
<1>8. CASE TakeSnapshot(Right, "right", "plan")
  <2>1. snap'[Right] = lists[Right] /\ pc = "right" /\ pc' = "plan"
    BY <1>3, <1>8 DEF ChainTypeOK, TakeSnapshot
  <2>2. Shrunk(Left) \subseteq G
    BY <2>1 DEF Evidence, PairTells
  <2>3. Known[Left] \ snap'[Left] \subseteq G
    BY <1>3, <1>4, <1>6, <2>2 DEF Shrunk
  <2>4. PairTells(G)'
    BY <1>1, <1>2, <1>3, <1>4, <1>5, <1>6, <2>1, <2>3
       DEF Evidence, PairTells, Shrunk
  <2> QED BY <1>1, <2>1, <2>4
       DEF Evidence, StoresTell, IdleIsClean
<1> QED BY <1>7, <1>8

LEMMA PairPlans ==
    ASSUME ChainTypeOK, NEW G, Evidence(G), pc = "plan", NEW p \in Here
    PROVE  /\ PlannedRemovals(p) \subseteq G
           /\ PlannedAdds(p) \subseteq lists[Partner(p)] \cup G
<1>1. \A q \in Here : Shrunk(q) \subseteq G
  BY DEF Evidence, PairTells, Here
<1>2. Tombs \subseteq G /\ pend[cur][p] \subseteq G
  BY PairsType DEF ChainTypeOK, Evidence, StoresTell, Tombs
<1>3. \A k : DeletionWanted(p, k) => k \in G
  BY <1>1, <1>2, PartnerHere DEF DeletionWanted, TombBlocksRemove
<1>4. PlannedRemovals(p) \subseteq G
  BY <1>2, <1>3 DEF PlannedRemovals, Retried
<1>5. PlannedAdds(p) \subseteq snap[Partner(p)]
  BY DEF PlannedAdds, OnlyOn
<1>6. snap[Partner(p)] \subseteq lists[Partner(p)] \cup G
  BY PartnerHere DEF Evidence, PairTells
<1> QED BY <1>4, <1>5, <1>6

LEMMA EvidenceChainPlan ==
    ASSUME ChainTypeOK, NEW G, Evidence(G), Plan
    PROVE  Evidence(G)'
<1>1. /\ UNCHANGED <<lists, pairs, base, cur, snap>>
      /\ pc = "plan" /\ pc' = "rem_left" /\ prev' = Known
  BY DEF Plan, history
<1>2. UNCHANGED <<Left, Right, Here>> /\ \A p \in Here : Partner(p)' = Partner(p)
  BY <1>1 DEF Left, Right, Here, Partner
<1>3. \A p \in Providers : base'[p] \cup prev'[p] \subseteq lists[p] \cup G
  BY <1>1 DEF Evidence, StoresTell, Known
<1>4. \A i \in DOMAIN pairs, k \in Keys : tomb'[i][k] > 0 => k \in G
  <2>1. Shrunk(Left) \cup Shrunk(Right) \subseteq G
    BY <1>1 DEF Evidence, PairTells
  <2>2. \A i \in DOMAIN pairs, k \in Keys :
           tomb'[i][k] > 0 => tomb[i][k] > 0 \/ k \in Shrunk(Left) \cup Shrunk(Right)
    BY DEF ChainTypeOK, Plan, Mark
  <2> QED BY <2>1, <2>2 DEF Evidence, StoresTell
<1>5. \A i \in DOMAIN pairs, p \in Providers : pend'[i][p] \subseteq G
  <2>1. \A i \in DOMAIN pairs, p \in Providers : pend'[i][p] \subseteq pend[i][p]
    BY DEF ChainTypeOK, Plan
  <2> QED BY <2>1 DEF Evidence, StoresTell
<1>6. StoresTell(G)'
  BY <1>1, <1>3, <1>4, <1>5 DEF StoresTell
<1>7. \A p \in Providers : rem'[p] \subseteq G
  BY <1>1, PairPlans DEF Plan
<1>8. \A p \in Here : add'[p] \subseteq lists[Partner(p)] \cup G
  BY <1>1, PairPlans, PairsType DEF Plan
<1>9. PairTells(G)'
  BY <1>1, <1>2, <1>7, <1>8 DEF Evidence, PairTells
<1> QED BY <1>1, <1>6, <1>9 DEF Evidence, IdleIsClean

LEMMA EvidenceChainRemove ==
    ASSUME ChainTypeOK, NEW G, Evidence(G), NEW p \in Here,
           NEW here \in {"rem_left", "rem_right"}, NEW next \in {"rem_right", "add_left"},
           Remove(p, here, next)
    PROVE  Evidence(G)' /\ \E D \in SUBSET G : lists' = [lists EXCEPT ![p] = @ \ D]
<1>1. PICK done \in SUBSET rem[p] :
         LET success == RemoveSuccess(rem[p], Answer("apply:remove", rem[p], done))
         IN  /\ lists' = [lists EXCEPT ![p] = @ \ done]
             /\ snap' = [snap EXCEPT ![p] = @ \ success]
             /\ tomb' = [tomb EXCEPT ![cur] = Mark(@, success \ Tombs, TTL)]
             /\ pend' = [pend EXCEPT ![cur][p] = (@ \ success) \cup (rem[p] \ success)]
  BY DEF Remove
<1> DEFINE success == RemoveSuccess(rem[p], Answer("apply:remove", rem[p], done))
<1>2. p \in Providers /\ rem[p] \subseteq G /\ success \subseteq rem[p]
  BY PairsType, RemoveSuccessInBatch DEF Evidence, PairTells
<1> HIDE DEF success
<1>3. /\ UNCHANGED <<pairs, base, cur, loaded, prev, add>>
      /\ rem' = [rem EXCEPT ![p] = {}] /\ pc' \notin {"idle", "left", "right", "plan"}
      /\ pc # "idle"
  BY DEF Remove, history, Evidence
<1>4. UNCHANGED <<Left, Right, Here>> /\ \A q \in Here : Partner(q)' = Partner(q)
  BY <1>3 DEF Left, Right, Here, Partner
<1>5. \A q \in Providers : lists[q] \cup G \subseteq lists'[q] \cup G
  BY <1>1, <1>2 DEF ChainTypeOK
<1>6. \A i \in DOMAIN pairs, k \in Keys : tomb'[i][k] > 0 => tomb[i][k] > 0 \/ k \in success
  BY <1>1 DEF ChainTypeOK, Mark, success
<1>7. \A i \in DOMAIN pairs, q \in Providers : pend'[i][q] \subseteq pend[i][q] \cup rem[p]
  BY <1>1 DEF ChainTypeOK, success
<1>8. \A q \in Providers : snap'[q] \subseteq snap[q] /\ rem'[q] \subseteq rem[q]
  BY <1>1, <1>3 DEF ChainTypeOK, success
<1>9. StoresTell(G)'
  BY <1>2, <1>3, <1>5, <1>6, <1>7 DEF Evidence, StoresTell
<1>10. PairTells(G)'
  <2>1. \A q \in Here : snap'[q] \subseteq lists'[q] \cup G
    BY <1>3, <1>5, <1>8, PairsType DEF Evidence, PairTells
  <2>2. \A q \in Here : add[q] \subseteq lists'[Partner(q)] \cup G
    BY <1>5, PairsType, PartnerHere DEF Evidence, PairTells
  <2>3. \A q \in Providers : rem'[q] \subseteq G
    BY <1>8 DEF Evidence, PairTells
  <2> QED BY <1>3, <1>4, <2>1, <2>2, <2>3 DEF PairTells
<1>11. Evidence(G)'
  BY <1>3, <1>9, <1>10 DEF Evidence, IdleIsClean
<1> QED BY <1>1, <1>2, <1>11

LEMMA EvidenceChainAdd ==
    ASSUME ChainTypeOK, NEW G, Evidence(G), NEW p \in Here,
           NEW here \in {"add_left", "add_right"}, NEW next \in {"add_right", "commit"},
           Add(p, here, next)
    PROVE  /\ Evidence(G)'
           /\ \E D \in SUBSET (lists[Partner(p)] \cup G) : lists' = [lists EXCEPT ![p] = @ \cup D]
<1>1. PICK done \in SUBSET add[p] :
         \E success \in AddSuccesses(add[p], Answer("apply:add", add[p], done), FALSE) :
            /\ lists' = [lists EXCEPT ![p] = @ \cup done]
            /\ snap' = [snap EXCEPT ![p] = @ \cup success]
            /\ tomb' = [tomb EXCEPT ![cur] = Mark(@, success, 0)]
            /\ pend' = [pend EXCEPT ![cur][p] =
                           @ \ (success \cup Answer("apply:add", add[p], done).ukeys)]
  BY DEF Add
<1>2. PICK success \in AddSuccesses(add[p], Answer("apply:add", add[p], done), FALSE) :
         /\ lists' = [lists EXCEPT ![p] = @ \cup done]
         /\ snap' = [snap EXCEPT ![p] = @ \cup success]
         /\ tomb' = [tomb EXCEPT ![cur] = Mark(@, success, 0)]
         /\ pend' = [pend EXCEPT ![cur][p] =
                        @ \ (success \cup Answer("apply:add", add[p], done).ukeys)]
  BY <1>1
<1>3. p \in Providers /\ success \subseteq done
  <2>1. IsFiniteSet(add[p]) /\ p \in Providers
    BY PairsType, ChainAssumption, FS_Subset DEF ChainTypeOK
  <2> QED BY <2>1, ExactAdd DEF Answer
<1>4. done \subseteq lists[Partner(p)] \cup G
  BY DEF Evidence, PairTells
<1>5. /\ UNCHANGED <<pairs, base, cur, loaded, prev, rem>>
      /\ add' = [add EXCEPT ![p] = {}] /\ pc' \notin {"idle", "left", "right", "plan"}
      /\ pc # "idle"
  BY DEF Add, history, Evidence
<1>6. UNCHANGED <<Left, Right, Here>> /\ \A q \in Here : Partner(q)' = Partner(q)
  BY <1>5 DEF Left, Right, Here, Partner
<1>7. \A q \in Providers : lists[q] \subseteq lists'[q]
  BY <1>2 DEF ChainTypeOK
<1>8. \A q \in Providers : snap'[q] \subseteq snap[q] \cup lists'[q] /\ add'[q] \subseteq add[q]
  BY <1>2, <1>3, <1>5 DEF ChainTypeOK
<1>9. \A i \in DOMAIN pairs, k \in Keys : tomb'[i][k] > 0 => tomb[i][k] > 0
  BY <1>2 DEF ChainTypeOK, Mark
<1>10. \A i \in DOMAIN pairs, q \in Providers : pend'[i][q] \subseteq pend[i][q]
  BY <1>2 DEF ChainTypeOK
<1>11. StoresTell(G)'
  BY <1>5, <1>7, <1>9, <1>10 DEF Evidence, StoresTell
<1>12. PairTells(G)'
  <2>1. \A q \in Here : snap'[q] \subseteq lists'[q] \cup G
    BY <1>5, <1>7, <1>8, PairsType DEF Evidence, PairTells
  <2>2. \A q \in Here : add'[q] \subseteq lists'[Partner(q)] \cup G
    BY <1>7, <1>8, PairsType, PartnerHere DEF Evidence, PairTells
  <2> QED BY <1>5, <1>6, <2>1, <2>2 DEF Evidence, PairTells
<1>13. Evidence(G)'
  BY <1>5, <1>11, <1>12 DEF Evidence, IdleIsClean
<1> QED BY <1>2, <1>4, <1>13

LEMMA ChainRaised ==
    ASSUME ChainTypeOK, NEW G, Evidence(G), NEW p \in Providers, WriteRaises(p)
    PROVE  \/ \E D \in SUBSET G : lists' = [lists EXCEPT ![p] = @ \ D]
           \/ \E D \in SUBSET (lists[Partner(p)] \cup G) : lists' = [lists EXCEPT ![p] = @ \cup D]
<1>1. rem[p] \subseteq G /\ add[p] \subseteq lists[Partner(p)] \cup G
  BY DEF Evidence, PairTells, WriteRaises
<1>2. CASE pc \in {"rem_left", "rem_right"}
  BY <1>1, <1>2 DEF WriteRaises
<1>3. CASE pc \notin {"rem_left", "rem_right"}
  BY <1>1, <1>3 DEF WriteRaises
<1> QED BY <1>2, <1>3

LEMMA EvidenceChainTick ==
    ASSUME ChainTypeOK, NEW G, Evidence(G), Tick
    PROVE  Evidence(G)'
<1>1. UNCHANGED <<lists, pairs, base, pend, pc, cur, loaded, prev, snap, rem, add>>
  BY DEF Tick, locals, history
<1>2. \A i \in DOMAIN pairs, k \in Keys : tomb'[i][k] > 0 => tomb[i][k] > 0
  BY ChainAssumption DEF ChainTypeOK, Tick, AtLeastZero
<1>3. StoresTell(G)'
  BY <1>1, <1>2 DEF Evidence, StoresTell
<1>4. PairTells(G)'
  BY <1>1 DEF Evidence, PairTells, Here, Left, Right, Partner, Shrunk, Known
<1> QED BY <1>1, <1>3, <1>4 DEF Evidence, IdleIsClean, Nothing

LEMMA EvidenceBeforeCommit ==
    ASSUME ChainTypeOK, NEW G, Evidence(G), BeforeCommit
    PROVE  Evidence(G)'
<1>1. CASE TakeSnapshot(Left, "left", "right") \/ TakeSnapshot(Right, "right", "plan")
  BY <1>1, EvidenceChainSnapshot
<1>2. CASE Plan
  BY <1>2, EvidenceChainPlan
<1>3. CASE Remove(Left, "rem_left", "rem_right") \/ Remove(Right, "rem_right", "add_left")
  BY <1>3, EvidenceChainRemove DEF Here
<1>4. CASE Add(Left, "add_left", "add_right") \/ Add(Right, "add_right", "commit")
  BY <1>4, EvidenceChainAdd DEF Here
<1> QED BY <1>1, <1>2, <1>3, <1>4 DEF BeforeCommit

LEMMA ChainEvidenceNext ==
    ASSUME ChainTypeOK, ChainInvariant, [Next]_vars
    PROVE  ChainInvariant'
<1>1. PICK G : G = gone'
  OBVIOUS
<1>2. gone \subseteq G
  <2>1. gone' = gone \/ \E k : gone' = gone \cup {k}
    BY DEF Next, RunStep, BeforeCommit, UserAdd, UserDelete, Tick, StartRun, TakeSnapshot, Plan,
       Remove, Add, Commit, SnapshotFails, WriteRaises, Crash, history, vars
  <2> QED BY <1>1, <2>1
<1>3. Evidence(G)
  BY <1>2, EvidenceWider DEF ChainInvariant
<1> SUFFICES Evidence(G)'
  BY <1>1 DEF ChainInvariant, Evidence, StoresTell, PairTells
<1>4. ASSUME NEW p \in Providers, NEW k \in Keys, UserAdd(p, k) \/ UserDelete(p, k)
      PROVE  Evidence(G)'
  <2>1. UserDelete(p, k) => k \in G
    BY <1>1 DEF UserDelete
  <2> QED BY <1>3, <1>4, <2>1, EvidenceChainUser
<1>5. CASE BeforeCommit
  BY <1>3, <1>5, EvidenceBeforeCommit
<1>6. ASSUME NEW p \in Providers, WriteRaises(p) PROVE Evidence(G)'
  <2>1. NextPair /\ UNCHANGED <<pairs, base, tomb, pend>>
    BY <1>6 DEF WriteRaises, files
  <2>2. \A q \in Providers : lists[q] \ lists'[q] \subseteq G
    <3>1. ASSUME NEW D \in SUBSET G, lists' = [lists EXCEPT ![p] = @ \ D]
          PROVE  \A q \in Providers : lists[q] \ lists'[q] \subseteq G
      BY <3>1 DEF ChainTypeOK
    <3>2. ASSUME NEW D, lists' = [lists EXCEPT ![p] = @ \cup D]
          PROVE  \A q \in Providers : lists[q] \ lists'[q] \subseteq G
      BY <3>2 DEF ChainTypeOK
    <3> QED BY <1>3, <1>6, <3>1, <3>2, ChainRaised
  <2>3. \A q \in Providers : base[q] \subseteq lists'[q] \cup G
    BY <1>3, <2>2 DEF Evidence, StoresTell
  <2> QED BY <1>3, <2>1, <2>2, <2>3, EvidenceOver
<1>7. CASE SnapshotFails \/ Crash
  <2>1. (RunOver \/ NextPair) /\ UNCHANGED <<lists, pairs, base, tomb, pend>>
    BY <1>7 DEF SnapshotFails, Crash, files
  <2>2. \A q \in Providers : base[q] \subseteq lists[q] \cup G
    BY <1>3 DEF Evidence, StoresTell
  <2> QED BY <1>3, <2>1, <2>2, EvidenceOver
<1>8. CASE Commit
  <2>1. NextPair /\ UNCHANGED <<lists, pairs, tomb, pend>>
    BY <1>8 DEF Commit
  <2>2. \A q \in Providers : base'[q] \subseteq lists[q] \cup G
    BY <1>3, <1>8 DEF Commit, Evidence, StoresTell, PairTells
  <2> QED BY <1>3, <2>1, <2>2, EvidenceOver
<1>9. CASE Tick
  BY <1>3, <1>9, EvidenceChainTick
<1>10. CASE StartRun \/ UNCHANGED vars
  <2>1. /\ UNCHANGED <<lists, pairs, base, tomb, pend, loaded, prev, snap, rem, add, cur>>
        /\ pc' = pc \/ (pc = "idle" /\ pc' = "left")
    BY <1>10 DEF StartRun, vars, files, locals
  <2> QED BY <1>3, <2>1, EvidenceListsOnly
<1> QED BY <1>4, <1>5, <1>6, <1>7, <1>8, <1>9, <1>10 DEF Next, RunStep

LEMMA ChainInvariance == Spec => []ChainInvariant
BY ChainEvidenceInit, ChainEvidenceNext, ChainTypeCorrect, PTL DEF Spec

\* However many pairs share providers and in whatever order they come, nothing
\* is a deletion to one of them that no user has deleted.
THEOREM ChainEvidenceInvariant == Spec => []ChainEvidence
<1>1. ChainInvariant => ChainEvidence
  BY DEF ChainInvariant, Evidence, ChainEvidence
<1> QED BY <1>1, ChainInvariance, PTL

-----------------------------------------------------------------------------
(* Every step is a step of SharedList, or none *)

SharedStep == [Shared!SharedNext]_<<lists, gone, edits>>

\* What a pair copies to p is on the list of the partner, or was.  A pair of a
\* provider with itself copies nothing that is not there.
LEMMA ChainCopy ==
    ASSUME ChainTypeOK, NEW p \in Here, NEW D, D \subseteq lists[Partner(p)] \cup gone,
           lists' = [lists EXCEPT ![p] = @ \cup D], UNCHANGED <<gone, edits>>
    PROVE  SharedStep
<1>1. p \in Providers /\ Partner(p) \in Providers
  BY PairsType, PartnerHere
<1>2. CASE Partner(p) # p
  <2>1. D \subseteq Shared!Elsewhere(p)
    BY <1>1, <1>2 DEF Shared!Elsewhere
  <2>2. Shared!CopyTo(p)
    BY <2>1 DEF Shared!CopyTo
  <2> QED BY <1>1, <2>2 DEF SharedStep, Shared!SharedNext
<1>3. CASE Partner(p) = p
  <2>1. lists[p] \cup D = lists[p] \cup (D \cap gone)
    BY <1>3
  <2>2. D \cap gone \subseteq Shared!Elsewhere(p)
    BY DEF Shared!Elsewhere
  <2>3. lists' = [lists EXCEPT ![p] = @ \cup (D \cap gone)]
    BY <2>1
  <2>4. Shared!CopyTo(p)
    BY <2>2, <2>3 DEF Shared!CopyTo
  <2> QED BY <1>1, <2>4 DEF SharedStep, Shared!SharedNext
<1> QED BY <1>2, <1>3

LEMMA ChainWithdraw ==
    ASSUME NEW p \in Providers, NEW D \in SUBSET gone,
           lists' = [lists EXCEPT ![p] = @ \ D], UNCHANGED <<gone, edits>>
    PROVE  SharedStep
BY DEF SharedStep, Shared!SharedNext, Shared!WithdrawFrom

LEMMA ChainSimulated ==
    ASSUME ChainTypeOK, ChainInvariant, [Next]_vars
    PROVE  SharedStep
<1> PICK G : G = gone
  OBVIOUS
<1>0. Evidence(G)
  BY DEF ChainInvariant
<1>1. ASSUME NEW p \in Providers, NEW k \in Keys, UserAdd(p, k) \/ UserDelete(p, k)
      PROVE  SharedStep
  <2>1. UserAdd(p, k) => Shared!AddItems(p, {k})
    BY DEF UserAdd, Shared!AddItems
  <2>2. UserDelete(p, k) => Shared!DeleteItem(p, k)
    BY DEF UserDelete, Shared!DeleteItem
  <2> QED BY <1>1, <2>1, <2>2 DEF SharedStep, Shared!SharedNext
<1>2. CASE Remove(Left, "rem_left", "rem_right") \/ Remove(Right, "rem_right", "add_left")
  <2>1. PICK p \in Here : \E D \in SUBSET gone : lists' = [lists EXCEPT ![p] = @ \ D]
    BY <1>0, <1>2, EvidenceChainRemove DEF Here
  <2>2. UNCHANGED <<gone, edits>>
    BY <1>2 DEF Remove, history
  <2> QED BY <2>1, <2>2, ChainWithdraw, PairsType
<1>3. CASE Add(Left, "add_left", "add_right") \/ Add(Right, "add_right", "commit")
  <2>1. PICK p \in Here :
           \E D \in SUBSET (lists[Partner(p)] \cup gone) : lists' = [lists EXCEPT ![p] = @ \cup D]
    BY <1>0, <1>3, EvidenceChainAdd DEF Here
  <2>2. UNCHANGED <<gone, edits>>
    BY <1>3 DEF Add, history
  <2> QED BY <2>1, <2>2, ChainCopy
<1>4. ASSUME NEW p \in Providers, WriteRaises(p) PROVE SharedStep
  <2>1. UNCHANGED <<gone, edits>> /\ p \in Here
    BY <1>4 DEF WriteRaises, history
  <2> QED BY <1>0, <1>4, <2>1, ChainRaised, ChainCopy, ChainWithdraw
<1>5. ASSUME \/ TakeSnapshot(Left, "left", "right") \/ TakeSnapshot(Right, "right", "plan")
             \/ Tick \/ StartRun \/ SnapshotFails \/ Plan \/ Commit \/ Crash \/ UNCHANGED vars
      PROVE  UNCHANGED <<lists, gone, edits>>
  BY <1>5 DEF TakeSnapshot, Tick, StartRun, SnapshotFails, Plan, Commit, Crash, vars, history
<1> QED BY <1>1, <1>2, <1>3, <1>4, <1>5 DEF SharedStep, Next, RunStep, BeforeCommit

\* All pairs of all runs together do to the lists of all providers only what
\* SharedList allows (the liveness part of ChainImplementsSharedList is
\* model-checked).
THEOREM ChainIsShared == Spec => Shared!SharedSpec
<1>1. Init => Shared!SharedInit
  BY DEF Init, Shared!SharedInit
<1>2. ChainTypeOK /\ ChainInvariant /\ [Next]_vars => [Shared!SharedNext]_<<lists, gone, edits>>
  BY ChainSimulated DEF SharedStep
<1> QED BY <1>1, <1>2, ChainTypeCorrect, ChainInvariance, PTL DEF Spec, Shared!SharedSpec

-----------------------------------------------------------------------------
(* A deletion at the head of a line of pairs *)

Planned == pc \in {"rem_left", "rem_right", "add_left", "add_right", "commit"}

\* The snapshot of p has been taken.
Seen(p) ==
    \/ p = Left /\ pc \notin {"idle", "left"}
    \/ p = Right /\ pc \notin {"idle", "left", "right"}

\* A pair's plan: removals from one side of what the other lacks, adds of what
\* the side lacks; one side after the other is done with.
PlanShape ==
    /\ pc = "idle" => cur = 1 /\ ~loaded
    /\ Planned => loaded
    /\ \A p \in Providers : add[p] \cap snap[p] = {}
    /\ \A p \in Providers : ~(Planned /\ p \in Here) => add[p] = {} /\ rem[p] = {}
    /\ Planned => \A p \in Here : rem[p] \cap snap[Partner(p)] = {}
    /\ pc \in {"rem_right", "add_left", "add_right", "commit"} => rem[Left] = {}
    /\ pc \in {"add_left", "add_right", "commit"} => rem[Right] = {}

\* What the pair at work knows of the deleted k: what it has seen without k is
\* without k; after the plan, k is removed where it is on one side alone.
PairKnows(k) ==
    /\ \A p \in Here : Seen(p) /\ k \notin snap[p] => k \notin lists[p]
    /\ Planned => \A p \in Here : k \in snap[p] \ snap[Partner(p)] => k \in rem[p]
    /\ \A p \in Providers : k \notin add[p]

\* The deletion of k on its way along the line c.  Where the next provider has k,
\* the baseline that its pair goes by tells that this one had it.  A run either
\* knows that all had it, or it has begun after the deletion and removes k
\* as it goes along.
Recalls(c, k) ==
    \A j \in 1..Len(pairs) :
        k \in lists[c[j + 1]] =>
            k \in (IF pc = "idle" \/ j < cur THEN base[c[j]] ELSE Known[c[j]])
SeenRecalls(c, k) ==
    pc \in {"right", "plan"} /\ Seen(c[cur + 1]) /\ k \in snap[c[cur + 1]] => k \in Known[c[cur]]
RidOf(c, k) ==
    /\ \A j \in 1..cur : k \notin lists[c[j]]
    /\ Seen(c[cur]) => k \notin snap[c[cur]]
Passes(c, k) ==
    /\ k \notin lists[c[1]]
    /\ Recalls(c, k)
    /\ SeenRecalls(c, k)
    /\ pc = "idle" \/ (\A j \in 1..(Len(pairs) + 1) : k \in Known[c[j]]) \/ RidOf(c, k)

OnItsWay(k) == PairKnows(k) /\ \E c : Line(pairs, c) /\ Passes(c, k)
HeadInv == faults = 0 => PlanShape /\ \A k \in known : OnItsWay(k)

LEMMA LineFacts ==
    ASSUME ChainTypeOK, NEW c, Line(pairs, c)
    PROVE  /\ Len(pairs) \in Nat /\ cur \in 1..Len(pairs)
           /\ \A j \in 1..Len(pairs) : c[j] \in Providers /\ c[j + 1] \in Providers
           /\ Here = {c[cur], c[cur + 1]} /\ c[cur] # c[cur + 1]
           /\ Partner(c[cur]) = c[cur + 1] /\ Partner(c[cur + 1]) = c[cur]
           /\ \A j \in 1..Len(pairs) : j < cur => c[j] \notin Here
<1>1. Len(pairs) \in Nat /\ cur \in 1..Len(pairs)
  BY PairsType DEF ChainTypeOK
<1>2. \A j \in 1..Len(pairs) : j \in DOMAIN c /\ j + 1 \in DOMAIN c
  <2>1. \A j \in 1..Len(pairs) : j \in 1..(Len(pairs) + 1) /\ j + 1 \in 1..(Len(pairs) + 1)
    BY <1>1
  <2> QED BY <2>1 DEF Line
<1>3. \A j \in 1..Len(pairs) : c[j] \in Providers /\ c[j + 1] \in Providers
  BY <1>2 DEF Line
<1>4. \A j \in 1..Len(pairs) : j < cur => c[j] \notin {c[cur], c[cur + 1]}
  <2>1. \A j \in 1..Len(pairs) : j < cur => j # cur /\ j # cur + 1
    BY <1>1
  <2> QED BY <1>1, <1>2, <2>1 DEF Line
<1>5. c[cur] # c[cur + 1]
  BY <1>1, <1>2 DEF Line
<1>6. pairs[cur] \in {<<c[cur], c[cur + 1]>>, <<c[cur + 1], c[cur]>>}
  BY <1>1 DEF Line
<1>7. \/ Left = c[cur] /\ Right = c[cur + 1]
      \/ Left = c[cur + 1] /\ Right = c[cur]
  BY <1>6 DEF Left, Right
<1> QED BY <1>1, <1>3, <1>4, <1>5, <1>7 DEF Here, Partner

\* A step within a pair leaves the sides of the pair what they are.
LEMMA SameHere ==
    ASSUME UNCHANGED <<pairs, cur>>
    PROVE  /\ UNCHANGED <<Left, Right, Here>>
           /\ \A p : Partner(p)' = Partner(p)
BY DEF Left, Right, Here, Partner

LEMMA SidesOfHere == Here = {Left, Right} /\ \A p \in Here : Partner(Partner(p)) = p
BY DEF Here, Partner

\* Steps that take k off lists, if anything, and leave the run as it is.
LEMMA PassesWithLess ==
    ASSUME ChainTypeOK, NEW k, NEW c, Line(pairs, c), PairKnows(k), Passes(c, k),
           \A p \in Providers : k \in lists'[p] => k \in lists[p],
           UNCHANGED <<pairs, base, pc, cur, locals>>
    PROVE  PairKnows(k)' /\ Passes(c, k)'
<1>1. UNCHANGED <<loaded, prev, snap, rem, add>>
  BY DEF locals
<1>2. /\ UNCHANGED <<Left, Right, Here, Known, Planned>>
      /\ \A p : Partner(p)' = Partner(p) /\ (Seen(p))' = Seen(p)
  BY <1>1, SameHere DEF Known, Seen, Planned
<1>3. Here \subseteq Providers
  BY PairsType
<1>4. PairKnows(k)'
  BY <1>1, <1>2, <1>3 DEF PairKnows
<1>5. /\ Len(pairs) \in Nat /\ cur \in 1..Len(pairs)
      /\ \A j \in 1..Len(pairs) : c[j] \in Providers /\ c[j + 1] \in Providers
  BY LineFacts
<1>6. k \notin lists'[c[1]]
  <2>1. 1 \in 1..Len(pairs)
    BY <1>5
  <2> QED BY <1>5, <2>1 DEF Passes
<1>7. Recalls(c, k)'
  BY <1>2, <1>5 DEF Passes, Recalls
<1>8. SeenRecalls(c, k)'
  BY <1>1, <1>2 DEF Passes, SeenRecalls
<1>9. RidOf(c, k) => RidOf(c, k)'
  <2>1. \A j \in 1..cur : c[j] \in Providers
    BY <1>5
  <2> QED BY <1>1, <1>2, <2>1 DEF RidOf
<1> QED BY <1>2, <1>4, <1>6, <1>7, <1>8, <1>9 DEF Passes

LEMMA PlanShapeKept ==
    ASSUME PlanShape, UNCHANGED <<pairs, pc, cur, locals>>
    PROVE  PlanShape'
<1>1. UNCHANGED <<loaded, prev, snap, rem, add>>
  BY DEF locals
<1>2. UNCHANGED <<Left, Right, Here, Planned>> /\ \A p : Partner(p)' = Partner(p)
  BY SameHere DEF Planned
<1> QED BY <1>1, <1>2 DEF PlanShape

\* The deletion with which it begins.
LEMMA WayBegins ==
    ASSUME HeadsOfLines, ChainTypeOK, PlanShape, NEW p \in Providers, NEW k \in Keys,
           UserDelete(p, k), AtHead(p), InStep(k)
    PROVE  OnItsWay(k)'
<1>1. UNCHANGED <<pairs, base, pc, cur, loaded, prev, snap, rem, add>>
  BY DEF UserDelete, files, locals
<1>2. /\ UNCHANGED <<Left, Right, Here, Known, Planned>>
      /\ \A q : Partner(q)' = Partner(q) /\ (Seen(q))' = Seen(q)
  BY <1>1, SameHere DEF Known, Seen, Planned
<1>3. \A q \in Here : Seen(q) => k \in snap[q]
  BY DEF InStep, Seen, Here
<1>4. Planned => \A q \in Here : k \in snap[q]
  BY DEF InStep, Planned, Here
<1>5. \A q \in Providers : k \notin add[q]
  BY <1>4 DEF PlanShape
<1>6. PairKnows(k)'
  <2>1. \A q \in Here : Partner(q) \in Here
    BY PartnerHere
  <2> QED BY <1>1, <1>2, <1>3, <1>4, <1>5, <2>1 DEF PairKnows
<1>7. PICK c : Line(pairs, c) /\ c[1] = p
  BY DEF HeadsOfLines, AtHead, ChainTypeOK
<1>8. \A q \in Providers : k \in base[q] /\ k \in Known[q]
  BY DEF InStep, Known
<1>9. k \notin lists'[c[1]]
  BY <1>7 DEF UserDelete, ChainTypeOK
<1>10. /\ Len(pairs) \in Nat /\ cur \in 1..Len(pairs)
       /\ \A j \in 1..Len(pairs) : c[j] \in Providers /\ c[j + 1] \in Providers
  BY <1>7, LineFacts
<1>11. Recalls(c, k)' /\ SeenRecalls(c, k)'
  BY <1>1, <1>2, <1>8, <1>10 DEF Recalls, SeenRecalls
<1>12. \A j \in 1..(Len(pairs) + 1) : k \in Known[c[j]]
  BY <1>7, <1>8 DEF Line
<1>13. Passes(c, k)'
  BY <1>1, <1>2, <1>9, <1>11, <1>12 DEF Passes
<1> QED BY <1>1, <1>6, <1>7, <1>13 DEF OnItsWay

LEMMA WayStart ==
    ASSUME ChainTypeOK, PlanShape, StartRun
    PROVE  /\ PlanShape'
           /\ \A k, c : Line(pairs, c) /\ PairKnows(k) /\ Passes(c, k) =>
                            PairKnows(k)' /\ Passes(c, k)'
<1>1. /\ UNCHANGED <<lists, pairs, base, cur, loaded, prev, snap, rem, add>>
      /\ pc = "idle" /\ pc' = "left" /\ cur = 1 /\ ~loaded
  BY DEF StartRun, PlanShape, files, locals
<1>2. /\ UNCHANGED <<Left, Right, Here, Known, Planned>>
      /\ ~Planned /\ ~Planned' /\ \A q : Partner(q)' = Partner(q) /\ ~(Seen(q))'
  BY <1>1, SameHere DEF Known, Seen, Planned
<1>3. PlanShape'
  BY <1>1, <1>2 DEF PlanShape
<1>4. ASSUME NEW k, NEW c, Line(pairs, c), PairKnows(k), Passes(c, k)
      PROVE  PairKnows(k)' /\ Passes(c, k)'
  <2>1. PairKnows(k)'
    BY <1>1, <1>2, <1>4 DEF PairKnows
  <2>2. Recalls(c, k)'
    BY <1>1, <1>2, <1>4 DEF Passes, Recalls, Known
  <2>3. SeenRecalls(c, k)' /\ RidOf(c, k)'
    BY <1>1, <1>2, <1>4 DEF Passes, SeenRecalls, RidOf
  <2> QED BY <1>1, <1>4, <2>1, <2>2, <2>3 DEF Passes
<1> QED BY <1>3, <1>4

LEMMA WaySnapshot ==
    ASSUME ChainTypeOK, PlanShape,
           TakeSnapshot(Left, "left", "right") \/ TakeSnapshot(Right, "right", "plan")
    PROVE  /\ PlanShape'
           /\ \A k, c : Line(pairs, c) /\ PairKnows(k) /\ Passes(c, k) =>
                            PairKnows(k)' /\ Passes(c, k)'
<1>1. /\ UNCHANGED <<lists, pairs, base, cur, loaded, prev, rem, add>>
      /\ pc \in {"left", "right"} /\ pc' \in {"right", "plan"}
  BY DEF TakeSnapshot, files
<1>2. /\ UNCHANGED <<Left, Right, Here, Known, Planned>>
      /\ ~Planned /\ ~Planned' /\ \A q : Partner(q)' = Partner(q)
  BY <1>1, SameHere DEF Known, Planned
<1>3. Left \in Providers /\ Right \in Providers /\ Here \subseteq Providers
  BY PairsType
<1>4. \A q \in Here : (Seen(q))' => \/ snap'[q] = lists[q]
                                    \/ Seen(q) /\ snap'[q] = snap[q] /\ pc = "right"
  <2>1. CASE TakeSnapshot(Left, "left", "right")
    BY <1>2, <1>3, <2>1 DEF TakeSnapshot, Seen, ChainTypeOK
  <2>2. CASE TakeSnapshot(Right, "right", "plan")
    BY <1>2, <1>3, <2>2 DEF TakeSnapshot, Seen, Here, ChainTypeOK
  <2> QED BY <2>1, <2>2
<1>5. PlanShape'
  BY <1>1, <1>2 DEF PlanShape
<1>6. ASSUME NEW k, NEW c, Line(pairs, c), PairKnows(k), Passes(c, k)
      PROVE  PairKnows(k)' /\ Passes(c, k)'
  <2>1. PairKnows(k)'
    BY <1>1, <1>2, <1>4, <1>6 DEF PairKnows
  <2>2. Recalls(c, k)'
    BY <1>1, <1>2, <1>6 DEF Passes, Recalls
  <2>3. cur \in 1..Len(pairs) /\ c[cur] \in Here /\ c[cur + 1] \in Here
    BY <1>6, LineFacts
  <2>4. SeenRecalls(c, k)'
    <3>1. k \in lists[c[cur + 1]] => k \in Known[c[cur]]
      BY <1>1, <1>6, <2>3 DEF Passes, Recalls
    <3> QED BY <1>1, <1>2, <1>4, <1>6, <2>3, <3>1 DEF Passes, SeenRecalls
  <2>5. RidOf(c, k) => RidOf(c, k)'
    BY <1>1, <1>4, <2>3 DEF RidOf
  <2> QED BY <1>1, <1>2, <1>6, <2>1, <2>2, <2>4, <2>5 DEF Passes
<1> QED BY <1>5, <1>6

\* The plan removes k from a side that alone has it, and adds it nowhere.
LEMMA PlanKnows ==
    ASSUME ChainTypeOK, NEW k, NEW c, Line(pairs, c), pc = "plan", Passes(c, k)
    PROVE  \A p \in Here : k \in OnlyOn(p) => k \in PlannedRemovals(p)
<1>1. /\ Len(pairs) \in Nat /\ cur \in 1..Len(pairs)
      /\ Here = {c[cur], c[cur + 1]} /\ c[cur] # c[cur + 1]
      /\ Partner(c[cur]) = c[cur + 1] /\ Partner(c[cur + 1]) = c[cur]
  BY LineFacts
<1>2. \A p \in Here : Seen(p)
  BY DEF Seen, Here
<1>3. ASSUME NEW p \in Here, k \in OnlyOn(p), k \in Known[Partner(p)]
      PROVE  k \in PlannedRemovals(p)
  <2>1. Partner(p) \in Here
    BY PartnerHere
  <2>2. DeletionWanted(p, k)
    BY <1>3 DEF DeletionWanted, Shrunk, OnlyOn
  <2>3. ~Bootstrap
    BY <1>3, <2>1 DEF Bootstrap, Here
  <2> QED BY <1>3, <2>2, <2>3 DEF PlannedRemovals
<1>4. k \in OnlyOn(c[cur + 1]) => k \in Known[c[cur]]
  BY <1>1, <1>2 DEF Passes, SeenRecalls, OnlyOn
<1>5. k \in OnlyOn(c[cur]) => k \in Known[c[cur + 1]]
  <2>1. cur + 1 \in 1..(Len(pairs) + 1)
    BY <1>1
  <2> QED BY <1>1, <1>2, <2>1 DEF Passes, RidOf, OnlyOn
<1> QED BY <1>1, <1>3, <1>4, <1>5

LEMMA PlanAddsNone ==
    ASSUME ChainTypeOK, NEW k, NEW c, Line(pairs, c), Passes(c, k), Plan
    PROVE  \A p \in Providers : k \notin add'[p]
<1>1. \A p \in Here : k \in OnlyOn(p) => k \in PlannedRemovals(p)
  BY PlanKnows DEF Plan
<1>2. ASSUME NEW p \in Here
      PROVE  k \notin PlannedAdds(p) \ (PlannedRemovals(Left) \cup PlannedRemovals(Right))
  <2>1. Partner(p) \in {Left, Right} /\ Partner(p) \in Here
    BY PartnerHere DEF Here
  <2> QED BY <1>1, <2>1 DEF PlannedAdds
<1> QED BY <1>2 DEF Plan

LEMMA WayPlan ==
    ASSUME ChainTypeOK, PlanShape, Plan
    PROVE  /\ PlanShape'
           /\ \A k, c : Line(pairs, c) /\ PairKnows(k) /\ Passes(c, k) =>
                            PairKnows(k)' /\ Passes(c, k)'
<1>1. /\ UNCHANGED <<lists, pairs, base, cur, snap>>
      /\ pc = "plan" /\ pc' = "rem_left" /\ loaded' /\ prev' = Known
  BY DEF Plan
<1>2. /\ UNCHANGED <<Left, Right, Here, Known>>
      /\ ~Planned /\ Planned' /\ \A q : Partner(q)' = Partner(q)
      /\ \A q \in Here : Seen(q)
  BY <1>1, SameHere DEF Known, Planned, Seen, Here
<1>3. Here \subseteq Providers /\ \A p \in Here : Partner(p) \in Here /\ Partner(Partner(p)) = p
  BY PairsType, PartnerHere, SidesOfHere
<1>4. \A p \in Providers : IF p \in Here
                           THEN rem'[p] = PlannedRemovals(p) /\ add'[p] \subseteq PlannedAdds(p)
                           ELSE rem'[p] = {} /\ add'[p] = {}
  BY DEF Plan
<1>5. \A p \in Here : PlannedRemovals(p) \cap snap[Partner(p)] = {}
  BY DEF PlannedRemovals, Retried, OnlyOn
<1>6. \A p \in Here : PlannedAdds(p) \cap snap[p] = {}
  BY <1>3 DEF PlannedAdds, OnlyOn
<1>7. PlanShape'
  <2>1. \A p \in Providers : add'[p] \cap snap[p] = {}
    BY <1>4, <1>6
  <2>2. \A p \in Here : rem'[p] \cap snap[Partner(p)] = {}
    BY <1>3, <1>4, <1>5
  <2> QED BY <1>1, <1>2, <1>4, <2>1, <2>2 DEF PlanShape
<1>8. ASSUME NEW k, NEW c, Line(pairs, c), PairKnows(k), Passes(c, k)
      PROVE  PairKnows(k)' /\ Passes(c, k)'
  <2>1. \A p \in Providers : k \notin add'[p]
    BY <1>8, PlanAddsNone
  <2>2. \A p \in Here : k \in snap[p] \ snap[Partner(p)] => k \in rem'[p]
    <3>1. \A p \in Here : k \in OnlyOn(p) => k \in PlannedRemovals(p)
      BY <1>1, <1>8, PlanKnows
    <3> QED BY <1>3, <1>4, <3>1 DEF OnlyOn
  <2>3. PairKnows(k)'
    BY <1>1, <1>2, <1>8, <2>1, <2>2 DEF PairKnows
  <2>4. Recalls(c, k)' /\ SeenRecalls(c, k)'
    BY <1>1, <1>2, <1>8 DEF Passes, Recalls, SeenRecalls
  <2>5. c[cur] \in Here
    BY <1>8, LineFacts
  <2>6. RidOf(c, k) => RidOf(c, k)'
    BY <1>1, <1>2, <2>5 DEF RidOf
  <2> QED BY <1>1, <1>2, <1>8, <2>3, <2>4, <2>6 DEF Passes
<1> QED BY <1>7, <1>8

\* Without a fault a batch is done, and its removals are told to be.
LEMMA NoFaultWrites ==
    ASSUME faults \in 0..MaxFaults, faults' = 0, NEW W, NEW done, Written(W, done)
    PROVE  done = W /\ faults = 0
BY ChainAssumption DEF Written, Fault

LEMMA WayRemove ==
    ASSUME ChainTypeOK, PlanShape, faults' = 0,
           \/ Remove(Left, "rem_left", "rem_right")
           \/ Remove(Right, "rem_right", "add_left")
    PROVE  /\ faults = 0 /\ PlanShape'
           /\ \A k, c : Line(pairs, c) /\ PairKnows(k) /\ Passes(c, k) =>
                            PairKnows(k)' /\ Passes(c, k)'
<1>1. PICK p \in Here :
         \/ p = Left /\ Remove(Left, "rem_left", "rem_right")
         \/ p = Right /\ Remove(Right, "rem_right", "add_left")
  BY DEF Here
<1>2. /\ UNCHANGED <<pairs, base, cur, loaded, prev, add>>
      /\ pc \in {"rem_left", "rem_right"} /\ pc' \in {"rem_right", "add_left"}
      /\ rem' = [rem EXCEPT ![p] = {}]
  BY <1>1 DEF Remove
<1>3. /\ UNCHANGED <<Left, Right, Here, Known>>
      /\ Planned /\ Planned' /\ \A q : Partner(q)' = Partner(q)
      /\ \A q \in Here : Seen(q)
  BY <1>2, SameHere DEF Known, Planned, Seen, Here
<1>4. p \in Providers /\ Here \subseteq Providers /\ Left \in Here /\ Right \in Here
  BY PairsType DEF Here
<1>5. /\ faults = 0
      /\ lists' = [lists EXCEPT ![p] = @ \ rem[p]]
      /\ snap' = [snap EXCEPT ![p] = @ \ rem[p]]
  <2>1. PICK done \in SUBSET rem[p] :
           LET success == RemoveSuccess(rem[p], Answer("apply:remove", rem[p], done))
           IN  /\ Written(rem[p], done)
               /\ lists' = [lists EXCEPT ![p] = @ \ done]
               /\ snap' = [snap EXCEPT ![p] = @ \ success]
    BY <1>1 DEF Remove
  <2>2. done = rem[p] /\ faults = 0
    BY <2>1, NoFaultWrites DEF ChainTypeOK
  <2>3. IsFiniteSet(rem[p])
    BY <1>4, ChainAssumption, FS_Subset DEF ChainTypeOK
  <2>4. RemoveSuccess(rem[p], Answer("apply:remove", rem[p], done)) = rem[p]
    BY <2>2, <2>3, CompleteRemoval DEF Answer
  <2> QED BY <2>1, <2>2, <2>4
<1>6. \A q \in Providers : /\ rem'[q] = IF q = p THEN {} ELSE rem[q]
                           /\ lists'[q] = IF q = p THEN lists[q] \ rem[q] ELSE lists[q]
                           /\ snap'[q] = IF q = p THEN snap[q] \ rem[q] ELSE snap[q]
  BY <1>2, <1>5 DEF ChainTypeOK
<1>7. \A q \in Here : Partner(q) \in Here
  BY PartnerHere
<1>8. PlanShape'
  <2>1. \A q \in Providers : add[q] \cap snap'[q] = {}
    BY <1>6 DEF PlanShape
  <2>2. \A q \in Here : rem'[q] \cap snap'[Partner(q)] = {}
    BY <1>3, <1>4, <1>6, <1>7 DEF PlanShape
  <2>3. pc' \in {"rem_right", "add_left"} => rem'[Left] = {}
    BY <1>1, <1>2, <1>4, <1>6 DEF PlanShape, Remove
  <2>4. pc' = "add_left" => rem'[Right] = {}
    BY <1>1, <1>2, <1>4, <1>6 DEF PlanShape, Remove
  <2> QED BY <1>2, <1>3, <1>6, <2>1, <2>2, <2>3, <2>4 DEF PlanShape
<1>9. ASSUME NEW k, NEW c, Line(pairs, c), PairKnows(k), Passes(c, k)
      PROVE  PairKnows(k)' /\ Passes(c, k)'
  <2>1. \A q \in Here : k \notin snap'[q] => k \notin lists'[q]
    BY <1>3, <1>4, <1>6, <1>9 DEF PairKnows
  <2>2. \A q \in Here : Partner(q) # q
    BY <1>9, LineFacts
  <2>3. ASSUME NEW q \in Here, k \in snap'[q] \ snap'[Partner(q)]
        PROVE  k \in rem'[q]
    <3>1. Partner(q) \in Here /\ Partner(q) # q /\ Partner(Partner(q)) = q
      BY <1>7, <2>2, SidesOfHere
    <3>2. CASE q = p
      BY <1>3, <1>4, <1>6, <1>9, <2>3, <3>1, <3>2 DEF PairKnows
    <3>3. CASE q # p
      <4>0. Partner(q) = p
        BY <3>1, <3>3 DEF Here
      <4>1. k \in snap[q] /\ rem'[q] = rem[q] /\ Partner(q) = p
        BY <1>4, <1>6, <2>3, <3>3, <4>0
      <4>2. rem[p] \cap snap[q] = {}
        BY <1>3, <3>1, <4>1 DEF PlanShape
      <4>3. k \notin snap[p]
        BY <1>4, <1>6, <2>3, <4>1, <4>2
      <4> QED BY <1>3, <1>9, <4>1, <4>3 DEF PairKnows
    <3> QED BY <3>2, <3>3
  <2>4. PairKnows(k)'
    BY <1>2, <1>3, <1>9, <2>1, <2>3 DEF PairKnows
  <2>5. \A q \in Providers : lists'[q] \subseteq lists[q] /\ snap'[q] \subseteq snap[q]
    BY <1>6
  <2>6. /\ Len(pairs) \in Nat /\ cur \in 1..Len(pairs) /\ c[cur] \in Here
        /\ \A j \in 1..Len(pairs) : c[j] \in Providers /\ c[j + 1] \in Providers
    BY <1>9, LineFacts
  <2>7. 1 \in 1..Len(pairs) /\ \A j \in 1..cur : j \in 1..Len(pairs)
    BY <2>6
  <2>8. k \notin lists'[c[1]]
    BY <1>9, <2>5, <2>6, <2>7 DEF Passes
  <2>9. Recalls(c, k)' /\ SeenRecalls(c, k)'
    BY <1>2, <1>3, <1>9, <2>5, <2>6 DEF Passes, Recalls, SeenRecalls
  <2>10. RidOf(c, k) => RidOf(c, k)'
    BY <1>2, <1>3, <1>4, <2>5, <2>6, <2>7 DEF RidOf
  <2> QED BY <1>2, <1>3, <1>9, <2>4, <2>8, <2>9, <2>10 DEF Passes
<1> QED BY <1>5, <1>8, <1>9

LEMMA WayAdd ==
    ASSUME ChainTypeOK, PlanShape, faults' = 0,
           \/ Add(Left, "add_left", "add_right")
           \/ Add(Right, "add_right", "commit")
    PROVE  /\ faults = 0 /\ PlanShape'
           /\ \A k, c : Line(pairs, c) /\ PairKnows(k) /\ Passes(c, k) =>
                            PairKnows(k)' /\ Passes(c, k)'
<1>1. PICK p \in Here :
         \/ Add(p, "add_left", "add_right")
         \/ Add(p, "add_right", "commit")
  BY DEF Here
<1>2. /\ UNCHANGED <<pairs, base, cur, loaded, prev, rem>>
      /\ pc \in {"add_left", "add_right"} /\ pc' \in {"add_right", "commit"}
      /\ add' = [add EXCEPT ![p] = {}]
  BY <1>1 DEF Add
<1>3. /\ UNCHANGED <<Left, Right, Here, Known>>
      /\ Planned /\ Planned' /\ \A q : Partner(q)' = Partner(q)
      /\ \A q \in Here : Seen(q)
  BY <1>2, SameHere DEF Known, Planned, Seen, Here
<1>4. p \in Providers /\ Here \subseteq Providers /\ Left \in Here /\ Right \in Here
  BY PairsType DEF Here
<1>5. PICK done \in SUBSET add[p] :
         /\ Written(add[p], done)
         /\ \E success \in AddSuccesses(add[p], Answer("apply:add", add[p], done), FALSE) :
               /\ lists' = [lists EXCEPT ![p] = @ \cup done]
               /\ snap' = [snap EXCEPT ![p] = @ \cup success]
  BY <1>1 DEF Add
<1>6. faults = 0
  BY <1>5, NoFaultWrites DEF ChainTypeOK
<1>7. PICK success \in SUBSET add[p] :
         /\ lists' = [lists EXCEPT ![p] = @ \cup done]
         /\ snap' = [snap EXCEPT ![p] = @ \cup success]
  BY <1>5, AddSuccessInBatch
<1>8. \A q \in Providers : /\ add'[q] = IF q = p THEN {} ELSE add[q]
                           /\ lists'[q] = IF q = p THEN lists[q] \cup done ELSE lists[q]
                           /\ snap'[q] = IF q = p THEN snap[q] \cup success ELSE snap[q]
  BY <1>2, <1>7 DEF ChainTypeOK
<1>9. PlanShape'
  <2>1. \A q \in Here : rem[q] = {}
    BY <1>2 DEF PlanShape, Here
  <2>2. \A q \in Providers : add'[q] \cap snap'[q] = {}
    BY <1>8 DEF PlanShape
  <2>3. \A q \in Providers : q \notin Here => add'[q] = {} /\ rem[q] = {}
    BY <1>4, <1>8 DEF PlanShape
  <2>4. loaded
    BY <1>3 DEF PlanShape
  <2> QED BY <1>2, <1>3, <1>4, <2>1, <2>2, <2>3, <2>4 DEF PlanShape
<1>10. ASSUME NEW k, NEW c, Line(pairs, c), PairKnows(k), Passes(c, k)
       PROVE  PairKnows(k)' /\ Passes(c, k)'
  <2>1. \A q \in Providers : /\ k \notin add'[q]
                             /\ k \in lists'[q] <=> k \in lists[q]
                             /\ k \in snap'[q] <=> k \in snap[q]
    BY <1>8, <1>10 DEF PairKnows
  <2>2. PairKnows(k)'
    <3>1. \A q \in Here : Partner(q) \in Here
      BY PartnerHere
    <3> QED BY <1>2, <1>3, <1>4, <1>10, <2>1, <3>1 DEF PairKnows
  <2>3. /\ Len(pairs) \in Nat /\ cur \in 1..Len(pairs) /\ c[cur] \in Here
        /\ \A j \in 1..Len(pairs) : c[j] \in Providers /\ c[j + 1] \in Providers
    BY <1>10, LineFacts
  <2>4. 1 \in 1..Len(pairs) /\ \A j \in 1..cur : j \in 1..Len(pairs)
    BY <2>3
  <2>5. k \notin lists'[c[1]]
    BY <1>10, <2>1, <2>3, <2>4 DEF Passes
  <2>6. Recalls(c, k)' /\ SeenRecalls(c, k)'
    BY <1>2, <1>3, <1>10, <2>1, <2>3 DEF Passes, Recalls, SeenRecalls
  <2>7. RidOf(c, k) => RidOf(c, k)'
    BY <1>2, <1>3, <1>4, <2>1, <2>3, <2>4 DEF RidOf
  <2> QED BY <1>2, <1>3, <1>10, <2>2, <2>5, <2>6, <2>7 DEF Passes
<1> QED BY <1>6, <1>9, <1>10

LEMMA WayCommit ==
    ASSUME ChainTypeOK, PlanShape, Commit
    PROVE  /\ PlanShape'
           /\ \A k, c : Line(pairs, c) /\ PairKnows(k) /\ Passes(c, k) =>
                            PairKnows(k)' /\ Passes(c, k)'
<1>1. /\ UNCHANGED <<lists, pairs>> /\ pc = "commit" /\ pc' \in {"idle", "left"}
      /\ add' = Nothing /\ rem' = Nothing /\ snap' = Nothing
      /\ \/ cur < Len(pairs) /\ pc' = "left" /\ cur' = cur + 1 /\ UNCHANGED <<loaded, prev>>
         \/ cur = Len(pairs) /\ pc' = "idle" /\ cur' = 1 /\ ~loaded'
  BY DEF Commit, NextPair, RunOver
<1>2. Planned /\ ~Planned' /\ loaded /\ \A q : ~(Seen(q))'
  BY <1>1 DEF Planned, Seen, PlanShape
<1>3. \A q \in Here : Seen(q)
  BY <1>1 DEF Seen, Here
<1>4. PlanShape'
  BY <1>1, <1>2 DEF PlanShape, Nothing
<1>5. ASSUME NEW k, NEW c, Line(pairs, c), PairKnows(k), Passes(c, k)
      PROVE  PairKnows(k)' /\ Passes(c, k)'
  <2>1. PairKnows(k)'
    BY <1>1, <1>2 DEF PairKnows, Nothing
  <2>2. /\ Len(pairs) \in Nat /\ cur \in 1..Len(pairs)
        /\ c[cur] \in Here /\ c[cur + 1] \in Here
        /\ Partner(c[cur]) = c[cur + 1] /\ Partner(c[cur + 1]) = c[cur]
        /\ \A j \in 1..Len(pairs) : c[j] \in Providers /\ c[j + 1] \in Providers
        /\ \A j \in 1..Len(pairs) : j < cur => c[j] \notin Here
    BY <1>5, LineFacts
  <2>3. k \in snap[c[cur]] <=> k \in snap[c[cur + 1]]
    <3>1. \A q \in Here : rem[q] = {}
      BY <1>1 DEF PlanShape, Here
    <3> QED BY <1>2, <1>5, <2>2, <3>1 DEF PairKnows
  <2>4. \A j \in 1..Len(pairs) :
          base'[c[j]] = IF c[j] \in Here THEN snap[c[j]] ELSE base[c[j]]
    BY <2>2 DEF Commit
  <2>5. k \notin snap[c[cur + 1]] => k \notin lists[c[cur + 1]]
    BY <1>3, <1>5, <2>2 DEF PairKnows
  <2>6. ASSUME NEW j \in 1..Len(pairs), j <= cur, k \in lists[c[j + 1]]
        PROVE  k \in base'[c[j]]
    <3>1. CASE j = cur
      BY <2>2, <2>3, <2>4, <2>5, <2>6, <3>1
    <3>2. CASE j < cur
      BY <1>1, <1>5, <2>2, <2>4, <2>6, <3>2 DEF Passes, Recalls
    <3> QED BY <2>2, <2>6, <3>1, <3>2
  <2>7. CASE cur < Len(pairs) /\ pc' = "left" /\ cur' = cur + 1 /\ UNCHANGED <<loaded, prev>>
    <3>1. UNCHANGED Known
      BY <1>2, <2>7 DEF Known
    <3>2. Recalls(c, k)'
      <4>1. ASSUME NEW j \in 1..Len(pairs), k \in lists[c[j + 1]], ~(j < cur')
            PROVE  k \in Known[c[j]]
        <5>1. ~(j < cur)
          BY <2>2, <2>7, <4>1
        <5> QED BY <1>1, <1>5, <4>1, <5>1 DEF Passes, Recalls
      <4>2. \A j \in 1..Len(pairs) : j < cur' => j <= cur
        BY <2>2, <2>7
      <4> QED BY <1>1, <2>6, <2>7, <3>1, <4>1, <4>2 DEF Recalls
    <3>3. SeenRecalls(c, k)'
      BY <1>2 DEF SeenRecalls
    <3>4. RidOf(c, k) => RidOf(c, k)'
      <4>1. \A j \in 1..cur' : j \in 1..cur \/ j = cur + 1
        BY <2>2, <2>7
      <4> QED BY <1>1, <1>2, <1>3, <2>2, <2>3, <2>5, <4>1 DEF RidOf
    <3> QED BY <1>1, <1>5, <2>1, <3>1, <3>2, <3>3, <3>4 DEF Passes
  <2>8. CASE cur = Len(pairs) /\ pc' = "idle" /\ cur' = 1 /\ ~loaded'
    <3>1. \A j \in 1..Len(pairs) : j <= cur
      BY <2>2, <2>8
    <3>2. Recalls(c, k)'
      BY <1>1, <2>6, <2>8, <3>1 DEF Recalls
    <3>3. SeenRecalls(c, k)'
      BY <1>2 DEF SeenRecalls
    <3> QED BY <1>1, <1>5, <2>1, <2>8, <3>2, <3>3 DEF Passes
  <2> QED BY <1>1, <2>7, <2>8
<1> QED BY <1>4, <1>5

LEMMA HeadInvInit == Init => HeadInv
BY DEF Init, HeadInv, PlanShape, Planned, Nothing

LEMMA HeadInvUser ==
    ASSUME HeadsOfLines, ChainTypeOK, PlanShape, \A k \in known : OnItsWay(k),
           NEW p \in Providers, NEW item \in Keys, UserAdd(p, item) \/ UserDelete(p, item)
    PROVE  PlanShape' /\ \A k \in known' : OnItsWay(k)'
<1>1. UNCHANGED <<pairs, base, pc, cur, locals>>
  BY DEF UserAdd, UserDelete, files
<1>2. PlanShape'
  BY <1>1, PlanShapeKept
<1>3. ASSUME NEW k \in known, \A q \in Providers : k \in lists'[q] => k \in lists[q]
      PROVE  OnItsWay(k)'
  <2>1. PICK c : Line(pairs, c) /\ Passes(c, k)
    BY <1>3 DEF OnItsWay
  <2>2. PairKnows(k)' /\ Passes(c, k)'
    BY <1>1, <1>3, <2>1, PassesWithLess DEF OnItsWay
  <2>3. Line(pairs, c)'
    BY <1>1, <2>1 DEF Line
  <2> QED BY <2>2, <2>3 DEF OnItsWay
<1>4. CASE UserAdd(p, item)
  <2>1. \A k \in known' : k \in known /\ k # item
    BY <1>4 DEF UserAdd
  <2>2. \A k : k # item => \A q \in Providers : k \in lists'[q] => k \in lists[q]
    BY <1>4 DEF UserAdd, ChainTypeOK
  <2> QED BY <1>2, <1>3, <2>1, <2>2
<1>5. CASE UserDelete(p, item)
  <2>1. \A q \in Providers : lists'[q] \subseteq lists[q]
    BY <1>5 DEF UserDelete, ChainTypeOK
  <2>2. \A k \in known' : k \in known \/ (k = item /\ AtHead(p) /\ InStep(item))
    BY <1>5 DEF UserDelete
  <2>3. AtHead(p) /\ InStep(item) => OnItsWay(item)'
    BY <1>5, WayBegins
  <2> QED BY <1>2, <1>3, <2>1, <2>2, <2>3
<1> QED BY <1>4, <1>5

LEMMA HeadInvNext ==
    ASSUME HeadsOfLines, ChainTypeOK, HeadInv, [Next]_vars
    PROVE  HeadInv'
<1> SUFFICES ASSUME faults' = 0 PROVE PlanShape' /\ \A k \in known' : OnItsWay(k)'
  BY DEF HeadInv
<1>1. faults \in Nat
  BY ChainAssumption DEF ChainTypeOK
<1>2. ~SnapshotFails /\ ~Crash /\ \A p \in Providers : ~WriteRaises(p)
  BY <1>1 DEF SnapshotFails, Crash, WriteRaises, Fault
<1>3. ASSUME faults = 0, known' = known, UNCHANGED pairs, PlanShape',
             \A k, c : Line(pairs, c) /\ PairKnows(k) /\ Passes(c, k) =>
                           PairKnows(k)' /\ Passes(c, k)'
      PROVE  \A k \in known' : OnItsWay(k)'
  <2>1. SUFFICES ASSUME NEW k \in known PROVE OnItsWay(k)'
    BY <1>3
  <2>2. PICK c : PairKnows(k) /\ Line(pairs, c) /\ Passes(c, k)
    BY <1>3 DEF HeadInv, OnItsWay
  <2>3. Line(pairs, c)'
    BY <1>3, <2>2 DEF Line
  <2> QED BY <1>3, <2>2, <2>3 DEF OnItsWay
<1>4. ASSUME NEW p \in Providers, NEW k \in Keys, UserAdd(p, k) \/ UserDelete(p, k)
      PROVE  PlanShape' /\ \A q \in known' : OnItsWay(q)'
  <2>1. faults = 0
    BY <1>4 DEF UserAdd, UserDelete
  <2> QED BY <1>4, <2>1, HeadInvUser DEF HeadInv
<1>5. CASE Remove(Left, "rem_left", "rem_right") \/ Remove(Right, "rem_right", "add_left")
  <2>1. faults = 0
    BY <1>5, NoFaultWrites DEF Remove, ChainTypeOK
  <2> QED BY <1>3, <1>5, <2>1, WayRemove DEF HeadInv, Remove, history
<1>6. CASE Add(Left, "add_left", "add_right") \/ Add(Right, "add_right", "commit")
  <2>1. faults = 0
    BY <1>6, NoFaultWrites DEF Add, ChainTypeOK
  <2> QED BY <1>3, <1>6, <2>1, WayAdd DEF HeadInv, Add, history
<1>7. CASE TakeSnapshot(Left, "left", "right") \/ TakeSnapshot(Right, "right", "plan")
  <2>1. faults = 0 /\ known' = known /\ UNCHANGED pairs
    BY <1>7 DEF TakeSnapshot, history
  <2> QED BY <1>3, <1>7, <2>1, WaySnapshot DEF HeadInv
<1>8. CASE StartRun
  <2>1. faults = 0 /\ known' = known /\ UNCHANGED pairs
    BY <1>8 DEF StartRun, history
  <2> QED BY <1>3, <1>8, <2>1, WayStart DEF HeadInv
<1>9. CASE Plan
  <2>1. faults = 0 /\ known' = known /\ UNCHANGED pairs
    BY <1>9 DEF Plan, history
  <2> QED BY <1>3, <1>9, <2>1, WayPlan DEF HeadInv
<1>10. CASE Commit
  <2>1. faults = 0 /\ known' = known /\ UNCHANGED pairs
    BY <1>10 DEF Commit, history
  <2> QED BY <1>3, <1>10, <2>1, WayCommit DEF HeadInv
<1>11. CASE Tick \/ UNCHANGED vars
  <2>1. /\ faults = 0 /\ known' = known
        /\ UNCHANGED <<lists, pairs, base, pc, cur, locals>>
    BY <1>11 DEF Tick, vars, files, history
  <2>2. PlanShape'
    BY <2>1, PlanShapeKept DEF HeadInv
  <2>3. \A k, c : Line(pairs, c) /\ PairKnows(k) /\ Passes(c, k) =>
                      PairKnows(k)' /\ Passes(c, k)'
    BY <2>1, PassesWithLess
  <2> QED BY <1>3, <2>1, <2>2, <2>3
<1> QED BY <1>2, <1>4, <1>5, <1>6, <1>7, <1>8, <1>9, <1>10, <1>11
        DEF Next, RunStep, BeforeCommit

\* No pair adds back, in a run that no fault has cut short, what the user of the
\* provider at the head of a line of pairs has deleted while it was in step,
\* however long the line and whatever else the users do meanwhile.
THEOREM HeadDeletionStays ==
    ASSUME HeadsOfLines
    PROVE  Spec => HeadDeletionSticks
<1> DEFINE Sticks ==
        pc = "plan" /\ pc' = "rem_left" /\ faults = 0 =>
            \A p \in Providers : add'[p] \cap known = {}
<1>1. ChainTypeOK /\ HeadInv /\ [Next]_vars => [Sticks]_vars
  <2> SUFFICES ASSUME ChainTypeOK, HeadInv, Next, pc = "plan", pc' = "rem_left", faults = 0,
                      NEW p \in Providers, NEW k \in known
               PROVE  k \notin add'[p]
    BY DEF vars
  <2>1. Plan
    <3>1. \A q \in Providers : ~WriteRaises(q)
                                /\ \A item \in Keys : ~UserAdd(q, item) /\ ~UserDelete(q, item)
      BY DEF UserAdd, UserDelete, WriteRaises
    <3>2. ~Tick /\ ~StartRun /\ ~SnapshotFails /\ ~Crash
      BY DEF Tick, StartRun, SnapshotFails, Crash, RunOver
    <3>3. ~Commit
      BY DEF Commit
    <3>4. RunStep
      BY <3>1, <3>2 DEF Next
    <3> QED BY <3>3, <3>4 DEF RunStep, BeforeCommit, TakeSnapshot, Remove, Add
  <2>2. PICK c : Line(pairs, c) /\ Passes(c, k)
    BY DEF HeadInv, OnItsWay
  <2> QED BY <2>1, <2>2, PlanAddsNone
<1>2. ChainTypeOK /\ HeadInv /\ [Next]_vars => HeadInv'
  BY HeadInvNext
<1>3. Spec => [][Sticks]_vars
  BY <1>1, <1>2, HeadInvInit, ChainTypeCorrect, PTL DEF Spec
<1> QED BY <1>3 DEF HeadDeletionSticks
=============================================================================
