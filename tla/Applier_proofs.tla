--------------------------- MODULE Applier_proofs ---------------------------
(* Facts about Applier that the proofs about the syncs rest on: what a batch *)
(* is credited with is part of the batch, whatever the provider answers.     *)
EXTENDS Applier, FiniteSetTheorems, TLAPS

LEMMA MarkType ==
    ASSUME NEW S, NEW T, NEW f \in [S -> T], NEW X, NEW v \in T
    PROVE  Mark(f, X, v) \in [S -> T]
BY DEF Mark

\* No key outside the batch is taken for removed.
LEMMA RemoveSuccessInBatch ==
    ASSUME NEW W, NEW res
    PROVE  RemoveSuccess(W, res) \subseteq W
BY DEF RemoveSuccess

\* No key outside the batch is taken for added.
LEMMA AddSuccessInBatch ==
    ASSUME NEW W, NEW res, NEW verify, NEW success \in AddSuccesses(W, res, verify)
    PROVE  success \subseteq W
<1>1. Creditable(W, res) \subseteq W
  BY DEF Creditable
<1>2. PICK X : X \subseteq Creditable(W, res) /\ success = X \cup (W \cap res.skeys)
  BY DEF AddSuccesses
<1> QED BY <1>1, <1>2

\* A batch of adds answered key by key is credited with nothing that was not
\* done; an answer without keys says that nothing was.
LEMMA ExactAdd ==
    ASSUME NEW W, IsFiniteSet(W), NEW D \in SUBSET W,
           NEW success \in AddSuccesses(W, Normalize("apply:add", Report("exact", W, D), W), FALSE)
    PROVE  success \subseteq D
<1> DEFINE raw == Report("exact", W, D)
           res == Normalize("apply:add", raw, W)
<1>1. /\ raw.keys = D /\ raw.skeys = {} /\ raw.ukeys = {} /\ raw.unres = 0
      /\ raw.count = Cardinality(D) /\ raw.ok
  BY DEF Report
<1> HIDE DEF raw
<1>2. ConfirmedKeys(raw) = D /\ ListedUnresolved(raw) = 0
  BY <1>1 DEF ConfirmedKeys, ListedUnresolved
<1>3. res.ckeys = D /\ res.skeys = {}
  BY <1>1, <1>2 DEF Normalize
<1>4. PICK X : X \subseteq Creditable(W, res) /\ success = X \cup (W \cap res.skeys)
                 /\ (~HaveExactKeys(res) => Cardinality(X) = EffectiveCount(W, res, FALSE))
  BY DEF AddSuccesses, raw
<1>5. success = X
  BY <1>3, <1>4
<1>6. CASE D # {}
  BY <1>3, <1>4, <1>5, <1>6 DEF HaveExactKeys, Creditable
<1>7. CASE D = {}
  <2>1. res.confirmed = 0
    BY <1>1, <1>2, <1>7, FS_EmptySet DEF Normalize, ConfirmedCount
  <2>2. IsFiniteSet(Creditable(W, res))
    BY FS_Subset DEF Creditable
  <2>3. ~HaveExactKeys(res)
    BY <1>3, <1>7 DEF HaveExactKeys
  <2>4. EffectiveCount(W, res, FALSE) = 0
    <3>1. Cardinality(Creditable(W, res)) \in Nat
      BY <2>2, FS_CardinalityType
    <3>2. Lesser(res.confirmed, Cardinality(Creditable(W, res))) = 0
      BY <2>1, <3>1 DEF Lesser
    <3> HIDE DEF res
    <3> QED BY <2>3, <3>2 DEF EffectiveCount
  <2>5. IsFiniteSet(X) /\ Cardinality(X) = 0
    BY <1>4, <2>2, <2>3, <2>4, FS_Subset
  <2> QED BY <1>5, <2>5, FS_EmptySet
<1> QED BY <1>6, <1>7

\* The keys an answer leaves without an account are keys of the batch.
LEMMA UnaccountedInBatch ==
    ASSUME NEW tag, NEW raw, NEW W
    PROVE  Unaccounted(tag, raw, W) \subseteq W
BY DEF Unaccounted

\* What is made of an honest answer about the part D of a batch W: either D, or
\* no key but the number of D.
Told(W, D, res) ==
    /\ res.ckeys = D \/ res.ckeys = {}
    /\ res.confirmed = Cardinality(D) /\ res.skeys = {} /\ res.ukeys \subseteq W

\* The same of a batch done in full: nothing is in error or unresolved.
Whole(W, res) ==
    /\ res.ckeys = W \/ res.ckeys = {}
    /\ res.confirmed = Cardinality(W) /\ res.skeys = {}
    /\ res.ukeys = {} /\ res.errors = 0 /\ res.unresolved = 0

LEMMA ReportTold ==
    ASSUME NEW W, IsFiniteSet(W), NEW D \in SUBSET W, NEW m \in {"exact", "count", "errors"},
           NEW tag, NEW res, res = Normalize(tag, Report(m, W, D), W)
    PROVE  /\ Told(W, D, res) /\ res.ckeys = IF m = "exact" THEN D ELSE {}
           /\ D = W => Whole(W, res)
<1> DEFINE raw == Report(m, W, D)
<1>1. /\ raw.keys = (IF m = "exact" THEN D ELSE {}) /\ raw.skeys = {} /\ raw.ukeys = {}
      /\ raw.unres = 0 /\ raw.count = Cardinality(D) /\ raw.ok
      /\ D = W => raw.errors = 0
  BY FS_EmptySet DEF Report
<1> HIDE DEF raw
<1>2. ConfirmedKeys(raw) = raw.keys /\ ListedUnresolved(raw) = 0
  BY <1>1 DEF ConfirmedKeys, ListedUnresolved
<1>3. ConfirmedCount(raw, W) = Cardinality(D)
  BY <1>1, <1>2 DEF ConfirmedCount
<1>4. /\ res.ckeys = ConfirmedKeys(raw) /\ res.skeys = raw.skeys
      /\ res.ukeys = raw.ukeys \cup Unaccounted(tag, raw, W)
      /\ res.unresolved = ListedUnresolved(raw) + Cardinality(Unaccounted(tag, raw, W))
      /\ res.errors = raw.errors /\ res.confirmed = ConfirmedCount(raw, W)
  BY DEF Normalize, raw
<1>5. res.ckeys = IF m = "exact" THEN D ELSE {}
  BY <1>1, <1>2, <1>4
<1>6. Told(W, D, res)
  BY <1>1, <1>3, <1>4, <1>5, UnaccountedInBatch DEF Told
<1>7. CASE D = W
  <2>1. Unaccounted(tag, raw, W) = {}
    BY <1>1, <1>2, <1>7 DEF Unaccounted, ExactBasis
  <2>2. res.unresolved = 0
    BY <1>2, <1>4, <2>1, FS_EmptySet
  <2> QED BY <1>1, <1>3, <1>4, <1>5, <1>6, <1>7, <2>1, <2>2 DEF Whole
<1> QED BY <1>5, <1>6, <1>7

\* A batch done in full is credited in full, one of removals as well as one of
\* adds.
LEMMA WholeRemoval ==
    ASSUME NEW W, NEW res, Whole(W, res)
    PROVE  RemoveSuccess(W, res) = W
BY DEF RemoveSuccess, Whole

LEMMA WholeAddition ==
    ASSUME NEW W, IsFiniteSet(W), NEW res, Whole(W, res), NEW verify \in BOOLEAN,
           NEW success \in AddSuccesses(W, res, verify)
    PROVE  success = W
<1>1. StillUnresolved(W, res) = {} /\ Creditable(W, res) = W
  BY DEF StillUnresolved, Creditable, HaveExactKeys, Whole
<1>2. Cardinality(W) \in Nat
  BY FS_CardinalityType
<1>3. ~HaveExactKeys(res) => EffectiveCount(W, res, FALSE) = Cardinality(W)
  BY <1>1, <1>2 DEF EffectiveCount, StrictPessimist, AmbiguousPartial, Lesser, Whole
<1>4. PICK X \in SUBSET W :
        /\ success = X \cup (W \cap res.skeys)
        /\ X = W \/ (~HaveExactKeys(res) /\ ~verify /\ Cardinality(X) = EffectiveCount(W, res, verify))
  BY <1>1 DEF AddSuccesses
<1>5. X = W
  <2>1. CASE X = W
    BY <2>1
  <2>2. CASE ~HaveExactKeys(res) /\ ~verify /\ Cardinality(X) = EffectiveCount(W, res, verify)
    <3>1. Cardinality(X) = Cardinality(W)
      BY <1>3, <2>2
    <3> QED BY <3>1, FS_Subset
  <2> QED BY <1>4, <2>1, <2>2
<1> QED BY <1>4, <1>5 DEF Whole

LEMMA CompleteRemoval ==
    ASSUME NEW W, IsFiniteSet(W), NEW m \in {"exact", "count", "errors"}
    PROVE  RemoveSuccess(W, Normalize("apply:remove", Report(m, W, W), W)) = W
BY ReportTold, WholeRemoval

LEMMA CompleteAddition ==
    ASSUME NEW W, IsFiniteSet(W), NEW m \in {"exact", "count", "errors"},
           NEW verify \in BOOLEAN,
           NEW success \in AddSuccesses(W, Normalize("apply:add", Report(m, W, W), W), verify)
    PROVE  success = W
BY ReportTold, WholeAddition

\* A batch of removals is credited with nothing that was not done, in whichever
\* way the provider answers.
LEMMA ToldRemoval ==
    ASSUME NEW W, IsFiniteSet(W), NEW D \in SUBSET W, NEW res, Told(W, D, res)
    PROVE  RemoveSuccess(W, res) \subseteq D
<1>1. CASE res.ckeys # {}
  BY <1>1 DEF RemoveSuccess, Told
<1>2. CASE res.ckeys = {} /\ Cardinality(D) = Cardinality(W)
  <2>1. D = W
    BY <1>2, FS_Subset
  <2> QED BY <2>1, RemoveSuccessInBatch
<1>3. CASE res.ckeys = {} /\ Cardinality(D) # Cardinality(W)
  BY <1>3 DEF RemoveSuccess, Told
<1> QED BY <1>1, <1>2, <1>3

LEMMA RemovalTold ==
    ASSUME NEW W, IsFiniteSet(W), NEW D \in SUBSET W, NEW m \in {"exact", "count", "errors"}
    PROVE  RemoveSuccess(W, Normalize("apply:remove", Report(m, W, D), W)) \subseteq D
BY ReportTold, ToldRemoval

\* Two chunks of a batch, reported in the same way, are an account of it all.
LEMMA ToldTogether ==
    ASSUME NEW W, IsFiniteSet(W), NEW C \in SUBSET W, NEW D \in SUBSET C,
           NEW E \in SUBSET (W \ C), NEW one, NEW two,
           Told(C, D, one), Told(W \ C, E, two),
           \/ one.ckeys = D /\ two.ckeys = E
           \/ one.ckeys = {} /\ two.ckeys = {}
    PROVE  /\ Told(W, D \cup E, Together(one, two))
           /\ Whole(C, one) /\ Whole(W \ C, two) => Whole(W, Together(one, two))
<1>1. IsFiniteSet(C) /\ IsFiniteSet(W \ C)
  BY FS_Subset
<1>2. /\ IsFiniteSet(D) /\ IsFiniteSet(E)
      /\ Cardinality(D) \in Nat /\ Cardinality(E) \in Nat
  BY <1>1, FS_Subset, FS_CardinalityType
<1>3. D \cap E = {} /\ C \cap (W \ C) = {} /\ C \cup (W \ C) = W
  OBVIOUS
<1>4. Cardinality(D \cup E) = Cardinality(D) + Cardinality(E)
  BY <1>2, <1>3, FS_Union, FS_EmptySet
<1>5. Cardinality(W) = Cardinality(C) + Cardinality(W \ C)
  <2>1. Cardinality(C) \in Nat /\ Cardinality(W \ C) \in Nat
    BY <1>1, FS_CardinalityType
  <2>2. Cardinality(C \cup (W \ C)) =
           Cardinality(C) + Cardinality(W \ C) - Cardinality(C \cap (W \ C))
    BY <1>1, FS_Union
  <2>3. Cardinality(C \cap (W \ C)) = 0
    BY <1>3, FS_EmptySet
  <2>4. Cardinality(C \cup (W \ C)) = Cardinality(W)
    BY <1>3
  <2> QED BY <2>1, <2>2, <2>3, <2>4
<1> DEFINE res == Together(one, two)
<1>6. /\ res.ckeys = one.ckeys \cup two.ckeys /\ res.confirmed = one.confirmed + two.confirmed
      /\ res.skeys = one.skeys \cup two.skeys /\ res.ukeys = one.ukeys \cup two.ukeys
      /\ res.unresolved = one.unresolved + two.unresolved /\ res.errors = one.errors + two.errors
  BY DEF Together
<1> HIDE DEF res
<1>7. Told(W, D \cup E, res)
  BY <1>4, <1>6 DEF Told
<1>8. ASSUME Whole(C, one), Whole(W \ C, two) PROVE Whole(W, res)
  <2>1. res.ckeys = W \/ res.ckeys = {}
    <3>1. Cardinality(D) = Cardinality(C) /\ Cardinality(E) = Cardinality(W \ C)
      BY <1>8 DEF Told, Whole
    <3>2. D = C /\ E = W \ C
      BY <1>1, <3>1, FS_Subset
    <3> QED BY <1>3, <1>6, <3>2
  <2> QED BY <1>5, <1>6, <1>8, <2>1 DEF Whole
<1> QED BY <1>7, <1>8 DEF res
=============================================================================
