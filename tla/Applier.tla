------------------------------ MODULE Applier ------------------------------
(***************************************************************************)
(* What one batch of writes to a provider is taken to have achieved        *)
(* (cw_platform/orchestrator/_applier.py, _normalize, and                  *)
(* _pairs_oneway.py, compute_effective_add / compute_effective_remove).    *)
(*                                                                         *)
(* A provider adapter answers a batch with a loosely typed dictionary.     *)
(* Here it is a record, the raw report:                                    *)
(*   ok       "ok" of the answer                                           *)
(*   keys     "confirmed_keys", the keys reported as written               *)
(*   skeys    "skipped_keys", reported as already there                    *)
(*   ukeys    the keys of the "unresolved" list                            *)
(*   unres    "unresolved" when it is a number and not a list              *)
(*   count    "count" / "added" / "removed"                                *)
(*   errors   "errors"                                                     *)
(*   skipped  "skipped", or NotReported                                    *)
(* Batches and key lists are sets: an item is its canonical key.  The one  *)
(* place where the order of a list matters, the prefix confirmed[:n] taken *)
(* of a list when only a count is known, becomes a choice of n keys.       *)
(*                                                                         *)
(* Left out: a "confirmed" count of its own beside "count", the raw        *)
(* "ambiguous" flag, and the pass-through maps of the answer.              *)
(***************************************************************************)
EXTENDS Integers, FiniteSets

NotReported == -1

Lesser(m, n) == IF m <= n THEN m ELSE n
AtLeastZeroMutant(n) == n
AtLeastZero(n) == IF n >= 0 THEN n ELSE 0

-----------------------------------------------------------------------------
(* A provider asked to write a batch W does the part done \subseteq W of it   *)
(* and reports in one of three ways:                                         *)
(*   exact   the keys done                                                   *)
(*   count   how many were done                                              *)
(*   errors  how many were done, the rest counted as errors                  *)

Report(mode, W, done) ==
    [ok |-> TRUE,
     keys |-> IF mode = "exact" THEN done ELSE {},
     skeys |-> {}, ukeys |-> {}, unres |-> 0,
     count |-> Cardinality(done),
     errors |-> IF mode = "errors" THEN Cardinality(W \ done) ELSE 0,
     skipped |-> NotReported]

\* The function f with the value v at the keys of X.
Mark(f, X, v) == [k \in DOMAIN f |-> IF k \in X THEN v ELSE f[k]]

-----------------------------------------------------------------------------
(* _normalize *)

\* How many keys of the answer are unresolved, before any are added for lack
\* of an account.
ListedUnresolved(raw) ==
    IF raw.ukeys # {} THEN Cardinality(raw.ukeys) ELSE raw.unres

\* Confirmed keys, those also listed as unresolved dropped.
ConfirmedKeys(raw) == raw.keys \ raw.ukeys

ConfirmedCount(raw, batch) ==
    LET claimed == IF raw.keys # {} THEN Cardinality(raw.keys)
                   ELSE IF raw.ok THEN raw.count ELSE 0
        room == AtLeastZero(Cardinality(batch) - ListedUnresolved(raw))
    IN  IF raw.keys # {}
        THEN Cardinality(ConfirmedKeys(raw))
        ELSE IF ListedUnresolved(raw) > 0 THEN Lesser(claimed, room) ELSE claimed

\* An add answered key by key is accounted for key by key.
ExactBasis(tag, raw) == tag = "apply:add" /\ (ConfirmedKeys(raw) # {} \/ raw.skeys # {})

\* Keys of an exactly answered batch that the answer does not mention; they
\* are recorded as unresolved with the reason "apply:add:unaccounted".
Unaccounted(tag, raw, batch) ==
    IF ExactBasis(tag, raw)
    THEN batch \ (ConfirmedKeys(raw) \cup raw.skeys \cup raw.ukeys)
    ELSE {}

SkippedCount(tag, raw, batch) ==
    IF ExactBasis(tag, raw) THEN Cardinality(raw.skeys)
    ELSE IF raw.skipped # NotReported THEN raw.skipped
    ELSE AtLeastZero(Cardinality(batch) - ConfirmedCount(raw, batch)
                     - ListedUnresolved(raw) - raw.errors)

Normalize(tag, raw, batch) ==
    [attempted  |-> Cardinality(batch),
     confirmed  |-> ConfirmedCount(raw, batch),
     ckeys      |-> ConfirmedKeys(raw),
     skeys      |-> raw.skeys,
     ukeys      |-> raw.ukeys \cup Unaccounted(tag, raw, batch),
     unresolved |-> ListedUnresolved(raw) + Cardinality(Unaccounted(tag, raw, batch)),
     errors     |-> raw.errors,
     skipped    |-> SkippedCount(tag, raw, batch)]

\* The account of a batch done in two chunks (_apply_chunked).
Together(one, two) ==
    [attempted  |-> one.attempted + two.attempted,
     confirmed  |-> one.confirmed + two.confirmed,
     ckeys      |-> one.ckeys \cup two.ckeys,
     skeys      |-> one.skeys \cup two.skeys,
     ukeys      |-> one.ukeys \cup two.ukeys,
     unresolved |-> one.unresolved + two.unresolved,
     errors     |-> one.errors + two.errors,
     skipped    |-> one.skipped + two.skipped]

\* What _apply_chunked answers when the run was cancelled before the batch.
Cancelled ==
    [attempted |-> 0, confirmed |-> 0, ckeys |-> {}, skeys |-> {}, ukeys |-> {},
     unresolved |-> 0, errors |-> 0, skipped |-> 0]

-----------------------------------------------------------------------------
(* compute_effective_add and the caller's preparation of its arguments *)

HaveExactKeys(res) == res.ckeys # {} \/ res.skeys # {}

StillUnresolved(attempted, res) == attempted \cap res.ukeys

\* The keys that may count as written, before the count limits them.
Creditable(attempted, res) ==
    ((IF HaveExactKeys(res) THEN attempted \cap res.ckeys ELSE attempted)
        \ StillUnresolved(attempted, res)) \ res.skeys

\* A count that is neither nothing nor everything, the rest being "skipped":
\* which keys were written cannot be told.
AmbiguousPartial(attempted, res) ==
    /\ ~HaveExactKeys(res)
    /\ res.skipped > 0
    /\ res.confirmed > 0
    /\ res.confirmed < Cardinality(Creditable(attempted, res))

StrictPessimist(attempted, res, verify) ==
    ~HaveExactKeys(res) /\ ~verify /\ StillUnresolved(attempted, res) # {}

\* Mutant: the whole batch counts, whatever the answer.
EffectiveCountAll(attempted, res, verify) == Cardinality(Creditable(attempted, res))

EffectiveCount(attempted, res, verify) ==
    LET most == Cardinality(Creditable(attempted, res))
    IN  IF StrictPessimist(attempted, res, verify) \/ AmbiguousPartial(attempted, res)
        THEN 0
        ELSE IF verify \/ HaveExactKeys(res) THEN most ELSE Lesser(res.confirmed, most)

\* The sets of keys the add may be credited with.
AddSuccesses(attempted, res, verify) ==
    LET conf == Creditable(attempted, res)
        written == IF verify \/ HaveExactKeys(res)
                   THEN {conf}
                   ELSE {X \in SUBSET conf :
                            Cardinality(X) = EffectiveCount(attempted, res, verify)}
    IN  {X \cup (attempted \cap res.skeys) : X \in written}

\* The same when the batch was done in order and first was its first chunk: the
\* keys credited are a prefix of the batch.
AddSuccessesInOrder(first, attempted, res, verify) ==
    {X \in AddSuccesses(attempted, res, verify) :
        X \subseteq first \/ first \cap Creditable(attempted, res) \subseteq X}

AddFailures(attempted, res, success) == (attempted \ success) \ res.skeys

-----------------------------------------------------------------------------
(* compute_effective_remove *)

RemoveSuccess(attempted, res) ==
    IF res.ckeys # {}
    THEN attempted \cap res.ckeys
    ELSE IF /\ res.confirmed = Cardinality(attempted)
            /\ res.unresolved = 0
            /\ res.errors = 0
         THEN attempted
         ELSE {}
=============================================================================
