-------------------------- MODULE AppRequests_proofs --------------------------
(* Proofs about AppRequests: for any number of threads, requests, providers, *)
(* pairs, items, edits and faults, of every kind.                            *)
EXTENDS AppRequests, PairChain_proofs

-----------------------------------------------------------------------------
(* Types *)

Bases == [Providers -> SUBSET Keys]

LEMMA NothingType == Nothing \in Bases
BY DEF Nothing, Bases

LEMMA NoRequestType == NoRequest \in Requests
BY NothingType DEF NoRequest, Requests, Bases

\* What AppTypeOK asks of a request.
Proper(r) == r \in Requests /\ (r # NoRequest /\ r.step = "call" => r.todo # {})
AllProper == req \in [Threads -> Requests] /\ \A t \in Threads : Proper(req[t])

LEMMA ProperFromType == AppTypeOK => AllProper
BY DEF AppTypeOK, AllProper, Proper, Busy

LEMMA NoRequestProper == Proper(NoRequest)
BY NoRequestType DEF Proper

\* One thread's request is replaced.
LEMMA ProperUpdate ==
    ASSUME AllProper, NEW t \in Threads, NEW r, Proper(r), req' = [req EXCEPT ![t] = r]
    PROVE  AllProper'
<1>1. req' \in [Threads -> Requests]
  BY DEF AllProper, Proper
<1>2. \A u \in Threads : Proper(req'[u])
  BY DEF AllProper
<1> QED BY <1>1, <1>2 DEF AllProper, Proper

LEMMA StartProper ==
    ASSUME AppTypeOK, NEW t \in Threads, NEW r, Proper(r), Start(t, r)
    PROVE  AllProper' /\ requests' \in 0..MaxRequests
<1>1. AllProper'
  BY ProperFromType, ProperUpdate DEF Start
<1>2. requests' \in 0..MaxRequests
  BY RequestsAssumption DEF Start, AppTypeOK
<1> QED BY <1>1, <1>2

LEMMA LoadedType ==
    ASSUME ChainTypeOK, stored \subseteq Providers, NEW r \in Requests
    PROVE  /\ Loaded(r) \in Requests
           /\ Loaded(r).op = r.op /\ Loaded(r).step = r.step /\ Loaded(r).todo = r.todo
           /\ Loaded(r).keys = r.keys
           /\ \A p \in Providers : Loaded(r).base[p] \subseteq base[p]
<1>1. [p \in Providers |-> IF Removal(r) \/ p \in r.todo THEN base[p] ELSE {}] \in Bases
  BY DEF ChainTypeOK, Bases
<1>2. (IF Removal(r) THEN stored ELSE {}) \subseteq Providers
  OBVIOUS
<1> QED BY <1>1, <1>2 DEF Loaded, Requests, Bases

LEMMA StoreType ==
    ASSUME ChainTypeOK, stored \subseteq Providers, NEW ps, ps \subseteq Providers,
           NEW new \in Bases, Store(new, ps)
    PROVE  /\ base' \in Bases /\ stored' \subseteq Providers /\ faults' \in 0..MaxFaults
           /\ \A p \in Providers : base'[p] \subseteq base[p] \cup new[p]
           /\ \A p \in Providers \ ps : base'[p] = base[p]
<1>1. CASE UNCHANGED faults /\ base' = [p \in Providers |-> IF p \in ps THEN new[p] ELSE base[p]]
                            /\ stored' = stored \cup ps
  BY <1>1 DEF ChainTypeOK, Bases
<1>2. CASE /\ Fault("torn")
           /\ \E hit \in SUBSET ps :
                 /\ base' \in {b \in Bases : \A p \in Providers :
                             /\ b[p] \subseteq base[p] \cup new[p] /\ base[p] \cap new[p] \subseteq b[p]
                             /\ p \notin hit => b[p] = base[p]}
                 /\ stored' = stored \cup hit
  BY <1>2, ChainFaultType DEF ChainTypeOK
<1> QED BY <1>1, <1>2 DEF Store, Bases

\* A step that leaves the run and the configuration as they are.
LEMMA RunUntouchedType ==
    ASSUME ChainTypeOK, UNCHANGED <<pairs, pc, cur, locals, edits>>,
           lists' \in Bases, base' \in Bases,
           tomb' \in [DOMAIN pairs -> [Keys -> 0..TTL]],
           pend' \in [DOMAIN pairs -> Bases],
           gone' \subseteq Keys, lost' \subseteq Keys, known' \subseteq lost',
           faults' \in 0..MaxFaults
    PROVE  ChainTypeOK'
BY DEF ChainTypeOK, Bases, locals

LEMMA VarsUntouchedType == ChainTypeOK /\ UNCHANGED vars => ChainTypeOK'
BY DEF ChainTypeOK, vars, files, locals, history

LEMMA StartRemovalType ==
    ASSUME AppTypeOK, NEW t \in Threads, NEW op \in {"remove", "bulk"}, NEW k \in Keys,
           NEW asked, asked \subseteq Providers, StartRemoval(t, op, k, asked)
    PROVE  AppTypeOK'
<1> DEFINE todo == IF op = "remove" THEN asked ELSE {p \in asked \cap stored : k \in base[p]}
           r == [NoRequest EXCEPT !.op = op, !.keys = {k}, !.todo = todo]
<1>1. r \in Requests /\ r.todo = todo
  BY NoRequestType DEF Requests, NoRequest
<1>2. todo # {} /\ Start(t, Loaded(r))
  BY DEF StartRemoval
<1> HIDE DEF r, todo
<1>3. Proper(Loaded(r))
  BY <1>1, <1>2, LoadedType DEF AppTypeOK, Proper
<1>4. AllProper' /\ requests' \in 0..MaxRequests
  BY <1>2, <1>3, StartProper
<1>5. ChainTypeOK' /\ stored' = stored /\ crossed' = crossed
  BY VarsUntouchedType DEF AppTypeOK, StartRemoval
<1>6. alone' \subseteq Threads /\ purged' \subseteq Keys
  BY DEF AppTypeOK, StartRemoval
<1> QED BY <1>4, <1>5, <1>6 DEF AppTypeOK, AllProper, Proper, Busy

LEMMA StartImportType ==
    ASSUME AppTypeOK, NEW t \in Threads, NEW p \in Providers, StartImport(t, p)
    PROVE  AppTypeOK'
<1> DEFINE r == [NoRequest EXCEPT !.op = "import", !.todo = {p}]
<1>1. r \in Requests /\ r.todo # {}
  BY NoRequestType DEF Requests, NoRequest
<1>2. Proper(Loaded(r))
  BY <1>1, LoadedType DEF AppTypeOK, Proper
<1>3. AllProper' /\ requests' \in 0..MaxRequests
  BY <1>2, StartProper DEF StartImport
<1>4. ChainTypeOK'
  BY VarsUntouchedType DEF AppTypeOK, StartImport
<1> HIDE DEF r
<1> QED BY <1>3, <1>4 DEF AppTypeOK, StartImport, AllProper, Proper, Busy

LEMMA ConfirmedBySendIn ==
    ASSUME NEW K, IsFiniteSet(K), NEW D \in SUBSET K,
           NEW X \in ConfirmedBySend(K, Answer("apply:add", K, D))
    PROVE  X \subseteq D
<1> DEFINE raw == Report("exact", K, D)
           res == Normalize("apply:add", raw, K)
<1>1. raw.keys = D /\ raw.skeys = {} /\ raw.ukeys = {} /\ raw.unres = 0 /\ raw.ok
      /\ raw.count = Cardinality(D)
  BY DEF Report
<1> HIDE DEF raw
<1>2. ConfirmedKeys(raw) = D /\ ListedUnresolved(raw) = 0
  BY <1>1 DEF ConfirmedKeys, ListedUnresolved
<1>3. res.ckeys = D /\ res.skeys = {}
  BY <1>1, <1>2 DEF Normalize
<1>4. X \in ConfirmedBySend(K, res)
  BY DEF Answer, raw
<1>5. CASE D # {}
  BY <1>3, <1>4, <1>5 DEF ConfirmedBySend
<1>6. CASE D = {}
  <2>1. res.confirmed = 0
    BY <1>1, <1>2, <1>6, FS_EmptySet DEF Normalize, ConfirmedCount
  <2> HIDE DEF res
  <2>2. X \in SUBSET K /\ Cardinality(X) = Lesser(0, Cardinality(K))
    BY <1>3, <1>4, <1>6, <2>1 DEF ConfirmedBySend
  <2>3. Cardinality(K) \in Nat /\ IsFiniteSet(X)
    BY <2>2, FS_CardinalityType, FS_Subset
  <2>4. Cardinality(X) = 0
    BY <2>2, <2>3 DEF Lesser
  <2> QED BY <2>3, <2>4, FS_EmptySet
<1> QED BY <1>5, <1>6

\* What a request to send items comes to: the part of them that is done, and
\* the part that is to be merged into the baseline.
LEMMA SendOutcome ==
    ASSUME AppTypeOK, NEW t \in Threads, NEW p \in Providers, NEW K \in SUBSET Keys, Send(t, p, K)
    PROVE  \E done \in SUBSET K, confirmed \in SUBSET K :
              /\ confirmed \subseteq done
              /\ lists' = [lists EXCEPT ![p] = @ \cup done]
              /\ lost' = lost \ done /\ known' = known \ done
              /\ faults' \in 0..MaxFaults
              /\ \/ Start(t, NoRequest)
                 \/ Start(t, [NoRequest EXCEPT !.op = "send", !.step = "load",
                                               !.keys = confirmed, !.todo = {p}])
<1>1. PICK done \in SUBSET K :
          /\ lists' = [lists EXCEPT ![p] = @ \cup done]
          /\ lost' = lost \ done /\ known' = known \ done
          /\ \/ /\ Written(K, done)
                /\ \E confirmed \in ConfirmedBySend(K, Answer("apply:add", K, done)) :
                      Start(t, IF confirmed = {} THEN NoRequest
                               ELSE [NoRequest EXCEPT !.op = "send", !.step = "load",
                                                      !.keys = confirmed, !.todo = {p}])
             \/ Fault("raise") /\ Start(t, NoRequest)
  BY DEF Send
<1>2. faults' \in 0..MaxFaults
  BY <1>1, WrittenPart, ChainFaultType DEF AppTypeOK, ChainTypeOK
<1>3. CASE Fault("raise") /\ Start(t, NoRequest)
  BY <1>1, <1>2, <1>3
<1>4. CASE \E confirmed \in ConfirmedBySend(K, Answer("apply:add", K, done)) :
              Start(t, IF confirmed = {} THEN NoRequest
                       ELSE [NoRequest EXCEPT !.op = "send", !.step = "load",
                                              !.keys = confirmed, !.todo = {p}])
  <2>1. IsFiniteSet(K)
    BY ChainAssumption, FS_Subset
  <2>2. PICK confirmed \in ConfirmedBySend(K, Answer("apply:add", K, done)) :
              Start(t, IF confirmed = {} THEN NoRequest
                       ELSE [NoRequest EXCEPT !.op = "send", !.step = "load",
                                              !.keys = confirmed, !.todo = {p}])
    BY <1>4
  <2>3. confirmed \subseteq done
    BY <2>1, ConfirmedBySendIn
  <2> QED BY <1>1, <1>2, <2>2, <2>3
<1> QED BY <1>1, <1>3, <1>4

LEMMA SendType ==
    ASSUME AppTypeOK, NEW t \in Threads, NEW p \in Providers, NEW K \in SUBSET Keys, Send(t, p, K)
    PROVE  AppTypeOK'
<1>1. PICK done \in SUBSET K, confirmed \in SUBSET K :
          /\ confirmed \subseteq done
          /\ lists' = [lists EXCEPT ![p] = @ \cup done]
          /\ lost' = lost \ done /\ known' = known \ done
          /\ faults' \in 0..MaxFaults
          /\ \/ Start(t, NoRequest)
             \/ Start(t, [NoRequest EXCEPT !.op = "send", !.step = "load",
                                           !.keys = confirmed, !.todo = {p}])
  BY SendOutcome, ZenonT(60)
<1>2. Proper([NoRequest EXCEPT !.op = "send", !.step = "load", !.keys = confirmed, !.todo = {p}])
  BY NoRequestType DEF Proper, Requests, NoRequest
<1>3. AllProper' /\ requests' \in 0..MaxRequests
  BY <1>1, <1>2, NoRequestProper, StartProper
<1>4. ChainTypeOK'
  <2>1. lists' \in Bases /\ lost' \subseteq Keys /\ known' \subseteq lost'
    BY <1>1 DEF AppTypeOK, ChainTypeOK, Bases
  <2> QED BY <1>1, <2>1, RunUntouchedType
          DEF Send, AppTypeOK, ChainTypeOK, Bases, files
<1> QED BY <1>3, <1>4 DEF AppTypeOK, Send, AllProper, Proper, Busy

LEMMA StartClearType ==
    ASSUME AppTypeOK, NEW t \in Threads, StartClear(t)
    PROVE  AppTypeOK'
<1>1. Proper([NoRequest EXCEPT !.op = "clear", !.step = "save"])
  BY NoRequestType DEF Proper, Requests, NoRequest
<1>2. AllProper' /\ requests' \in 0..MaxRequests
  BY <1>1, StartProper DEF StartClear
<1>3. ChainTypeOK'
  BY NothingType, RunUntouchedType DEF StartClear, AppTypeOK, ChainTypeOK, Bases, history
<1> QED BY <1>2, <1>3 DEF AppTypeOK, StartClear, AllProper, Proper, Busy

LEMMA PoppedType ==
    ASSUME NEW r \in Requests, NEW p \in Providers, NEW k
    PROVE  /\ Popped(r, p, k) \in Requests
           /\ Popped(r, p, k).op = r.op /\ Popped(r, p, k).keys = r.keys
           /\ Popped(r, p, k).todo = r.todo /\ Popped(r, p, k).step = r.step
           /\ \A q \in Providers : Popped(r, p, k).base[q] \subseteq r.base[q]
BY DEF Popped, Requests

LEMMA CalledType ==
    ASSUME NEW r \in Requests, NEW p
    PROVE  /\ Proper(Called(r, p))
           /\ Called(r, p) # NoRequest =>
                 Called(r, p).op = r.op /\ Called(r, p).keys = r.keys /\ Called(r, p).base = r.base
<1> DEFINE rest == [r EXCEPT !.todo = @ \ {p}]
<1>1. /\ rest \in Requests /\ rest.op = r.op /\ rest.keys = r.keys /\ rest.base = r.base
  BY DEF Requests
<1> HIDE DEF rest
<1>2. /\ [rest EXCEPT !.step = "save"] \in Requests
      /\ [rest EXCEPT !.step = "save"].step = "save"
      /\ [rest EXCEPT !.step = "save"].op = r.op /\ [rest EXCEPT !.step = "save"].keys = r.keys
      /\ [rest EXCEPT !.step = "save"].base = r.base
  BY <1>1 DEF Requests
<1>3. \/ Called(r, p) = [rest EXCEPT !.step = "save"]
      \/ Called(r, p) = NoRequest
      \/ Called(r, p) = rest /\ rest.todo # {}
  BY DEF Called, rest
<1> QED BY <1>1, <1>2, <1>3, NoRequestProper DEF Proper

\* What a removal's call of a provider comes to.
LEMMA CallOutcome ==
    ASSUME AppTypeOK, NEW t \in Threads, CallProvider(t)
    PROVE  \E p \in Providers, k \in Keys :
              /\ \/ UNCHANGED <<lists, gone, lost>>
                 \/ /\ lists' = [lists EXCEPT ![p] = @ \ {k}]
                    /\ gone' = gone \cup {k} /\ lost' = lost \cup {k}
              /\ \/ req' = [req EXCEPT ![t] = Called(Popped(@, p, k), p)]
                 \/ req' = [req EXCEPT ![t] = Called(@, p)]
              /\ faults' \in 0..MaxFaults
              /\ alone' \subseteq alone
<1>1. req[t] \in Requests
  BY ProperFromType DEF AllProper, Proper
<1>2. PICK p \in req[t].todo, k \in req[t].keys : TakeOff(t, p, k) \/ TakeOffFails(t, p, k)
  BY DEF CallProvider
<1>3. p \in Providers /\ k \in Keys
  BY <1>1 DEF Requests
<1>4. lists \in Bases /\ faults \in 0..MaxFaults
  BY DEF AppTypeOK, ChainTypeOK, Bases
<1>5. CASE TakeOff(t, p, k)
  <2>1. k \notin lists[p] => [lists EXCEPT ![p] = @ \ {k}] = lists
    BY <1>4 DEF Bases
  <2> QED BY <1>3, <1>4, <1>5, <2>1 DEF TakeOff
<1>6. CASE TakeOffFails(t, p, k)
  <2>1. faults' \in 0..MaxFaults
    BY <1>4, <1>6, ChainFaultType DEF TakeOffFails
  <2> QED BY <1>3, <1>6, <2>1 DEF TakeOffFails
<1> QED BY <1>2, <1>5, <1>6

LEMMA ConcludedType ==
    ASSUME AppTypeOK, NEW t \in Threads, Concluded(t)
    PROVE  purged' \subseteq Keys
<1>1. req[t].keys \subseteq Keys
  BY ProperFromType DEF AllProper, Proper, Requests
<1> QED BY <1>1 DEF Concluded, AppTypeOK

LEMMA CallProviderType ==
    ASSUME AppTypeOK, NEW t \in Threads, CallProvider(t)
    PROVE  AppTypeOK'
<1>1. req[t] \in Requests
  BY ProperFromType DEF AllProper, Proper
<1>2. PICK p \in Providers, k \in Keys :
              /\ \/ UNCHANGED <<lists, gone, lost>>
                 \/ /\ lists' = [lists EXCEPT ![p] = @ \ {k}]
                    /\ gone' = gone \cup {k} /\ lost' = lost \cup {k}
              /\ \/ req' = [req EXCEPT ![t] = Called(Popped(@, p, k), p)]
                 \/ req' = [req EXCEPT ![t] = Called(@, p)]
              /\ faults' \in 0..MaxFaults
              /\ alone' \subseteq alone
  BY CallOutcome
<1>3. AllProper'
  <2>1. Proper(Called(Popped(req[t], p, k), p)) /\ Proper(Called(req[t], p))
    BY <1>1, PoppedType, CalledType
  <2>2. \/ req' = [req EXCEPT ![t] = Called(Popped(req[t], p, k), p)]
        \/ req' = [req EXCEPT ![t] = Called(req[t], p)]
    BY <1>2, ProperFromType DEF AllProper
  <2> QED BY <2>1, <2>2, ProperFromType, ProperUpdate
<1>4. ChainTypeOK'
  <2>1. lists' \in Bases
    <3>1. lists \in Bases
      BY DEF AppTypeOK, ChainTypeOK, Bases
    <3>2. [lists EXCEPT ![p] = @ \ {k}] \in Bases
      BY <3>1 DEF Bases
    <3>3. lists' = lists \/ lists' = [lists EXCEPT ![p] = @ \ {k}]
      BY <1>2
    <3> QED BY <3>1, <3>2, <3>3
  <2>2. gone' \subseteq Keys /\ lost' \subseteq Keys /\ lost \subseteq lost'
    BY <1>2 DEF AppTypeOK, ChainTypeOK
  <2> QED BY <1>2, <2>1, <2>2, RunUntouchedType
          DEF CallProvider, AppTypeOK, ChainTypeOK, Bases, files
<1>5. purged' \subseteq Keys
  BY ConcludedType DEF CallProvider
<1> QED BY <1>2, <1>3, <1>4, <1>5 DEF AppTypeOK, CallProvider, AllProper, Proper, Busy

LEMMA BuildIndexType ==
    ASSUME AppTypeOK, NEW t \in Threads, BuildIndex(t)
    PROVE  AppTypeOK'
<1> DEFINE read == UNION {lists[p] : p \in req[t].todo}
           r == [req[t] EXCEPT !.step = "save", !.keys = read]
<1>1. req[t] \in Requests /\ req \in [Threads -> Requests]
  BY ProperFromType DEF AllProper, Proper
<1>2. read \subseteq Keys
  BY <1>1 DEF AppTypeOK, ChainTypeOK, Requests
<1> HIDE DEF read
<1>3. Proper(r)
  BY <1>1, <1>2 DEF Proper, Requests
<1>4. req' = [req EXCEPT ![t] = r] \/ req' = [req EXCEPT ![t] = NoRequest]
  BY <1>1 DEF BuildIndex, read
<1> HIDE DEF r
<1>5. AllProper'
  BY <1>3, <1>4, NoRequestProper, ProperFromType, ProperUpdate
<1>6. ChainTypeOK'
  <2>1. faults' \in 0..MaxFaults
    BY ChainFaultType DEF BuildIndex, AppTypeOK, ChainTypeOK
  <2> QED BY <2>1, RunUntouchedType
          DEF BuildIndex, AppTypeOK, ChainTypeOK, Bases, files, history
<1> QED BY <1>5, <1>6 DEF AppTypeOK, BuildIndex, AllProper, Proper, Busy

LEMMA LoadForMergeType ==
    ASSUME AppTypeOK, NEW t \in Threads, LoadForMerge(t)
    PROVE  AppTypeOK'
<1> DEFINE r == [Loaded(req[t]) EXCEPT !.step = "save"]
<1>1. req[t] \in Requests /\ req \in [Threads -> Requests]
  BY ProperFromType DEF AllProper, Proper
<1>2. Loaded(req[t]) \in Requests
  BY <1>1, LoadedType DEF AppTypeOK
<1>3. Proper(r)
  BY <1>2 DEF Proper, Requests
<1>4. req' = [req EXCEPT ![t] = r]
  BY <1>1 DEF LoadForMerge
<1> HIDE DEF r
<1>5. AllProper'
  BY <1>3, <1>4, ProperFromType, ProperUpdate
<1>6. ChainTypeOK'
  BY VarsUntouchedType DEF AppTypeOK, LoadForMerge
<1> QED BY <1>5, <1>6 DEF AppTypeOK, LoadForMerge, AllProper, Proper, Busy

LEMMA NewBasesType ==
    ASSUME NEW r \in Requests, NEW new \in NewBases(r)
    PROVE  /\ new \in Bases
           /\ Removal(r) => new = r.base
           /\ \A p \in Providers : new[p] \subseteq r.base[p] \cup r.keys
<1>1. CASE Removal(r)
  BY <1>1 DEF NewBases, Requests, Bases
<1>2. CASE ~Removal(r)
  <2>1. PICK old \in {Nothing, r.base} : new = [p \in Providers |-> old[p] \cup r.keys]
    BY <1>2 DEF NewBases
  <2> QED BY <1>2, <2>1 DEF Requests, Bases, Nothing
<1> QED BY <1>1, <1>2

LEMMA SaveType ==
    ASSUME AppTypeOK, NEW t \in Threads, Save(t)
    PROVE  AppTypeOK'
<1> DEFINE r == [req[t] EXCEPT !.step = "call", !.dirty = FALSE]
<1>1. req[t] \in Requests /\ req \in [Threads -> Requests]
  BY ProperFromType DEF AllProper, Proper
<1>2. PICK new \in NewBases(req[t]) : Store(new, Blocks(req[t]))
  BY DEF Save
<1>3. new \in Bases /\ Blocks(req[t]) \subseteq Providers
  BY <1>1, NewBasesType DEF Blocks, Requests
<1>4. base' \in Bases /\ stored' \subseteq Providers /\ faults' \in 0..MaxFaults
  BY <1>2, <1>3, StoreType DEF AppTypeOK
<1>5. ChainTypeOK'
  BY <1>4, RunUntouchedType DEF Save, AppTypeOK, ChainTypeOK, Bases, history
<1>6. AllProper'
  <2>1. req[t].todo # {} => Proper(r)
    BY <1>1 DEF Proper, Requests
  <2>2. \/ req[t].todo # {} /\ req' = [req EXCEPT ![t] = r]
        \/ req' = [req EXCEPT ![t] = NoRequest]
    BY <1>1 DEF Save
  <2> HIDE DEF r
  <2> QED BY <2>1, <2>2, NoRequestProper, ProperFromType, ProperUpdate
<1>7. purged' \subseteq Keys
  BY ConcludedType DEF Save
<1>8. crossed' \subseteq Keys /\ alone' \subseteq Threads
  <2>1. ListsRead \subseteq Providers
    BY PairsType DEF ListsRead, AppTypeOK
  <2> QED BY <1>4, <2>1 DEF Save, AppTypeOK, Bases
<1> QED BY <1>4, <1>5, <1>6, <1>7, <1>8 DEF AppTypeOK, Save, AllProper, Proper, Busy

LEMMA ClearFilesType ==
    ASSUME AppTypeOK, NEW t \in Threads, ClearFiles(t)
    PROVE  AppTypeOK'
<1>1. req \in [Threads -> Requests]
  BY DEF AppTypeOK
<1>2. AllProper'
  BY <1>1, NoRequestProper, ProperFromType, ProperUpdate DEF ClearFiles
<1>3. 0 \in 0..TTL
  BY ChainAssumption
<1>4. tomb' \in [DOMAIN pairs -> [Keys -> 0..TTL]] /\ pend' \in [DOMAIN pairs -> Bases]
  BY <1>3, NothingType DEF ClearFiles
<1>5. ChainTypeOK'
  BY <1>4, RunUntouchedType DEF ClearFiles, AppTypeOK, ChainTypeOK, Bases, history
<1> QED BY <1>2, <1>5 DEF AppTypeOK, ClearFiles, AllProper, Proper, Busy

LEMMA AppUntouchedType ==
    AppTypeOK /\ ChainTypeOK' /\ UNCHANGED appVars => AppTypeOK'
BY DEF AppTypeOK, appVars, Busy

LEMMA CommitBlocksType ==
    ASSUME AppTypeOK, CommitBlocks
    PROVE  AppTypeOK'
<1>1. Here \subseteq Providers /\ snap \in Bases
  BY PairsType DEF AppTypeOK, ChainTypeOK, Bases
<1>2. base' \in Bases /\ stored' \subseteq Providers /\ faults' \in 0..MaxFaults
  BY <1>1, StoreType DEF AppTypeOK, CommitBlocks
<1>3. ChainTypeOK'
  BY <1>2, ChainOverType DEF AppTypeOK, ChainTypeOK, CommitBlocks, Bases, history
<1> QED BY <1>2, <1>3 DEF AppTypeOK, CommitBlocks, Busy

LEMMA BeforeCommitType == ChainTypeOK /\ BeforeCommit => ChainTypeOK'
BY NextChainType DEF Next, RunStep

LEMMA UserEditsType ==
    ASSUME AppTypeOK, NEW p \in Providers, NEW k \in Keys, UserEdits(p, k)
    PROVE  AppTypeOK'
<1>1. ChainTypeOK'
  BY ChainUserType DEF AppTypeOK, UserEdits
<1>2. CASE UNCHANGED appVars
  BY <1>1, <1>2, AppUntouchedType
<1>3. CASE ~UNCHANGED appVars
  BY <1>1, <1>3 DEF AppTypeOK, UserEdits, Busy
<1> QED BY <1>2, <1>3

LEMMA DiesType ==
    ASSUME AppTypeOK, Dies
    PROVE  AppTypeOK'
<1>1. faults' \in 0..MaxFaults
  BY ChainFaultType DEF AppTypeOK, ChainTypeOK, Dies
<1>2. ChainTypeOK'
  BY <1>1, ChainOverType DEF AppTypeOK, ChainTypeOK, Dies, files, history
<1>3. AllProper'
  BY NoRequestType, NoRequestProper DEF Dies, AllProper, Proper
<1> QED BY <1>2, <1>3 DEF AppTypeOK, Dies, AllProper, Proper, Busy

LEMMA AppInitType == AppInit => AppTypeOK
<1> SUFFICES ASSUME AppInit PROVE AppTypeOK
  OBVIOUS
<1>1. ChainTypeOK
  BY InitChainType DEF AppInit
<1>2. requests \in 0..MaxRequests
  BY RequestsAssumption DEF AppInit
<1> QED BY <1>1, <1>2, NoRequestType DEF AppInit, AppTypeOK, Busy

LEMMA AppNextType == AppTypeOK /\ [AppNext]_allVars => AppTypeOK'
<1> SUFFICES ASSUME AppTypeOK, [AppNext]_allVars PROVE AppTypeOK'
  OBVIOUS
<1>1. ASSUME NEW t \in Threads, NEW op \in {"remove", "bulk"}, NEW k \in Keys,
             NEW asked \in {Providers} \cup {{p} : p \in Providers}, StartRemoval(t, op, k, asked)
      PROVE  AppTypeOK'
  BY <1>1, StartRemovalType
<1>2. ASSUME NEW t \in Threads, NEW p \in Providers,
             StartImport(t, p) \/ \E K \in SUBSET Keys : Send(t, p, K)
      PROVE  AppTypeOK'
  BY <1>2, StartImportType, SendType
<1>3. ASSUME NEW t \in Threads, StartClear(t) \/ Serve(t) PROVE AppTypeOK'
  BY <1>3, StartClearType, CallProviderType, BuildIndexType, LoadForMergeType, SaveType,
     ClearFilesType DEF Serve
<1>4. ASSUME NEW p \in Providers, NEW k \in Keys, UserEdits(p, k) PROVE AppTypeOK'
  BY <1>4, UserEditsType
<1>5. CASE RunBegins
  <2>1. ChainTypeOK'
    BY <1>5, ChainEndType DEF AppTypeOK, RunBegins
  <2> QED BY <1>5, <2>1 DEF AppTypeOK, RunBegins, Busy
<1>6. CASE SyncStep
  BY <1>6, BeforeCommitType, AppUntouchedType, CommitBlocksType DEF SyncStep, AppTypeOK
<1>7. CASE Tick /\ UNCHANGED appVars
  BY <1>7, ChainTickType, AppUntouchedType DEF AppTypeOK
<1>8. CASE Dies
  BY <1>8, DiesType
<1>9. CASE UNCHANGED allVars
  BY <1>9, VarsUntouchedType, AppUntouchedType DEF AppTypeOK, allVars
<1> QED BY <1>1, <1>2, <1>3, <1>4, <1>5, <1>6, <1>7, <1>8, <1>9 DEF AppNext

\* Every variable keeps its type, and no request is ever left with nothing to do.
THEOREM AppTypeCorrect == AppSpec => []AppTypeOK
BY AppInitType, AppNextType, PTL DEF AppSpec

-----------------------------------------------------------------------------
(* Whatever requests save, nothing is a deletion that no user has deleted *)

\* What a request r holds, when the lists are L: AppEvidence asks this of every
\* request; that an import is of one provider makes it inductive.
Tells(r, L, G) ==
    /\ \A p \in Providers : r.base[p] \subseteq L[p] \cup G
    /\ ~Removal(r) => \A p \in r.todo : r.keys \subseteq L[p] \cup G
    /\ r.op = "import" => \A p \in r.todo, q \in r.todo : p = q
AllTell(G) == \A t \in Threads : Tells(req[t], lists, G)
AppInvariant == Evidence(Blamed) /\ AllTell(Blamed)

LEMMA NoRequestTells == \A L, G : Tells(NoRequest, L, G)
BY DEF Tells, NoRequest, Nothing

LEMMA TellsKept ==
    ASSUME NEW G, NEW r \in Requests, Tells(r, lists, G),
           \A p \in Providers : lists[p] \ lists'[p] \subseteq G
    PROVE  Tells(r, lists', G)
<1>1. \A p \in Providers : lists[p] \cup G \subseteq lists'[p] \cup G
  BY OnceThere
<1>2. r.todo \subseteq Providers
  BY DEF Requests
<1> QED BY <1>1, <1>2 DEF Tells

LEMMA AllTellKept ==
    ASSUME AllProper, NEW G, AllTell(G), UNCHANGED req,
           \A p \in Providers : lists[p] \ lists'[p] \subseteq G
    PROVE  AllTell(G)'
BY TellsKept DEF AllTell, AllProper, Proper

LEMMA AllTellUpdate ==
    ASSUME AllProper, NEW G, AllTell(G), NEW t \in Threads, NEW r, Tells(r, lists', G),
           req' = [req EXCEPT ![t] = r],
           \A p \in Providers : lists[p] \ lists'[p] \subseteq G
    PROVE  AllTell(G)'
<1>1. \A u \in Threads : Tells(req[u], lists', G)
  BY TellsKept DEF AllTell, AllProper, Proper
<1>2. \A u \in Threads : req'[u] = req[u] \/ req'[u] = r
  BY DEF AllProper
<1> QED BY <1>1, <1>2 DEF AllTell

\* A step that only writes the stores, while the run is at the same place.
LEMMA EvidenceStores ==
    ASSUME ChainTypeOK, NEW G, Evidence(G),
           UNCHANGED <<lists, pairs, pc, cur, loaded, prev, snap, rem, add>>,
           \A p \in Providers : base'[p] \subseteq lists[p] \cup G,
           \A p \in ListsRead : (base'[p] \ base[p]) \ snap[p] \subseteq G,
           \A i \in DOMAIN pairs, k \in Keys : tomb'[i][k] > 0 => k \in G,
           \A i \in DOMAIN pairs, p \in Providers : pend'[i][p] \subseteq G
    PROVE  Evidence(G)'
<1>1. StoresTell(G)'
  BY DEF Evidence, StoresTell
<1>2. UNCHANGED <<Left, Right, Here>> /\ \A p \in Here : Partner(p)' = Partner(p)
  BY DEF Left, Right, Here, Partner
<1>3. pc \in {"right", "plan"} => Shrunk(Left)' \subseteq G
  <2>1. loaded => Shrunk(Left)' = Shrunk(Left)
    BY <1>2 DEF Shrunk, Known
  <2>2. ~loaded /\ pc \in {"right", "plan"} => Left \in ListsRead
    BY DEF ListsRead, Here
  <2>3. ~loaded => Shrunk(Left)' \subseteq Shrunk(Left) \cup ((base'[Left] \ base[Left]) \ snap[Left])
    BY <1>2 DEF Shrunk, Known
  <2> QED BY <2>1, <2>2, <2>3 DEF Evidence, PairTells
<1>4. pc = "plan" => Shrunk(Right)' \subseteq G
  <2>1. loaded => Shrunk(Right)' = Shrunk(Right)
    BY <1>2 DEF Shrunk, Known
  <2>2. ~loaded /\ pc = "plan" => Right \in ListsRead
    BY DEF ListsRead, Here
  <2>3. ~loaded => Shrunk(Right)' \subseteq Shrunk(Right) \cup ((base'[Right] \ base[Right]) \ snap[Right])
    BY <1>2 DEF Shrunk, Known
  <2> QED BY <2>1, <2>2, <2>3 DEF Evidence, PairTells
<1>5. PairTells(G)'
  BY <1>2, <1>3, <1>4 DEF Evidence, PairTells
<1> QED BY <1>1, <1>5 DEF Evidence, IdleIsClean, Nothing

\* What was told by the stores still is.
LEMMA StoresKept ==
    ASSUME NEW G, Evidence(G)
    PROVE  /\ \A p \in Providers : base[p] \subseteq lists[p] \cup G
           /\ \A i \in DOMAIN pairs, k \in Keys : tomb[i][k] > 0 => k \in G
           /\ \A i \in DOMAIN pairs, p \in Providers : pend[i][p] \subseteq G
BY DEF Evidence, StoresTell

\* Steps of requests that leave the syncs and the lists alone.
LEMMA EvidenceQuiet ==
    ASSUME ChainTypeOK, NEW G, Evidence(G), UNCHANGED <<lists, pairs, files, pc, cur, locals>>
    PROVE  Evidence(G)'
<1>1. UNCHANGED <<lists, pairs, base, tomb, pend, loaded, prev, snap, rem, add, cur, pc>>
  BY DEF files, locals
<1> QED BY <1>1, EvidenceListsOnly

StillTold(G) == Evidence(G)' /\ AllTell(G)'

LEMMA ToldStartRemoval ==
    ASSUME AppTypeOK, NEW G, Evidence(G), AllTell(G), NEW t \in Threads,
           NEW op \in {"remove", "bulk"}, NEW k \in Keys, NEW asked, asked \subseteq Providers,
           StartRemoval(t, op, k, asked)
    PROVE  StillTold(G)
<1> DEFINE todo == IF op = "remove" THEN asked ELSE {p \in asked \cap stored : k \in base[p]}
           r == [NoRequest EXCEPT !.op = op, !.keys = {k}, !.todo = todo]
<1>1. r \in Requests /\ r.op = op
  BY NoRequestType DEF Requests, NoRequest, AppTypeOK
<1>2. req' = [req EXCEPT ![t] = Loaded(r)] /\ UNCHANGED vars
  BY DEF StartRemoval, Start
<1> HIDE DEF r, todo
<1>3. Tells(Loaded(r), lists, G)
  BY <1>1, LoadedType, StoresKept DEF AppTypeOK, Tells, Removal
<1>4. UNCHANGED <<lists, pairs, files, pc, cur, locals>>
  BY <1>2 DEF vars
<1>5. AllTell(G)'
  BY <1>2, <1>3, <1>4, ProperFromType, AllTellUpdate
<1> QED BY <1>4, <1>5, EvidenceQuiet DEF AppTypeOK, StillTold

LEMMA ToldStartImport ==
    ASSUME AppTypeOK, NEW G, Evidence(G), AllTell(G), NEW t \in Threads, NEW p \in Providers,
           StartImport(t, p)
    PROVE  StillTold(G)
<1> DEFINE r == [NoRequest EXCEPT !.op = "import", !.todo = {p}]
<1>1. r \in Requests /\ r.op = "import" /\ r.todo = {p} /\ r.keys = {}
  BY NoRequestType DEF Requests, NoRequest
<1>2. req' = [req EXCEPT ![t] = Loaded(r)] /\ UNCHANGED vars
  BY DEF StartImport, Start
<1> HIDE DEF r
<1>3. Tells(Loaded(r), lists, G)
  BY <1>1, LoadedType, StoresKept DEF AppTypeOK, Tells, Removal
<1>4. UNCHANGED <<lists, pairs, files, pc, cur, locals>>
  BY <1>2 DEF vars
<1>5. AllTell(G)'
  BY <1>2, <1>3, <1>4, ProperFromType, AllTellUpdate
<1> QED BY <1>4, <1>5, EvidenceQuiet DEF AppTypeOK, StillTold

LEMMA ToldSend ==
    ASSUME AppTypeOK, NEW G, Evidence(G), AllTell(G), NEW t \in Threads, NEW p \in Providers,
           NEW K \in SUBSET Keys, Send(t, p, K)
    PROVE  StillTold(G)
<1>1. PICK done \in SUBSET K, confirmed \in SUBSET K :
          /\ confirmed \subseteq done
          /\ lists' = [lists EXCEPT ![p] = @ \cup done]
          /\ lost' = lost \ done /\ known' = known \ done
          /\ faults' \in 0..MaxFaults
          /\ \/ Start(t, NoRequest)
             \/ Start(t, [NoRequest EXCEPT !.op = "send", !.step = "load",
                                           !.keys = confirmed, !.todo = {p}])
  BY SendOutcome, ZenonT(60)
<1> DEFINE r == [NoRequest EXCEPT !.op = "send", !.step = "load", !.keys = confirmed, !.todo = {p}]
<1>2. r.op = "send" /\ r.keys = confirmed /\ r.todo = {p} /\ r.base = Nothing
  BY DEF NoRequest
<1>3. req' = [req EXCEPT ![t] = NoRequest] \/ req' = [req EXCEPT ![t] = r]
  BY <1>1 DEF Start
<1> HIDE DEF r
<1>4. done \subseteq lists'[p] /\ \A q \in Providers : lists[q] \ lists'[q] \subseteq G
  BY <1>1 DEF AppTypeOK, ChainTypeOK
<1>5. Tells(r, lists', G)
  BY <1>1, <1>2, <1>4 DEF Tells, Nothing
<1>6. AllTell(G)'
  BY <1>3, <1>4, <1>5, NoRequestTells, ProperFromType, AllTellUpdate
<1>7. UNCHANGED <<pairs, base, tomb, pend, loaded, prev, snap, rem, add, cur, pc>>
  BY DEF Send, files, locals
<1> QED BY <1>4, <1>6, <1>7, EvidenceListsOnly DEF AppTypeOK, StillTold

LEMMA ToldStartClear ==
    ASSUME AppTypeOK, NEW G, Evidence(G), AllTell(G), NEW t \in Threads, StartClear(t)
    PROVE  StillTold(G)
<1> DEFINE r == [NoRequest EXCEPT !.op = "clear", !.step = "save"]
<1>1. req' = [req EXCEPT ![t] = r]
  BY DEF StartClear, Start
<1>2. Tells(r, lists, G)
  BY DEF Tells, NoRequest, Nothing
<1> HIDE DEF r
<1>3. UNCHANGED <<lists, pairs, tomb, pend, pc, cur, loaded, prev, snap, rem, add>>
  BY DEF StartClear, locals
<1>4. AllTell(G)'
  BY <1>1, <1>2, <1>3, ProperFromType, AllTellUpdate
<1>5. \A p \in Providers : base'[p] = {}
  BY DEF StartClear, Nothing
<1>6. ListsRead \subseteq Providers
  BY PairsType DEF ListsRead, AppTypeOK
<1>7. Evidence(G)'
  BY <1>3, <1>5, <1>6, StoresKept, EvidenceStores DEF AppTypeOK
<1> QED BY <1>4, <1>7 DEF StillTold

LEMMA ToldCallProvider ==
    ASSUME AppTypeOK, NEW G, Evidence(G), AllTell(G),
           \A q \in Providers : lists[q] \ lists'[q] \subseteq G,
           NEW t \in Threads, CallProvider(t)
    PROVE  StillTold(G)
<1>1. PICK p \in Providers, k \in Keys :
              \/ req' = [req EXCEPT ![t] = Called(Popped(@, p, k), p)]
              \/ req' = [req EXCEPT ![t] = Called(@, p)]
  BY CallOutcome
<1>2. \A q \in Providers : lists[q] \ lists'[q] \subseteq G
  OBVIOUS
<1>3. AllProper /\ req[t] \in Requests /\ Removal(req[t]) /\ Tells(req[t], lists', G)
  BY <1>2, ProperFromType, TellsKept DEF AllProper, Proper, AllTell, CallProvider
<1>4. ASSUME NEW r \in Requests, Removal(r), \A q \in Providers : r.base[q] \subseteq lists'[q] \cup G
      PROVE  Tells(Called(r, p), lists', G)
  <2>1. CASE Called(r, p) = NoRequest
    BY <2>1, NoRequestTells
  <2>2. CASE Called(r, p) # NoRequest
    <3>1. Called(r, p).op = r.op /\ Called(r, p).base = r.base
      BY <2>2, CalledType
    <3> QED BY <1>4, <3>1 DEF Tells, Removal
  <2> QED BY <2>1, <2>2
<1>5. Tells(Called(req[t], p), lists', G)
  BY <1>3, <1>4 DEF Tells
<1>6. Tells(Called(Popped(req[t], p, k), p), lists', G)
  <2>1. /\ Popped(req[t], p, k) \in Requests /\ Removal(Popped(req[t], p, k))
        /\ \A q \in Providers : Popped(req[t], p, k).base[q] \subseteq req[t].base[q]
    BY <1>3, PoppedType DEF Removal
  <2> QED BY <1>3, <1>4, <2>1 DEF Tells
<1>7. \/ req' = [req EXCEPT ![t] = Called(Popped(req[t], p, k), p)]
      \/ req' = [req EXCEPT ![t] = Called(req[t], p)]
  BY <1>1, <1>3 DEF AllProper
<1>8. AllTell(G)'
  BY <1>2, <1>3, <1>5, <1>6, <1>7, AllTellUpdate
<1>9. UNCHANGED <<pairs, base, tomb, pend, loaded, prev, snap, rem, add, cur, pc>>
  BY DEF CallProvider, files, locals
<1> QED BY <1>2, <1>8, <1>9, EvidenceListsOnly DEF AppTypeOK, StillTold

LEMMA ToldBuildIndex ==
    ASSUME AppTypeOK, NEW G, Evidence(G), AllTell(G), NEW t \in Threads, BuildIndex(t)
    PROVE  StillTold(G)
<1> DEFINE read == UNION {lists[p] : p \in req[t].todo}
           r == [req[t] EXCEPT !.step = "save", !.keys = read]
<1>1. AllProper /\ req \in [Threads -> Requests] /\ req[t] \in Requests /\ Tells(req[t], lists, G)
  BY ProperFromType DEF AllProper, Proper, AllTell
<1>2. \A p \in req[t].todo : read = lists[p]
  BY <1>1 DEF BuildIndex, Tells
<1>3. /\ r.op = req[t].op /\ r.keys = read /\ r.todo = req[t].todo /\ r.base = req[t].base
  BY <1>1 DEF Requests
<1>4. req' = [req EXCEPT ![t] = r] \/ req' = [req EXCEPT ![t] = NoRequest]
  BY <1>1 DEF BuildIndex
<1> HIDE DEF r, read
<1>5. Tells(r, lists, G)
  BY <1>1, <1>2, <1>3 DEF Tells, Removal
<1>6. UNCHANGED <<lists, pairs, files, pc, cur, locals>>
  BY DEF BuildIndex
<1>7. AllTell(G)'
  BY <1>1, <1>4, <1>5, <1>6, NoRequestTells, AllTellUpdate
<1> QED BY <1>6, <1>7, EvidenceQuiet DEF AppTypeOK, StillTold

LEMMA ToldLoadForMerge ==
    ASSUME AppTypeOK, NEW G, Evidence(G), AllTell(G), NEW t \in Threads, LoadForMerge(t)
    PROVE  StillTold(G)
<1> DEFINE r == [Loaded(req[t]) EXCEPT !.step = "save"]
<1>1. AllProper /\ req \in [Threads -> Requests] /\ req[t] \in Requests /\ Tells(req[t], lists, G)
  BY ProperFromType DEF AllProper, Proper, AllTell
<1>2. /\ Loaded(req[t]) \in Requests /\ Loaded(req[t]).op = req[t].op
      /\ Loaded(req[t]).keys = req[t].keys /\ Loaded(req[t]).todo = req[t].todo
      /\ \A p \in Providers : Loaded(req[t]).base[p] \subseteq base[p]
  BY <1>1, LoadedType DEF AppTypeOK
<1>3. /\ r.op = req[t].op /\ r.keys = req[t].keys /\ r.todo = req[t].todo
      /\ r.base = Loaded(req[t]).base
  BY <1>2 DEF Requests
<1>4. req' = [req EXCEPT ![t] = r] /\ UNCHANGED vars
  BY <1>1 DEF LoadForMerge
<1> HIDE DEF r
<1>5. Tells(r, lists, G)
  BY <1>1, <1>2, <1>3, StoresKept DEF Tells, Removal
<1>6. UNCHANGED <<lists, pairs, files, pc, cur, locals>>
  BY <1>4 DEF vars
<1>7. AllTell(G)'
  BY <1>1, <1>4, <1>5, <1>6, AllTellUpdate
<1> QED BY <1>6, <1>7, EvidenceQuiet DEF AppTypeOK, StillTold

LEMMA ToldSave ==
    ASSUME AppTypeOK, NEW G, Evidence(G), AllTell(G), crossed' \subseteq G,
           NEW t \in Threads, Save(t)
    PROVE  StillTold(G)
<1> DEFINE r == [req[t] EXCEPT !.step = "call", !.dirty = FALSE]
<1>1. AllProper /\ req \in [Threads -> Requests] /\ req[t] \in Requests /\ Tells(req[t], lists, G)
  BY ProperFromType DEF AllProper, Proper, AllTell
<1>2. PICK new \in NewBases(req[t]) : Store(new, Blocks(req[t]))
  BY DEF Save
<1>3. /\ new \in Bases /\ Blocks(req[t]) \subseteq Providers
      /\ Removal(req[t]) => new = req[t].base
      /\ \A p \in Providers : new[p] \subseteq req[t].base[p] \cup req[t].keys
  BY <1>1, NewBasesType DEF Blocks, Requests
<1>4. \A p \in Blocks(req[t]) : new[p] \subseteq lists[p] \cup G
  <2>1. CASE Removal(req[t])
    BY <1>1, <1>3, <2>1 DEF Tells
  <2>2. CASE ~Removal(req[t])
    BY <1>1, <1>3, <2>2 DEF Tells, Blocks
  <2> QED BY <2>1, <2>2
<1>5. \A p \in Providers : base'[p] \subseteq lists[p] \cup G
  <2>1. /\ \A p \in Providers : base'[p] \subseteq base[p] \cup new[p]
        /\ \A p \in Providers \ Blocks(req[t]) : base'[p] = base[p]
    BY <1>2, <1>3, StoreType DEF AppTypeOK
  <2> QED BY <1>4, <2>1, StoresKept
<1>6. UNCHANGED <<lists, pairs, tomb, pend, pc, cur, loaded, prev, snap, rem, add>>
  BY DEF Save, locals
<1>7. \A p \in ListsRead : (base'[p] \ base[p]) \ snap[p] \subseteq G
  BY DEF Save
<1>8. Evidence(G)'
  BY <1>5, <1>6, <1>7, StoresKept, EvidenceStores DEF AppTypeOK
<1>9. r.op = req[t].op /\ r.keys = req[t].keys /\ r.todo = req[t].todo /\ r.base = req[t].base
  BY <1>1 DEF Requests
<1>10. req' = [req EXCEPT ![t] = r] \/ req' = [req EXCEPT ![t] = NoRequest]
  BY <1>1 DEF Save
<1> HIDE DEF r
<1>11. Tells(r, lists, G)
  BY <1>1, <1>9 DEF Tells, Removal
<1>12. AllTell(G)'
  BY <1>1, <1>6, <1>10, <1>11, NoRequestTells, AllTellUpdate
<1> QED BY <1>8, <1>12 DEF StillTold

LEMMA ToldClearFiles ==
    ASSUME AppTypeOK, NEW G, Evidence(G), AllTell(G), NEW t \in Threads, ClearFiles(t)
    PROVE  StillTold(G)
<1>1. UNCHANGED <<lists, pairs, base, pc, cur, loaded, prev, snap, rem, add>>
  BY DEF ClearFiles, locals
<1>2. /\ \A i \in DOMAIN pairs, k \in Keys : tomb'[i][k] = 0
      /\ \A i \in DOMAIN pairs, p \in Providers : pend'[i][p] = {}
  BY DEF ClearFiles, Nothing
<1>3. \A p \in ListsRead : (base'[p] \ base[p]) \ snap[p] \subseteq G
  BY <1>1
<1>4. Evidence(G)'
  BY <1>1, <1>2, <1>3, StoresKept, EvidenceStores DEF AppTypeOK
<1>5. AllTell(G)'
  BY <1>1, NoRequestTells, ProperFromType, AllTellUpdate DEF ClearFiles
<1> QED BY <1>4, <1>5 DEF StillTold

LEMMA ToldServe ==
    ASSUME AppTypeOK, NEW G, Evidence(G), AllTell(G), crossed' \subseteq G,
           \A q \in Providers : lists[q] \ lists'[q] \subseteq G,
           NEW t \in Threads, Serve(t)
    PROVE  StillTold(G)
BY ToldCallProvider, ToldBuildIndex, ToldLoadForMerge, ToldSave, ToldClearFiles DEF Serve

LEMMA ToldCommitBlocks ==
    ASSUME AppTypeOK, NEW G, Evidence(G), AllTell(G), CommitBlocks
    PROVE  StillTold(G)
<1>1. NextPair /\ UNCHANGED <<lists, pairs, tomb, pend, req>>
  BY DEF CommitBlocks
<1>2. Here \subseteq Providers /\ snap \in Bases
  BY PairsType DEF AppTypeOK, ChainTypeOK, Bases
<1>3. \A p \in Here : snap[p] \subseteq lists[p] \cup G
  BY DEF CommitBlocks, Evidence, PairTells
<1>4. \A p \in Providers : base'[p] \subseteq lists[p] \cup G
  <2>1. /\ \A p \in Providers : base'[p] \subseteq base[p] \cup snap[p]
        /\ \A p \in Providers \ Here : base'[p] = base[p]
    BY <1>2, StoreType DEF AppTypeOK, CommitBlocks
  <2> QED BY <1>3, <2>1, StoresKept
<1>5. Evidence(G)'
  BY <1>1, <1>4, EvidenceOver DEF AppTypeOK
<1> QED BY <1>1, <1>5, ProperFromType, AllTellKept DEF StillTold

LEMMA ToldBeforeCommit ==
    ASSUME AppTypeOK, NEW G, Evidence(G), AllTell(G), BeforeCommit, UNCHANGED req
    PROVE  StillTold(G)
<1>1. \A p \in Providers : lists[p] \ lists'[p] \subseteq G
  <2>1. CASE TakeSnapshot(Left, "left", "right") \/ TakeSnapshot(Right, "right", "plan") \/ Plan
    BY <2>1 DEF TakeSnapshot, Plan
  <2>2. CASE Remove(Left, "rem_left", "rem_right") \/ Remove(Right, "rem_right", "add_left")
    <3>1. PICK p \in Here : \E D \in SUBSET G : lists' = [lists EXCEPT ![p] = @ \ D]
      BY <2>2, EvidenceChainRemove DEF Here, AppTypeOK
    <3> QED BY <3>1 DEF AppTypeOK, ChainTypeOK
  <2>3. CASE Add(Left, "add_left", "add_right") \/ Add(Right, "add_right", "commit")
    <3>1. PICK p \in Here : \E D : lists' = [lists EXCEPT ![p] = @ \cup D]
      BY <2>3 DEF Here, Add
    <3> QED BY <3>1 DEF AppTypeOK, ChainTypeOK
  <2> QED BY <2>1, <2>2, <2>3 DEF BeforeCommit
<1>2. Evidence(G)'
  BY EvidenceBeforeCommit DEF AppTypeOK
<1> QED BY <1>1, <1>2, ProperFromType, AllTellKept DEF StillTold

LEMMA ToldUserEdits ==
    ASSUME AppTypeOK, NEW G, Evidence(G), AllTell(G),
           \A q \in Providers : lists[q] \ lists'[q] \subseteq G,
           NEW p \in Providers, NEW k \in Keys, UserEdits(p, k)
    PROVE  StillTold(G)
<1>1. UNCHANGED <<req, pairs, base, tomb, pend, loaded, prev, snap, rem, add, cur, pc>>
  BY DEF UserEdits, UserAdd, UserDelete, appVars, files, locals
<1>2. Evidence(G)'
  BY <1>1, EvidenceListsOnly DEF AppTypeOK
<1> QED BY <1>1, <1>2, ProperFromType, AllTellKept DEF StillTold

LEMMA ToldDies ==
    ASSUME AppTypeOK, NEW G, Evidence(G), AllTell(G), Dies
    PROVE  StillTold(G)
<1>1. RunOver /\ UNCHANGED <<lists, pairs, base, tomb, pend>>
  BY DEF Dies, files
<1>2. Evidence(G)'
  BY <1>1, StoresKept, EvidenceOver DEF AppTypeOK
<1>3. AllTell(G)'
  BY NoRequestTells DEF Dies, AllTell
<1> QED BY <1>2, <1>3 DEF StillTold

LEMMA ToldRest ==
    ASSUME AppTypeOK, NEW G, Evidence(G), AllTell(G),
           RunBegins \/ (Tick /\ UNCHANGED appVars) \/ UNCHANGED allVars
    PROVE  StillTold(G)
<1>1. UNCHANGED <<lists, req>>
  BY DEF RunBegins, StartRun, Tick, allVars, vars, appVars
<1>2. ASSUME Tick PROVE Evidence(G)'
  BY <1>2, EvidenceChainTick DEF AppTypeOK
<1>3. ASSUME ~Tick PROVE Evidence(G)'
  <2>1. /\ UNCHANGED <<lists, pairs, base, tomb, pend, loaded, prev, snap, rem, add, cur>>
        /\ pc' = pc \/ (pc = "idle" /\ pc' = "left")
    BY <1>3 DEF RunBegins, StartRun, allVars, vars, files, locals
  <2> QED BY <2>1, EvidenceListsOnly DEF AppTypeOK
<1> QED BY <1>1, <1>2, <1>3, ProperFromType, AllTellKept DEF StillTold

\* What disappears from a list has been deleted by a user, or by a request.
LEMMA Deletions ==
    ASSUME AppTypeOK,
           \/ \E t \in Threads : Serve(t)
           \/ \E p \in Providers, k \in Keys : UserEdits(p, k)
    PROVE  \A q \in Providers : lists[q] \ lists'[q] \subseteq gone'
<1>1. ASSUME NEW t \in Threads, CallProvider(t)
      PROVE  \A q \in Providers : lists[q] \ lists'[q] \subseteq gone'
  <2>1. PICK p \in Providers, k \in Keys :
           \/ UNCHANGED lists
           \/ lists' = [lists EXCEPT ![p] = @ \ {k}] /\ gone' = gone \cup {k}
    BY <1>1, CallOutcome
  <2>2. CASE UNCHANGED lists
    BY <2>2
  <2>3. CASE lists' = [lists EXCEPT ![p] = @ \ {k}] /\ gone' = gone \cup {k}
    BY <2>3 DEF AppTypeOK, ChainTypeOK
  <2> QED BY <2>1, <2>2, <2>3
<1>2. ASSUME NEW t \in Threads, BuildIndex(t) \/ LoadForMerge(t) \/ Save(t) \/ ClearFiles(t)
      PROVE  UNCHANGED lists
  BY <1>2 DEF BuildIndex, LoadForMerge, Save, ClearFiles, vars
<1>3. ASSUME NEW p \in Providers, NEW k \in Keys, UserAdd(p, k) \/ UserDelete(p, k)
      PROVE  \A q \in Providers : lists[q] \ lists'[q] \subseteq gone'
  <2>1. \/ lists' = [lists EXCEPT ![p] = @ \cup {k}]
        \/ lists' = [lists EXCEPT ![p] = @ \ {k}] /\ gone' = gone \cup {k}
    BY <1>3 DEF UserAdd, UserDelete
  <2> QED BY <2>1, SMTT(30) DEF AppTypeOK, ChainTypeOK
<1> QED BY <1>1, <1>2, <1>3 DEF Serve, UserEdits

\* Nothing that counts as deleted, or as crossed, ceases to.
LEMMA BlamedGrows ==
    ASSUME AppTypeOK, [AppNext]_allVars
    PROVE  Blamed \subseteq Blamed'
<1>1. ASSUME BeforeCommit, UNCHANGED appVars PROVE UNCHANGED <<gone, crossed>>
  BY <1>1 DEF BeforeCommit, TakeSnapshot, Plan, Remove, Add, history, appVars
<1>2. ASSUME NEW t \in Threads, CallProvider(t) PROVE gone \subseteq gone' /\ UNCHANGED crossed
  BY <1>2, CallOutcome DEF CallProvider
<1>3. ASSUME NEW t \in Threads, Serve(t) PROVE gone \subseteq gone' /\ crossed \subseteq crossed'
  BY <1>2, <1>3 DEF Serve, BuildIndex, LoadForMerge, Save, ClearFiles, vars, history
<1>4. ASSUME NEW p \in Providers, NEW k \in Keys, UserEdits(p, k)
      PROVE  gone \subseteq gone' /\ UNCHANGED crossed
  BY <1>4 DEF UserEdits, UserAdd, UserDelete, appVars
<1>5. ASSUME CommitBlocks \/ RunBegins \/ (Tick /\ UNCHANGED appVars) \/ Dies \/ UNCHANGED allVars
      PROVE  UNCHANGED <<gone, crossed>>
  BY <1>5 DEF CommitBlocks, RunBegins, StartRun, Tick, Dies, allVars, vars, appVars, history
<1>6. ASSUME NEW t \in Threads, NEW op, NEW k, NEW asked, StartRemoval(t, op, k, asked)
      PROVE  UNCHANGED <<gone, crossed>>
  BY <1>6 DEF StartRemoval, vars, history
<1>7. ASSUME NEW t \in Threads, NEW p, StartImport(t, p) \/ \E K \in SUBSET Keys : Send(t, p, K)
      PROVE  UNCHANGED <<gone, crossed>>
  BY <1>7 DEF StartImport, Send, vars, history
<1>8. ASSUME NEW t \in Threads, StartClear(t) PROVE UNCHANGED <<gone, crossed>>
  BY <1>8 DEF StartClear, history
<1>9. gone \subseteq gone' /\ crossed \subseteq crossed'
  BY <1>1, <1>3, <1>4, <1>5, <1>6, <1>7, <1>8 DEF AppNext, SyncStep
<1> QED BY <1>9 DEF Blamed

LEMMA AppInvariantInit == AppInit => AppInvariant
<1> SUFFICES ASSUME AppInit PROVE AppInvariant
  OBVIOUS
<1>1. Evidence(gone) /\ ChainTypeOK /\ crossed = {}
  BY ChainEvidenceInit, InitChainType DEF AppInit, ChainInvariant
<1>2. AllTell(Blamed)
  BY NoRequestTells DEF AppInit, AllTell
<1>3. Blamed = gone
  BY <1>1 DEF Blamed
<1> QED BY <1>1, <1>2, <1>3 DEF AppInvariant

LEMMA AppInvariantNext ==
    ASSUME AppTypeOK, AppInvariant, [AppNext]_allVars
    PROVE  AppInvariant'
<1>1. PICK G : G = Blamed'
  OBVIOUS
<1>2. Blamed \subseteq G /\ gone' \subseteq G /\ crossed' \subseteq G
  BY <1>1, BlamedGrows DEF Blamed
<1>3. Evidence(G)
  BY <1>2, EvidenceWider DEF AppInvariant, AppTypeOK
<1>4. AllTell(G)
  BY <1>2 DEF AppInvariant, AllTell, Tells
<1> SUFFICES StillTold(G)
  BY <1>1 DEF AppInvariant, StillTold, Evidence, StoresTell, PairTells, AllTell
<1>5. ASSUME NEW t \in Threads, NEW op \in {"remove", "bulk"}, NEW k \in Keys,
             NEW asked \in {Providers} \cup {{p} : p \in Providers}, StartRemoval(t, op, k, asked)
      PROVE  StillTold(G)
  BY <1>3, <1>4, <1>5, ToldStartRemoval
<1>6. ASSUME NEW t \in Threads, NEW p \in Providers,
             StartImport(t, p) \/ \E K \in SUBSET Keys : Send(t, p, K)
      PROVE  StillTold(G)
  BY <1>3, <1>4, <1>6, ToldStartImport, ToldSend
<1>7. ASSUME NEW t \in Threads, StartClear(t) \/ Serve(t) PROVE StillTold(G)
  BY <1>2, <1>3, <1>4, <1>7, Deletions, ToldStartClear, ToldServe
<1>8. ASSUME NEW p \in Providers, NEW k \in Keys, UserEdits(p, k) PROVE StillTold(G)
  BY <1>2, <1>3, <1>4, <1>8, Deletions, ToldUserEdits
<1>9. CASE SyncStep
  BY <1>3, <1>4, <1>9, ToldBeforeCommit, ToldCommitBlocks DEF SyncStep, appVars
<1>10. CASE Dies \/ RunBegins \/ (Tick /\ UNCHANGED appVars) \/ UNCHANGED allVars
  BY <1>3, <1>4, <1>10, ToldDies, ToldRest
<1> QED BY <1>5, <1>6, <1>7, <1>8, <1>9, <1>10 DEF AppNext

LEMMA AppInvariance == AppSpec => []AppInvariant
BY AppInvariantInit, AppInvariantNext, AppTypeCorrect, PTL DEF AppSpec

\* However many requests cross however many runs, and however torn their saves
\* are: nothing stored, held or planned takes for deleted what no user deleted,
\* but for items saved between a run's reading of a list and of the baselines.
THEOREM AppEvidenceInvariant == AppSpec => []AppEvidence
<1>1. AppInvariant => AppEvidence
  BY DEF AppInvariant, AppEvidence, Evidence, AllTell, Tells, RequestsTell
<1> QED BY <1>1, AppInvariance, PTL

-----------------------------------------------------------------------------
(* What a sync plans makes its two lists equal *)

LEMMA WantedRemoved ==
    ASSUME NEW q \in Here, NEW k \in OnlyOn(q), DeletionWanted(q, k)
    PROVE  k \in PlannedRemovals(q)
<1>1. q \in Here /\ Partner(q) \in Here
  BY PartnerHere
<1>2. ~Bootstrap
  BY <1>1 DEF Bootstrap, DeletionWanted, TombBlocksRemove, Shrunk, Here
<1> QED BY <1>2 DEF PlannedRemovals

LEMMA PlanAgrees ==
    ASSUME ChainTypeOK, Plan
    PROVE  \A p, q \in Here : (snap[p] \ rem'[p]) \cup add'[p] = (snap[q] \ rem'[q]) \cup add'[q]
<1> DEFINE removed == PlannedRemovals(Left) \cup PlannedRemovals(Right)
           kept == (snap[Left] \cup snap[Right]) \ removed
<1>1. \A q : PlannedRemovals(q) \subseteq OnlyOn(q)
  BY DEF PlannedRemovals, Retried
<1>2. ASSUME NEW p \in Here PROVE (snap[p] \ rem'[p]) \cup add'[p] = kept
  <2>1. rem'[p] = PlannedRemovals(p) /\ add'[p] = PlannedAdds(p) \ removed
    BY PairsType DEF Plan
  <2>2. Here = {p, Partner(p)} /\ Partner(p) \in Here
    BY PartnerHere DEF Here, Partner
  <2>3. removed = PlannedRemovals(p) \cup PlannedRemovals(Partner(p))
    BY <2>2 DEF Here, Partner
  <2>4. snap[Left] \cup snap[Right] = snap[p] \cup snap[Partner(p)]
    BY <2>2 DEF Here, Partner
  <2>5. OnlyOn(Partner(p)) = snap[Partner(p)] \ snap[p]
    BY DEF OnlyOn, Partner, Here
  <2>6. \A k \in OnlyOn(Partner(p)) : k \in PlannedAdds(p) \/ k \in PlannedRemovals(Partner(p))
    BY <2>2, WantedRemoved DEF PlannedAdds
  <2>7. PlannedAdds(p) \subseteq OnlyOn(Partner(p))
    BY DEF PlannedAdds
  <2> QED BY <1>1, <2>1, <2>3, <2>4, <2>5, <2>6, <2>7
<1> QED BY <1>2

\* Plan is the only step that plans.
LEMMA OnlyPlanPlans ==
    ASSUME AppTypeOK, [AppNext]_allVars, pc = "plan", pc' = "rem_left"
    PROVE  Plan /\ UNCHANGED <<purged, crossed>>
<1>1. ASSUME NEW t \in Threads, Serve(t) PROVE pc' = pc
  BY <1>1 DEF Serve, CallProvider, BuildIndex, LoadForMerge, Save, ClearFiles, vars
<1>2. ASSUME NEW t \in Threads, NEW op, NEW k, NEW asked, StartRemoval(t, op, k, asked)
      PROVE  pc' = pc
  BY <1>2 DEF StartRemoval, vars
<1>3. ASSUME NEW t \in Threads, NEW p,
             StartImport(t, p) \/ StartClear(t) \/ \E K \in SUBSET Keys : Send(t, p, K)
      PROVE  pc' = pc
  BY <1>3 DEF StartImport, StartClear, Send, vars
<1>4. ASSUME NEW p, NEW k, UserEdits(p, k) PROVE pc' = pc
  BY <1>4 DEF UserEdits, UserAdd, UserDelete
<1>5. ~RunBegins /\ ~Tick /\ ~Dies /\ ~CommitBlocks /\ pc' # pc
  BY DEF RunBegins, StartRun, Tick, Dies, RunOver, CommitBlocks
<1>6. ASSUME NEW t \in Threads, StartClear(t) PROVE pc' = pc
  BY <1>6 DEF StartClear
<1>7. BeforeCommit /\ UNCHANGED appVars
  BY <1>1, <1>2, <1>3, <1>4, <1>5, <1>6 DEF AppNext, SyncStep, allVars, vars
<1> QED BY <1>7 DEF BeforeCommit, TakeSnapshot, Remove, Add, appVars

\* Whatever requests have made of the stored baselines, and whatever has cut a
\* save or a run short before: after a pair's plan both lists are the same.
THEOREM RunsAgreeBesideRequests == AppSpec => AppPlansAgree
<1> DEFINE Agree ==
      pc = "plan" /\ pc' = "rem_left" =>
          \A p, q \in Here : (snap[p] \ rem'[p]) \cup add'[p] = (snap[q] \ rem'[q]) \cup add'[q]
<1>1. AppTypeOK /\ [AppNext]_allVars => [Agree]_allVars
  BY OnlyPlanPlans, PlanAgrees DEF AppTypeOK
<1> QED BY <1>1, AppTypeCorrect, PTL DEF AppSpec, AppPlansAgree

-----------------------------------------------------------------------------
(* An item taken off all lists may be added again at once: nothing is left   *)
(* anywhere by which a sync could take its absence for a deletion.  This is  *)
(* ChainEvidence once more, of other keys: all but the purged may count as   *)
(* deleted.                                                                  *)

Excused == Keys \ (purged \ crossed)

\* What makes it inductive: a list that is not stored is empty, a run begins
\* with empty hands, and a removal in progress is never about a purged item.
BlocksStored == \A p \in Providers : base[p] # {} => p \in stored
IdleHolds == pc = "idle" => prev = Nothing /\ rem = Nothing /\ add = Nothing
Apart == \A t \in Threads : Removal(req[t]) => req[t].keys \cap purged = {}

\* What an undisturbed removal has still before it: where k is stored it is in
\* what the request holds, or that is to be saved; where the request holds it,
\* the provider is still to be called.
Unmarked(k) ==
    \A i \in DOMAIN pairs : tomb[i][k] = 0 /\ \A p \in Providers : k \notin pend[i][p]
Emptying(r) ==
    /\ Removal(r) /\ r.step \in {"call", "save"}
    /\ \A k \in r.keys :
          /\ r.keys = {k} /\ Unmarked(k)
          /\ \A p \in Providers :
                /\ k \in r.base[p] => p \in r.todo
                /\ k \in base[p] => p \in r.stored /\ (r.dirty \/ k \in r.base[p])
AloneQuiet ==
    \A t \in alone :
        /\ pc = "idle" /\ \A u \in Threads \ {t} : ~Busy(u)
        /\ Busy(t) => Emptying(req[t])

PurgedInv ==
    /\ Evidence(Excused) /\ AllTell(Excused)
    /\ BlocksStored /\ IdleHolds /\ Apart /\ AloneQuiet

LEMMA PurgedInit == AppInit => PurgedInv
<1> SUFFICES ASSUME AppInit PROVE PurgedInv
  OBVIOUS
<1>1. ChainTypeOK /\ Evidence(gone) /\ gone = {}
  BY ChainEvidenceInit, InitChainType DEF AppInit, ChainInvariant, Init
<1>2. Evidence(Excused)
  BY <1>1, EvidenceWider DEF Excused
<1>3. AllTell(Excused) /\ Apart
  BY NoRequestTells DEF AppInit, AllTell, Apart
<1>4. BlocksStored /\ IdleHolds
  BY DEF AppInit, Init, Nothing, BlocksStored, IdleHolds
<1> QED BY <1>2, <1>3, <1>4 DEF PurgedInv, AloneQuiet, AppInit

LEMMA BlocksStoredNext == AppTypeOK /\ BlocksStored /\ [AppNext]_allVars => BlocksStored'
<1> SUFFICES ASSUME AppTypeOK, BlocksStored, [AppNext]_allVars PROVE BlocksStored'
  OBVIOUS
<1>1. ASSUME NEW new \in Bases, NEW ps, ps \subseteq Providers, Store(new, ps)
      PROVE  BlocksStored'
  <2>1. CASE /\ base' = [p \in Providers |-> IF p \in ps THEN new[p] ELSE base[p]]
             /\ stored' = stored \cup ps
    BY <2>1 DEF BlocksStored
  <2>2. ASSUME NEW hit \in SUBSET ps, \A p \in Providers : p \notin hit => base'[p] = base[p],
               stored' = stored \cup hit
        PROVE  BlocksStored'
    BY <2>2 DEF BlocksStored
  <2> QED BY <1>1, <2>1, <2>2 DEF Store
<1>2. ASSUME UNCHANGED <<base, stored>> PROVE BlocksStored'
  BY <1>2 DEF BlocksStored
<1>3. ASSUME NEW t \in Threads, Serve(t) PROVE BlocksStored'
  <2>1. CASE Save(t)
    <3>1. PICK new \in NewBases(req[t]) : Store(new, Blocks(req[t]))
      BY <2>1 DEF Save
    <3>2. new \in Bases /\ Blocks(req[t]) \subseteq Providers
      BY ProperFromType, NewBasesType DEF AllProper, Proper, Blocks, Requests
    <3> QED BY <1>1, <3>1, <3>2
  <2>2. CASE ~Save(t)
    BY <1>2, <1>3, <2>2 DEF Serve, CallProvider, BuildIndex, LoadForMerge, ClearFiles, files, vars
  <2> QED BY <2>1, <2>2
<1>4. ASSUME NEW t \in Threads, StartClear(t) PROVE BlocksStored'
  BY <1>4 DEF StartClear, BlocksStored, Nothing
<1>5. ASSUME NEW t \in Threads, NEW op, NEW k, NEW asked, StartRemoval(t, op, k, asked)
      PROVE  BlocksStored'
  BY <1>2, <1>5 DEF StartRemoval, vars, files
<1>6. ASSUME NEW t \in Threads, NEW p, StartImport(t, p) \/ \E K \in SUBSET Keys : Send(t, p, K)
      PROVE  BlocksStored'
  BY <1>2, <1>6 DEF StartImport, Send, vars, files
<1>7. ASSUME NEW p, NEW k, UserEdits(p, k) PROVE BlocksStored'
  BY <1>2, <1>7 DEF UserEdits, UserAdd, UserDelete, appVars, files
<1>8. CASE CommitBlocks
  <2>1. Here \subseteq Providers /\ snap \in Bases
    BY PairsType DEF AppTypeOK, ChainTypeOK, Bases
  <2> QED BY <1>1, <1>8, <2>1 DEF CommitBlocks
<1>9. CASE BeforeCommit /\ UNCHANGED appVars
  <2>1. UNCHANGED base
    BY <1>9 DEF BeforeCommit, TakeSnapshot, Plan, Remove, Add, files
  <2> QED BY <1>2, <1>9, <2>1 DEF appVars
<1>10. CASE RunBegins \/ (Tick /\ UNCHANGED appVars) \/ Dies \/ UNCHANGED allVars
  BY <1>2, <1>10 DEF RunBegins, StartRun, Tick, Dies, allVars, vars, appVars, files
<1> QED BY <1>3, <1>4, <1>5, <1>6, <1>7, <1>8, <1>9, <1>10 DEF AppNext, SyncStep

LEMMA IdleHoldsNext == IdleHolds /\ [AppNext]_allVars => IdleHolds'
<1> SUFFICES ASSUME IdleHolds, [AppNext]_allVars PROVE IdleHolds'
  OBVIOUS
<1>1. ASSUME UNCHANGED <<pc, prev, rem, add>> PROVE IdleHolds'
  BY <1>1 DEF IdleHolds, Nothing
<1>2. ASSUME NEW t \in Threads, Serve(t) PROVE IdleHolds'
  BY <1>1, <1>2 DEF Serve, CallProvider, BuildIndex, LoadForMerge, Save, ClearFiles, vars, locals
<1>3. ASSUME NEW t \in Threads, NEW op, NEW k, NEW asked, StartRemoval(t, op, k, asked)
      PROVE  IdleHolds'
  BY <1>1, <1>3 DEF StartRemoval, vars, locals
<1>4. ASSUME NEW t \in Threads, NEW p, StartImport(t, p) \/ \E K \in SUBSET Keys : Send(t, p, K)
      PROVE  IdleHolds'
  BY <1>1, <1>4 DEF StartImport, Send, vars, locals
<1>5. ASSUME NEW t \in Threads, StartClear(t) PROVE IdleHolds'
  BY <1>1, <1>5 DEF StartClear, locals
<1>6. ASSUME NEW p, NEW k, UserEdits(p, k) PROVE IdleHolds'
  BY <1>1, <1>6 DEF UserEdits, UserAdd, UserDelete, locals
<1>7. CASE CommitBlocks \/ Dies
  BY <1>7 DEF CommitBlocks, NextPair, Dies, RunOver, IdleHolds, Nothing
<1>8. CASE BeforeCommit \/ RunBegins
  <2>1. pc' # "idle"
    BY <1>8 DEF BeforeCommit, TakeSnapshot, Plan, Remove, Add, RunBegins, StartRun
  <2> QED BY <2>1 DEF IdleHolds
<1>9. CASE Tick \/ UNCHANGED allVars
  BY <1>1, <1>9 DEF Tick, allVars, vars, locals
<1> QED BY <1>2, <1>3, <1>4, <1>5, <1>6, <1>7, <1>8, <1>9 DEF AppNext, SyncStep

\* Requests at work are no NoRequest.
LEMMA ServeBusy == \A t \in Threads : Serve(t) => Busy(t)
<1>1. NoRequest.op = "none" /\ NoRequest.step = "call"
  BY DEF NoRequest
<1> QED BY <1>1 DEF Serve, CallProvider, Removal, BuildIndex, LoadForMerge, Save, ClearFiles, Busy

LEMMA PoppedParts ==
    ASSUME NEW r \in Requests, NEW p \in Providers, NEW k
    PROVE  /\ Popped(r, p, k).stored = r.stored
           /\ Popped(r, p, k).dirty <=> r.dirty \/ k \in r.base[p]
           /\ Popped(r, p, k).base[p] = r.base[p] \ {k}
           /\ \A q \in Providers : q # p => Popped(r, p, k).base[q] = r.base[q]
BY DEF Popped, Requests

\* A removal goes on with the rest of the providers; it ends when none is left
\* and there is nothing to save.
LEMMA CalledParts ==
    ASSUME NEW r \in Requests, Removal(r), NEW p
    PROVE  /\ Called(r, p) # NoRequest =>
                 /\ Called(r, p).op = r.op /\ Called(r, p).keys = r.keys
                 /\ Called(r, p).base = r.base /\ Called(r, p).stored = r.stored
                 /\ Called(r, p).dirty = r.dirty /\ Called(r, p).todo = r.todo \ {p}
                 /\ Called(r, p).step \in {r.step, "save"}
           /\ Called(r, p) = NoRequest => r.todo \subseteq {p} /\ ~r.dirty
<1> DEFINE rest == [r EXCEPT !.todo = @ \ {p}]
           last == [rest EXCEPT !.step = "save"]
<1>1. /\ rest.op = r.op /\ rest.keys = r.keys /\ rest.base = r.base /\ rest.stored = r.stored
      /\ rest.dirty = r.dirty /\ rest.todo = r.todo \ {p} /\ rest.step = r.step
      /\ last.op = r.op /\ last.keys = r.keys /\ last.base = r.base /\ last.stored = r.stored
      /\ last.dirty = r.dirty /\ last.todo = r.todo \ {p} /\ last.step = "save"
  BY DEF Requests
<1>2. /\ rest.dirty /\ (r.op = "bulk" \/ rest.todo = {}) => Called(r, p) = last
      /\ ~(rest.dirty /\ (r.op = "bulk" \/ rest.todo = {})) =>
            Called(r, p) = IF rest.todo = {} THEN NoRequest ELSE rest
  BY <1>1 DEF Called
<1>3. rest # NoRequest /\ last # NoRequest
  BY <1>1 DEF NoRequest, Removal
<1> HIDE DEF rest, last
<1> QED BY <1>1, <1>2, <1>3

\* What a call takes off a list is what the request is about.
LEMMA CallTakesKeys ==
    ASSUME AppTypeOK, NEW t \in Threads, Serve(t)
    PROVE  \A q \in Providers : lists[q] \ lists'[q] \subseteq
               IF Removal(req[t]) THEN req[t].keys ELSE {}
<1>1. ASSUME CallProvider(t)
      PROVE  \A q \in Providers : lists[q] \ lists'[q] \subseteq req[t].keys
  <2>1. PICK p \in req[t].todo, k \in req[t].keys : TakeOff(t, p, k) \/ TakeOffFails(t, p, k)
    BY <1>1 DEF CallProvider
  <2>2. UNCHANGED lists \/ lists' = [lists EXCEPT ![p] = @ \ {k}]
    BY <2>1 DEF TakeOff, TakeOffFails
  <2>3. CASE UNCHANGED lists
    BY <2>3
  <2>4. CASE lists' = [lists EXCEPT ![p] = @ \ {k}]
    BY <2>4 DEF AppTypeOK, ChainTypeOK
  <2> QED BY <2>2, <2>3, <2>4
<1>2. ASSUME BuildIndex(t) \/ LoadForMerge(t) \/ Save(t) \/ ClearFiles(t)
      PROVE  UNCHANGED lists
  BY <1>2 DEF BuildIndex, LoadForMerge, Save, ClearFiles, vars
<1>3. CallProvider(t) => Removal(req[t])
  BY DEF CallProvider
<1> QED BY <1>1, <1>2, <1>3 DEF Serve

\* While a removal is undisturbed nobody else is served.
LEMMA AloneServed ==
    ASSUME AppTypeOK, AloneQuiet, NEW t \in Threads, Serve(t)
    PROVE  alone' \subseteq alone /\ alone \subseteq {t}
<1>1. Busy(t)
  BY ServeBusy
<1>2. alone \subseteq {t}
  BY <1>1 DEF AloneQuiet, AppTypeOK
<1>3. alone' \subseteq alone
  <2>1. CallProvider(t) => alone' \subseteq alone
    BY CallOutcome
  <2> QED BY <2>1 DEF Serve, BuildIndex, LoadForMerge, Save, ClearFiles
<1> QED BY <1>2, <1>3

\* Nothing is stored about k.  So it is when such a removal has ended.
Nowhere(k) == Unmarked(k) /\ \A p \in Providers : k \notin base[p]

LEMMA AloneCalls ==
    ASSUME AppTypeOK, AloneQuiet, NEW t \in Threads, t \in alone', CallProvider(t)
    PROVE  /\ Busy(t)' => Emptying(req[t])'
           /\ ~Busy(t)' => \A k \in req[t].keys : Nowhere(k)'
<1> DEFINE r == req[t]
<1>1. t \in alone /\ Emptying(r) /\ r \in Requests /\ req \in [Threads -> Requests]
  BY AloneServed, ServeBusy, ProperFromType DEF Serve, AloneQuiet, AllProper, Proper
<1>2. PICK p \in r.todo, k \in r.keys : TakeOff(t, p, k) \/ TakeOffFails(t, p, k)
  BY DEF CallProvider
<1>3. p \in Providers /\ r.keys = {k} /\ Unmarked(k) /\ Removal(r) /\ r.step \in {"call", "save"}
  BY <1>1, <1>2 DEF Requests, Emptying
<1>4. \A q \in Providers :
         /\ k \in r.base[q] => q \in r.todo
         /\ k \in base[q] => q \in r.stored /\ (r.dirty \/ k \in r.base[q])
  BY <1>1, <1>2 DEF Emptying
<1>5. UNCHANGED <<pairs, base, tomb, pend>>
  BY DEF CallProvider, files
<1> HIDE DEF r
<1>6. \E new \in Requests :
         /\ req'[t] = Called(new, p)
         /\ new.op = r.op /\ new.keys = r.keys /\ new.todo = r.todo /\ new.step = r.step
         /\ \A q \in Providers : k \in new.base[q] => q \in r.todo \ {p}
         /\ \A q \in Providers : k \in base[q] => q \in new.stored /\ (new.dirty \/ k \in new.base[q])
  <2>1. CASE TakeOff(t, p, k)
    <3>1. req'[t] = Called(Popped(r, p, k), p)
      BY <1>1, <2>1 DEF TakeOff, r
    <3>2. /\ Popped(r, p, k) \in Requests
          /\ Popped(r, p, k).op = r.op /\ Popped(r, p, k).keys = r.keys
          /\ Popped(r, p, k).todo = r.todo /\ Popped(r, p, k).step = r.step
          /\ Popped(r, p, k).stored = r.stored
          /\ Popped(r, p, k).dirty <=> r.dirty \/ k \in r.base[p]
          /\ Popped(r, p, k).base[p] = r.base[p] \ {k}
          /\ \A q \in Providers : q # p => Popped(r, p, k).base[q] = r.base[q]
      BY <1>1, <1>3, PoppedType, PoppedParts
    <3>3. PICK new : new = Popped(r, p, k)
      OBVIOUS
    <3>4. \A q \in Providers : k \in new.base[q] => q \in r.todo \ {p}
      BY <1>4, <3>2, <3>3
    <3>5. \A q \in Providers : k \in base[q] => q \in new.stored /\ (new.dirty \/ k \in new.base[q])
      BY <1>4, <3>2, <3>3
    <3> QED BY <3>1, <3>2, <3>3, <3>4, <3>5
  <2>2. CASE TakeOffFails(t, p, k)
    <3>1. req'[t] = Called(r, p)
      BY <1>1, <2>2 DEF TakeOffFails, r
    <3>2. k \notin r.base[p]
      BY <1>1, <2>2 DEF TakeOffFails, r
    <3> QED BY <1>1, <1>4, <3>1, <3>2
  <2> QED BY <1>2, <2>1, <2>2
<1>7. PICK new \in Requests :
         /\ req'[t] = Called(new, p)
         /\ new.op = r.op /\ new.keys = r.keys /\ new.todo = r.todo /\ new.step = r.step
         /\ \A q \in Providers : k \in new.base[q] => q \in r.todo \ {p}
         /\ \A q \in Providers : k \in base[q] => q \in new.stored /\ (new.dirty \/ k \in new.base[q])
  BY <1>6
<1>8. Removal(new)
  BY <1>3, <1>7 DEF Removal
<1>9. ASSUME ~Busy(t)' PROVE \A j \in req[t].keys : Nowhere(j)'
  <2>1. new.todo \subseteq {p} /\ ~new.dirty
    BY <1>7, <1>8, <1>9, CalledParts DEF Busy
  <2>2. \A q \in Providers : k \notin base[q]
    BY <1>7, <2>1
  <2>3. Unmarked(k)'
    BY <1>3, <1>5 DEF Unmarked
  <2>4. Nowhere(k)'
    BY <1>5, <2>2, <2>3 DEF Nowhere
  <2>5. req[t].keys = {k}
    BY <1>3 DEF r
  <2> QED BY <2>4, <2>5
<1>10. ASSUME Busy(t)' PROVE Emptying(req[t])'
  <2>1. /\ req'[t].op = new.op /\ req'[t].keys = {k}
        /\ req'[t].base = new.base /\ req'[t].stored = new.stored
        /\ req'[t].dirty = new.dirty /\ req'[t].todo = r.todo \ {p}
        /\ req'[t].step \in {"call", "save"}
    BY <1>3, <1>7, <1>8, <1>10, CalledParts DEF Busy
  <2>2. Removal(req'[t])
    BY <1>8, <2>1 DEF Removal
  <2>3. Unmarked(k)'
    BY <1>3, <1>5 DEF Unmarked
  <2> QED BY <1>5, <1>7, <2>1, <2>2, <2>3 DEF Emptying, Unmarked
<1> QED BY <1>9, <1>10

LEMMA AloneSaves ==
    ASSUME AppTypeOK, AloneQuiet, NEW t \in Threads, t \in alone', Save(t)
    PROVE  /\ Busy(t)' => Emptying(req[t])'
           /\ ~Busy(t)' => \A k \in req[t].keys : Nowhere(k)'
<1> DEFINE r == req[t]
<1>1. t \in alone /\ Emptying(r) /\ r \in Requests /\ req \in [Threads -> Requests]
  BY AloneServed, ServeBusy, ProperFromType DEF Serve, AloneQuiet, AllProper, Proper
<1>2. Removal(r) /\ NewBases(r) = {r.base} /\ Blocks(r) = r.stored
  BY <1>1 DEF Emptying, NewBases, Blocks
<1>3. Store(r.base, r.stored) /\ faults' = faults
  BY <1>1, <1>2 DEF Save
<1>4. base' = [p \in Providers |-> IF p \in r.stored THEN r.base[p] ELSE base[p]]
  <2>1. faults \in Nat
    BY ChainAssumption DEF AppTypeOK, ChainTypeOK
  <2>2. ~Fault("torn")
    BY <1>3, <2>1 DEF Fault
  <2> QED BY <1>3, <2>2 DEF Store
<1>5. UNCHANGED <<pairs, tomb, pend>>
  BY DEF Save
<1> HIDE DEF r
<1>6. \A k \in r.keys :
         /\ r.keys = {k} /\ Unmarked(k)'
         /\ \A q \in Providers : k \in base'[q] => q \in r.stored /\ k \in r.base[q]
         /\ \A q \in Providers : k \in r.base[q] => q \in r.todo
  BY <1>1, <1>4, <1>5 DEF Emptying, Unmarked
<1>7. CASE r.todo = {}
  <2>1. req'[t] = NoRequest
    BY <1>1, <1>7 DEF Save, r
  <2>2. \A k \in r.keys : \A q \in Providers : k \notin base'[q]
    BY <1>6, <1>7
  <2>3. \A k \in r.keys : Nowhere(k)'
    BY <1>6, <2>2 DEF Nowhere
  <2> QED BY <2>1, <2>3 DEF Busy, r
<1>8. CASE r.todo # {}
  <2>1. req'[t] = [r EXCEPT !.step = "call", !.dirty = FALSE]
    BY <1>1, <1>2, <1>8 DEF Save, r
  <2>2. /\ req'[t].op = r.op /\ req'[t].keys = r.keys /\ req'[t].base = r.base
        /\ req'[t].stored = r.stored /\ req'[t].todo = r.todo /\ req'[t].step = "call"
    BY <1>1, <2>1 DEF Requests
  <2>3. Removal(req'[t])
    BY <1>2, <2>2 DEF Removal
  <2>4. Busy(t)'
    BY <2>3 DEF Busy, Removal, NoRequest
  <2>5. Emptying(req[t])'
    BY <1>6, <2>2, <2>3 DEF Emptying, Unmarked
  <2> QED BY <2>4, <2>5
<1> QED BY <1>7, <1>8

LEMMA AloneServes ==
    ASSUME AppTypeOK, AloneQuiet, NEW t \in Threads, t \in alone', Serve(t)
    PROVE  /\ Busy(t)' => Emptying(req[t])'
           /\ ~Busy(t)' => \A k \in req[t].keys : Nowhere(k)'
<1>1. Emptying(req[t])
  BY AloneServed, ServeBusy DEF AloneQuiet
<1>2. CallProvider(t) \/ Save(t)
  BY <1>1 DEF Emptying, Removal, Serve, BuildIndex, LoadForMerge, ClearFiles
<1> QED BY <1>2, AloneCalls, AloneSaves

\* A removal stays about the same items.
LEMMA ServeKeepsKeys ==
    ASSUME AppTypeOK, NEW t \in Threads, Serve(t), NEW u \in Threads, Removal(req[u])'
    PROVE  Removal(req[u]) /\ req'[u].keys = req[u].keys
<1> DEFINE r == req[t]
<1>1. r \in Requests /\ req \in [Threads -> Requests]
  BY ProperFromType DEF AllProper, Proper
<1>2. ~Removal(NoRequest)
  BY DEF Removal, NoRequest
<1>3. CASE u # t
  <2>1. \E new : req' = [req EXCEPT ![t] = new]
    BY CallOutcome DEF Serve, BuildIndex, LoadForMerge, Save, ClearFiles
  <2> QED BY <1>1, <1>3, <2>1 DEF Removal
<1>4. CASE u = t /\ CallProvider(t)
  <2>1. Removal(r)
    BY <1>4 DEF CallProvider
  <2>2. PICK p \in Providers, k \in Keys : req'[t] = Called(Popped(r, p, k), p) \/ req'[t] = Called(r, p)
    BY <1>1, <1>4, CallOutcome
  <2>3. /\ Popped(r, p, k) \in Requests /\ Popped(r, p, k).op = r.op /\ Popped(r, p, k).keys = r.keys
    BY <1>1, PoppedType
  <2>4. req'[t] # NoRequest
    BY <1>2, <1>4 DEF Removal
  <2>5. Removal(Popped(r, p, k))
    BY <2>1, <2>3 DEF Removal
  <2> HIDE DEF r
  <2>6. req'[t].keys = r.keys
    BY <1>1, <2>1, <2>2, <2>3, <2>4, <2>5, CalledParts
  <2> QED BY <1>4, <2>1, <2>6 DEF r
<1>5. CASE u = t /\ BuildIndex(t)
  <2>1. req'[t].op = "import" \/ req'[t] = NoRequest
    BY <1>1, <1>5 DEF BuildIndex, Requests
  <2> QED BY <1>2, <1>5, <2>1 DEF Removal
<1>6. CASE u = t /\ LoadForMerge(t)
  <2>1. Loaded(r) \in Requests /\ Loaded(r).op = r.op /\ Loaded(r).keys = r.keys
    BY <1>1, LoadedType DEF AppTypeOK
  <2>2. req'[t] = [Loaded(r) EXCEPT !.step = "save"]
    BY <1>1, <1>6 DEF LoadForMerge
  <2> HIDE DEF r
  <2>3. req'[t].op = r.op /\ req'[t].keys = r.keys
    BY <2>1, <2>2 DEF Requests
  <2> QED BY <1>6, <2>3 DEF Removal, r
<1>7. CASE u = t /\ (Save(t) \/ ClearFiles(t))
  <2>1. req'[t] = NoRequest \/ req'[t] = [r EXCEPT !.step = "call", !.dirty = FALSE]
    BY <1>1, <1>7 DEF Save, ClearFiles
  <2>2. CASE req'[t] = [r EXCEPT !.step = "call", !.dirty = FALSE]
    <3>1. req'[t].op = r.op /\ req'[t].keys = r.keys
      BY <1>1, <2>2 DEF Requests
    <3> QED BY <1>7, <3>1 DEF Removal
  <2> QED BY <1>2, <1>7, <2>1, <2>2
<1> QED BY <1>3, <1>4, <1>5, <1>6, <1>7 DEF Serve

\* What a step of a request adds to the purged items.
LEMMA ServePurges ==
    ASSUME AppTypeOK, AloneQuiet, NEW t \in Threads, Serve(t)
    PROVE  \/ UNCHANGED purged
           \/ /\ purged' = purged \cup req[t].keys
              /\ t \in alone' /\ pc' = "idle"
              /\ \A u \in Threads : ~Busy(u)'
              /\ \A k \in req[t].keys : Nowhere(k)'
<1>1. UNCHANGED purged \/ (purged' = purged \cup req[t].keys /\ ~Busy(t)' /\ t \in alone')
  BY DEF Serve, CallProvider, BuildIndex, LoadForMerge, Save, ClearFiles, Concluded
<1>2. ASSUME ~Busy(t)', t \in alone'
      PROVE  /\ pc' = "idle" /\ \A u \in Threads : ~Busy(u)'
             /\ \A k \in req[t].keys : Nowhere(k)'
  <2>1. pc = "idle" /\ \A u \in Threads \ {t} : ~Busy(u)
    BY <1>2, AloneServed DEF AloneQuiet
  <2>2. UNCHANGED pc
    BY DEF Serve, CallProvider, BuildIndex, LoadForMerge, Save, ClearFiles, vars
  <2>3. \E new : req' = [req EXCEPT ![t] = new]
    BY CallOutcome DEF Serve, BuildIndex, LoadForMerge, Save, ClearFiles
  <2>4. \A u \in Threads \ {t} : req'[u] = req[u]
    BY <2>3 DEF AppTypeOK
  <2> QED BY <1>2, <2>1, <2>2, <2>4, AloneServes DEF Busy
<1> QED BY <1>1, <1>2

LEMMA ApartNext ==
    ASSUME AppTypeOK, Apart, AloneQuiet, [AppNext]_allVars
    PROVE  Apart'
<1>1. AllProper /\ req \in [Threads -> Requests] /\ ~Removal(NoRequest)
  BY ProperFromType DEF AllProper, Removal, NoRequest
<1>2. ASSUME \A u \in Threads : Removal(req[u])' => Removal(req[u]) /\ req'[u].keys = req[u].keys,
             purged' \subseteq purged
      PROVE  Apart'
  BY <1>2 DEF Apart
<1>3. ASSUME NEW t \in Threads, Serve(t) PROVE Apart'
  <2>1. CASE UNCHANGED purged
    BY <1>2, <1>3, <2>1, ServeKeepsKeys
  <2>2. CASE \A u \in Threads : ~Busy(u)'
    BY <1>1, <2>2 DEF Apart, Busy
  <2> QED BY <1>3, <2>1, <2>2, ServePurges
<1>4. ASSUME NEW t \in Threads, NEW op \in {"remove", "bulk"}, NEW k \in Keys,
             NEW asked \in {Providers} \cup {{p} : p \in Providers}, StartRemoval(t, op, k, asked)
      PROVE  Apart'
  <2>1. PICK todo : /\ req' = [req EXCEPT ![t] =
                                 Loaded([NoRequest EXCEPT !.op = op, !.keys = {k}, !.todo = todo])]
                    /\ purged' = purged \ {k} /\ todo \subseteq Providers
    BY <1>4, ZenonT(60) DEF StartRemoval, Start
  <2>2. req'[t].keys = {k}
    <3>1. [NoRequest EXCEPT !.op = op, !.keys = {k}, !.todo = todo] \in Requests
      BY <2>1, NoRequestType DEF Requests
    <3>2. [NoRequest EXCEPT !.op = op, !.keys = {k}, !.todo = todo].keys = {k}
      BY NoRequestType DEF Requests
    <3> QED BY <1>1, <2>1, <3>1, <3>2, LoadedType DEF AppTypeOK
  <2>3. \A u \in Threads \ {t} : req'[u] = req[u]
    BY <1>1, <2>1
  <2> QED BY <2>1, <2>2, <2>3 DEF Apart
<1>5. ASSUME NEW t \in Threads, NEW r, req' = [req EXCEPT ![t] = r], ~Removal(r), UNCHANGED purged
      PROVE  Apart'
  BY <1>1, <1>2, <1>5
<1>6. ASSUME NEW t \in Threads, NEW p \in Providers, StartImport(t, p) PROVE Apart'
  <2> DEFINE new == [NoRequest EXCEPT !.op = "import", !.todo = {p}]
  <2>1. new \in Requests /\ new.op = "import"
    BY NoRequestType DEF Requests
  <2>2. req' = [req EXCEPT ![t] = Loaded(new)] /\ UNCHANGED purged
    BY <1>6 DEF StartImport, Start
  <2> HIDE DEF new
  <2>3. Loaded(new).op = "import"
    BY <2>1, LoadedType DEF AppTypeOK
  <2> QED BY <1>5, <2>2, <2>3 DEF Removal
<1>7. ASSUME NEW t \in Threads, NEW p \in Providers, NEW K \in SUBSET Keys, Send(t, p, K) PROVE Apart'
  <2>1. UNCHANGED purged
    BY <1>7 DEF Send
  <2>2. PICK r : req' = [req EXCEPT ![t] = r] /\ ~Removal(r)
    <3>1. ASSUME NEW confirmed
          PROVE  ~Removal([NoRequest EXCEPT !.op = "send", !.step = "load",
                                            !.keys = confirmed, !.todo = {p}])
      BY DEF Removal, NoRequest
    <3> QED BY <1>1, <1>7, <3>1 DEF Send, Start
  <2> QED BY <1>5, <2>1, <2>2
<1>8. ASSUME NEW t \in Threads, StartClear(t) PROVE Apart'
  <2>1. ~Removal([NoRequest EXCEPT !.op = "clear", !.step = "save"])
    BY DEF Removal, NoRequest
  <2> QED BY <1>5, <1>8, <2>1 DEF StartClear, Start
<1>9. ASSUME NEW p \in Providers, NEW k \in Keys, UserEdits(p, k) PROVE Apart'
  BY <1>2, <1>9 DEF UserEdits, appVars
<1>10. CASE Dies
  BY <1>1, <1>10 DEF Dies, Apart
<1>11. CASE SyncStep \/ RunBegins \/ (Tick /\ UNCHANGED appVars) \/ UNCHANGED allVars
  <2>1. UNCHANGED <<req, purged>>
    BY <1>11 DEF SyncStep, CommitBlocks, RunBegins, appVars, allVars
  <2> QED BY <1>2, <2>1
<1> QED BY <1>3, <1>4, <1>6, <1>7, <1>8, <1>9, <1>10, <1>11 DEF AppNext

LEMMA AloneQuietStarts ==
    ASSUME AppTypeOK, BlocksStored, NEW t \in Threads, t \in alone',
           NEW op \in {"remove", "bulk"}, NEW k \in Keys,
           NEW asked \in {Providers} \cup {{p} : p \in Providers}, StartRemoval(t, op, k, asked)
    PROVE  AloneQuiet'
<1> DEFINE todo == IF op = "remove" THEN asked ELSE {p \in asked \cap stored : k \in base[p]}
           new == [NoRequest EXCEPT !.op = op, !.keys = {k}, !.todo = todo]
<1>1. /\ alone' = {t} /\ asked = Providers /\ Undisturbed(t, k)
      /\ req' = [req EXCEPT ![t] = Loaded(new)] /\ req \in [Threads -> Requests]
      /\ UNCHANGED <<pairs, base, tomb, pend, pc>>
  BY DEF StartRemoval, Start, AppTypeOK, vars, files
<1>2. todo \subseteq Providers /\ \A p \in Providers : k \in base[p] => p \in todo /\ p \in stored
  BY <1>1 DEF BlocksStored
<1> HIDE DEF todo
<1>3. /\ new \in Requests /\ new.op = op /\ new.keys = {k} /\ new.todo = todo
      /\ new.step = "call"
  BY <1>2, NoRequestType DEF Requests, NoRequest
<1> HIDE DEF new
<1>4. Removal(new)
  BY <1>3 DEF Removal
<1>5. /\ Loaded(new).op = op /\ Loaded(new).keys = {k} /\ Loaded(new).todo = todo
      /\ Loaded(new).step = "call" /\ Loaded(new).base = base /\ Loaded(new).stored = stored
  <2>1. [p \in Providers |-> IF Removal(new) \/ p \in new.todo THEN base[p] ELSE {}] = base
    BY <1>4 DEF AppTypeOK, ChainTypeOK
  <2> QED BY <1>3, <1>4, <2>1 DEF Loaded, Requests
<1>6. PICK r : r = Loaded(new)
  OBVIOUS
<1>7. Unmarked(k)'
  BY <1>1 DEF Undisturbed, Unmarked
<1>8. Emptying(r)'
  BY <1>1, <1>2, <1>5, <1>6, <1>7 DEF Emptying, Removal
<1>9. pc' = "idle" /\ \A u \in Threads \ {t} : ~Busy(u)'
  BY <1>1 DEF Undisturbed, Busy
<1>10. req'[t] = r
  BY <1>1, <1>6
<1> QED BY <1>1, <1>8, <1>9, <1>10 DEF AloneQuiet

LEMMA AloneQuietNext ==
    ASSUME AppTypeOK, BlocksStored, AloneQuiet, [AppNext]_allVars
    PROVE  AloneQuiet'
<1> SUFFICES ASSUME alone' # {} PROVE AloneQuiet'
  BY DEF AloneQuiet
<1>1. ASSUME UNCHANGED <<pc, req, alone, pairs, base, pend>>,
             \A i \in DOMAIN pairs, k \in Keys : tomb[i][k] = 0 => tomb'[i][k] = 0
      PROVE  AloneQuiet'
  <2>1. \A k \in Keys : Unmarked(k) => Unmarked(k)'
    BY <1>1 DEF Unmarked
  <2>2. \A t \in Threads : req[t].keys \subseteq Keys
    BY ProperFromType DEF AllProper, Proper, Requests
  <2>3. \A t \in Threads : Emptying(req[t]) => Emptying(req[t])'
    BY <1>1, <2>1, <2>2 DEF Emptying
  <2> QED BY <1>1, <2>3 DEF AloneQuiet, Busy, AppTypeOK
<1>2. ASSUME NEW t \in Threads, Serve(t) PROVE AloneQuiet'
  <2>1. alone' = {t} /\ alone = {t}
    BY <1>2, AloneServed
  <2>2. UNCHANGED pc
    BY <1>2 DEF Serve, CallProvider, BuildIndex, LoadForMerge, Save, ClearFiles, vars
  <2>3. \E new : req' = [req EXCEPT ![t] = new]
    BY <1>2, CallOutcome DEF Serve, BuildIndex, LoadForMerge, Save, ClearFiles
  <2>4. \A u \in Threads \ {t} : req'[u] = req[u]
    BY <2>3 DEF AppTypeOK
  <2>5. Busy(t)' => Emptying(req[t])'
    BY <1>2, <2>1, AloneServes
  <2> QED BY <2>1, <2>2, <2>4, <2>5 DEF AloneQuiet, Busy
<1>3. ASSUME NEW t \in Threads, NEW op \in {"remove", "bulk"}, NEW k \in Keys,
             NEW asked \in {Providers} \cup {{p} : p \in Providers}, StartRemoval(t, op, k, asked)
      PROVE  AloneQuiet'
  <2>1. t \in alone'
    BY <1>3 DEF StartRemoval
  <2> QED BY <1>3, <2>1, AloneQuietStarts
<1>4. ASSUME NEW t \in Threads, NEW p,
             StartImport(t, p) \/ StartClear(t) \/ \E K \in SUBSET Keys : Send(t, p, K)
      PROVE  FALSE
  BY <1>4 DEF StartImport, StartClear, Send
<1>5. ASSUME NEW p \in Providers, NEW k \in Keys, UserEdits(p, k) PROVE AloneQuiet'
  <2>1. UserAdd(p, k) /\ UNCHANGED appVars
    BY <1>5 DEF UserEdits
  <2>2. UNCHANGED <<pc, req, alone, pairs, base, pend, tomb>>
    BY <2>1 DEF UserAdd, appVars, files
  <2> QED BY <1>1, <2>2
<1>6. ~RunBegins /\ ~Dies
  BY DEF RunBegins, Dies
<1>7. ~SyncStep
  <2>1. SyncStep => pc # "idle" /\ alone' \subseteq alone
    BY DEF SyncStep, CommitBlocks, BeforeCommit, TakeSnapshot, Plan, Remove, Add, appVars
  <2> QED BY <2>1 DEF AloneQuiet
<1>8. CASE Tick /\ UNCHANGED appVars
  <2>1. UNCHANGED <<pc, req, alone, pairs, base, pend>>
    BY <1>8 DEF Tick, appVars
  <2>2. AtLeastZero(0 - 1) = 0
    BY DEF AtLeastZero
  <2>3. \A i \in DOMAIN pairs, k \in Keys : tomb[i][k] = 0 => tomb'[i][k] = 0
    BY <1>8, <2>2 DEF Tick
  <2> QED BY <1>1, <2>1, <2>3
<1>9. CASE UNCHANGED allVars
  BY <1>1, <1>9 DEF allVars, vars, appVars, files
<1> QED BY <1>2, <1>3, <1>4, <1>5, <1>6, <1>7, <1>8, <1>9 DEF AppNext

\* While no run is at work, an item that is stored nowhere need not count as
\* deleted.
LEMMA EvidenceLess ==
    ASSUME ChainTypeOK', NEW G, Evidence(G)', IdleHolds', pc' = "idle",
           NEW K, \A k \in K : Nowhere(k)', NEW H, G \ K \subseteq H
    PROVE  Evidence(H)'
<1>1. /\ \A p \in Providers : base'[p] \cup prev'[p] \subseteq lists'[p] \cup G
      /\ \A i \in DOMAIN pairs', k \in Keys : tomb'[i][k] > 0 => k \in G
      /\ \A i \in DOMAIN pairs', p \in Providers : pend'[i][p] \subseteq G
  BY DEF Evidence, StoresTell
<1>2. \A k \in K : /\ \A p \in Providers : k \notin base'[p]
                   /\ \A i \in DOMAIN pairs' : /\ tomb'[i][k] = 0
                                              /\ \A p \in Providers : k \notin pend'[i][p]
  BY DEF Nowhere, Unmarked
<1>3. \A p \in Providers : prev'[p] = {} /\ rem'[p] = {} /\ add'[p] = {}
  BY DEF IdleHolds, Nothing
<1>4. StoresTell(H)'
  <2>1. \A p \in Providers : base'[p] \cup prev'[p] \subseteq lists'[p] \cup H
    BY <1>1, <1>2, <1>3
  <2>2. \A i \in DOMAIN pairs', k \in Keys : tomb'[i][k] > 0 => k \in H
    BY <1>1, <1>2
  <2>3. \A i \in DOMAIN pairs', p \in Providers : pend'[i][p] \subseteq H
    BY <1>1, <1>2
  <2> QED BY <2>1, <2>2, <2>3 DEF StoresTell
<1>5. Left' \in Providers /\ Right' \in Providers
  BY ChainAssumption DEF ChainTypeOK, Left, Right
<1>6. PairTells(H)'
  BY <1>3, <1>5 DEF PairTells, Here
<1>7. IdleIsClean'
  BY DEF Evidence
<1> QED BY <1>4, <1>6, <1>7 DEF Evidence

LEMMA PurgedServe ==
    ASSUME AppTypeOK, AppTypeOK', PurgedInv, IdleHolds', NEW t \in Threads, Serve(t)
    PROVE  Evidence(Excused)' /\ AllTell(Excused)'
<1>1. PICK G : G = Keys \ (purged \ crossed')
  OBVIOUS
<1>2. crossed \subseteq crossed' /\ crossed' \subseteq Keys
  BY DEF Serve, CallProvider, BuildIndex, LoadForMerge, Save, ClearFiles, AppTypeOK
<1>3. Evidence(G)
  <2>1. Excused \subseteq G
    BY <1>1, <1>2 DEF Excused
  <2> QED BY <2>1, EvidenceWider DEF PurgedInv, AppTypeOK
<1>4. AllTell(G)
  BY <1>1, <1>2 DEF PurgedInv, AllTell, Tells, Excused
<1>5. \A q \in Providers : lists[q] \ lists'[q] \subseteq G
  <2>1. req[t].keys \subseteq Keys
    BY ProperFromType DEF AllProper, Proper, Requests
  <2>2. Removal(req[t]) => req[t].keys \subseteq G
    BY <1>1, <2>1 DEF PurgedInv, Apart
  <2> QED BY <2>2, CallTakesKeys
<1>6. StillTold(G)
  BY <1>1, <1>2, <1>3, <1>4, <1>5, ToldServe
<1>7. CASE UNCHANGED purged
  <2>1. Excused' = G
    BY <1>1, <1>7 DEF Excused
  <2> QED BY <1>6, <2>1 DEF StillTold, Evidence, StoresTell, PairTells, AllTell
<1>8. CASE /\ purged' = purged \cup req[t].keys
           /\ t \in alone' /\ pc' = "idle"
           /\ \A u \in Threads : ~Busy(u)'
           /\ \A k \in req[t].keys : Nowhere(k)'
  <2>1. PICK H : H = Excused'
    OBVIOUS
  <2>2. G \ req[t].keys \subseteq H
    BY <1>1, <1>8, <2>1 DEF Excused
  <2>3. Evidence(H)'
    BY <1>6, <1>8, <2>2, EvidenceLess DEF StillTold, AppTypeOK
  <2>4. AllTell(H)'
    BY <1>8, NoRequestTells DEF AllTell, Busy
  <2> QED BY <2>1, <2>3, <2>4 DEF Evidence, StoresTell, PairTells, AllTell
<1> QED BY <1>7, <1>8, ServePurges DEF PurgedInv

\* Whatever is not a step of a request leaves no more items purged than before.
LEMMA PurgedRest ==
    ASSUME AppTypeOK, PurgedInv, [AppNext]_allVars, \A t \in Threads : ~Serve(t)
    PROVE  Evidence(Excused)' /\ AllTell(Excused)'
<1>1. PICK G : G = Excused'
  OBVIOUS
<1>2. purged' \subseteq purged /\ crossed' = crossed
  <2>1. ASSUME NEW t \in Threads, NEW op, NEW k, NEW asked, StartRemoval(t, op, k, asked)
        PROVE  purged' \subseteq purged /\ crossed' = crossed
    BY <2>1 DEF StartRemoval
  <2>2. ASSUME NEW t \in Threads, NEW p,
               StartImport(t, p) \/ StartClear(t) \/ \E K \in SUBSET Keys : Send(t, p, K)
        PROVE  UNCHANGED <<purged, crossed>>
    BY <2>2 DEF StartImport, StartClear, Send
  <2>3. ASSUME NEW p \in Providers, NEW k \in Keys, UserEdits(p, k)
        PROVE  purged' \subseteq purged /\ crossed' = crossed
    BY <2>3 DEF UserEdits, appVars
  <2>4. CASE RunBegins \/ SyncStep \/ Dies \/ UNCHANGED appVars
    BY <2>4 DEF RunBegins, SyncStep, CommitBlocks, Dies, appVars
  <2> QED BY <2>1, <2>2, <2>3, <2>4 DEF AppNext, allVars
<1>3. Evidence(G)
  <2>1. Excused \subseteq G
    BY <1>1, <1>2 DEF Excused
  <2> QED BY <2>1, EvidenceWider DEF PurgedInv, AppTypeOK
<1>4. AllTell(G)
  BY <1>1, <1>2 DEF PurgedInv, AllTell, Tells, Excused
<1> SUFFICES StillTold(G)
  BY <1>1 DEF StillTold, Evidence, StoresTell, PairTells, AllTell
<1>5. ASSUME NEW t \in Threads, NEW op \in {"remove", "bulk"}, NEW k \in Keys,
             NEW asked \in {Providers} \cup {{p} : p \in Providers}, StartRemoval(t, op, k, asked)
      PROVE  StillTold(G)
  BY <1>3, <1>4, <1>5, ToldStartRemoval
<1>6. ASSUME NEW t \in Threads, NEW p \in Providers,
             StartImport(t, p) \/ StartClear(t) \/ \E K \in SUBSET Keys : Send(t, p, K)
      PROVE  StillTold(G)
  BY <1>3, <1>4, <1>6, ToldStartImport, ToldStartClear, ToldSend
<1>7. ASSUME NEW t \in Threads, StartClear(t) PROVE StillTold(G)
  BY <1>3, <1>4, <1>7, ToldStartClear
<1>8. ASSUME NEW p \in Providers, NEW k \in Keys, UserEdits(p, k) PROVE StillTold(G)
  <2>1. \A q \in Providers : lists[q] \ lists'[q] \subseteq G
    <3>1. CASE UserAdd(p, k)
      BY <3>1 DEF UserAdd, AppTypeOK, ChainTypeOK
    <3>2. CASE UserDelete(p, k) /\ purged' = purged \ {k}
      <4>1. k \in G
        BY <1>1, <3>2 DEF Excused
      <4> QED BY <3>2, <4>1 DEF UserDelete, AppTypeOK, ChainTypeOK
    <3> QED BY <1>8, <3>1, <3>2 DEF UserEdits
  <2> QED BY <1>3, <1>4, <1>8, <2>1, ToldUserEdits
<1>9. CASE SyncStep
  BY <1>3, <1>4, <1>9, ToldBeforeCommit, ToldCommitBlocks DEF SyncStep, appVars
<1>10. CASE Dies \/ RunBegins \/ (Tick /\ UNCHANGED appVars) \/ UNCHANGED allVars
  BY <1>3, <1>4, <1>10, ToldDies, ToldRest
<1> QED BY <1>5, <1>6, <1>7, <1>8, <1>9, <1>10 DEF AppNext

LEMMA PurgedNext == AppTypeOK /\ PurgedInv /\ [AppNext]_allVars => PurgedInv'
<1> SUFFICES ASSUME AppTypeOK, PurgedInv, [AppNext]_allVars PROVE PurgedInv'
  OBVIOUS
<1>1. AppTypeOK'
  BY AppNextType
<1>2. BlocksStored' /\ IdleHolds' /\ Apart' /\ AloneQuiet'
  BY BlocksStoredNext, IdleHoldsNext, ApartNext, AloneQuietNext DEF PurgedInv
<1>3. Evidence(Excused)' /\ AllTell(Excused)'
  BY <1>1, <1>2, PurgedServe, PurgedRest
<1> QED BY <1>2, <1>3 DEF PurgedInv

LEMMA PurgedInvariance == AppSpec => []PurgedInv
BY PurgedInit, PurgedNext, AppTypeCorrect, PTL DEF AppSpec

\* An item that a request has taken off all lists, undisturbed, may be added
\* again at once: no later sync plans to remove it, however other requests,
\* deaths and torn saves follow, unless a user deletes it or a save of it has
\* crossed a run.
THEOREM PurgedItemsStayAddable == AppSpec => FreshAddKept
<1> DEFINE Kept == pc = "plan" /\ pc' = "rem_left" =>
                      \A p \in Providers : rem'[p] \cap (purged \ crossed) = {}
<1>1. AppTypeOK /\ PurgedInv' /\ [AppNext]_allVars => [Kept]_allVars
  <2> SUFFICES ASSUME AppTypeOK, PurgedInv', [AppNext]_allVars, pc = "plan", pc' = "rem_left",
                      NEW p \in Providers
               PROVE  rem'[p] \cap (purged \ crossed) = {}
    OBVIOUS
  <2>1. UNCHANGED <<purged, crossed>>
    BY OnlyPlanPlans
  <2>2. rem'[p] \subseteq Excused'
    BY DEF PurgedInv, Evidence, PairTells
  <2> QED BY <2>1, <2>2 DEF Excused
<1> QED BY <1>1, PurgedInvariance, AppTypeCorrect, PTL DEF AppSpec, FreshAddKept
=============================================================================
