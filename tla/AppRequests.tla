---------------------------- MODULE AppRequests ----------------------------
(***************************************************************************)
(* Requests to the application that write the stored baselines, beside the *)
(* syncs that read and write them: removals from the watchlist page and on *)
(* scrobbles (services/watchlist.py, api/watchlistAPI.py), sending and     *)
(* importing items in the editor (api/editorAPI.py), clearing the state    *)
(* (api/maintenanceAPI.py), and the database they all write through        *)
(* (cw_platform/local_db/state.py).                                        *)
(*                                                                         *)
(* A request loads the baselines, calls providers, and saves what it has   *)
(* loaded with its own change; nothing keeps a sync or another request     *)
(* from saving in between.  A removal saves the blocks of all providers,   *)
(* the others save one.  All modules of local_db write through one         *)
(* connection, each with a lock of its own or none: the commit or rollback *)
(* of one can fall into the transaction of another, and a save that is     *)
(* then cut short leaves a mixture of old and new rows ("torn").           *)
(*                                                                         *)
(* The syncs are those of PairChain; of their faults, only the death of    *)
(* the process and the torn save are taken over.  A request removes one    *)
(* item; accounts (instances) of a provider and the scopes of profiles are *)
(* left out, and so is the TTL that keeps one scrobble from asking twice.  *)
(***************************************************************************)
EXTENDS PairChain

CONSTANTS
    Threads,      \* threads that serve requests
    MaxRequests   \* bound: number of requests in a behaviour

ASSUME RequestsAssumption == MaxRequests \in Nat

VARIABLES
    stored,    \* providers that have a block in the database
    req,       \* req[t]: the request t is serving
    \* history: read by the properties only
    alone,     \* threads removing an item from all lists, undisturbed so far
    purged,    \* items so removed, and not deleted again since
    crossed,   \* items saved in a baseline while a run was between reading
               \* that list and loading the baselines
    \* bounds
    requests

appVars == <<stored, req, alone, purged, crossed, requests>>
allVars == <<vars, appVars>>

\* op    "remove" (one save at the end), "bulk" (a save after each provider),
\*       "send", "import", "clear"
\* step  "call", "load", "save"
\* keys  the items it is about
\* todo  the providers it still has to call, or the one it saves
\* dirty something was popped since the last save
\* base, stored  the baselines as it loaded them, those it may save
NoRequest ==
    [op |-> "none", step |-> "call", keys |-> {}, todo |-> {}, dirty |-> FALSE,
     base |-> Nothing, stored |-> {}]

Busy(t) == req[t] # NoRequest
Removal(r) == r.op \in {"remove", "bulk"}
Loaded(r) ==
    [r EXCEPT !.base = [p \in Providers |-> IF Removal(r) \/ p \in r.todo THEN base[p] ELSE {}],
              !.stored = IF Removal(r) THEN stored ELSE {}]

AppInit ==
    /\ Init
    /\ stored = {}
    /\ req = [t \in Threads |-> NoRequest]
    /\ alone = {} /\ purged = {} /\ crossed = {} /\ requests = 0

-----------------------------------------------------------------------------
(* The database *)

\* save_feature_blocks with the blocks of the providers in ps.
Store(new, ps) ==
    \/ /\ base' = [p \in Providers |-> IF p \in ps THEN new[p] ELSE base[p]]
       /\ stored' = stored \cup ps
       /\ UNCHANGED faults
    \/ /\ Fault("torn")
       /\ \E hit \in SUBSET ps :
             /\ base' \in {b \in [Providers -> SUBSET Keys] : \A p \in Providers :
                             /\ b[p] \subseteq base[p] \cup new[p] /\ base[p] \cap new[p] \subseteq b[p]
                             /\ p \notin hit => b[p] = base[p]}
             /\ stored' = stored \cup hit

-----------------------------------------------------------------------------
(* Starting requests *)

Start(t, r) ==
    /\ ~Busy(t)
    /\ requests < MaxRequests
    /\ requests' = requests + 1
    /\ req' = [req EXCEPT ![t] = r]

\* Nothing else is going on that holds, or will write, anything about k.
Undisturbed(t, k) ==
    /\ pc = "idle"
    /\ \A u \in Threads \ {t} : ~Busy(u)
    /\ \A i \in DOMAIN pairs :
          tomb[i][k] = 0 /\ \A p \in Providers : k \notin pend[i][p]

\* delete_watchlist_item calls every provider asked for; _bulk_delete and the
\* removal on scrobbles only those whose baseline has the item.
StartRemoval(t, op, k, asked) ==
    LET todo == IF op = "remove" THEN asked
                ELSE {p \in asked \cap stored : k \in base[p]}
    IN  /\ todo # {}
        /\ Start(t, Loaded([NoRequest EXCEPT !.op = op, !.keys = {k}, !.todo = todo]))
        /\ alone' = IF asked = Providers /\ Undisturbed(t, k) THEN {t} ELSE {}
        /\ purged' = purged \ {k}
        /\ UNCHANGED <<vars, stored, crossed>>

\* api_editor_state_import
StartImport(t, p) ==
    /\ Start(t, Loaded([NoRequest EXCEPT !.op = "import", !.todo = {p}]))
    /\ alone' = {}
    /\ UNCHANGED <<vars, stored, purged, crossed>>

\* Mutant: what was sent has arrived.
ConfirmedBySendMutant(K, res) == {K}
\* _items_confirmed_by_send: the keys the provider names, or as many as it counts.
ConfirmedBySend(K, res) ==
    IF K \cap (res.ckeys \cup res.skeys) # {}
    THEN {K \cap (res.ckeys \cup res.skeys)}
    ELSE {X \in SUBSET K : Cardinality(X) = Lesser(res.confirmed, Cardinality(K))}

\* api_editor_send: items a user chose are added to p; those confirmed are then
\* merged into its baseline.
Send(t, p, K) ==
    /\ K # {}
    /\ \E done \in SUBSET K :
          /\ lists' = [lists EXCEPT ![p] = @ \cup done]
          /\ lost' = lost \ done /\ known' = known \ done
          /\ \/ /\ Written(K, done)
                /\ \E confirmed \in ConfirmedBySend(K, Answer("apply:add", K, done)) :
                      Start(t, IF confirmed = {} THEN NoRequest
                               ELSE [NoRequest EXCEPT !.op = "send", !.step = "load",
                                                      !.keys = confirmed, !.todo = {p}])
             \/ Fault("raise") /\ Start(t, NoRequest)
    /\ alone' = {}
    /\ UNCHANGED <<pairs, files, pc, cur, locals, gone, edits, stored, purged, crossed>>

\* clear_state_minimal: the database first, then the files.
StartClear(t) ==
    /\ Start(t, [NoRequest EXCEPT !.op = "clear", !.step = "save"])
    /\ base' = Nothing /\ stored' = {}
    /\ alone' = {}
    /\ UNCHANGED <<lists, pairs, tomb, pend, pc, cur, locals, history, edits, faults,
                   purged, crossed>>

-----------------------------------------------------------------------------
(* Serving them *)

\* _del_key_from_provider_items; the mutant leaves the item in the baseline.
PoppedMutant(r, p, k) == [r EXCEPT !.dirty = @ \/ k \in r.base[p]]
Popped(r, p, k) == [r EXCEPT !.base[p] = @ \ {k}, !.dirty = @ \/ k \in r.base[p]]

\* r when p is done with.  Mutant: a removal that popped nothing does not end.
CalledMutant(r, p) ==
    LET rest == [r EXCEPT !.todo = @ \ {p}]
    IN  IF rest.dirty /\ (r.op = "bulk" \/ rest.todo = {}) THEN [rest EXCEPT !.step = "save"]
        ELSE rest
Called(r, p) ==
    LET rest == [r EXCEPT !.todo = @ \ {p}]
    IN  IF rest.dirty /\ (r.op = "bulk" \/ rest.todo = {}) THEN [rest EXCEPT !.step = "save"]
        ELSE IF rest.todo = {} THEN NoRequest
        ELSE rest

\* The request is answered: what an undisturbed removal was about is purged.
Concluded(t) ==
    purged' = IF ~Busy(t)' /\ t \in alone' THEN purged \cup req[t].keys ELSE purged

\* A handler of delete_watchlist_batch takes k off p, and k is popped from the
\* baseline that was loaded; most handlers raise when there is nothing to take
\* off.
TakeOff(t, p, k) ==
    /\ lists' = [lists EXCEPT ![p] = @ \ {k}]
    /\ IF k \in lists[p]
       THEN gone' = gone \cup {k} /\ lost' = lost \cup {k}
       ELSE UNCHANGED <<gone, lost>>
    /\ req' = [req EXCEPT ![t] = Called(Popped(@, p, k), p)]
    /\ UNCHANGED <<faults, alone>>

\* It raises, or its answer is lost.
TakeOffFails(t, p, k) ==
    /\ (k \notin lists[p] /\ UNCHANGED faults) \/ Fault("raise")
    /\ \/ UNCHANGED <<lists, gone, lost>>
       \/ /\ k \in lists[p] /\ lists' = [lists EXCEPT ![p] = @ \ {k}]
          /\ gone' = gone \cup {k} /\ lost' = lost \cup {k}
    /\ req' = [req EXCEPT ![t] = Called(@, p)]
    /\ alone' = IF k \in req[t].base[p] THEN alone \ {t} ELSE alone

CallProvider(t) ==
    /\ Removal(req[t]) /\ req[t].step = "call"
    /\ \E p \in req[t].todo, k \in req[t].keys : TakeOff(t, p, k) \/ TakeOffFails(t, p, k)
    /\ Concluded(t)
    /\ UNCHANGED <<pairs, files, pc, cur, locals, known, edits, stored, crossed, requests>>

\* The import reads the provider's list.
BuildIndex(t) ==
    /\ req[t].op = "import" /\ req[t].step = "call"
    /\ \/ /\ req' = [req EXCEPT ![t] = [@ EXCEPT !.step = "save",
                                                 !.keys = UNION {lists[p] : p \in req[t].todo}]]
          /\ UNCHANGED faults
       \/ Fault("raise") /\ req' = [req EXCEPT ![t] = NoRequest]
    /\ UNCHANGED <<lists, pairs, files, pc, cur, locals, history, edits,
                   stored, alone, purged, crossed, requests>>

\* _merge_sent_items_into_state loads the baselines after the provider's answer.
LoadForMerge(t) ==
    /\ req[t].step = "load"
    /\ req' = [req EXCEPT ![t] = [Loaded(@) EXCEPT !.step = "save"]]
    /\ UNCHANGED <<vars, stored, alone, purged, crossed, requests>>

\* What may be saved for baselines, and the providers whose blocks are saved;
\* an import replaces the old baseline or is merged into it.
NewBases(r) ==
    IF Removal(r) THEN {r.base}
    ELSE {[p \in Providers |-> old[p] \cup r.keys] :
             old \in IF r.op = "import" THEN {Nothing, r.base} ELSE {r.base}}
Blocks(r) == IF Removal(r) THEN r.stored ELSE r.todo

\* Providers whose lists a run has read, when it has not loaded the baselines.
ListsRead ==
    IF loaded THEN {}
    ELSE {p \in Here : pc = "plan" \/ (pc = "right" /\ p = Left)}

Save(t) ==
    /\ Busy(t) /\ req[t].op # "clear" /\ req[t].step = "save"
    /\ \E new \in NewBases(req[t]) : Store(new, Blocks(req[t]))
    /\ req' = [req EXCEPT ![t] = IF Removal(@) /\ @.todo # {}
                                 THEN [@ EXCEPT !.step = "call", !.dirty = FALSE]
                                 ELSE NoRequest]
    /\ alone' = IF faults' = faults THEN alone ELSE {}
    /\ Concluded(t)
    /\ crossed' = crossed \cup UNION {(base'[p] \ base[p]) \ snap[p] : p \in ListsRead}
    /\ UNCHANGED <<lists, pairs, tomb, pend, pc, cur, locals, history, edits,
                   requests>>

\* Tombstones and unresolved records are files.
ClearFiles(t) ==
    /\ req[t].op = "clear"
    /\ tomb' = [i \in DOMAIN pairs |-> [k \in Keys |-> 0]]
    /\ pend' = [i \in DOMAIN pairs |-> Nothing]
    /\ req' = [req EXCEPT ![t] = NoRequest]
    /\ UNCHANGED <<lists, pairs, base, pc, cur, locals, history, edits, faults,
                   stored, alone, purged, crossed, requests>>

Serve(t) ==
    CallProvider(t) \/ BuildIndex(t) \/ LoadForMerge(t) \/ Save(t) \/ ClearFiles(t)

-----------------------------------------------------------------------------
(* The syncs beside them *)

\* Commit of PairChain, through the database.
CommitBlocks ==
    /\ pc = "commit"
    /\ Store(snap, Here)
    /\ NextPair
    /\ alone' = IF faults' = faults THEN alone ELSE {}
    /\ UNCHANGED <<lists, pairs, tomb, pend, history, edits,
                   req, purged, crossed, requests>>

SyncStep ==
    \/ /\ BeforeCommit
       /\ UNCHANGED appVars
    \/ CommitBlocks

RunBegins ==
    /\ StartRun
    /\ alone' = {}
    /\ UNCHANGED <<stored, req, purged, crossed, requests>>

UserEdits(p, k) ==
    \/ UserAdd(p, k) /\ UNCHANGED appVars
    \/ /\ UserDelete(p, k)
       /\ purged' = purged \ {k} /\ alone' = {}
       /\ UNCHANGED <<stored, req, crossed, requests>>

\* The process dies, with all its threads.
Dies ==
    /\ pc # "idle" \/ \E t \in Threads : Busy(t)
    /\ Fault("crash")
    /\ RunOver
    /\ req' = [t \in Threads |-> NoRequest]
    /\ alone' = {}
    /\ UNCHANGED <<lists, pairs, files, history, edits, stored, purged, crossed, requests>>

AppNext ==
    \/ \E t \in Threads :
          \/ \E op \in {"remove", "bulk"}, k \in Keys, asked \in {Providers} \cup {{p} : p \in Providers} :
                StartRemoval(t, op, k, asked)
          \/ \E p \in Providers : StartImport(t, p)
          \/ \E p \in Providers, K \in SUBSET Keys : Send(t, p, K)
          \/ StartClear(t)
          \/ Serve(t)
    \/ \E p \in Providers, k \in Keys : UserEdits(p, k)
    \/ RunBegins \/ SyncStep
    \/ Tick /\ UNCHANGED appVars
    \/ Dies

AppSpec == AppInit /\ [][AppNext]_allVars

-----------------------------------------------------------------------------
(* Properties *)

Requests ==
    [op : {"none", "remove", "bulk", "send", "import", "clear"},
     step : {"call", "load", "save"},
     keys : SUBSET Keys, todo : SUBSET Providers, dirty : BOOLEAN,
     base : [Providers -> SUBSET Keys], stored : SUBSET Providers]

\* Types of all variables; and no request is left with nothing to do.
AppTypeOK ==
    /\ ChainTypeOK
    /\ stored \subseteq Providers
    /\ req \in [Threads -> Requests]
    /\ \A t \in Threads : Busy(t) /\ req[t].step = "call" => req[t].todo # {}
    /\ alone \subseteq Threads /\ purged \subseteq Keys /\ crossed \subseteq Keys
    /\ requests \in 0..MaxRequests

\* However stale what a request saves, however torn a save: nothing stored, or
\* about to be stored, makes an item look deleted that no user deleted, unless
\* it was saved in a baseline after a run had read that list and before the run
\* loaded the baselines.
Blamed == gone \cup crossed
RequestsTell(D) ==
    \A t \in Threads, p \in Providers :
        /\ req[t].base[p] \subseteq lists[p] \cup D
        /\ ~Removal(req[t]) /\ p \in req[t].todo => req[t].keys \subseteq lists[p] \cup D
AppEvidence == StoresTell(Blamed) /\ PairTells(Blamed) /\ RequestsTell(Blamed)

\* Whatever requests have made of the baselines, torn, stale, cleared or crossing
\* the run: what a sync plans makes its two lists equal.
AppPlansAgree ==
    [][pc = "plan" /\ pc' = "rem_left" =>
          \A p, q \in Here : (snap[p] \ rem'[p]) \cup add'[p] = (snap[q] \ rem'[q]) \cup add'[q]]_allVars

\* An item that a request has taken off all lists, with nothing else going on,
\* may be added again at once, anywhere: no sync takes the item's absence from
\* the other lists for a deletion.  This is what popping it from the stored
\* baselines is for.
FreshAddKept ==
    [][pc = "plan" /\ pc' = "rem_left" =>
          \A p \in Providers : rem'[p] \cap (purged \ crossed) = {}]_allVars
=============================================================================
