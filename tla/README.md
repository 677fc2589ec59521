# CrossWatch in TLA+

Formal models of [CrossWatch](../src), the program that keeps watchlists,
ratings, history and playlists of media servers and trackers in step. The models
are checked with TLC on small instances; the theorems are checked with TLAPS for
every value of the constants. `PROJECT.json` says, definition by definition,
which lines of the source each part of a model stands for.

## 1. Inventory

All state lives in one process. Threads share memory; runs leave files (or
tables of a local database) to the runs after them. Providers are remote services
whose lists their users go on editing all the time.

| Part | Source | State it keeps | Operations | What makes it hard | What makes it correct |
|---|---|---|---|---|---|
| Two-way sync | `orchestrator/_pairs_twoway.py` | baselines per provider and feature; locals of a run | snapshot, observe deletions, plan, remove A, remove B, add A, add B, commit | a deletion is only visible as something missing; users edit during the run; every write may fail in part; crash between files | removes only what a user deleted; does not resurrect; never loses a fresh add; repairs itself; becomes equal |
| One-way sync | `orchestrator/_pairs_oneway.py` | baselines | snapshot, plan (mirror or source deletes), add, remove, commit | a source or destination that is down; retries | destination follows the source; deletions are not forgotten |
| Applier | `orchestrator/_applier.py` | none | chunk, retry, normalise the provider's answer, decide what counts as written | answers are counts, key lists, or contradict each other | what counts as written was written |
| Tombstones | `orchestrator/_tombstones.py` | time per pair, feature and key | mark, clear, prune | age against retries, re-adds | stand for deletions only |
| Blackbox | `orchestrator/_blackbox.py` | failures in a row, promoted keys | record attempt, success, prune | cancelled runs, cooldown | counts failed writes |
| Unresolved | `orchestrator/_unresolved.py` | pending key with reason | record, clear, load | one reason displaces another | a failed removal is retried while it is wanted |
| Snapshots | `orchestrator/_snapshots.py` | cache, checkpoints | build, coerce suspect | empty answers, deltas, stale cache | does not make things look deleted |
| Pair runner | `orchestrator/_pairs.py`, `facade.py` | totals, health | pairs x features in turn | cancel, errors of one feature, shared baselines | one pair does not undo another |
| Run control | `cw_platform/run_control.py` | cancel target, queue stop | request, clear, consume, test | several threads | a request reaches its run and no other |
| Sync API | `api/syncAPI.py` | `RUNNING_PROCS`, `SUMMARY`, `CW_RUN_ID` | start, worker, cancel | check/start/register are three steps; handlers without a lock | one run at a time |
| Scheduler | `services/scheduling.py` | what is done today, wake event | pass over jobs and workflows, wait, refresh | cancel, edits and foreign runs while it waits | order, once a day, everything in the end |
| Requests that write baselines | `services/watchlist.py`, `api/watchlistAPI.py`, `api/editorAPI.py`, `api/maintenanceAPI.py` | the baselines a request has loaded | remove (page, bulk, on scrobbles), send, import, clear | load, provider calls and save are apart, and nothing keeps a sync or another request from saving in between | a stale save makes nothing look deleted; what is removed everywhere can be added again |
| Local database | `cw_platform/local_db/` | SQLite tables | transactions, migration | one connection for all modules, each with its own lock; crash | a feature block is saved whole |
| Playlists | `cw_platform/playlists_runner.py`, `orchestrator/_pairs_playlists.py` | one state file: what each mapping manages, its last result | read, plan, add, remove, reorder, save, store result | API and sync run mappings at once over an unlocked file; mappings share playlists; a run cut short between adding and saving | removes only what it put there; knows what it put there; source ends up on target |
| Scrobblers | `providers/scrobble/`, `providers/webhooks/` | playback sessions, per sink a queue, waiting starts, debounce clocks | poll, observe, dispatch, decide, enqueue, deliver, retry, record | polls see only points of a play; starts overtake the queue; lost answers; item changes between polls | records what was watched, once; never goes back; the application's records follow the service's |
| Captures, backups | `services/snapshots.py`, `services/backups.py` | files | create, restore, retention | partial restore | restore yields the capture |
| Anime mapping, id maps | `cw_platform/anime_mapping/`, `id_map.py` | mapping data | match | data | the same item has one key |
| Provider adapters | `providers/sync/` | remote lists | build index, add, remove | network | external to the models |
| Auth, config, UI, events, analyzer, import, export | the rest | | | | not part of the sync's logic |

The parts meet as follows. A caller (user, scheduler, scrobble event) calls
`api_run_sync`, which under `SYNC_PROC_LOCK` starts a worker thread. The worker calls
`run_pairs`, which for each pair and feature calls the one-way or two-way sync.
That reads the files previous runs left, snapshots the providers, plans, and writes through the
applier, whose account of what was written decides what goes to the baselines,
tombstones, blackbox and unresolved store. Cancellation is a flag in
run control that the handlers of the cancel button set and the worker reads
between steps; the scheduler reads its companion, the queue stop.

`PROJECT.json` lists the hazards of this code at their lines, and which property
would catch each.

## 2. Modules

| Module | Models | Uses |
|---|---|---|
| `Applier` | pure operators: a provider's raw answer, its normalisation, what counts as added and removed, and how the answers to the chunks of a batch are added up | |
| `SharedList` | the abstract specification: what a two-way sync may do to its lists | |
| `TwoWaySync` | one two-way pair syncing the watchlist, its users, its files and its faults; implements `SharedList` | `Applier`, `SharedList` |
| `PairChain` | several two-way pairs of a run sharing providers; implements `SharedList` | `Applier`, `SharedList` |
| `AppRequests` | the requests that write stored baselines, beside the syncs of `PairChain` and over one database | `PairChain` |
| `OneWaySync` | one one-way pair syncing a watchlist or ratings | `Applier` |
| `SyncRuns` | start, worker and cancellation of runs, one action per access to shared state | |
| `AdvancedScheduler` | the advanced scheduler's pass, composed with `SyncRuns`, which it implements | `SyncRuns` |
| `KodiScrobble` | Kodi player, watcher, dispatcher, Trakt sink with its worker, Trakt | |
| `PlaylistMappings` | playlist mappings run by the sync and by users over one state file | |
| `MC*` | instances for TLC | |
| `*_proofs` | the theorems | `TLAPS` |

### Applier

An answer is a record with the fields `_normalize` looks at. `Normalize` is that function,
`EffectiveCount`, `AddSuccesses`, `AddFailures` are `compute_effective_add`, and `RemoveSuccess` is
`compute_effective_remove`. Where the code takes the first n keys of a list for want of better knowledge
(`confirmed[:n]`) the model takes any n keys, in `AddSuccessesInOrder` those of the first chunk first. `Together`
is the aggregation of `_apply_chunked`.

### TwoWaySync

`items[s]` is the real list of side `s`; `base`, `tomb`, `pend`, `flap`, `bbox` are the
files; `pc` and the locals (`snap`, `eff`, `rem`, `add`, ...) are those of
`_two_way_sync`. `lost`, `fresh`, `gone` and `calm` are history for the properties
and guard nothing.

* `StartRun`, `TakeSnapshot` (one action per side, users may edit between), `Plan`
  (observed deletions and their tombstones, planning, retried removals, mass-delete guard: all
  local computation on the snapshots), `Remove` and `Add` per side, `Commit`.
* `Remove` and `Add` choose which part of the batch the provider does and how it reports it;
  `Applier` turns the report into successes and failures, and the files follow.
* Faults: `partial` (part of a batch), `raise` (three attempts fail, feature abandoned),
  `cancel`, `crash` (any point of a run), `down` (health check), `empty` (empty
  snapshot), `dry` (dry run). A run counts as `calm` when nothing disturbed it.

Abstractions. An item is its key, so aliasing of identifiers is out. The clock
is ticks between runs: tombstones live days and runs minutes.

### SharedList, and what implements it

`SharedList` knows lists, what users have ever deleted and how often they edited, no runs and no files. A list changes when
its user adds or deletes an item, when something that is (or was, until deleted) on another list is copied to it,
and when something a user deleted is withdrawn from it. `LiveSharedSpec` adds that the lists become and stay equal.

`ImplementsSharedList` (`TwoWaySync`, its safety part) and `ChainImplementsSharedList` (`PairChain`) say
that the detailed specifications implement it, with `items`, `gone` and `edits` as refinement mapping: a user's edit is a user's
edit, `Add` a copy, `Remove` a withdrawal, a provider that raises half-way either of them, all else a stutter.
A sync that invents an item, or withdraws one that is merely missing somewhere, is not an implementation.

### PairChain

`run_pairs` takes the pairs in turn. Baselines are kept per provider, so two pairs of a provider write the same one;
the run loads the baselines once (`Known`: `loaded`, `prev`), while the next pair's snapshots are fresh. Tombstones and
pending removals are per pair. The sync of one pair is that of `TwoWaySync` under the default settings with adapters that name
the keys they wrote. The topologies are constants: `MCPairChain` has a chain in either order and a triangle.

### AppRequests

`req[t]` is what a thread of the server is doing: the operation, its step, and the baselines it has loaded (`base`, `stored`).
`StartRemoval`, `CallProvider` and `Save` are `_bulk_delete`, `delete_watchlist_item` and `delete_watchlist_batch`: one
provider after the other is called, the item is popped from what was loaded, and the blocks of *all* providers are saved, after each
provider (`"bulk"`) or at the end. `Send` and `LoadForMerge` are the editor's sending, `StartImport` and `BuildIndex` its
import, `StartClear` and `ClearFiles` the clearing of the state, which empties the database first and the files next. `Store` is the
transaction of `save_feature_blocks`, of requests and of syncs (`CommitBlocks`): all or, when it is torn, between the old and the new.
`crossed`, `purged` and `alone` are history and guard nothing.

### OneWaySync

A list is a function from keys to values (one value for a watchlist, several for ratings). `StartRun` is health and
mode of the run, `ReadSource` the first snapshot, `Plan` everything from the second snapshot up to the batches:
`Missing`/`Differing` are `diff`/`diff_ratings`, `Blocked` is `apply_blocklist`, `Observed` and `MirrorRemovals`
are the evidence of the two remove modes, `Retried` and `Stale` the pending removals, `MassDeleteBlocked` the
guard. `Update`, `Add`, `Remove` apply in the code's order, in chunks (`InChunks`), with a destination that is down
(everything becomes a pending write), a dry run, an answer that confirms nothing (`NothingConfirmed`),
a cancellation between chunks. `Commit` saves both baselines, whatever happened before. The pair's remove mode is chosen
in the initial state. `newer` stands for the comparison of a rating's timestamp with the tombstone's.

### SyncRuns and AdvancedScheduler

Every read or write of `RUNNING_PROCS`, `SUMMARY`, `CW_RUN_ID` or run control that another
thread can observe is a step of its own. `api_run_sync` is two steps under its
lock, `Trigger` up to `th.start()` and `Register`, because the new worker does not wait
for the lock. `_run_pairs_thread` is seven; `api_cancel_sync` three. What
a run does is one step, `WorkerEnds`, at which the cancel flag is looked at; earlier looks add
no outcome.

`AdvancedScheduler` covers a day after the time of all units has come. A pass takes the
jobs in `_topo_order`, then the workflows; each step waits for the sync in progress
(`Sleep`, `Woken`), and calls `api_run_sync` (`StepStarts`, `StepStarted`,
`StepRefused`). Users start runs, cancel them and disable units in between.

### KodiScrobble

The player (`item`, `at`, `playing`) is the viewer's. The watcher's tick is one action per JSON-RPC call (`PollPlayers`,
`ReadItem`, `ReadProps`), because the player may change between two of them. `Emitted` and `ShouldSend` are the
events of `_maybe_dispatch_progress` and the dispatcher's filter; `Send` is `TraktSink.send` with the decision
(`DecidedPath`), repeated starts and debouncing, `Enqueue`/`TakeJob` the queue with its coalesced starts, `Delivered`,
`Unreachable`, `AnswerLost`, `Refused` the attempts of `_send_http`. Trakt records a play of an item
whose request says 80 % or more, unless it has recorded one within the hour (`recent`, `Duplicate`).
Whether a moment lies within a debounce window is a choice.

### PlaylistMappings

A thread is the sync or a user's API call. A run is: read the source, read the target, load what the mapping manages, add, remove,
save what it manages (`Load`, `SaveBaseline`), store the result (`Reload`, `StoreResult`). The last four are the two
read-modify-write cycles on the whole state file. `Reload` may find a file another thread is writing under the
same temporary name, and then takes it to be empty, as `_load_all_state` does. Setups of mappings
are constants: `MCPlaylistMappings` has two mappings into one playlist, two to and fro between two playlists, a mirror, and
one whose removals the mass-delete guard always blocks. An adapter does part of a batch and names what it did.

## 3. What TLC checks

Every run takes between seconds and two and a half minutes with two workers.

| Run | Instance | Shows |
|---|---|---|
| `TwoWayFaults` | 2 items, 2 edits, 2 truthful faults, tombstones of 2 ticks | `DeletionEvidence`, `CleanRunConverges`, `FreshAddsKept`, `NoResurrection`, `EventuallySettled`, `ImplementsSharedList` |
| `TwoWayAny` | 2 items, 1 edit, 2 faults of any kind, any report, `verify_after_write` on | `TypeOK`, `EventuallyEqual` |
| `PairChain` | 3 providers in 3 topologies, 1 item, 2 edits, 1 fault | `ChainEvidence`, `HeadDeletionSticks`, `ChainImplementsSharedList` |
| `OneWay` | ratings of 2 items with 2 values, both remove modes, chunks of 1, 2 edits, 1 fault of 6 kinds | `SourceDeletesOnly`, `RemovalEvidence`, `DeletionRemembered`, `CleanRunCopies`, `EventuallyFollowed` |
| `AppRequests` | 1 pair, 1 item; up to 2 requests, 1 edit and 1 fault of 4 kinds: three in all, or one and a fault; the threads are symmetric | `AppEvidence`, `AppPlansAgree`, `FreshAddKept` |
| `RunsSafe` | 3 callers, 2 cancellers, 3 runs, ids may collide | `OneRunAtATime`, `OldCancelStopsNoRun` |
| `Sched` | 2 jobs chained against the order of their ids, a workflow of 2 steps, 1 foreign run, 1 cancel, 1 edit | `PredecessorsFirst`, `NothingPutOff`, `StartedOnce`, `EventuallyHandled`, `RunsAreSyncRuns` |
| `Kodi` | 2 items, points 0, 40, 85 and 100 %, 4 moves of the viewer, 1 fault of 4 kinds, 2 attempts | `RecordedWasWatched`, `LocalFollowsTrakt`, `NoStepBack`, `EventuallyReported` |
| `Playlists` | 2 mappings, 3 playlists, 1 item, the sync and 1 user's run, 1 edit, 1 fault | `OwnItemsOnly`, `ManagedIsPut`, `EventuallyThrough` |

Each also checks the type invariant of its module.

Bounds. Items do not interact except through the sizes of batches, so two (one
done, one not) show every partial answer, and with chunks of one every cut between chunks. Where batches play no part
(`PairChain`, `AppRequests`, `Playlists`) one item does. Faults and edits may come anywhere,
in any number of runs; two or three edits are a deletion with its re-add, or edits of the same item on both sides. Two requests at a time show every stale save: one loads, the other saves, the first saves; its lists start equal and its history that only properties of `PairChain` read is left out of the fingerprints (`AppView`). Three
runs suffice for a handler to read the id of one run, sleep through
the next and act on the third. Four moves of the viewer are two sessions (start and stop each), or one that is
paused, resumed or moved. The points lie before the first report, in the middle, between Trakt's threshold of
80 % and the configured one, and at the end. The state graphs are closed: nothing bounds the number of sync runs
in the models of syncs, nor the polls of the watcher.

Truthful answers. `DeletionEvidence` does not hold of every answer:
when a provider counts its failures as errors and reports no keys, the count is credited to
the first keys of the batch, which may be the wrong ones, and the baseline then holds an item that was never
written. The run `TwoWayFaults` therefore lets providers report keys or a plain count
(whose remainder is "skipped", which the code treats as ambiguous and credits nobody); `TwoWayAny`
lets them report anything and checks what still holds. The evidence of a one-way sync does not depend on answers: its
source's baseline is what was read, not what was written.

What the properties excuse, because the code does not promise it: a deletion first seen by a one-way run that finds the destination
down, is dry, or is stopped by the mass-delete guard (`owed` in `Plan`); a play whose request was given up, lost by a
restart or taken for a duplicate by Trakt (`lost`, `twice`), and one stopped between 80 % and the threshold, of which Trakt is told nothing
(`Unsent`); what mappings manage after overlapping or interrupted runs (`whole`); an item whose baseline a request
saves after a run has read its list and before the run loads the baselines (`crossed`).

Mass delete. In the models of syncs the guard is there and the runs leave it off, as the default
configuration does. `Playlists` has it on for one of its setups.

Fairness. The `FairSpec`s of the syncs assume that runs go on being started (the scheduler's loop) and
that a run's next step is taken (provider calls have timeouts and are retried three
times); nothing is assumed of users, faults or the clock, and a fault budget
makes them end. `OneWaySync` also needs time to pass between runs (`SF` of `Tick`, since it is enabled between runs only): an item in the
blackbox is kept out of plans until its cooldown is over. `FairSchedSpec` assumes that threads go on: the scheduler's, each worker's, and those holding
the lock. `EventuallyHandled` needs runs to end, which `WF` of `RunSteps`
says. Schedules in which two jobs follow each other are outside these runs: they are never run. In
`KodiScrobble` the watcher goes on polling and the worker delivering; in `PlaylistMappings` syncs go on being started and no thread
stops within a run, while users need not run anything.

### Disagreements between the code and its documentation

Each is a run that TLC finds violated, checking one property that restates a documented promise.

| Run | Promise | What the code does |
|---|---|---|
| `RunsCancel` | cancel requested; the run stops (`syncAPI.py:2530`) | the starting worker clears the flag after the run can be cancelled |
| `SchedBatch` | remaining jobs are skipped (`scheduling.py:1405`) | the job already waiting is started |
| `KodiNext` | the watched threshold is the progress "that counts an item as watched" (`assets/js/scrobbler.js:243`) | when the player goes on to another item, its progress completes the session of the first, and Trakt records an item that was left before |

Also seen while modelling, built into the models as the code has it, and not the subject of a run:

* `include_observed_deletes=False` is to skip observed deletes (`config_base.py:665`); what the other side's snapshot lacks (`shrinkA/B`, `_pairs_twoway.py:1631`) is removed all the same;
* a dry run is to perform no writes (`config_base.py:660`); it saves tombstones (`_pairs_twoway.py:679`) and baselines (`:2480`), after which a real run may find no trace of a deletion;
* a change of the schedule is to be looked at when a wait is interrupted (`scheduling.py:1422`); `_sleep_or_poke` clears the event (`:1766`) before it is tested (`:1420`);
* a run with several pairs: a crash after the first pair has saved the shared baseline undoes a deletion, which the second pair copies back (`HeadDeletionSticks` holds without faults);
* the first run of a mirror of ratings, with no baseline of the destination yet, removes everything the source lacks (`MirrorRemovals`);
* a tombstone of a rating blocks a re-rating whose source reports no date (`Blocked`, `Dated`);
* a request to Trakt whose answer is lost is repeated and answered 409, after which the play is recorded at Trakt and nowhere in the application (`LocalFollowsTrakt` is an inequality);
* a resume that is queued while its pause waits is dropped as a repeated start, and Trakt goes on showing the session as paused (`trakt/sink.py:954`);
* two runs of playlist mappings that overlap lose entries of the state file or bring old ones back; a run that raises after adding leaves items no mapping will take off (`ManagedIsPut` asks for `whole`);
* the adds of a batch that a cancelled run never tried count as failed writes (`_pairs_twoway.py:2133`);
* the watchlist never consults the blocklist (`_pairs_twoway.py:1684`), and removals of blackboxed items are
  not blocked for any feature, whatever `block_adds` and `block_removes` say;
* a run reads both lists first and the stored baselines after (`_pairs_twoway.py:455`, `:486`): what the editor sends and merges into a baseline in between
  is on the baseline and not in the snapshot, looks deleted, and is taken off the other side (`crossed`);
* an item removed on the watchlist page from one provider only, or while another fails, is popped from the stored baseline, so the next run finds no trace of a deletion and copies it back;
  so it does when the request's save comes after the commit of a run that had seen the item;
* the save of a removal writes back the baselines of all providers as loaded (`services/watchlist.py:68`), over what others have saved since; what this brings back is old and was deleted by a user (`AppEvidence`), but an item added again after it may be taken for deleted (`FreshAddKept` asks for removals with nothing else going on);
* when a provider only counts, the editor takes the first items of the batch for those that arrived (`editorAPI.py:1314`);
* with `verify_after_write` the whole batch is credited without a look at the destination (`_pairs_oneway.py:117`);
* jobs skipped because of a cancellation are started by the next pass, as nothing marks them done (`scheduling.py:1407`).

## 4. What is proved

The theorems hold for any sets of items, callers, jobs, any bounds, and every setting
not mentioned, from the constants' assumptions stated in the modules.

**`TwoWaySync_proofs`.** `TypeCorrect`: `Spec => []TypeOK`. `EvidenceInvariant`,
`RemovalsAreCopies` and `BaselineEvidence` assume `Truthful` (providers report keys or a plain count, no
empty snapshots, `verify_after_write` off), the very hypotheses under which the runs check them. The argument:
"no removal without a user's deletion" is not inductive, since a removal is planned from a
baseline saved by an earlier run, and retried from a pending record of one long gone. The inductive invariant
`DeletionEvidence` says that every place where a run can look for a reason to remove (a baseline
key missing from a snapshot, a tombstone, a pending removal, the plan itself) holds only keys a user deleted
or that are still there. Its heart is a lemma about the applier: a key credited
as added was written, whichever way the provider reports, because an incomplete plain
count has a positive "skipped" and is ambiguous (finite-set cardinalities).

In the same module, `ListsAreShared`: told the truth, the two-way sync implements `SharedList`. That removals are withdrawals
is `DeletionEvidence`; that adds are copies needs `CopiesInvariant` (`AddsAreCopies`), since the other list may have
changed between planning an add and writing it. With both, each action is matched with the step of `SharedList` it
takes; a write that raises half-way is a withdrawal or a copy of the part done.

`CleanRuns` (with adds and mass deletes allowed) says that a run nothing disturbs converges, whatever earlier runs left behind and
however providers report. `CalmRun` follows such a run: what it knows is what is on the lists, and it aims at the same list
on both sides (`AimsAgree`, where `Aim(s)` is what side `s` will hold); a plan carried out is
spent (`PlanSpent`, the theorem `SpentInvariant`). `FreshAddsSafe` (same settings) rests on `FaultlessRun`: as long
as no fault has happened, the two sides' baselines are one list, no removal is left over, and a run removes nothing the baseline does not hold. `NothingResurrected`
assumes `Honest` faults (no dry runs, no empty snapshots; removals and mass deletes allowed), but any report mode, `verify_after_write`
or not, observed deletes or not. Its invariant `DeletionsKnown` says of each item lost on a side why no run can mistake it for a fresh add on the other:
the side's baseline still holds it, or its removal from the other side is recorded as unresolved, or the other side and the run's snapshot of it do not have it
(`LostKnown`); and what a run has planned will leave the next one knowing as much (`PlanKnows`).

**`Applier_proofs`.** What is credited lies in the batch; a provider that names keys is credited with nothing it has not
written (`ExactAdd`); a batch done in full is credited in full, two chunks of it together as well (`Told`, `Whole`). These are the facts about `Applier` the
proofs of the syncs share. They need no induction, as batches are sets.

**`PairChain_proofs`.** `ChainTypeCorrect`, `ChainEvidenceInvariant`, `ChainIsShared`, for any sequence of pairs over any
providers, a pair of a provider with itself included. The inductive invariant is `ChainEvidence` and that an idle runner holds no
snapshots (`Evidence`). It is proved for any set that counts as deleted and only grows. The point of it is the clause on `base` and `prev`: a baseline loaded before an earlier pair
of the run worked is old, yet whatever it holds is still on the list or was deleted by a user.

`HeadDeletionStays`: `HeadDeletionSticks` for lines of pairs of any length. It assumes `HeadsOfLines` (wherever a provider takes part in the
first pair alone, the pairs are a line that starts with it), which TLC evaluates on the topologies of the run. The deletion is followed on its way along the line
(`Passes`): wherever the next provider still has the item, the baseline its pair goes by tells that this one had it (`Recalls`); a run
either knows that all had the item, having loaded their baselines before, or began after the deletion and takes the item off as it goes along (`RidOf`). What a pair has planned is never
half done at its commit (`PlanShape`, `PairKnows`), as without faults a batch is done and accounted for in full.
Two things came out of this proof. First, that an item is in step (`InStep`) has to include what the run has *loaded*. In a line P-Q-R-S an item
may come to Q in a run that loaded the baselines before; when the users of P and Q then delete it while the run goes on, it looks new on R to that run,
which adds it back to Q. The run's three providers do not show this. Second, the line: with pairs P-Q, P-R, P-S, deletions at Q and S during the sync of P-Q
are undone by the next run, because P-S takes the item off P, and saves P's baseline without it, when P-R has already left it on R.

**`AppRequests_proofs`.** `AppTypeCorrect` and `AppEvidenceInvariant`, for any number of threads and requests beside the runs of any
chain of pairs. The lemmas of `PairChain_proofs` are used with `Blamed` for what counts as deleted, so only the steps of requests are new:
they write the stores while a run is at any point (`EvidenceStores`). What makes it inductive is that a request's copy of the baselines, however
old, tells deletions only (`Tells`), that a torn save mixes two states that do, and that an import is of one provider.

`RunsAgreeBesideRequests` needs no invariant: whatever the stores hold, the two halves of a plan fit (`PlanAgrees`); the only step
that plans is `Plan`. `PurgedItemsStayAddable` is the same evidence read the other way round: let *everything* count as deleted but the purged items
(`Excused`), and no plan may touch those. The lemmas about `Evidence` are used a third time; new is the moment a removal is
answered, when its item ceases to count. Then nothing stored may tell of it (`Nowhere`), which needs an account of the undisturbed removal in progress:
where the item is stored it is in what the request holds or still to be saved, and where the request holds it the provider is still to be called
(`Emptying`); that nothing else is going on (`AloneQuiet`); that a list with entries is a block the request writes back (`BlocksStored`); and
that no removal is about a purged item (`Apart`).

**`OneWaySync_proofs`.** `OneWayTypeCorrect`, `OneWayEvidence`, `OwnItemsStay`, `OnlySourceDeletions`, with no assumption about what the
destination answers, for any chunk size and all kinds of faults. `RemovalEvidence` is not inductive: it allows a key that
the source and its baseline have to have been missing when the source was read, without ever having been deleted.
`ReadTellsDeletions` forbids that for the time between reading and committing (`SourceEvidence` is both).

`OwedDeletionsRemembered` is the converse: evidence is not lost either. An owed deletion is written down in the source's baseline as long as no run
has seen it, as a pending removal once one has, or in the plan of the run about to carry it out (`OwedTraced`), and plans fit what was
read (`PlanFits`). `CleanRunsCopy` follows an undisturbed run to its commit: what it has read is still so, and what it has not copied yet is in its
plan or quarantined (`CalmRun`); nothing is cancelled between two runs (`NothingToCancel`).

**`PlaylistMappings_proofs`.** `PlaylistsTypeCorrect` and `MappingsRemoveTheirOwn`, for any number of threads over the one state file,
though each of them may write back what others have replaced since, and a reader may find the file empty. The inductive invariant
`OwnEvidence` says it of every copy: of the file, of what each thread has loaded, kept, added and is about to save, and that
an idle thread holds nothing. It survives lost updates, because an old state of the file is as own as a new one.

`StateFileIsTrue`: as long as runs neither overlap nor are cut short, the state file is exact, not just own. The invariant (`Account`)
says where the account of each mapping is found at each step of the one run at work (`Accounted`): in the file; in what the run
has kept and added, for the mapping it works on; in what it is about to save.

**`KodiScrobble_proofs`.** `KodiTypes`, `RecordedPlaysWereWatched`, `LocalRecordsFollow`, `NeverBack`, for any items, thresholds
and faults. None of the three is inductive: Trakt's record of a play is the end of a way through watcher, sink, queue and worker. The
invariant puts the conditions on every station of it. Sessions are numbered (`Numbered`); every request on its way is sound: its session was
begun, and one that is to be recorded tells of a session that is over, at a point that was seen (`InLine`); requests stand in the order of their sessions, a
session's stop last (`InOrder`); and an end that waits is not recorded yet, the one in delivery at most by an attempt whose answer was lost, in which
case its item is among those Trakt takes for duplicates (`Counted`).

**`SyncRuns_proofs`.** `RunsTypeCorrect`, `MutualExclusion`, `LatestIsKnown`, `NoOldCancel`. Mutual
exclusion is not inductive: `RunIsKnown` strengthens it to "the worker alive is the latest run, and it is
registered or the lock is held". `NoOldCancel` rests on `TargetIsNew`: past its first
step a worker sees a target only if cancel was pressed since its start; a request counts for the latest run,
which by `RunIsKnown` is the one alive, so neither colliding ids nor wildcards matter.
The module extends `AdvancedScheduler`: `SchedulerImplementsRuns` says that every step of the scheduler and its users is a step of
`SyncRuns` or leaves its variables alone; hence `ScheduledRunsAreSafe`.

`SchedTypeCorrect`, `PredecessorsComeFirst`, `StepsStartOnce`, `NoJobIsPutOff`, for any jobs, workflows and edits. The invariant
(`SchedInv`) relates what is left of a pass to what was started: what is left was not started (`LeftIsNew`), and each step of a
workflow has the previous one before it or started (`LeftInOrder`); whatever was started counts as handled, or is in hand, or the
schedule was changed (`StartedIsHandled`). The last case is why a pass that an edit interrupts between two steps of a workflow
does not start the first again: the next pass counts all units as handled. `PredecessorsComeFirst` needs no order of the
jobs: `BatchIsDue` and the check before each job suffice. The order is what `NoJobIsPutOff` is about: unless
jobs follow one another in a circle (`Acyclic`; with a circle the property is false, as the code then appends what is left),
each job comes behind the one it follows. `_topo_order` repeats sweeps over a list, so this is an induction over the
numbers of sweeps and of jobs looked at. It is done with sets: a set of numbers with 0 and closed under successors up to N has
all of 0..N (`UpTo`), because otherwise the least one missing (`LeastNumber`, from the library's `WFMin`) has a predecessor; `Iteration`
shows that the functions by which `Sweep` and `TopoOrder` are defined exist. A sweep brings out every job that is ready
(`SweepInOrder`), without a circle one always is (`OneIsReady`), so n sweeps are enough for n jobs (`TopoOrderOrders`).

Only model-checked: all liveness (TLAPS has no rules for fairness and `ENABLED` here). Of the two properties that contain both,
`ImplementsSharedList` and `ChainImplementsSharedList`, the safety part is proved (`ListsAreShared`, `ChainIsShared`).

## 5. Not modelled, and the plan

Not modelled, with the reasons in `PROJECT.json`: provider adapters (network and parsing; external actions stand for them), identifiers
and anime mapping (data), user interface, authentication, events and metadata (no sync depends on them).

Plan, in this order:

1. Snapshot guard and mass delete: `coerce_suspect_snapshot` with checkpoints, and the guard against expiring tombstones.
2. `Blackbox` and `Unresolved` stores in full: scopes, reasons, ages; crash between their writes.
3. History and progress in `OneWaySync` and `TwoWaySync`: differences with times, rewatches, completion as pure operators against reference definitions.
4. Playlist mappings with rulesets and order; deletion of mappings while they run.
5. Standard mode of the scheduler, captures and backups, event rules, stop and restart.
6. The other watchers, webhooks and sinks beside `KodiScrobble`; several players at a time.
7. Accounts, profiles and the scopes of removals in `AppRequests`; migration of the local database; restore of captures.

## 6. Running

In this directory: `tlc -workers 2 -config TwoWayFaults.cfg MCTwoWaySync` checks one run, `tlapm TwoWaySync_proofs.tla` the
proofs of a module.
