---------------------------- MODULE KodiScrobble ----------------------------
(***************************************************************************)
(* From a Kodi player to Trakt: the watcher polls the player over JSON-RPC *)
(* (providers/scrobble/kodi/watch.py), turns what it sees into start,      *)
(* pause and stop events of a session, the Dispatcher drops repetitions    *)
(* (scrobble.py), and the sink decides what Trakt is told                  *)
(* (trakt/sink.py).  A worker thread delivers the requests one by one,     *)
(* with retries; starts of a session that wait for it are merged.          *)
(*                                                                         *)
(* Not modelled: several video players at a time, filters (users, paths,   *)
(* live and other media are no sessions), alternative request bodies after *)
(* a 404, missing credentials, the "currently watching" display.  While    *)
(* Kodi cannot be reached the watcher just does not poll.                  *)
(***************************************************************************)
EXTENDS Integers, Sequences, FiniteSets

CONSTANTS
    Items,              \* what can be played
    Points,             \* bound: the percentages at which the player can be seen
    WatchedAt,          \* scrobble.trakt.watched_at
    ProgressStep,       \* scrobble.trakt.progress_step
    SuppressStartAt,    \* scrobble.watch.suppress_start_at
    Tries,              \* attempts of one request (_send_http)
    Faults,             \* kinds of fault that may happen
    MaxFaults,          \* bound: number of faults in a behaviour
    MaxMoves            \* bound: what the viewer does in a behaviour

None == "none"
HistoryCutoff == 80     \* _trakt_decision; Trakt's own threshold as well

ASSUME KodiPointsAssumption == Points \subseteq 0..100 /\ 0 \in Points /\ None \notin Items
ASSUME KodiNumbersAssumption ==
    /\ WatchedAt \in HistoryCutoff..100 /\ ProgressStep \in 10..25
    /\ SuppressStartAt \in 0..100 /\ Tries \in Nat \ {0}
    /\ MaxFaults \in Nat /\ MaxMoves \in Nat
ASSUME KodiFaultsAssumption == Faults \subseteq {"unreachable", "answer lost", "refused", "restart"}

VARIABLES
    item, at, playing,  \* the player: its item, the percentage played, the speed
    \* the watcher
    wpc,                \* next call: "players", "item" or "props"
    got,                \* the item read for a new session
    empty,              \* _empty_success_polls (counted to 2)
    sess,               \* its session, with what Dispatcher and sink keep of it
    \* the sink and its worker
    aSess,              \* _a_sess: the last action delivered or held, by session
    pending,            \* _pending_starts: the start that waits under a key
    queue,              \* what the worker has to deliver, starts as tokens
    job, tried,         \* the request in delivery and the attempts made
    \* Trakt
    shown,              \* the session Trakt heard of last, and what
    recent,             \* items recorded within the hour: 409 for the next time
    \* history: not in the code, read by the properties only
    born,               \* sessions there have been: they are numbered
    itemOf, seen,       \* the item of a session, its last progress polled
    records, local,     \* by session: plays recorded by Trakt, by the application
    lost,               \* sessions of which a request was given up or forgotten
    twice,              \* sessions whose end Trakt took for a duplicate
    peak,               \* how far each item has really been played
    sure,               \* sessions whose item played when they were created
    \* bounds
    moves, faults

numbered == <<born, itemOf, seen, sure>>
player == <<item, at, playing, peak, moves>>
watcher == <<wpc, got, empty, sess, numbered>>
sink == <<aSess, pending, queue>>
worker == <<job, tried, shown, recent, records, local, lost, twice>>
vars == <<player, watcher, sink, worker, faults>>

Sessions == 1..(MaxMoves + MaxFaults)       \* each takes a move or a restart
NoSession == [id |-> 0]
NoJob == [act |-> None]
Requests == [act : {"start", "pause", "stop"}, id : Sessions, p : 0..100, watched : BOOLEAN]
Tokens == [act : {"token"}, key : Sessions]
Fault(kind) == kind \in Faults /\ faults < MaxFaults /\ faults' = faults + 1
Larger(i, j) == IF i > j THEN i ELSE j
Distance(i, j) == IF i > j THEN i - j ELSE j - i

Init ==
    /\ item = None /\ at = 0 /\ playing = FALSE /\ peak = [i \in Items |-> 0]
    /\ wpc = "players" /\ got = None /\ empty = 0 /\ sess = NoSession
    /\ aSess = [n \in Sessions |-> None] /\ pending = [n \in Sessions |-> NoJob] /\ queue = <<>>
    /\ job = NoJob /\ tried = 0 /\ shown = <<0, None>> /\ recent = {}
    /\ born = 0 /\ itemOf = [n \in Sessions |-> None] /\ seen = [n \in Sessions |-> 0]
    /\ records = [n \in Sessions |-> 0] /\ local = [n \in Sessions |-> 0]
    /\ lost = {} /\ twice = {} /\ sure = {}
    /\ moves = 0 /\ faults = 0

-----------------------------------------------------------------------------
(* The viewer *)

Player(i, p, on) ==
    /\ moves < MaxMoves /\ moves' = moves + 1
    /\ item' = i /\ at' = p /\ playing' = on
    /\ peak' = IF i = None THEN peak ELSE [peak EXCEPT ![i] = Larger(@, p)]
    /\ UNCHANGED <<watcher, sink, worker, faults>>

Play(i, p) == item = None /\ Player(i, p, TRUE)
PlayNext(i) == item # None /\ i # item /\ Player(i, 0, TRUE)    \* without a gap
MoveTo(p) == item # None /\ p # at /\ Player(item, p, playing)
PauseOrResume == item # None /\ Player(item, at, ~playing)
StopPlaying == item # None /\ Player(None, 0, FALSE)

-----------------------------------------------------------------------------
(* Dispatcher and sink *)

\* _should_send for the session s; soon: within pause_debounce_seconds of a pause
ShouldSend(s, act, p, soon) ==
    LET last == IF s.sentP = 0 THEN -1 ELSE s.sentP
    IN  /\ ~(act = "start" /\ s.sentP >= SuppressStartAt /\ p >= SuppressStartAt)
        /\ act # s.sentAct \/ Distance(p, last) >= 1
        /\ ~(act = "pause" /\ s.sentAct = "pause" /\ soon)

\* _trakt_decision: which request an event is worth.  Trakt would take a pause
\* or a stop near the end for a completed play.  The mutants let a late pause
\* through, and add two percent to a start instead of raising it to two.
DecidedPathMutant(act, p) ==
    CASE act = "start" -> "start"
      [] p < 1 -> None
      [] p < HistoryCutoff -> "stop"
      [] p >= WatchedAt -> "stop"
      [] OTHER -> None
DecidedPath(act, p) ==
    CASE act = "start" -> "start"
      [] p < 1 -> None
      [] p < HistoryCutoff -> "stop"
      [] act = "stop" /\ p >= WatchedAt -> "stop"
      [] OTHER -> None
DecidedProgressMutant(act, p) == IF act = "start" THEN p + 2 ELSE p
DecidedProgress(act, p) == IF act = "start" THEN Larger(2, p) ELSE p
DecidedWatched(act, p) == act = "stop" /\ p >= WatchedAt

\* send drops a start that tells Trakt nothing new, and a pause soon after one
\* (_debounced); the mutant forgets that each action has a clock of its own.
RepeatedStart(s, act, p, seek) ==
    /\ act = "start" /\ ~seek /\ aSess[s.id] = "start"
    /\ s.decided >= 0 /\ Distance(DecidedProgress(act, p), s.decided) < ProgressStep
DebouncedMutant(s, act, soon) == act # "start" /\ s.paused /\ soon
Debounced(s, act, soon) == act = "pause" /\ s.paused /\ soon

\* coalesce_key; the mutant merges the starts of all sessions with an item.
CoalesceKeyMutant(n) == CHOOSE k \in Sessions : itemOf'[k] = itemOf'[n]
CoalesceKey(n) == n

\* _enqueue: a start waits under its key, its place in the queue is a token.
Enqueue(n, act, p) ==
    LET new == [act |-> act, id |-> n, p |-> p, watched |-> DecidedWatched(act, p)]
    IN  IF act = "start"
        THEN /\ pending' = [pending EXCEPT ![CoalesceKey(n)] = new]
             /\ queue' = Append(queue, [act |-> "token", key |-> CoalesceKey(n)])
        ELSE queue' = Append(queue, new) /\ UNCHANGED pending

\* TraktSink.send
Send(s, act, p, seek, soon) ==
    IF DecidedPath(act, p) = None
    THEN aSess' = [aSess EXCEPT ![s.id] = act] /\ UNCHANGED <<pending, queue>>
    ELSE /\ IF RepeatedStart(s, act, p, seek) \/ Debounced(s, act, soon)
            THEN UNCHANGED <<pending, queue>>
            ELSE Enqueue(s.id, act, DecidedProgress(act, p))
         /\ UNCHANGED aSess

-----------------------------------------------------------------------------
(* The watcher *)

\* _stop_missing_sessions
StopMissingSessions ==
    /\ sess' = NoSession
    /\ \E soon \in BOOLEAN : Send(sess, "stop", sess.last, FALSE, soon)

\* _tick: without a player a session ends at the second poll, with one the
\* watcher goes on to ask for its item, or for its progress only.
PollPlayers ==
    /\ wpc = "players"
    /\ IF item = None
       THEN /\ empty' = IF empty = 0 THEN 1 ELSE 2
            /\ IF empty' = 2 /\ sess # NoSession
               THEN StopMissingSessions
               ELSE UNCHANGED <<sess, sink>>
            /\ UNCHANGED wpc
       ELSE /\ empty' = 0
            /\ wpc' = IF sess = NoSession THEN "item" ELSE "props"
            /\ UNCHANGED <<sess, sink>>
    /\ UNCHANGED <<player, got, numbered, worker, faults>>

ReadItem ==
    /\ wpc = "item" /\ item # None
    /\ got' = item /\ wpc' = "props"
    /\ UNCHANGED <<player, empty, sess, numbered, sink, worker, faults>>

\* The player is gone between two calls: Kodi answers with an error.
PlayerGone ==
    /\ wpc \in {"item", "props"} /\ item = None
    /\ got' = None /\ wpc' = "players"
    /\ UNCHANGED <<player, empty, sess, numbered, sink, worker, faults>>

CreateSession(n) ==
    [id |-> n, last |-> at, act |-> None, state |-> None, emitted |-> 0,
     sentAct |-> None, sentP |-> -1, decided |-> -1, paused |-> FALSE]

\* The event _maybe_dispatch_progress makes of a poll, if any.
Jump(s) == playing /\ s.state # "paused" /\ s.act = "start"
             /\ Distance(at, s.emitted) >= ProgressStep
Emitted(s) ==
    CASE s.act = None -> "start"
      [] ~playing /\ s.state # "paused" -> "pause"
      [] playing /\ s.state = "paused" -> "start"
      [] Jump(s) -> "start"
      [] OTHER -> None

Observe(s) ==
    LET read == [s EXCEPT !.last = at, !.state = IF playing THEN "playing" ELSE "paused"]
        act == Emitted(s)
        p == IF act = "start" THEN Larger(1, at) ELSE at
    IN  \E soon \in BOOLEAN :
            IF act # None /\ ShouldSend(s, act, p, soon)
            THEN /\ sess' = [read EXCEPT !.act = act, !.emitted = p,
                                         !.sentAct = act, !.sentP = p,
                                         !.decided = DecidedProgress(act, p),
                                         !.paused = @ \/ (act = "pause" /\ DecidedPath(act, p) # None)]
                 /\ Send(s, act, p, Jump(s), soon)
            ELSE sess' = read /\ UNCHANGED sink

\* The progress of the player goes to the session there is, whatever it plays.
ReadProps ==
    /\ wpc = "props" /\ item # None
    /\ wpc' = "players" /\ got' = None
    /\ IF sess = NoSession
       THEN /\ born' = born + 1
            /\ itemOf' = [itemOf EXCEPT ![born'] = got]
            /\ sure' = IF got = item THEN sure \cup {born'} ELSE sure
            /\ Observe(CreateSession(born'))
       ELSE UNCHANGED <<born, itemOf, sure>> /\ Observe(sess)
    /\ seen' = [seen EXCEPT ![sess'.id] = at]
    /\ UNCHANGED <<player, empty, worker, faults>>

-----------------------------------------------------------------------------
(* The worker and Trakt *)

\* _worker_loop: the first token of a session takes the latest start.
TakeJob ==
    /\ job = NoJob /\ queue # <<>>
    /\ queue' = Tail(queue)
    /\ LET head == Head(queue)
       IN  IF head.act = "token"
           THEN job' = pending[head.key] /\ pending' = [pending EXCEPT ![head.key] = NoJob]
           ELSE job' = head /\ UNCHANGED pending
    /\ tried' = 0
    /\ UNCHANGED <<player, watcher, aSess, shown, recent, records, local, lost, twice, faults>>

Completes == job.act # "start" /\ job.p >= HistoryCutoff
Duplicate == Completes /\ itemOf[job.id] \in recent

\* What the request in delivery does at Trakt.
TraktTakes ==
    /\ recent' = IF Completes THEN recent \cup {itemOf[job.id]} ELSE recent
    /\ records' = IF Completes /\ ~Duplicate THEN [records EXCEPT ![job.id] = @ + 1] ELSE records
    /\ twice' = IF Duplicate THEN twice \cup {job.id} ELSE twice
    /\ shown' = IF Duplicate THEN shown ELSE <<job.id, job.act>>

\* A play is recorded locally, and the item removed from watchlists, unless
\* Trakt calls the request a duplicate.
RecordsLocallyMutant == job.watched
RecordsLocally == job.watched /\ ~Duplicate

Delivered ==
    /\ job # NoJob
    /\ TraktTakes
    /\ local' = IF RecordsLocally THEN [local EXCEPT ![job.id] = @ + 1] ELSE local
    /\ aSess' = [aSess EXCEPT ![job.id] = job.act]
    /\ job' = NoJob /\ tried' = 0
    /\ UNCHANGED <<player, watcher, pending, queue, lost, faults>>

\* An attempt failed; after the last one the request is given up.
TryAgain ==
    IF tried + 1 < Tries
    THEN tried' = tried + 1 /\ UNCHANGED <<job, lost>>
    ELSE tried' = 0 /\ job' = NoJob /\ lost' = lost \cup {job.id}

Unreachable ==
    /\ job # NoJob /\ Fault("unreachable")
    /\ TryAgain
    /\ UNCHANGED <<player, watcher, sink, shown, recent, records, local, twice>>

\* Trakt did what it was asked to, the answer timed out: the request is repeated.
AnswerLost ==
    /\ job # NoJob /\ Fault("answer lost")
    /\ TraktTakes /\ TryAgain
    /\ UNCHANGED <<player, watcher, sink, local>>

\* An answer there is no use in repeating: the request is given up at once.
Refused ==
    /\ job # NoJob /\ Fault("refused")
    /\ job' = NoJob /\ tried' = 0 /\ lost' = lost \cup {job.id}
    /\ UNCHANGED <<player, watcher, sink, shown, recent, records, local, twice>>

\* An hour later Trakt records the item again.
Expire(i) ==
    /\ i \in recent /\ job = NoJob
    /\ recent' = recent \ {i}
    /\ UNCHANGED <<player, watcher, sink, job, tried, shown, records, local, lost, twice, faults>>

Waiting ==
    ({job} \cup {pending[n] : n \in Sessions} \cup {queue[j] : j \in 1..Len(queue)})
        \cap Requests

\* The process ends and is started again: sessions, queue and counters are gone.
Restart ==
    /\ Fault("restart")
    /\ lost' = lost \cup ({sess.id} \ {0}) \cup {r.id : r \in Waiting}
    /\ wpc' = "players" /\ got' = None /\ empty' = 0 /\ sess' = NoSession
    /\ aSess' = [n \in Sessions |-> None] /\ pending' = [n \in Sessions |-> NoJob]
    /\ queue' = <<>> /\ job' = NoJob /\ tried' = 0
    /\ UNCHANGED <<player, numbered, shown, recent, records, local, twice>>

WatcherStep == PollPlayers \/ ReadItem \/ PlayerGone \/ ReadProps
WorkerStep == TakeJob \/ Delivered

Next ==
    \/ \E i \in Items : PlayNext(i) \/ Expire(i) \/ \E p \in Points : Play(i, p)
    \/ \E p \in Points : MoveTo(p)
    \/ PauseOrResume \/ StopPlaying
    \/ WatcherStep \/ WorkerStep
    \/ Unreachable \/ AnswerLost \/ Refused \/ Restart

Spec == Init /\ [][Next]_vars

\* The two threads loop for ever, and their calls have timeouts.
FairSpec == Spec /\ WF_vars(WatcherStep) /\ WF_vars(WorkerStep)

-----------------------------------------------------------------------------
(* Properties *)

\* Types of all variables.
KodiTypeOK ==
    /\ item \in Items \cup {None} /\ at \in Points /\ playing \in BOOLEAN
    /\ wpc \in {"players", "item", "props"} /\ got \in Items \cup {None} /\ empty \in 0..2
    /\ \/ sess = NoSession
       \/ /\ sess.id = born /\ sess.last \in Points /\ sess.act = sess.sentAct
    /\ aSess \in [Sessions -> {None, "start", "pause", "stop"}]
    /\ pending \in [Sessions -> Requests \cup {NoJob}]
    /\ \A j \in 1..Len(queue) : queue[j] \in Requests \cup Tokens
    /\ job \in Requests \cup {NoJob} /\ tried \in 0..(Tries - 1)
    /\ shown \in (0..born) \X {None, "start", "pause", "stop"}
    /\ recent \subseteq Items /\ born \in 0..Cardinality(Sessions)
    /\ records \in [Sessions -> Nat] /\ local \in [Sessions -> Nat]
    /\ moves \in 0..MaxMoves /\ faults \in 0..MaxFaults

\* Trakt records a play only when its session is over and the watcher's last
\* look at the player was past the threshold: not of one that is paused, or
\* stopped, near the end, whatever is queued, repeated or lost.
RecordedWasWatched ==
    \A n \in Sessions : records[n] > 0 => seen[n] >= WatchedAt /\ sess.id # n

\* A session is recorded at most once, also when requests are repeated, and
\* the application records (and removes from watchlists) nothing Trakt did not
\* record; not a second viewing that Trakt takes for a duplicate either.
LocalFollowsTrakt ==
    \A n \in Sessions : local[n] <= records[n] /\ records[n] <= 1

\* Trakt never goes back: once it has been told of a session it hears nothing
\* of earlier ones any more, and once told of its end, nothing but its end,
\* although starts are merged and overtake what was queued between them, and
\* requests are repeated.
NoStepBack ==
    [][/\ shown'[1] >= shown[1]
       /\ shown'[1] = shown[1] /\ shown[2] = "stop" => shown'[2] = "stop"]_vars

\* Once viewer and faults come to rest: a session ends when the player is
\* empty, a completed one is at Trakt, and Trakt does not go on showing one
\* that is over; except if requests were given up or lost by a restart, if
\* Trakt took the end for a duplicate, or if the end was not worth a request:
\* before the first percent, or past what Trakt completes but short of the
\* threshold.
Unsent(p) == p < 1 \/ p \in HistoryCutoff..(WatchedAt - 1)
Reported ==
    /\ item = None => sess = NoSession
    /\ \A n \in 1..born :
          n # sess.id /\ n \notin lost \cup twice =>
             /\ seen[n] >= WatchedAt => records[n] = 1 /\ local[n] = 1
             /\ shown = <<n, "start">> => Unsent(seen[n])
EventuallyReported == <>[]Reported

\* An item that Trakt records has been played past the threshold, at least
\* when it was playing while the session was created.
RecordedItemsWereWatched ==
    \A n \in sure : records[n] > 0 => peak[itemOf[n]] >= WatchedAt
=============================================================================
