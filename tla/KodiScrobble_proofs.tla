------------------------ MODULE KodiScrobble_proofs ------------------------
(***************************************************************************)
(* Proofs about KodiScrobble: types, what Trakt records, what the          *)
(* application records, and the order in which Trakt hears of sessions,    *)
(* for every set of items and percentages, every threshold, every number   *)
(* of tries, moves and faults.                                             *)
(***************************************************************************)
EXTENDS KodiScrobble, FiniteSetTheorems, TLAPS

USE KodiPointsAssumption, KodiNumbersAssumption

-----------------------------------------------------------------------------
(* The inductive invariant *)

Acts == {None, "start", "pause", "stop"}
SessionRecords ==
    [id : Sessions, last : Points, act : Acts, state : {None, "playing", "paused"},
     emitted : 0..100, sentAct : Acts, sentP : -1..100, decided : -1..100, paused : BOOLEAN]

PlayerTyped ==
    /\ item \in Items \cup {None} /\ at \in Points /\ playing \in BOOLEAN
    /\ moves \in 0..MaxMoves /\ faults \in 0..MaxFaults
WatcherTyped ==
    /\ wpc \in {"players", "item", "props"} /\ got \in Items \cup {None} /\ empty \in 0..2
    /\ sess \in SessionRecords \cup {NoSession} /\ born \in Nat
    /\ itemOf \in [Sessions -> Items \cup {None}] /\ seen \in [Sessions -> Points]
SinkTyped ==
    /\ aSess \in [Sessions -> Acts]
    /\ pending \in [Sessions -> Requests \cup {NoJob}]
    /\ queue \in Seq(Requests \cup Tokens)
WorkerTyped ==
    /\ job \in Requests \cup {NoJob} /\ tried \in 0..(Tries - 1)
    /\ shown \in Nat \X Acts /\ recent \subseteq Items
    /\ records \in [Sessions -> Nat] /\ local \in [Sessions -> Nat]
Typed == PlayerTyped /\ WatcherTyped /\ SinkTyped /\ WorkerTyped

\* Sessions are numbered in the order of their birth, the one there is being
\* the last; each has cost a move of the viewer or a restart.
Numbered ==
    /\ sess # NoSession => sess.id = born /\ sess.act = sess.sentAct /\ seen[born] = sess.last
    /\ wpc = "props" /\ sess = NoSession => got \in Items
    /\ born <= moves + faults
    /\ item # None /\ sess = NoSession => born < moves + faults
    /\ \A n \in 1..born : itemOf[n] \in Items
    /\ \A n \in Sessions : records[n] > 0 => n <= born

\* The session an entry of the queue is about.
Of(e) == IF e.act = "token" THEN e.key ELSE e.id

\* A request is about a session that was born; one that ends a session is about
\* a session that is over, and completes a play only if its last look was past
\* the threshold; a pause never completes one.
Sound(r) ==
    /\ r.id <= born
    /\ r.watched => r.act = "stop" /\ r.p >= WatchedAt
    /\ r.act = "pause" => r.p < HistoryCutoff
    /\ r.act = "stop" => r.id # sess.id
    /\ r.act = "stop" /\ r.p >= HistoryCutoff => seen[r.id] >= WatchedAt

InLine ==
    /\ \A n \in Sessions : pending[n] # NoJob =>
          pending[n].act = "start" /\ pending[n].id = n /\ Sound(pending[n])
    /\ job # NoJob => Sound(job)
    /\ \A j \in 1..Len(queue) :
          IF queue[j].act = "token" THEN queue[j].key <= born
          ELSE queue[j].act # "start" /\ Sound(queue[j])

\* The request act of session n comes before entry j of the queue.
Before(n, act, j) == n <= Of(queue[j]) /\ (act = "stop" => n < Of(queue[j]))

\* What is shown, in delivery and queued is in the order of the sessions, and
\* nothing of a session follows its end.
InOrder ==
    /\ \A i, j \in 1..Len(queue) : i < j => Before(Of(queue[i]), queue[i].act, j)
    /\ job # NoJob => \A j \in 1..Len(queue) : Before(job.id, job.act, j)
    /\ \A j \in 1..Len(queue) : Before(shown[1], shown[2], j)
    /\ job # NoJob => /\ shown[1] <= job.id
                      /\ shown[1] = job.id /\ shown[2] = "stop" => job.act = "stop"
    /\ shown[1] <= born
    /\ shown[2] = "stop" => shown[1] > 0 /\ shown[1] # sess.id

\* The end of a session that waits in the queue is not recorded yet; the one in
\* delivery is recorded at most by an attempt whose answer was lost, and then
\* its item is among the recent ones.
Counted ==
    /\ \A j \in 1..Len(queue) : queue[j].act = "stop" => records[queue[j].id] = 0
    /\ job # NoJob /\ job.act = "stop" =>
          /\ local[job.id] = 0
          /\ records[job.id] = 0 \/ itemOf[job.id] \in recent

-----------------------------------------------------------------------------
(* Records, requests and queues *)

LEMMA SessionsRange ==
    /\ Sessions \subseteq Nat \ {0} /\ IsFiniteSet(Sessions)
    /\ Cardinality(Sessions) = MaxMoves + MaxFaults
<1>1. MaxMoves + MaxFaults \in Nat /\ Sessions = 1..(MaxMoves + MaxFaults)
  BY DEF Sessions
<1> QED BY <1>1, FS_Interval, SMTT(30)

LEMMA NoSessionApart == \A s \in SessionRecords : s # NoSession /\ s.id # 0
BY SessionsRange DEF SessionRecords, NoSession

LEMMA NoJobApart ==
    /\ \A r \in Requests : r # NoJob /\ r.act # "token" /\ r.act # None
    /\ \A e \in Requests \cup Tokens : e.act # "token" => e \in Requests
    /\ \A e \in Requests \cup Tokens : e.act = "token" => e.key \in Sessions
BY DEF Requests, Tokens, NoJob, None

LEMMA RequestIds ==
    \A r \in Requests : /\ r.id \in Sessions /\ r.id \in Nat /\ r.id >= 1
                        /\ r.p \in 0..100 /\ r.act \in {"start", "pause", "stop"}
<1>1. \A n \in Sessions : n \in Nat /\ n >= 1
  BY DEF Sessions
<1>2. \A r \in Requests : /\ r.id \in Sessions /\ r.p \in 0..100
                           /\ r.act \in {"start", "pause", "stop"}
  BY DEF Requests
<1> QED BY <1>1, <1>2

LEMMA Appended ==
    ASSUME NEW S, NEW q \in Seq(S), NEW e \in S
    PROVE  /\ Append(q, e) \in Seq(S) /\ Len(Append(q, e)) = Len(q) + 1
           /\ \A j \in 1..(Len(q) + 1) :
                 Append(q, e)[j] = IF j = Len(q) + 1 THEN e ELSE q[j]
OBVIOUS

LEMMA Shifted ==
    ASSUME NEW S, NEW q \in Seq(S), q # <<>>
    PROVE  /\ Tail(q) \in Seq(S) /\ Len(Tail(q)) = Len(q) - 1 /\ Len(q) >= 1
           /\ Head(q) = q[1] /\ Head(q) \in S
           /\ \A j \in 1..(Len(q) - 1) : Tail(q)[j] = q[j + 1]
OBVIOUS

\* What Dispatcher and sink make of an event, if anything: a request with these
\* limits on its progress.
Entry(n, act, p) == [act |-> act, id |-> n, p |-> p, watched |-> DecidedWatched(act, p)]

LEMMA EntryType ==
    ASSUME NEW n \in Sessions, NEW act \in {"start", "pause", "stop"}, NEW p \in 0..100
    PROVE  Entry(n, act, p) \in Requests
BY DEF Entry, Requests, DecidedWatched

Enqueued(n, act, p) ==
    /\ p \in 0..100
    /\ act = "pause" => p < HistoryCutoff
    /\ act = "stop" => p < HistoryCutoff \/ p >= WatchedAt
    /\ IF act = "start"
       THEN /\ pending' = [pending EXCEPT ![n] = Entry(n, act, p)]
            /\ queue' = Append(queue, [act |-> "token", key |-> n])
       ELSE queue' = Append(queue, Entry(n, act, p)) /\ UNCHANGED pending

LEMMA SendEffect ==
    ASSUME SinkTyped, NEW s, s.id \in Sessions, NEW act \in {"start", "pause", "stop"},
           NEW p \in 0..100, NEW seek, NEW soon, Send(s, act, p, seek, soon)
    PROVE  /\ aSess' \in [Sessions -> Acts]
           /\ \/ UNCHANGED <<pending, queue>>
              \/ \E q \in 0..100 : Enqueued(s.id, act, q) /\ (act = "stop" => q = p)
<1>1. aSess' \in [Sessions -> Acts]
  BY DEF SinkTyped, Send, Acts
<1>2. CASE UNCHANGED <<pending, queue>>
  BY <1>1, <1>2
<1>3. CASE ~UNCHANGED <<pending, queue>>
  <2> DEFINE q == DecidedProgress(act, p)
  <2>1. DecidedPath(act, p) # None /\ Enqueue(s.id, act, q)
    BY <1>3 DEF Send
  <2>2. q \in 0..100 /\ (act # "start" => q = p)
    BY DEF DecidedProgress, Larger
  <2>3. act = "pause" => p < HistoryCutoff
    BY <2>1 DEF DecidedPath
  <2>4. act = "stop" => p < HistoryCutoff \/ p >= WatchedAt
    BY <2>1 DEF DecidedPath
  <2>5. Enqueued(s.id, act, q)
    BY <2>1, <2>2, <2>3, <2>4 DEF Enqueued, Enqueue, Entry, CoalesceKey
  <2> QED BY <1>1, <2>2, <2>5
<1> QED BY <1>2, <1>3

LEMMA EnqueuedType ==
    ASSUME SinkTyped, NEW n \in Sessions, NEW act \in {"start", "pause", "stop"},
           NEW p, Enqueued(n, act, p)
    PROVE  /\ pending' \in [Sessions -> Requests \cup {NoJob}]
           /\ queue' \in Seq(Requests \cup Tokens)
<1>1. Entry(n, act, p) \in Requests /\ [act |-> "token", key |-> n] \in Tokens
  BY EntryType DEF Enqueued, Tokens
<1> DEFINE new == Entry(n, act, p)
           token == [act |-> "token", key |-> n]
<1>2. /\ pending' = pending \/ pending' = [pending EXCEPT ![n] = new]
      /\ queue' = Append(queue, new) \/ queue' = Append(queue, token)
  BY DEF Enqueued
<1>3. pending \in [Sessions -> Requests \cup {NoJob}] /\ queue \in Seq(Requests \cup Tokens)
  BY DEF SinkTyped
<1> HIDE DEF new, token
<1>4. new \in Requests /\ token \in Tokens
  BY <1>1 DEF new, token
<1>5. pending' \in [Sessions -> Requests \cup {NoJob}]
  BY <1>2, <1>3, <1>4
<1>6. queue' \in Seq(Requests \cup Tokens)
  BY <1>2, <1>3, <1>4
<1> QED BY <1>5, <1>6

\* A poll of the progress: the session goes on with what was read, and at most
\* one event of it is enqueued.
LEMMA ObserveEffect ==
    ASSUME SinkTyped, at \in Points, playing \in BOOLEAN,
           NEW s \in SessionRecords, s.act = s.sentAct, Observe(s)
    PROVE  /\ sess' \in SessionRecords /\ sess'.id = s.id /\ sess'.last = at
           /\ sess'.act = sess'.sentAct /\ aSess' \in [Sessions -> Acts]
           /\ \/ UNCHANGED <<pending, queue>>
              \/ \E act \in {"start", "pause"}, q \in 0..100 : Enqueued(s.id, act, q)
<1> DEFINE read == [s EXCEPT !.last = at, !.state = IF playing THEN "playing" ELSE "paused"]
           act == Emitted(s)
           p == IF act = "start" THEN Larger(1, at) ELSE at
<1>1. act \in {None, "start", "pause"} /\ p \in 0..100 /\ s.id \in Sessions
  BY DEF Emitted, Larger, SessionRecords
<1>2. /\ read \in SessionRecords /\ read.id = s.id /\ read.last = at
      /\ read.act = s.act /\ read.sentAct = s.sentAct
  BY ZenonT(60) DEF SessionRecords
<1>3. CASE sess' = read /\ UNCHANGED sink
  BY <1>2, <1>3 DEF sink, SinkTyped
<1>4. ASSUME NEW soon \in BOOLEAN, act # None,
             sess' = [read EXCEPT !.act = act, !.emitted = p,
                                  !.sentAct = act, !.sentP = p,
                                  !.decided = DecidedProgress(act, p),
                                  !.paused = @ \/ (act = "pause" /\ DecidedPath(act, p) # None)],
             Send(s, act, p, Jump(s), soon)
      PROVE  /\ sess' \in SessionRecords /\ sess'.id = s.id /\ sess'.last = at
             /\ sess'.act = sess'.sentAct /\ aSess' \in [Sessions -> Acts]
             /\ \/ UNCHANGED <<pending, queue>>
                \/ \E a \in {"start", "pause"}, q \in 0..100 : Enqueued(s.id, a, q)
  <2>1. act \in {"start", "pause"}
    BY <1>1, <1>4
  <2>2. DecidedProgress(act, p) \in -1..100
    BY <1>1 DEF DecidedProgress, Larger
  <2> HIDE DEF act, p
  <2>3. /\ aSess' \in [Sessions -> Acts]
        /\ \/ UNCHANGED <<pending, queue>>
           \/ \E q \in 0..100 : Enqueued(s.id, act, q)
    <3>1. PICK seek : Send(s, act, p, seek, soon)
      BY <1>4, Zenon
    <3>2. PICK a \in {"start", "pause"}, d \in 0..100 : a = act /\ d = p
      BY <1>1, <2>1
    <3>3. Send(s, a, d, seek, soon)
      BY <3>1, <3>2
    <3>4. s.id \in Sessions /\ a \in {"start", "pause", "stop"} /\ d \in 0..100
      BY <1>1
    <3>5. /\ aSess' \in [Sessions -> Acts]
          /\ \/ UNCHANGED <<pending, queue>>
             \/ \E q \in 0..100 : Enqueued(s.id, a, q) /\ (a = "stop" => q = d)
      BY <3>3, <3>4, SendEffect, ZenonT(60)
    <3> QED BY <3>2, <3>5
  <2>4. /\ sess'.id = read.id /\ sess'.last = read.last /\ sess'.act = act /\ sess'.sentAct = act
    BY <1>2, <1>4 DEF SessionRecords
  <2>5. sess' \in SessionRecords
    <3>1. act \in Acts /\ p \in -1..100
      BY <1>1, <2>1 DEF Acts
    <3> DEFINE late == read.paused \/ (act = "pause" /\ DecidedPath(act, p) # None)
               d == DecidedProgress(act, p)
    <3>2. late \in BOOLEAN
      OBVIOUS
    <3>3. sess' = [read EXCEPT !.act = act, !.emitted = p, !.sentAct = act, !.sentP = p,
                               !.decided = d, !.paused = late]
      BY <1>4
    <3> HIDE DEF read, late, d
    <3>4. d \in -1..100
      BY <2>2 DEF d
    <3> QED BY <1>1, <1>2, <3>1, <3>2, <3>3, <3>4 DEF SessionRecords
  <2> QED BY <1>2, <2>1, <2>3, <2>4, <2>5
<1>5. \E soon \in BOOLEAN :
         \/ sess' = read /\ UNCHANGED sink
         \/ /\ act # None
            /\ sess' = [read EXCEPT !.act = act, !.emitted = p,
                                    !.sentAct = act, !.sentP = p,
                                    !.decided = DecidedProgress(act, p),
                                    !.paused = @ \/ (act = "pause" /\ DecidedPath(act, p) # None)]
            /\ Send(s, act, p, Jump(s), soon)
  BY DEF Observe
<1> QED BY <1>3, <1>4, <1>5

-----------------------------------------------------------------------------
(* All parts are inductive together *)

Line == InLine /\ InOrder /\ Counted
Plays == RecordedWasWatched /\ LocalFollowsTrakt
KodiInv == Typed /\ Numbered /\ Line /\ Plays

LEMMA KodiInit == Init => KodiInv
<1> SUFFICES ASSUME Init PROVE KodiInv
  OBVIOUS
<1>1. Typed
  <2>1. 0 \in 0..MaxMoves /\ 0 \in 0..MaxFaults /\ 0 \in 0..(Tries - 1) /\ 0 \in 0..2
    OBVIOUS
  <2>2. PlayerTyped
    BY <2>1 DEF Init, PlayerTyped
  <2>3. WatcherTyped
    BY <2>1 DEF Init, WatcherTyped
  <2>4. SinkTyped
    BY DEF Init, SinkTyped, Acts
  <2>5. WorkerTyped
    BY <2>1 DEF Init, WorkerTyped, Acts
  <2> QED BY <2>2, <2>3, <2>4, <2>5 DEF Typed
<1>2. Numbered
  BY DEF Init, Numbered
<1>3. Len(queue) = 0 /\ job = NoJob /\ \A n \in Sessions : pending[n] = NoJob
  BY DEF Init
<1>4. InLine
  BY <1>3 DEF InLine
<1>5. shown[1] = 0 /\ shown[2] = None /\ born = 0
  BY DEF Init
<1>6. InOrder
  BY <1>3, <1>5 DEF InOrder, None
<1>7. Counted
  BY <1>3 DEF Counted
<1>8. Plays
  BY DEF Init, Plays, RecordedWasWatched, LocalFollowsTrakt
<1> QED BY <1>1, <1>2, <1>4, <1>6, <1>7, <1>8 DEF KodiInv, Line

\* Steps that leave line and plays alone.
LEMMA LineKept ==
    ASSUME KodiInv, UNCHANGED <<sess, born, seen, itemOf, pending, queue, job, shown, recent,
                                records, local>>
    PROVE  Line' /\ Plays'
<1>1. InLine'
  BY DEF KodiInv, Line, InLine, Sound
<1>2. InOrder'
  BY DEF KodiInv, Line, InOrder, Before
<1>3. Counted'
  BY DEF KodiInv, Line, Counted
<1>4. Plays'
  BY DEF KodiInv, Plays, RecordedWasWatched, LocalFollowsTrakt
<1> QED BY <1>1, <1>2, <1>3, <1>4 DEF Line

LEMMA KodiFault ==
    ASSUME faults \in 0..MaxFaults, NEW kind, Fault(kind)
    PROVE  faults' \in 0..MaxFaults /\ faults' = faults + 1
BY DEF Fault

\* Steps of the viewer, and those by which the watcher learns nothing new.
LEMMA InvPlayer ==
    ASSUME KodiInv, NEW i \in Items \cup {None}, NEW p \in Points, NEW on \in BOOLEAN,
           Player(i, p, on)
    PROVE  KodiInv'
<1>1. PlayerTyped' /\ moves' = moves + 1
  BY DEF KodiInv, Typed, PlayerTyped, Player
<1>2. UNCHANGED <<watcher, sink, worker, faults>>
  BY DEF Player
<1>3. WatcherTyped' /\ SinkTyped' /\ WorkerTyped'
  BY <1>2 DEF KodiInv, Typed, WatcherTyped, SinkTyped, WorkerTyped, watcher, numbered, sink, worker
<1>4. Numbered'
  BY <1>1, <1>2 DEF KodiInv, Typed, PlayerTyped, WatcherTyped, Numbered, watcher, numbered, worker
<1>5. Line' /\ Plays'
  BY <1>2, LineKept DEF watcher, numbered, sink, worker
<1> QED BY <1>1, <1>3, <1>4, <1>5 DEF KodiInv, Typed

LEMMA ViewerMoves ==
    ASSUME KodiInv,
           \/ \E i \in Items : PlayNext(i) \/ \E p \in Points : Play(i, p)
           \/ \E p \in Points : MoveTo(p)
           \/ PauseOrResume \/ StopPlaying
    PROVE  \E i \in Items \cup {None}, p \in Points, on \in BOOLEAN : Player(i, p, on)
<1>1. item \in Items \cup {None} /\ at \in Points /\ playing \in BOOLEAN
  BY DEF KodiInv, Typed, PlayerTyped
<1>2. (~playing) \in BOOLEAN
  OBVIOUS
<1>3. ASSUME NEW i \in Items, PlayNext(i) \/ \E p \in Points : Play(i, p)
      PROVE  \E k \in Items \cup {None}, p \in Points, on \in BOOLEAN : Player(k, p, on)
  <2>1. TRUE \in BOOLEAN /\ i \in Items \cup {None} /\ 0 \in Points
    OBVIOUS
  <2> QED BY <1>3, <2>1, Zenon DEF PlayNext, Play
<1>4. ASSUME NEW p \in Points, MoveTo(p)
      PROVE  \E k \in Items \cup {None}, q \in Points, on \in BOOLEAN : Player(k, q, on)
  BY <1>1, <1>4, Zenon DEF MoveTo
<1>5. CASE PauseOrResume
  BY <1>1, <1>2, <1>5, Zenon DEF PauseOrResume
<1>6. CASE StopPlaying
  <2>1. FALSE \in BOOLEAN /\ None \in Items \cup {None} /\ 0 \in Points
    OBVIOUS
  <2> QED BY <1>6, <2>1, Zenon DEF StopPlaying
<1> QED BY <1>3, <1>4, <1>5, <1>6

\* The watcher asks for players and items and makes nothing of the answer.
LEMMA InvLooks ==
    ASSUME KodiInv, wpc' \in {"players", "item", "props"}, got' \in Items \cup {None},
           empty' \in 0..2, wpc' = "props" /\ sess = NoSession => got' \in Items,
           UNCHANGED <<player, sess, numbered, sink, worker, faults>>
    PROVE  KodiInv'
<1>1. Typed'
  BY DEF KodiInv, Typed, PlayerTyped, WatcherTyped, SinkTyped, WorkerTyped,
         player, numbered, sink, worker
<1>2. Numbered'
  BY DEF KodiInv, Numbered, player, numbered, worker
<1>3. Line' /\ Plays'
  BY LineKept DEF numbered, sink, worker
<1> QED BY <1>1, <1>2, <1>3 DEF KodiInv

\* Whatever is in line stays sound while sessions end and begin as they do.
SessionsGoOn ==
    /\ born <= born'
    /\ \A n \in 1..born : n # sess.id => n # sess'.id /\ seen'[n] = seen[n]

StillSound(r) ==
    /\ r.id <= born'
    /\ r.watched => r.act = "stop" /\ r.p >= WatchedAt
    /\ r.act = "pause" => r.p < HistoryCutoff
    /\ r.act = "stop" => r.id # sess'.id
    /\ r.act = "stop" /\ r.p >= HistoryCutoff => seen'[r.id] >= WatchedAt

LEMMA SoundKept ==
    ASSUME WatcherTyped, SessionsGoOn, NEW r \in Requests, Sound(r), born' \in Nat
    PROVE  StillSound(r)
<1>1. r.id \in Sessions /\ r.id \in Nat \ {0} /\ r.id <= born /\ born \in Nat
  BY SessionsRange DEF WatcherTyped, Sound, Requests
<1>2. r.id <= born' /\ r.id \in 1..born
  BY <1>1 DEF SessionsGoOn
<1>3. r.id # sess.id => r.id # sess'.id /\ seen'[r.id] = seen[r.id]
  BY <1>2 DEF SessionsGoOn
<1> QED BY <1>2, <1>3 DEF Sound, StillSound

\* The line with an event of session n at its end, or as it was.
LineGoesOn(n) ==
    /\ n \in Sessions /\ born' = n /\ SessionsGoOn
    /\ \A m \in 1..born : m # sess.id => m < n
    /\ \A m \in 1..born : itemOf'[m] = itemOf[m]
    /\ UNCHANGED <<job, shown, recent, records, local>>
Ended(n, act, p) ==
    act = "stop" => sess'.id # n /\ records[n] = 0
                      /\ (p >= HistoryCutoff => seen'[n] >= WatchedAt)

\* All that waits is about the last session or an earlier one, ends about an
\* earlier one.
Precedes(k, act, n) == k \in Nat /\ k <= n /\ (act = "stop" => k < n)

LEMMA WaitingPrecedes ==
    ASSUME KodiInv, NEW n, LineGoesOn(n)
    PROVE  /\ n \in Nat /\ born \in Nat
           /\ \A r \in Requests : Sound(r) => StillSound(r) /\ Precedes(r.id, r.act, n)
           /\ \A j \in 1..Len(queue) : Precedes(Of(queue[j]), queue[j].act, n)
           /\ Precedes(shown[1], shown[2], n)
<1>1. n \in Nat \ {0} /\ born \in Nat /\ born <= n /\ born' = n
  BY SessionsRange DEF LineGoesOn, SessionsGoOn, KodiInv, Typed, WatcherTyped
<1>2. ASSUME NEW r \in Requests, Sound(r)
      PROVE  StillSound(r) /\ Precedes(r.id, r.act, n)
  <2>1. r.id \in 1..born
    BY <1>1, <1>2, RequestIds DEF Sound
  <2>2. Precedes(r.id, r.act, n)
    BY <1>1, <1>2, <2>1 DEF Precedes, Sound, LineGoesOn
  <2>3. StillSound(r)
    BY <1>1, <1>2, SoundKept DEF KodiInv, Typed, LineGoesOn
  <2> QED BY <2>2, <2>3
<1>3. ASSUME NEW j \in 1..Len(queue)
      PROVE  Precedes(Of(queue[j]), queue[j].act, n)
  <2>1. queue[j] \in Requests \cup Tokens
    BY <1>3 DEF KodiInv, Typed, SinkTyped
  <2>2. CASE queue[j].act = "token"
    <3>1. queue[j].key <= born /\ queue[j].key \in Nat
      BY <2>1, <2>2, NoJobApart, SessionsRange DEF KodiInv, Line, InLine
    <3> QED BY <1>1, <2>2, <3>1 DEF Precedes, Of
  <2>3. CASE queue[j].act # "token"
    <3>1. queue[j] \in Requests /\ Sound(queue[j])
      BY <2>1, <2>3, NoJobApart DEF KodiInv, Line, InLine
    <3> QED BY <1>2, <2>3, <3>1 DEF Of
  <2> QED BY <2>2, <2>3
<1>4. Precedes(shown[1], shown[2], n)
  <2>1. shown[1] \in Nat /\ shown[1] <= born
    BY DEF KodiInv, Typed, WorkerTyped, Line, InOrder
  <2>2. shown[2] = "stop" => shown[1] \in 1..born /\ shown[1] # sess.id
    BY <2>1 DEF KodiInv, Line, InOrder
  <2> QED BY <1>1, <2>1, <2>2 DEF Precedes, LineGoesOn
<1> QED BY <1>1, <1>2, <1>3, <1>4

LEMMA EventTaken ==
    ASSUME KodiInv, NEW n, LineGoesOn(n),
           \/ UNCHANGED <<pending, queue>>
           \/ \E act \in {"start", "pause", "stop"}, p \in 0..100 :
                 Enqueued(n, act, p) /\ Ended(n, act, p)
    PROVE  Line' /\ Plays'
<1>1. /\ n \in Nat /\ born \in Nat
      /\ \A r \in Requests : Sound(r) => StillSound(r) /\ Precedes(r.id, r.act, n)
      /\ \A j \in 1..Len(queue) : Precedes(Of(queue[j]), queue[j].act, n)
      /\ Precedes(shown[1], shown[2], n)
  BY WaitingPrecedes
<1>2. /\ pending \in [Sessions -> Requests \cup {NoJob}] /\ queue \in Seq(Requests \cup Tokens)
      /\ job \in Requests \cup {NoJob}
  BY DEF KodiInv, Typed, SinkTyped, WorkerTyped
<1>3. n \in Sessions /\ born' = n /\ born <= n /\ UNCHANGED <<job, shown, recent, records, local>>
  BY DEF LineGoesOn, SessionsGoOn
<1>4. Plays'
  <2>1. \A m \in Sessions : records[m] > 0 => m \in 1..born
    BY <1>1, SessionsRange DEF KodiInv, Numbered
  <2>2. \A m \in Sessions : records[m] > 0 => seen'[m] >= WatchedAt /\ sess'.id # m
    BY <2>1 DEF KodiInv, Plays, RecordedWasWatched, LineGoesOn, SessionsGoOn
  <2>3. RecordedWasWatched'
    BY <1>3, <2>2 DEF RecordedWasWatched
  <2>4. LocalFollowsTrakt'
    BY <1>3 DEF KodiInv, Plays, LocalFollowsTrakt
  <2> QED BY <2>3, <2>4 DEF Plays
\* What was there before stays as sound, and its order with what comes now.
<1>5. /\ \A m \in Sessions : pending[m] # NoJob =>
            pending[m].act = "start" /\ pending[m].id = m /\ StillSound(pending[m])
      /\ job # NoJob => StillSound(job)
      /\ \A j \in 1..Len(queue) :
            IF queue[j].act = "token" THEN queue[j].key <= n
            ELSE queue[j].act # "start" /\ StillSound(queue[j])
  <2>1. \A m \in Sessions : pending[m] # NoJob =>
            pending[m].act = "start" /\ pending[m].id = m /\ StillSound(pending[m])
    BY <1>1, <1>2 DEF KodiInv, Line, InLine
  <2>2. job # NoJob => StillSound(job)
    BY <1>1, <1>2 DEF KodiInv, Line, InLine
  <2>3. ASSUME NEW j \in 1..Len(queue)
        PROVE  IF queue[j].act = "token" THEN queue[j].key <= n
               ELSE queue[j].act # "start" /\ StillSound(queue[j])
    <3>1. queue[j] \in Requests \cup Tokens
      BY <1>2, <2>3
    <3>2. queue[j].act # "token" => queue[j].act # "start" /\ StillSound(queue[j])
      BY <1>1, <2>3, <3>1, NoJobApart DEF KodiInv, Line, InLine
    <3>3. queue[j].act = "token" => queue[j].key <= n
      BY <1>1, <2>3 DEF Precedes, Of
    <3> QED BY <3>2, <3>3
  <2> QED BY <2>1, <2>2, <2>3
<1>6. /\ job # NoJob => Precedes(job.id, job.act, n)
      /\ job # NoJob => job.id \in 1..born
  <2> SUFFICES ASSUME job # NoJob
               PROVE  Precedes(job.id, job.act, n) /\ job.id \in 1..born
    OBVIOUS
  <2>1. job \in Requests /\ Sound(job)
    BY <1>2 DEF KodiInv, Line, InLine
  <2> QED BY <1>1, <2>1, RequestIds DEF Sound
<1>7. shown[2] = "stop" => shown[1] > 0 /\ shown[1] # sess'.id
  BY <1>1 DEF KodiInv, Line, InOrder, Precedes, LineGoesOn, SessionsGoOn
<1>8. CASE UNCHANGED <<pending, queue>>
  <2>1. InLine'
    BY <1>3, <1>5, <1>8 DEF InLine, Sound, StillSound
  <2>2. InOrder'
    BY <1>1, <1>3, <1>7, <1>8 DEF KodiInv, Line, InOrder, Before, Precedes
  <2>3. Counted'
    BY <1>3, <1>6, <1>8 DEF KodiInv, Line, Counted, LineGoesOn
  <2> QED BY <1>4, <2>1, <2>2, <2>3 DEF Line
<1>9. ASSUME NEW act \in {"start", "pause", "stop"}, NEW p \in 0..100,
             Enqueued(n, act, p), Ended(n, act, p)
      PROVE  Line'
  <2> DEFINE e == IF act = "start" THEN [act |-> "token", key |-> n] ELSE Entry(n, act, p)
  <2>1. /\ queue' = Append(queue, e) /\ e \in Requests \cup Tokens /\ Of(e) = n
        /\ e.act = IF act = "start" THEN "token" ELSE act
    BY <1>3, <1>9, EntryType DEF Enqueued, Tokens, Entry, Of
  <2>2. /\ Len(queue') = Len(queue) + 1 /\ Len(queue) \in Nat
        /\ \A j \in 1..(Len(queue) + 1) :
              queue'[j] = IF j = Len(queue) + 1 THEN e ELSE queue[j]
    BY <1>2, <2>1, Appended
  <2>3. StillSound(Entry(n, act, p))
    <3> DEFINE new == Entry(n, act, p)
    <3>1. /\ new.id = n /\ new.act = act /\ new.p = p
          /\ new.watched => act = "stop" /\ p >= WatchedAt
      BY DEF Entry, DecidedWatched
    <3>2. /\ act = "pause" => p < HistoryCutoff
          /\ act = "stop" => sess'.id # n
          /\ act = "stop" /\ p >= HistoryCutoff => seen'[n] >= WatchedAt
      BY <1>9 DEF Enqueued, Ended
    <3>3. n <= born'
      BY <1>1, <1>3
    <3> HIDE DEF new
    <3>4. StillSound(new)
      BY <3>1, <3>2, <3>3 DEF StillSound
    <3> QED BY <3>4 DEF new
  <2>4. act # "start" => e = Entry(n, act, p)
    OBVIOUS
  <2>5. act = "start" => e.act = "token" /\ e.key = n
    OBVIOUS
  <2>6. act # "start" => e.act = act /\ e.id = n
    BY DEF Entry
  <2> HIDE DEF e
  <2>7. InLine'
    <3>1. \A m \in Sessions : pending'[m] # NoJob =>
             pending'[m].act = "start" /\ pending'[m].id = m /\ StillSound(pending'[m])
      <4>1. CASE act = "start"
        <5>1. pending' = [pending EXCEPT ![n] = Entry(n, act, p)]
          BY <1>9, <4>1 DEF Enqueued
        <5>2. Entry(n, act, p).act = "start" /\ Entry(n, act, p).id = n
          BY <4>1 DEF Entry
        <5> QED BY <1>2, <1>5, <2>3, <5>1, <5>2
      <4>2. CASE act # "start"
        BY <1>5, <1>9, <4>2 DEF Enqueued
      <4> QED BY <4>1, <4>2
    <3>2. job' # NoJob => StillSound(job')
      BY <1>3, <1>5
    <3>3. \A j \in 1..Len(queue') :
             IF queue'[j].act = "token" THEN queue'[j].key <= n
             ELSE queue'[j].act # "start" /\ StillSound(queue'[j])
      BY <1>1, <1>5, <2>1, <2>2, <2>3, <2>4, <2>5, <2>6
    <3> QED BY <1>3, <3>1, <3>2, <3>3 DEF InLine, Sound, StillSound
  <2>8. InOrder'
    <3>1. ASSUME NEW i \in 1..Len(queue'), NEW j \in 1..Len(queue'), i < j
          PROVE  Before(Of(queue[i]), queue[i].act, j)'
      <4>1. CASE j \in 1..Len(queue)
        BY <2>2, <3>1, <4>1 DEF KodiInv, Line, InOrder, Before
      <4>2. CASE j = Len(queue) + 1
        <5>1. i \in 1..Len(queue) /\ queue'[i] = queue[i] /\ queue'[j] = e
          BY <2>2, <3>1, <4>2
        <5> QED BY <1>1, <2>1, <5>1 DEF Before, Precedes
      <4> QED BY <2>2, <3>1, <4>1, <4>2
    <3>2. ASSUME NEW j \in 1..Len(queue')
          PROVE  /\ job # NoJob => Before(job.id, job.act, j)'
                 /\ Before(shown[1], shown[2], j)'
      <4>1. CASE j \in 1..Len(queue)
        BY <1>3, <2>2, <4>1 DEF KodiInv, Line, InOrder, Before
      <4>2. CASE j = Len(queue) + 1
        BY <1>1, <1>3, <1>6, <2>1, <2>2, <4>2 DEF Before, Precedes
      <4> QED BY <2>2, <3>2, <4>1, <4>2
    <3>3. shown'[1] <= born' /\ (shown'[2] = "stop" => shown'[1] > 0 /\ shown'[1] # sess'.id)
      BY <1>1, <1>3, <1>7 DEF Precedes
    <3>4. job' # NoJob => /\ shown'[1] <= job'.id
                          /\ shown'[1] = job'.id /\ shown'[2] = "stop" => job'.act = "stop"
      BY <1>3 DEF KodiInv, Line, InOrder
    <3> QED BY <1>3, <3>1, <3>2, <3>3, <3>4 DEF InOrder
  <2>9. Counted'
    <3>1. \A j \in 1..Len(queue') : queue'[j].act = "stop" => records'[queue'[j].id] = 0
      BY <1>3, <1>9, <2>1, <2>2, <2>6 DEF KodiInv, Line, Counted, Ended
    <3>2. job' # NoJob /\ job'.act = "stop" =>
             local'[job'.id] = 0 /\ (records'[job'.id] = 0 \/ itemOf'[job'.id] \in recent')
      BY <1>3, <1>6 DEF KodiInv, Line, Counted, LineGoesOn
    <3> QED BY <3>1, <3>2 DEF Counted
  <2> QED BY <2>7, <2>8, <2>9 DEF Line
<1> QED BY <1>4, <1>8, <1>9

-----------------------------------------------------------------------------
(* The steps of the watcher *)

\* A session ends because the player is empty.
LEMMA InvStopMissing ==
    ASSUME KodiInv, item = None, wpc = "players", sess # NoSession, StopMissingSessions,
           empty' \in 0..2, UNCHANGED <<player, wpc, got, numbered, worker, faults>>
    PROVE  KodiInv'
<1> DEFINE n == sess.id
<1>1. sess \in SessionRecords /\ n = born /\ n \in Sessions /\ n \in Nat \ {0}
  BY SessionsRange DEF KodiInv, Typed, WatcherTyped, Numbered, SessionRecords
<1>2. sess.last \in 0..100 /\ sess.last = seen[n] /\ records[n] = 0
  <2>1. sess.last \in 0..100
    BY <1>1 DEF SessionRecords
  <2>2. sess.last = seen[n]
    BY <1>1, NoSessionApart DEF KodiInv, Numbered
  <2>3. records[n] \in Nat /\ ~(records[n] > 0)
    BY <1>1 DEF KodiInv, Typed, WorkerTyped, Plays, RecordedWasWatched
  <2> QED BY <2>1, <2>2, <2>3
<1>3. /\ sess' = NoSession /\ sess'.id = 0
      /\ \E soon \in BOOLEAN : Send(sess, "stop", sess.last, FALSE, soon)
  BY DEF StopMissingSessions, NoSession
<1>4. /\ aSess' \in [Sessions -> Acts]
      /\ \/ UNCHANGED <<pending, queue>>
         \/ \E p \in 0..100 : Enqueued(n, "stop", p) /\ p = sess.last
  BY <1>1, <1>2, <1>3, SendEffect DEF KodiInv, Typed
<1>5. SinkTyped'
  <2>1. CASE UNCHANGED <<pending, queue>>
    BY <1>4, <2>1 DEF KodiInv, Typed, SinkTyped
  <2>2. ASSUME NEW p \in 0..100, Enqueued(n, "stop", p) PROVE SinkTyped'
    BY <1>1, <1>4, <2>2, EnqueuedType DEF KodiInv, Typed, SinkTyped
  <2> QED BY <1>4, <2>1, <2>2
<1>6. Typed'
  BY <1>3, <1>5 DEF KodiInv, Typed, PlayerTyped, WatcherTyped, WorkerTyped, player, numbered, worker
<1>7. Numbered'
  BY <1>3 DEF KodiInv, Numbered, player, numbered, worker
<1>8. LineGoesOn(n)
  <2>1. SessionsGoOn
    BY <1>1, <1>3 DEF SessionsGoOn, numbered
  <2>2. \A m \in 1..born : m # sess.id => m < n
    BY <1>1
  <2> QED BY <1>1, <2>1, <2>2 DEF LineGoesOn, numbered, worker
<1>9. ASSUME NEW p \in 0..100, Enqueued(n, "stop", p), p = sess.last
      PROVE  Ended(n, "stop", p)
  BY <1>1, <1>2, <1>3, <1>9 DEF Enqueued, Ended, numbered, HistoryCutoff
<1> HIDE DEF n
<1>10. Line' /\ Plays'
  BY <1>4, <1>8, <1>9, EventTaken
<1> QED BY <1>6, <1>7, <1>10 DEF KodiInv

LEMMA InvPollPlayers == ASSUME KodiInv, PollPlayers PROVE KodiInv'
<1>1. empty \in 0..2 /\ wpc = "players" /\ got \in Items \cup {None} /\ empty' \in 0..2
  BY DEF KodiInv, Typed, WatcherTyped, PollPlayers
<1>2. CASE item = None /\ empty' = 2 /\ sess # NoSession
  <2>1. StopMissingSessions /\ UNCHANGED <<player, wpc, got, numbered, worker, faults>>
    BY <1>2 DEF PollPlayers
  <2> QED BY <1>1, <1>2, <2>1, InvStopMissing
<1>3. CASE item = None /\ ~(empty' = 2 /\ sess # NoSession)
  <2>1. UNCHANGED <<player, wpc, got, sess, sink, numbered, worker, faults>>
    BY <1>3 DEF PollPlayers
  <2> QED BY <1>1, <2>1, InvLooks
<1>4. CASE item # None
  <2>1. /\ UNCHANGED <<player, got, sess, sink, numbered, worker, faults>>
        /\ wpc' = IF sess = NoSession THEN "item" ELSE "props"
    BY <1>4 DEF PollPlayers
  <2> QED BY <1>1, <2>1, InvLooks
<1> QED BY <1>2, <1>3, <1>4

LEMMA InvReadItem == ASSUME KodiInv, ReadItem PROVE KodiInv'
<1>1. item \in Items /\ empty \in 0..2
  BY DEF KodiInv, Typed, PlayerTyped, WatcherTyped, ReadItem
<1> QED BY <1>1, InvLooks DEF ReadItem

LEMMA InvPlayerGone == ASSUME KodiInv, PlayerGone PROVE KodiInv'
<1>1. empty \in 0..2
  BY DEF KodiInv, Typed, WatcherTyped
<1> QED BY <1>1, InvLooks DEF PlayerGone

\* A poll of the progress, with the session there is or with a new one.
LEMMA InvObserved ==
    ASSUME KodiInv, item # None, NEW s \in SessionRecords, s.act = s.sentAct, Observe(s),
           born <= born', born' = s.id, \A m \in 1..born : m # sess.id => m < s.id,
           \A m \in 1..born : itemOf'[m] = itemOf[m],
           itemOf' \in [Sessions -> Items \cup {None}], \A m \in 1..born' : itemOf'[m] \in Items,
           born' <= moves + faults, wpc' = "players", got' = None,
           seen' = [seen EXCEPT ![sess'.id] = at],
           UNCHANGED <<player, empty, worker, faults>>
    PROVE  KodiInv'
<1> DEFINE n == s.id
<1>1. n \in Sessions /\ n \in Nat \ {0} /\ born \in Nat
  BY SessionsRange DEF SessionRecords, KodiInv, Typed, WatcherTyped
<1>2. at \in Points /\ playing \in BOOLEAN
  BY DEF KodiInv, Typed, PlayerTyped
<1>3. /\ sess' \in SessionRecords /\ sess'.id = n /\ sess'.last = at
      /\ sess'.act = sess'.sentAct /\ aSess' \in [Sessions -> Acts]
      /\ \/ UNCHANGED <<pending, queue>>
         \/ \E act \in {"start", "pause"}, q \in 0..100 : Enqueued(n, act, q)
  BY <1>2, ObserveEffect DEF KodiInv, Typed
<1>4. SinkTyped'
  <2>1. CASE UNCHANGED <<pending, queue>>
    BY <1>3, <2>1 DEF KodiInv, Typed, SinkTyped
  <2>2. ASSUME NEW act \in {"start", "pause"}, NEW q \in 0..100, Enqueued(n, act, q)
        PROVE  SinkTyped'
    BY <1>1, <1>3, <2>2, EnqueuedType DEF KodiInv, Typed, SinkTyped
  <2> QED BY <1>3, <2>1, <2>2
<1>5. /\ seen' \in [Sessions -> Points] /\ seen'[n] = at
      /\ \A m \in Sessions : m # n => seen'[m] = seen[m]
  BY <1>1, <1>2, <1>3 DEF KodiInv, Typed, WatcherTyped
<1>6. PlayerTyped' /\ WorkerTyped'
  BY DEF KodiInv, Typed, PlayerTyped, WorkerTyped, player, worker
<1>7. WatcherTyped'
  BY <1>1, <1>3, <1>5 DEF KodiInv, Typed, WatcherTyped
<1>8. sess' # NoSession /\ born' = n
  BY <1>3, NoSessionApart
<1>9. Numbered'
  <2>1. \A m \in Sessions : records'[m] > 0 => m <= born'
    BY <1>1, <1>8, SessionsRange DEF KodiInv, Numbered, worker
  <2>2. moves' = moves /\ faults' = faults /\ wpc' # "props"
    BY DEF player
  <2> QED BY <1>3, <1>5, <1>8, <2>1, <2>2 DEF Numbered
<1>10. LineGoesOn(n)
  <2>1. \A m \in 1..born : m # sess.id => m # n /\ m \in Sessions
    BY <1>1 DEF Sessions
  <2>2. SessionsGoOn
    BY <1>3, <1>5, <2>1 DEF SessionsGoOn
  <2> QED BY <1>1, <2>2 DEF LineGoesOn, worker
<1>11. \A act \in {"start", "pause"}, q \in 0..100 : Ended(n, act, q)
  BY DEF Ended
<1> HIDE DEF n
<1>12. Line' /\ Plays'
  BY <1>3, <1>10, <1>11, EventTaken
<1> QED BY <1>4, <1>6, <1>7, <1>9, <1>12 DEF KodiInv, Typed

LEMMA InvReadProps == ASSUME KodiInv, ReadProps PROVE KodiInv'
<1>1. /\ wpc = "props" /\ item # None /\ wpc' = "players" /\ got' = None
      /\ seen' = [seen EXCEPT ![sess'.id] = at] /\ UNCHANGED <<player, empty, worker, faults>>
  BY DEF ReadProps
<1>2. /\ born \in Nat /\ moves + faults \in Nat /\ moves + faults <= MaxMoves + MaxFaults
      /\ itemOf \in [Sessions -> Items \cup {None}] /\ born <= moves + faults
  BY DEF KodiInv, Typed, PlayerTyped, WatcherTyped, Numbered
<1>3. CASE sess = NoSession
  <2> DEFINE s == CreateSession(born')
  <2>1. /\ born' = born + 1 /\ itemOf' = [itemOf EXCEPT ![born'] = got]
        /\ Observe(s) /\ got \in Items
    BY <1>1, <1>3 DEF ReadProps, KodiInv, Numbered
  <2>2. born' <= moves + faults /\ born' \in Sessions
    BY <1>1, <1>2, <1>3, <2>1 DEF KodiInv, Numbered, Sessions
  <2>3. s \in SessionRecords /\ s.act = s.sentAct /\ s.id = born'
    BY <2>2 DEF CreateSession, SessionRecords, KodiInv, Typed, PlayerTyped, Acts
  <2>4. /\ itemOf' \in [Sessions -> Items \cup {None}] /\ itemOf'[born'] \in Items
        /\ \A m \in Sessions : m # born' => itemOf'[m] = itemOf[m]
    BY <1>2, <2>1, <2>2
  <2>5. /\ \A m \in 1..born : m < born' /\ m \in Sessions
        /\ \A m \in 1..born' : m \in 1..born \/ m = born'
    BY <1>2, <2>1, <2>2 DEF Sessions
  <2>6. \A m \in 1..born : itemOf[m] \in Items
    BY DEF KodiInv, Numbered
  <2>7. /\ \A m \in 1..born : itemOf'[m] = itemOf[m]
        /\ \A m \in 1..born' : itemOf'[m] \in Items
    BY <2>4, <2>5, <2>6
  <2>8. born <= born'
    BY <1>2, <2>1
  <2> HIDE DEF s
  <2> QED BY <1>1, <2>1, <2>2, <2>3, <2>4, <2>5, <2>7, <2>8, InvObserved
<1>4. CASE sess # NoSession
  <2>1. UNCHANGED <<born, itemOf>> /\ Observe(sess)
    BY <1>4 DEF ReadProps
  <2>2. sess \in SessionRecords /\ sess.id = born /\ sess.act = sess.sentAct
    BY <1>4 DEF KodiInv, Typed, WatcherTyped, Numbered
  <2>3. /\ \A m \in 1..born : m # sess.id => m < sess.id
        /\ \A m \in 1..born : itemOf[m] \in Items
    BY <1>2, <2>2 DEF KodiInv, Numbered
  <2> QED BY <1>1, <1>2, <2>1, <2>2, <2>3, InvObserved
<1> QED BY <1>3, <1>4

-----------------------------------------------------------------------------
(* The steps of the worker, and restarts *)

\* The worker takes the head of the queue, or the start its token stands for.
LEMMA InvTakeJob == ASSUME KodiInv, TakeJob PROVE KodiInv'
<1> DEFINE head == queue[1]
<1>1. /\ queue \in Seq(Requests \cup Tokens) /\ pending \in [Sessions -> Requests \cup {NoJob}]
      /\ records \in [Sessions -> Nat] /\ local \in [Sessions -> Nat]
      /\ shown[1] \in Nat /\ born \in Nat
  BY DEF KodiInv, Typed, SinkTyped, WorkerTyped, WatcherTyped
<1>2. /\ job = NoJob /\ queue # <<>> /\ queue' = Tail(queue) /\ tried' = 0
      /\ UNCHANGED <<player, watcher, aSess, shown, recent, records, local, lost, twice, faults>>
      /\ IF Head(queue).act = "token"
         THEN /\ job' = pending[Head(queue).key]
              /\ pending' = [pending EXCEPT ![Head(queue).key] = NoJob]
         ELSE job' = Head(queue) /\ UNCHANGED pending
  BY Zenon DEF TakeJob
<1>3. /\ queue' \in Seq(Requests \cup Tokens) /\ Len(queue') = Len(queue) - 1 /\ Len(queue) >= 1
      /\ Head(queue) = head /\ head \in Requests \cup Tokens /\ Len(queue) \in Nat
      /\ \A j \in 1..(Len(queue) - 1) : queue'[j] = queue[j + 1]
  BY <1>1, <1>2, Shifted
<1>4. \A j \in 1..Len(queue') : j + 1 \in 1..Len(queue) /\ queue'[j] = queue[j + 1] /\ 1 < j + 1
  BY <1>3
<1>5. 1 \in 1..Len(queue)
  BY <1>3
<1>6. head.act = "token" =>
         /\ head.key \in Sessions /\ Of(head) = head.key /\ job' = pending[head.key]
         /\ pending' = [pending EXCEPT ![head.key] = NoJob]
  BY <1>2, <1>3, NoJobApart DEF Of
<1>7. head.act # "token" =>
         head \in Requests /\ Of(head) = head.id /\ job' = head /\ UNCHANGED pending
  BY <1>2, <1>3, NoJobApart DEF Of
<1>8. job' # NoJob =>
         /\ job' \in Requests /\ job'.id = Of(head) /\ Sound(job')
         /\ head.act # "token" => job'.act = head.act /\ head \in Requests
         /\ head.act = "token" => job'.act = "start"
  <2>1. CASE head.act = "token"
    BY <1>1, <1>6, <2>1 DEF KodiInv, Line, InLine
  <2>2. CASE head.act # "token"
    BY <1>5, <1>7, <2>2 DEF KodiInv, Line, InLine
  <2> QED BY <2>1, <2>2
<1>9. pending' \in [Sessions -> Requests \cup {NoJob}] /\ job' \in Requests \cup {NoJob}
  BY <1>1, <1>6, <1>7, <1>8
<1>10. \A m \in Sessions : pending'[m] = pending[m] \/ pending'[m] = NoJob
  BY <1>1, <1>6, <1>7
<1> HIDE DEF head
<1>11. Typed'
  <2>1. 0 \in 0..(Tries - 1)
    OBVIOUS
  <2> QED BY <1>2, <1>3, <1>9, <2>1 DEF KodiInv, Typed, PlayerTyped, WatcherTyped, SinkTyped,
                                        WorkerTyped, player, watcher, numbered
<1>12. Numbered'
  BY <1>2 DEF KodiInv, Numbered, player, watcher, numbered
<1>13. UNCHANGED <<sess, born, seen, itemOf, shown, recent, records, local>>
  BY <1>2 DEF watcher, numbered
<1>14. InLine'
  <2>1. \A m \in Sessions : pending'[m] # NoJob =>
           pending'[m].act = "start" /\ pending'[m].id = m /\ Sound(pending'[m])
    BY <1>10 DEF KodiInv, Line, InLine
  <2>2. \A j \in 1..Len(queue') :
           IF queue'[j].act = "token" THEN queue'[j].key <= born
           ELSE queue'[j].act # "start" /\ Sound(queue'[j])
    BY <1>4 DEF KodiInv, Line, InLine
  <2> QED BY <1>8, <1>13, <2>1, <2>2 DEF InLine, Sound
<1>15. InOrder'
  <2>1. ASSUME NEW i \in 1..Len(queue'), NEW j \in 1..Len(queue'), i < j
        PROVE  Before(Of(queue[i]), queue[i].act, j)'
    <3>1. /\ i + 1 \in 1..Len(queue) /\ j + 1 \in 1..Len(queue) /\ i + 1 < j + 1
          /\ queue'[i] = queue[i + 1] /\ queue'[j] = queue[j + 1]
      BY <1>3, <1>4, <2>1
    <3> QED BY <3>1 DEF KodiInv, Line, InOrder, Before
  <2>2. ASSUME NEW j \in 1..Len(queue')
        PROVE  /\ job' # NoJob => Before(job.id, job.act, j)'
               /\ Before(shown[1], shown[2], j)'
    <3>1. j + 1 \in 1..Len(queue) /\ queue'[j] = queue[j + 1] /\ 1 < j + 1
      BY <1>4, <2>2
    <3>2. Before(Of(head), head.act, j + 1) /\ Before(shown[1], shown[2], j + 1)
      BY <1>5, <3>1 DEF KodiInv, Line, InOrder, head
    <3> QED BY <1>8, <1>13, <3>1, <3>2 DEF Before
  <2>3. job' # NoJob => shown[1] <= job'.id /\ ~(shown[1] = job'.id /\ shown[2] = "stop")
    <3>1. Before(shown[1], shown[2], 1)
      BY <1>5 DEF KodiInv, Line, InOrder
    <3>2. SUFFICES ASSUME job' # NoJob
                   PROVE  shown[1] <= job'.id /\ ~(shown[1] = job'.id /\ shown[2] = "stop")
      OBVIOUS
    <3>3. Of(queue[1]) = job'.id /\ job'.id \in Nat
      BY <1>8, <3>2, SessionsRange DEF head, Requests
    <3> QED BY <1>1, <3>1, <3>3 DEF Before
  <2>4. shown[1] <= born /\ (shown[2] = "stop" => shown[1] > 0 /\ shown[1] # sess.id)
    BY DEF KodiInv, Line, InOrder
  <2> QED BY <1>13, <2>1, <2>2, <2>3, <2>4 DEF InOrder
<1>16. Counted'
  <2>1. \A j \in 1..Len(queue') : queue'[j].act = "stop" => records[queue'[j].id] = 0
    BY <1>4 DEF KodiInv, Line, Counted
  <2>2. ASSUME job' # NoJob, job'.act = "stop"
        PROVE  local[job'.id] = 0 /\ records[job'.id] = 0
    <3>1. head.act = "stop" /\ job'.id = head.id /\ job'.id \in Sessions
      BY <1>7, <1>8, <2>2 DEF Requests
    <3>2. records[job'.id] = 0
      BY <1>5, <3>1 DEF KodiInv, Line, Counted, head
    <3> QED BY <1>1, <3>1, <3>2 DEF KodiInv, Plays, LocalFollowsTrakt
  <2> QED BY <1>13, <2>1, <2>2 DEF Counted
<1>17. Plays'
  BY <1>13 DEF KodiInv, Plays, RecordedWasWatched, LocalFollowsTrakt
<1> QED BY <1>11, <1>12, <1>14, <1>15, <1>16, <1>17 DEF KodiInv, Line

\* What a request makes of Trakt, whether it arrives or not.
Taken ==
    /\ recent \subseteq recent' /\ recent' \subseteq Items
    /\ records' \in [Sessions -> Nat]
    /\ \A m \in Sessions :
          /\ records[m] <= records'[m] /\ records'[m] <= 1
          /\ m # job.id => records'[m] = records[m]
          /\ records'[m] > 0 => seen[m] >= WatchedAt /\ sess.id # m /\ m <= born
    /\ records'[job.id] > records[job.id] => job.act = "stop"
    /\ job.act = "stop" => records'[job.id] = 0 \/ itemOf[job.id] \in recent'
    /\ shown' = shown \/ shown' = <<job.id, job.act>>

LEMMA JobSound ==
    ASSUME KodiInv, job # NoJob
    PROVE  /\ job \in Requests /\ job.id \in Sessions /\ job.id \in 1..born /\ Sound(job)
           /\ itemOf[job.id] \in Items /\ (Completes => job.act = "stop")
<1>1. job \in Requests /\ Sound(job) /\ born \in Nat
  BY DEF KodiInv, Typed, WorkerTyped, WatcherTyped, Line, InLine
<1>2. job.id \in Sessions /\ job.id \in 1..born
  BY <1>1, RequestIds DEF Sound
<1>3. itemOf[job.id] \in Items
  BY <1>2 DEF KodiInv, Numbered
<1>4. Completes => job.act = "stop"
  BY <1>1, RequestIds DEF Completes, Sound, HistoryCutoff
<1> QED BY <1>1, <1>2, <1>3, <1>4

LEMMA NothingTaken ==
    ASSUME KodiInv, job # NoJob, UNCHANGED <<shown, recent, records>> PROVE Taken
<1>1. /\ records \in [Sessions -> Nat] /\ recent \subseteq Items
      /\ \A m \in Sessions : records[m] <= 1 /\ (records[m] > 0 => m <= born)
      /\ \A m \in Sessions : records[m] > 0 => seen[m] >= WatchedAt /\ sess.id # m
  BY DEF KodiInv, Typed, WorkerTyped, Numbered, Plays, LocalFollowsTrakt, RecordedWasWatched
<1>2. job.act = "stop" => records[job.id] = 0 \/ itemOf[job.id] \in recent
  BY DEF KodiInv, Line, Counted
<1>3. job.id \in Sessions
  BY JobSound
<1> QED BY <1>1, <1>2, <1>3 DEF Taken

LEMMA TraktTook == ASSUME KodiInv, job # NoJob, TraktTakes PROVE Taken
<1>1. /\ job.id \in Sessions /\ job.id \in 1..born /\ Sound(job) /\ itemOf[job.id] \in Items
      /\ Completes => job.act = "stop"
  BY JobSound
<1>2. /\ records \in [Sessions -> Nat] /\ recent \subseteq Items /\ born \in Nat
      /\ \A m \in Sessions : records[m] <= 1 /\ (records[m] > 0 => m <= born)
      /\ \A m \in Sessions : records[m] > 0 => seen[m] >= WatchedAt /\ sess.id # m
  BY DEF KodiInv, Typed, WorkerTyped, WatcherTyped, Numbered, Plays, LocalFollowsTrakt,
         RecordedWasWatched
<1>3. job.act = "stop" => records[job.id] = 0 \/ itemOf[job.id] \in recent
  BY DEF KodiInv, Line, Counted
<1>4. shown' = shown \/ shown' = <<job.id, job.act>>
  BY DEF TraktTakes
<1>5. CASE Completes /\ ~Duplicate
  <2>1. records' = [records EXCEPT ![job.id] = @ + 1] /\ recent' = recent \cup {itemOf[job.id]}
    BY <1>5 DEF TraktTakes
  <2>2. records[job.id] = 0 /\ job.act = "stop"
    BY <1>1, <1>3, <1>5 DEF Duplicate
  <2>3. seen[job.id] >= WatchedAt /\ sess.id # job.id /\ job.id <= born
    BY <1>1, <1>5, <2>2 DEF Completes, Sound
  <2>4. \A m \in Sessions :
          /\ records[m] <= records'[m] /\ records'[m] <= 1
          /\ m # job.id => records'[m] = records[m]
          /\ records'[m] > 0 => seen[m] >= WatchedAt /\ sess.id # m /\ m <= born
    BY <1>1, <1>2, <2>1, <2>2, <2>3
  <2>5. records' \in [Sessions -> Nat]
    BY <1>1, <1>2, <2>1
  <2> QED BY <1>1, <1>2, <1>4, <2>1, <2>2, <2>4, <2>5 DEF Taken
<1>6. CASE ~(Completes /\ ~Duplicate)
  <2>1. records' = records /\ (recent' = recent \/ recent' = recent \cup {itemOf[job.id]})
    BY <1>6 DEF TraktTakes
  <2> QED BY <1>1, <1>2, <1>3, <1>4, <2>1 DEF Taken
<1> QED BY <1>5, <1>6

\* A request is done with or will be tried again.
LEMMA InvJobGoesOn ==
    ASSUME KodiInv, job # NoJob, job' \in {job, NoJob}, tried' \in 0..(Tries - 1), Taken,
           UNCHANGED <<player, watcher, pending, queue>>, aSess' \in [Sessions -> Acts],
           faults' \in 0..MaxFaults, faults <= faults',
           local' \in [Sessions -> Nat], job' = job => local' = local,
           \A m \in Sessions : local'[m] <= records'[m]
    PROVE  KodiInv'
<1>1. /\ job \in Requests /\ job.id \in Sessions /\ job.id \in 1..born /\ Sound(job)
      /\ itemOf[job.id] \in Items /\ (Completes => job.act = "stop")
  BY JobSound
<1>2. UNCHANGED <<item, at, playing, moves, wpc, got, empty, sess, born, itemOf, seen>>
  BY DEF player, watcher, numbered
<1>3. shown' \in Nat \X Acts
  BY <1>1, SessionsRange DEF Taken, KodiInv, Typed, WorkerTyped, Requests, Acts
<1>4. Typed'
  <2>1. PlayerTyped' /\ WatcherTyped'
    BY <1>2 DEF KodiInv, Typed, PlayerTyped, WatcherTyped
  <2>2. SinkTyped'
    BY DEF KodiInv, Typed, SinkTyped
  <2>3. WorkerTyped'
    BY <1>1, <1>3 DEF KodiInv, Typed, WorkerTyped, Taken
  <2> QED BY <2>1, <2>2, <2>3 DEF Typed
<1>5. Numbered'
  <2>1. born \in Nat /\ moves \in Nat /\ faults \in Nat /\ faults' \in Nat
    BY DEF KodiInv, Typed, WatcherTyped, PlayerTyped
  <2> QED BY <1>2, <2>1 DEF KodiInv, Numbered, Taken
<1>6. InLine'
  BY <1>2 DEF KodiInv, Line, InLine, Sound
<1>7. InOrder'
  <2>1. \A j \in 1..Len(queue) : Before(shown'[1], shown'[2], j)
    <3>1. CASE shown' = shown
      BY <3>1 DEF KodiInv, Line, InOrder
    <3>2. CASE shown' = <<job.id, job.act>>
      BY <3>2 DEF KodiInv, Line, InOrder
    <3> QED BY <3>1, <3>2 DEF Taken
  <2>2. job' # NoJob => /\ shown'[1] <= job'.id
                        /\ shown'[1] = job'.id /\ shown'[2] = "stop" => job'.act = "stop"
    BY <1>1 DEF KodiInv, Line, InOrder, Taken
  <2>3. shown'[1] <= born /\ (shown'[2] = "stop" => shown'[1] > 0 /\ shown'[1] # sess.id)
    BY <1>1 DEF KodiInv, Line, InOrder, Taken, Sound
  <2>4. /\ \A i, j \in 1..Len(queue) : i < j => Before(Of(queue[i]), queue[i].act, j)
        /\ \A j \in 1..Len(queue) : Before(job.id, job.act, j)
    BY DEF KodiInv, Line, InOrder
  <2> QED BY <1>2, <2>1, <2>2, <2>3, <2>4 DEF InOrder, Before
<1>8. Counted'
  <2>1. ASSUME NEW j \in 1..Len(queue), queue[j].act = "stop"
        PROVE  records'[queue[j].id] = 0
    <3>1. queue[j] \in Requests /\ Of(queue[j]) = queue[j].id /\ records[queue[j].id] = 0
      BY <2>1, NoJobApart DEF KodiInv, Typed, SinkTyped, Line, Counted, Of
    <3>2. queue[j].id \in Sessions /\ queue[j].id \in Nat /\ job.id \in Nat
      BY <1>1, <3>1, SessionsRange DEF Requests
    <3>3. job.act = "stop" => queue[j].id # job.id
      BY <2>1, <3>1, <3>2 DEF KodiInv, Line, InOrder, Before
    <3>4. CASE queue[j].id = job.id
      BY <3>1, <3>2, <3>3, <3>4 DEF Taken
    <3> QED BY <3>1, <3>2, <3>4 DEF Taken
  <2>2. job' # NoJob /\ job'.act = "stop" =>
           local'[job'.id] = 0 /\ (records'[job'.id] = 0 \/ itemOf[job'.id] \in recent')
    BY DEF KodiInv, Line, Counted, Taken
  <2> QED BY <1>2, <2>1, <2>2 DEF Counted
<1>9. Plays'
  BY <1>2 DEF Plays, Taken, RecordedWasWatched, LocalFollowsTrakt
<1> QED BY <1>4, <1>5, <1>6, <1>7, <1>8, <1>9 DEF KodiInv, Line

LEMMA InvDelivered == ASSUME KodiInv, Delivered PROVE KodiInv'
<1>1. /\ job # NoJob /\ TraktTakes /\ job' = NoJob /\ tried' = 0
      /\ local' = IF RecordsLocally THEN [local EXCEPT ![job.id] = @ + 1] ELSE local
      /\ aSess' = [aSess EXCEPT ![job.id] = job.act]
      /\ UNCHANGED <<player, watcher, pending, queue, lost, faults>>
  BY DEF Delivered
<1>2. Taken
  BY <1>1, TraktTook
<1>3. /\ job \in Requests /\ job.id \in Sessions /\ Sound(job) /\ (Completes => job.act = "stop")
  BY <1>1, JobSound
<1>4. /\ local \in [Sessions -> Nat] /\ aSess \in [Sessions -> Acts] /\ faults \in 0..MaxFaults
      /\ records \in [Sessions -> Nat] /\ records' \in [Sessions -> Nat]
      /\ \A m \in Sessions : local[m] <= records[m] /\ records[m] <= records'[m]
  BY <1>2 DEF KodiInv, Typed, WorkerTyped, SinkTyped, PlayerTyped, Plays, LocalFollowsTrakt, Taken
<1>5. aSess' \in [Sessions -> Acts]
  BY <1>1, <1>3, <1>4 DEF Requests, Acts
<1>6. local' \in [Sessions -> Nat] /\ \A m \in Sessions : local'[m] <= records'[m]
  <2>1. CASE RecordsLocally
    <3>1. job.act = "stop" /\ job.p >= WatchedAt /\ ~Duplicate
      BY <1>3, <2>1 DEF RecordsLocally, Sound
    <3>2. Completes
      BY <1>3, <3>1 DEF Completes, HistoryCutoff, Requests
    <3>3. records' = [records EXCEPT ![job.id] = @ + 1]
      BY <1>1, <3>1, <3>2 DEF TraktTakes
    <3>4. local[job.id] = 0
      BY <1>1, <3>1 DEF KodiInv, Line, Counted
    <3>5. local' = [local EXCEPT ![job.id] = 1]
      BY <1>1, <2>1, <3>4
    <3> QED BY <1>3, <1>4, <3>3, <3>5
  <2>2. CASE ~RecordsLocally
    BY <1>1, <1>4, <2>2
  <2> QED BY <2>1, <2>2
<1>7. 0 \in 0..(Tries - 1) /\ faults' \in 0..MaxFaults /\ faults <= faults' /\ job' # job
  BY <1>1, <1>4
<1> QED BY <1>1, <1>2, <1>5, <1>6, <1>7, InvJobGoesOn

\* An attempt fails: the request waits for the next one or is given up.
LEMMA TryAgainEffect ==
    ASSUME KodiInv, TryAgain PROVE job' \in {job, NoJob} /\ tried' \in 0..(Tries - 1)
BY DEF KodiInv, Typed, WorkerTyped, TryAgain

LEMMA InvFailed ==
    ASSUME KodiInv, Unreachable \/ AnswerLost \/ Refused PROVE KodiInv'
<1>1. job # NoJob /\ UNCHANGED <<player, watcher, sink, local>>
  BY DEF Unreachable, AnswerLost, Refused
<1>2. PICK kind : Fault(kind)
  BY Zenon DEF Unreachable, AnswerLost, Refused
<1>3. faults' \in 0..MaxFaults /\ faults <= faults'
  BY <1>2, KodiFault DEF KodiInv, Typed, PlayerTyped
<1>4. job' \in {job, NoJob} /\ tried' \in 0..(Tries - 1)
  <2>1. CASE Refused
    BY <2>1 DEF Refused
  <2> QED BY <2>1, TryAgainEffect DEF Unreachable, AnswerLost
<1>5. Taken
  <2>1. CASE AnswerLost
    BY <1>1, <2>1, TraktTook DEF AnswerLost
  <2>2. CASE Unreachable \/ Refused
    BY <1>1, <2>2, NothingTaken DEF Unreachable, Refused
  <2> QED BY <2>1, <2>2
<1>6. /\ local \in [Sessions -> Nat] /\ aSess \in [Sessions -> Acts]
      /\ records \in [Sessions -> Nat] /\ records' \in [Sessions -> Nat]
      /\ \A m \in Sessions : local[m] <= records[m] /\ records[m] <= records'[m]
  BY <1>5 DEF KodiInv, Typed, WorkerTyped, SinkTyped, Plays, LocalFollowsTrakt, Taken
<1>7. /\ UNCHANGED <<player, watcher, pending, queue>> /\ aSess' \in [Sessions -> Acts]
      /\ local' = local /\ local' \in [Sessions -> Nat]
      /\ \A m \in Sessions : local'[m] <= records'[m]
  BY <1>1, <1>6 DEF sink
<1> QED BY <1>1, <1>3, <1>4, <1>5, <1>7, InvJobGoesOn

LEMMA InvExpire == ASSUME KodiInv, NEW i \in Items, Expire(i) PROVE KodiInv'
<1>1. /\ job = NoJob /\ recent' = recent \ {i}
      /\ UNCHANGED <<player, watcher, sink, job, tried, shown, records, local, lost, twice, faults>>
  BY DEF Expire
<1>2. Typed'
  BY <1>1 DEF KodiInv, Typed, PlayerTyped, WatcherTyped, SinkTyped, WorkerTyped,
              player, watcher, numbered, sink
<1>3. Numbered'
  BY <1>1 DEF KodiInv, Numbered, player, watcher, numbered
<1>4. InLine'
  BY <1>1 DEF KodiInv, Line, InLine, Sound, watcher, numbered, sink
<1>5. InOrder'
  BY <1>1 DEF KodiInv, Line, InOrder, Before, watcher, numbered, sink
<1>6. Counted'
  BY <1>1 DEF KodiInv, Line, Counted, sink
<1>7. Plays'
  BY <1>1 DEF KodiInv, Plays, RecordedWasWatched, LocalFollowsTrakt, watcher, numbered
<1> QED BY <1>2, <1>3, <1>4, <1>5, <1>6, <1>7 DEF KodiInv, Line

LEMMA InvRestart == ASSUME KodiInv, Restart PROVE KodiInv'
<1>1. /\ wpc' = "players" /\ got' = None /\ empty' = 0 /\ sess' = NoSession
      /\ aSess' = [n \in Sessions |-> None] /\ pending' = [n \in Sessions |-> NoJob]
      /\ queue' = <<>> /\ job' = NoJob /\ tried' = 0
      /\ UNCHANGED <<player, numbered, shown, recent, records, local, twice>>
      /\ Fault("restart")
  BY Zenon DEF Restart
<1>2. faults' \in 0..MaxFaults /\ faults' = faults + 1
  BY <1>1, KodiFault DEF KodiInv, Typed, PlayerTyped
<1>3. /\ born \in Nat /\ moves \in Nat /\ faults \in Nat
      /\ sess'.id = 0 /\ Len(queue') = 0 /\ \A m \in Sessions : pending'[m] = NoJob /\ m # 0
  BY <1>1, SessionsRange DEF KodiInv, Typed, PlayerTyped, WatcherTyped, NoSession
<1>4. Typed'
  <2>1. PlayerTyped'
    BY <1>1, <1>2 DEF KodiInv, Typed, PlayerTyped, player
  <2>2. WatcherTyped'
    BY <1>1 DEF KodiInv, Typed, WatcherTyped, numbered
  <2>3. SinkTyped'
    BY <1>1 DEF SinkTyped, Acts
  <2>4. 0 \in 0..(Tries - 1)
    OBVIOUS
  <2>5. WorkerTyped'
    BY <1>1, <2>4 DEF KodiInv, Typed, WorkerTyped
  <2> QED BY <2>1, <2>2, <2>3, <2>5 DEF Typed
<1>5. Numbered'
  BY <1>1, <1>2, <1>3 DEF KodiInv, Numbered, player, numbered
<1>6. InLine'
  BY <1>1, <1>3 DEF InLine
<1>7. InOrder'
  BY <1>1, <1>3 DEF KodiInv, Line, InOrder, numbered
<1>8. Counted'
  BY <1>1, <1>3 DEF Counted
<1>9. Plays'
  BY <1>1, <1>3 DEF KodiInv, Plays, RecordedWasWatched, LocalFollowsTrakt, numbered
<1> QED BY <1>4, <1>5, <1>6, <1>7, <1>8, <1>9 DEF KodiInv, Line

-----------------------------------------------------------------------------
(* The theorems *)

LEMMA InvStep == KodiInv /\ [Next]_vars => KodiInv'
<1> SUFFICES ASSUME KodiInv, [Next]_vars PROVE KodiInv'
  OBVIOUS
<1>1. ASSUME \/ \E i \in Items : PlayNext(i) \/ \E p \in Points : Play(i, p)
             \/ \E p \in Points : MoveTo(p)
             \/ PauseOrResume \/ StopPlaying
      PROVE  KodiInv'
  <2>1. PICK i \in Items \cup {None}, p \in Points, on \in BOOLEAN : Player(i, p, on)
    BY <1>1, ViewerMoves, Zenon
  <2> QED BY <2>1, InvPlayer, Zenon
<1>2. ASSUME NEW i \in Items, Expire(i) PROVE KodiInv'
  BY <1>2, InvExpire
<1>3. CASE WatcherStep
  BY <1>3, InvPollPlayers, InvReadItem, InvPlayerGone, InvReadProps DEF WatcherStep
<1>4. CASE WorkerStep
  BY <1>4, InvTakeJob, InvDelivered DEF WorkerStep
<1>5. CASE Unreachable \/ AnswerLost \/ Refused
  BY <1>5, InvFailed
<1>6. CASE Restart
  BY <1>6, InvRestart
<1>7. CASE UNCHANGED vars
  <2>1. UNCHANGED <<player, watcher, sink, worker, faults>>
    BY <1>7, Zenon DEF vars
  <2>2. /\ wpc' \in {"players", "item", "props"} /\ got' \in Items \cup {None} /\ empty' \in 0..2
        /\ wpc' = "props" /\ sess = NoSession => got' \in Items
    BY <2>1 DEF KodiInv, Typed, WatcherTyped, Numbered, watcher
  <2>3. UNCHANGED <<sess, numbered>>
    BY <2>1 DEF watcher
  <2> QED BY <2>1, <2>2, <2>3, InvLooks
<1>8. \/ \E i \in Items : PlayNext(i) \/ \E p \in Points : Play(i, p)
      \/ \E i \in Items : Expire(i)
      \/ \E p \in Points : MoveTo(p)
      \/ PauseOrResume \/ StopPlaying \/ WatcherStep \/ WorkerStep
      \/ Unreachable \/ AnswerLost \/ Refused \/ Restart \/ UNCHANGED vars
  BY Zenon DEF Next
<1> QED BY <1>1, <1>2, <1>3, <1>4, <1>5, <1>6, <1>7, <1>8, Zenon

LEMMA KodiInvHolds == Spec => []KodiInv
<1>1. Init => KodiInv
  BY KodiInit
<1>2. KodiInv /\ [Next]_vars => KodiInv'
  BY InvStep
<1> QED BY <1>1, <1>2, PTL DEF Spec

\* Every variable keeps its type; in particular there is at most one session,
\* the one that was born last, and its sink and its watcher agree on the last
\* event of it.
THEOREM KodiTypes == Spec => []KodiTypeOK
<1>1. KodiInv => KodiTypeOK
  <2> SUFFICES ASSUME KodiInv PROVE KodiTypeOK
    OBVIOUS
  <2>1. sess = NoSession \/ (sess.id = born /\ sess.last \in Points /\ sess.act = sess.sentAct)
    BY DEF KodiInv, Typed, WatcherTyped, Numbered, SessionRecords
  <2>2. born \in 0..Cardinality(Sessions)
    BY SessionsRange DEF KodiInv, Typed, PlayerTyped, WatcherTyped, Numbered
  <2>3. shown \in (0..born) \X {None, "start", "pause", "stop"}
    BY DEF KodiInv, Typed, WatcherTyped, WorkerTyped, Line, InOrder, Acts
  <2> QED BY <2>1, <2>2, <2>3 DEF KodiInv, Typed, PlayerTyped, WatcherTyped, SinkTyped, WorkerTyped,
                                  KodiTypeOK, Acts
<1> QED BY <1>1, KodiInvHolds, PTL

\* Trakt records a play only of a session that is over and whose last look at
\* the player was past the threshold, whatever is merged, repeated or lost.
THEOREM RecordedPlaysWereWatched == Spec => []RecordedWasWatched
<1>1. KodiInv => RecordedWasWatched
  BY DEF KodiInv, Plays
<1> QED BY <1>1, KodiInvHolds, PTL

\* A session is recorded at most once, although requests are repeated, and the
\* application records only what Trakt recorded.
THEOREM LocalRecordsFollow == Spec => []LocalFollowsTrakt
<1>1. KodiInv => LocalFollowsTrakt
  BY DEF KodiInv, Plays
<1> QED BY <1>1, KodiInvHolds, PTL

\* Trakt hears of the sessions in their order and of none after its end,
\* although starts are merged and requests are repeated.
THEOREM NeverBack == Spec => NoStepBack
<1>1. KodiInv /\ [Next]_vars =>
         [/\ shown'[1] >= shown[1]
          /\ shown'[1] = shown[1] /\ shown[2] = "stop" => shown'[2] = "stop"]_vars
  <2> SUFFICES ASSUME KodiInv, Next
               PROVE  /\ shown'[1] >= shown[1]
                      /\ shown'[1] = shown[1] /\ shown[2] = "stop" => shown'[2] = "stop"
    OBVIOUS
  <2>1. shown[1] \in Nat
    BY DEF KodiInv, Typed, WorkerTyped
  <2>2. CASE UNCHANGED shown
    BY <2>1, <2>2
  <2>3. CASE job # NoJob /\ TraktTakes
    <3>1. /\ shown[1] <= job.id
          /\ shown[1] = job.id /\ shown[2] = "stop" => job.act = "stop"
      BY <2>3 DEF KodiInv, Line, InOrder
    <3>2. shown' = shown \/ shown' = <<job.id, job.act>>
      BY <2>3 DEF TraktTakes
    <3>3. job.id \in Nat
      BY <2>3, JobSound, SessionsRange
    <3> QED BY <2>1, <3>1, <3>2, <3>3
  <2>4. UNCHANGED shown \/ (job # NoJob /\ TraktTakes)
    <3>1. CASE Delivered \/ AnswerLost
      BY <3>1, Zenon DEF Delivered, AnswerLost
    <3>2. CASE \/ \E i \in Items : PlayNext(i) \/ \E p \in Points : Play(i, p)
               \/ \E p \in Points : MoveTo(p)
               \/ PauseOrResume \/ StopPlaying
      <4>1. PICK i \in Items \cup {None}, p \in Points, on \in BOOLEAN : Player(i, p, on)
        BY <3>2, ViewerMoves, Zenon
      <4> QED BY <4>1, Zenon DEF Player, worker
    <3>3. CASE WatcherStep
      BY <3>3, Zenon DEF WatcherStep, PollPlayers, ReadItem, PlayerGone, ReadProps, worker
    <3>4. CASE TakeJob \/ Unreachable \/ Refused \/ Restart \/ \E i \in Items : Expire(i)
      BY <3>4, Zenon DEF TakeJob, Unreachable, Refused, Restart, Expire
    <3> QED BY <3>1, <3>2, <3>3, <3>4, Zenon DEF Next, WorkerStep
  <2> QED BY <2>2, <2>3, <2>4
<1> QED BY <1>1, KodiInvHolds, PTL DEF Spec, NoStepBack
=============================================================================
