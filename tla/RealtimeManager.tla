-------------------------- MODULE RealtimeManager --------------------------
(***************************************************************************)
(* The browser's one stream of serving events: RealtimeBootstrap, which     *)
(* follows the session, RealtimeManager, which owns the connection, the     *)
(* SSE worker it may hand the bytes to, and the realtime store.             *)
(*                                                                          *)
(* A step is a task of the event loop: a timer, an answer of the network, a *)
(* posted message, an effect of React, each with the continuations it runs  *)
(* before the next task.  A chunk of the stream carries one piece, a whole  *)
(* frame, the first part of one or the rest of it; a chunk of several       *)
(* frames is several steps with no flush between, for merging the chunk's   *)
(* batch and merging event by event give the same batch.                    *)
(***************************************************************************)
EXTENDS ServingFeed, FiniteSets

CONSTANTS
    Tokens,       \* access tokens of sessions that may stream
    Ids,          \* values of startSequence; only their being different matters
    Feeds,        \* sequences of events the server may send (a bound)
    MaxWaiting,   \* most starts waiting for an old stream (a bound)
    MaxAttempts,  \* failures counted (a bound: five reach the longest delay)
    MaxPosted     \* most messages on their way to the worker or from it (a bound)

ASSUME ManagerAssumption ==
    /\ None \notin Tokens
    /\ None \notin Ids
    /\ MaxWaiting \in Nat
    /\ MaxAttempts \in Nat
    /\ MaxPosted \in Nat
    /\ Feeds \subseteq Seq(Event)

\* What the server sends: an event's number is its place; the stream is asked for without a
\* code, so its bars are of the default one; the ingestor stamps what it adds to the
\* distribution with its clock, and a series is read in that order after the point before it.
ASSUME FeedsAssumption ==
    \A f \in Feeds : \A i \in 1..Len(f) :
        /\ f[i].n = i
        /\ f[i].name = "kbar_current" => f[i].code = StreamCode
        /\ f[i].name = "spot_market_distribution_series" =>
              \A j, k \in 1..Len(f[i].items) : j < k => f[i].items[j].ts < f[i].items[k].ts
        /\ f[i].name = "spot_market_distribution_latest" /\ f[i].ts # None =>
              \A j \in 1..i :
                  /\ f[j].name = "spot_market_distribution_latest" /\ f[j].ts # None =>
                        f[j].ts <= f[i].ts
                  /\ f[j].name = "spot_market_distribution_series" =>
                        \A k \in 1..Len(f[j].items) : f[j].items[k].ts <= f[i].ts

VARIABLES
    build,        \* how the bundle was built: local parsing, worker, or mock data
    feed,         \* the events the server sends, in order
    auth,         \* the token RealtimeBootstrap sees, None when it must not stream
    token, stoppedByClient,
    startSequence,      \* the start in force, None when disconnect took its number
    reconnectAttempts,
    reconnectTimer,     \* seconds until the reconnection, 0 when not armed
    abortController,    \* the stream whose controller is held, or None
    streamTask,         \* the stream whose promise is held, or None
    streams,            \* the streams that have not settled
    waiting,            \* starts that await an old stream: their number and its
    status,             \* connectionStatus and errorReason
    pendingBatch, flushArmed,
    mockArmed,
    worker,             \* the worker lives
    inbox,              \* messages to it
    cut,                \* its buffer: 0, the place of an event cut short, or -1, glued pieces
    workerBatch, workerArmed,
    outbox,             \* batches it has posted
    board,              \* the store
    at,                 \* the place in the feed of the next event
    heard               \* history: the newest event of each slot collected in this session

authVars == <<build, feed, auth>>
connVars == <<token, stoppedByClient, startSequence, reconnectAttempts, reconnectTimer,
              abortController, streamTask, streams, waiting, status>>
workerVars == <<worker, inbox, cut, workerBatch, workerArmed, outbox>>
batchVars == <<pendingBatch, flushArmed, mockArmed>>
vars == <<authVars, connVars, batchVars, workerVars, board, at, heard>>

Idle == [at |-> "idle", why |-> None]
Status(at_, why) == [at |-> at_, why |-> why]

Init ==
    /\ build \in {"local", "worker", "mock"}
    /\ feed \in Feeds
    /\ auth = None
    /\ token = None
    /\ stoppedByClient = FALSE
    /\ startSequence = None
    /\ reconnectAttempts = 0
    /\ reconnectTimer = 0
    /\ abortController = None
    /\ streamTask = None
    /\ streams = {}
    /\ waiting = {}
    /\ status = Idle
    /\ pendingBatch = NoBatch
    /\ flushArmed = FALSE
    /\ mockArmed = FALSE
    /\ worker = FALSE
    /\ inbox = <<>>
    /\ cut = 0
    /\ workerBatch = NoBatch
    /\ workerArmed = FALSE
    /\ outbox = <<>>
    /\ board = NoBoard
    /\ at = 1
    /\ heard = NoBatch

-----------------------------------------------------------------------------
(* Starting and stopping                                                    *)

\* Numbers in use, and the next one.
UsedIds == {startSequence} \cup {s.id : s \in streams} \cup {w.seq : w \in waiting}
              \cup {w.on : w \in waiting}
Fresh == CHOOSE i \in Ids : i \notin UsedIds
HasFresh == \E i \in Ids : i \notin UsedIds

Stream(id, t) == [id |-> id, token |-> t, open |-> FALSE, aborted |-> FALSE, half |-> FALSE]

\* The streams after the held controller is aborted.
AbortHeld ==
    {IF s.id = abortController THEN [s EXCEPT !.aborted = TRUE] ELSE s : s \in streams}

\* startWhenReady beyond its await: a new controller, a new stream, a new status.
Launch(id, t, attempts, others) ==
    /\ abortController' = id
    /\ streamTask' = id
    /\ streams' = others \cup {Stream(id, t)}
    /\ status' = Status(IF attempts > 0 THEN "retrying" ELSE "connecting", None)

\* startWhenReady: abort what runs; wait for it when its promise is still held.
StartWhenReady(id, t, attempts, held) ==
    IF streamTask = None
    THEN /\ Launch(id, t, attempts, AbortHeld)
         /\ UNCHANGED waiting
    ELSE /\ waiting' = waiting \cup {[seq |-> id, on |-> streamTask]}
         /\ streams' = AbortHeld
         /\ abortController' = held
         /\ UNCHANGED streamTask

\* ClearBatches that leaves the pending batch and its timer.
ClearBatchesButPending ==
    /\ reconnectTimer' = 0
    /\ reconnectAttempts' = 0
    /\ worker' = FALSE
    /\ inbox' = <<>>
    /\ cut' = 0
    /\ workerBatch' = NoBatch
    /\ workerArmed' = FALSE
    /\ outbox' = <<>>
    /\ UNCHANGED <<pendingBatch, flushArmed>>

\* What disconnect clears on the way, whatever follows it.
ClearBatches ==
    /\ reconnectTimer' = 0
    /\ reconnectAttempts' = 0
    /\ pendingBatch' = NoBatch
    /\ flushArmed' = FALSE
    /\ worker' = FALSE
    /\ inbox' = <<>>
    /\ cut' = 0
    /\ workerBatch' = NoBatch
    /\ workerArmed' = FALSE
    /\ outbox' = <<>>

\* The session ends, or becomes one that may not stream: the effect's cleanup, then
\* disconnect and resetRealtime.
LeaveSession ==
    /\ auth # None
    /\ auth' = None
    /\ token' = None
    /\ stoppedByClient' = TRUE
    /\ startSequence' = None
    /\ ClearBatches
    /\ mockArmed' = FALSE
    /\ abortController' = None
    /\ streams' = AbortHeld
    /\ status' = Idle
    /\ board' = NoBoard
    /\ heard' = NoBatch
    /\ UNCHANGED <<build, feed, streamTask, waiting, at>>

\* A session begins, or its token is another one: the cleanup disconnects, the effect
\* connects.  The store keeps what it shows.
EnterSession(t) ==
    /\ auth # t
    /\ HasFresh
    /\ Cardinality(waiting) < MaxWaiting
    /\ auth' = t
    /\ token' = t
    /\ stoppedByClient' = FALSE
    /\ startSequence' = Fresh
    /\ ClearBatches
    /\ mockArmed' = (build = "mock")
    /\ heard' = board.slots
    /\ IF build = "mock"
       THEN /\ status' = Status("connected", None)
            /\ abortController' = None
            /\ streams' = AbortHeld
            /\ UNCHANGED <<streamTask, waiting>>
       ELSE /\ StartWhenReady(Fresh, t, 0, None)
            /\ streamTask # None => status' = Idle
    /\ UNCHANGED <<build, feed, board, at>>

\* Resume that does not look whether it was overtaken.
ResumeOvertaken(w) ==
    /\ w \in waiting
    /\ \A s \in streams : s.id # w.on
    /\ waiting' = waiting \ {w}
    /\ IF token = None \/ stoppedByClient
       THEN UNCHANGED <<abortController, streamTask, streams, status>>
       ELSE Launch(w.seq, token, reconnectAttempts, streams)
    /\ UNCHANGED <<authVars, token, stoppedByClient, startSequence, reconnectAttempts,
                   reconnectTimer, batchVars, workerVars, board, at, heard>>

\* The promise a start waited for has settled: the start goes on unless it was
\* overtaken.
Resume(w) ==
    /\ w \in waiting
    /\ \A s \in streams : s.id # w.on
    /\ waiting' = waiting \ {w}
    /\ IF w.seq # startSequence \/ token = None \/ stoppedByClient
       THEN UNCHANGED <<abortController, streamTask, streams, status>>
       ELSE Launch(w.seq, token, reconnectAttempts, streams)
    /\ UNCHANGED <<authVars, token, stoppedByClient, startSequence, reconnectAttempts,
                   reconnectTimer, batchVars, workerVars, board, at, heard>>

\* The reconnection timer fires: start.
TimerFires ==
    /\ reconnectTimer > 0
    /\ HasFresh
    /\ reconnectTimer' = 0
    /\ startSequence' = Fresh
    /\ IF token = None
       THEN UNCHANGED <<abortController, streamTask, streams, waiting, status>>
       ELSE /\ StartWhenReady(Fresh, token, reconnectAttempts, abortController)
            /\ streamTask # None => status' = status
    /\ UNCHANGED <<authVars, token, stoppedByClient, reconnectAttempts, batchVars,
                   workerVars, board, at, heard>>

-----------------------------------------------------------------------------
(* The stream                                                               *)

\* The finally of a stream: it forgets the controller and the promise that are its own.
Settled(s) ==
    /\ streams' = streams \ {s}
    /\ abortController' = IF abortController = s.id THEN None ELSE abortController
    /\ streamTask' = IF streamTask = s.id THEN None ELSE streamTask

\* The server accepts: a worker is made when the build wants one and none lives.
Opens(s) ==
    /\ s \in streams /\ ~s.open /\ ~s.aborted
    /\ streams' = (streams \ {s}) \cup {[s EXCEPT !.open = TRUE]}
    /\ reconnectAttempts' = 0
    /\ status' = Status("connected", None)
    /\ worker' = (worker \/ build = "worker")
    /\ UNCHANGED <<authVars, token, stoppedByClient, startSequence, reconnectTimer,
                   abortController, streamTask, waiting, batchVars, inbox, cut, workerBatch,
                   workerArmed, outbox, board, at, heard>>

\* Retry that stops arming the timer after a number of attempts.
RetryLimited(why, delay) ==
    /\ status' = Status("retrying", why)
    /\ reconnectTimer' = IF reconnectAttempts < MaxAttempts THEN delay ELSE 0
    /\ reconnectAttempts' = IF reconnectAttempts < MaxAttempts THEN reconnectAttempts + 1
                            ELSE MaxAttempts

\* scheduleReconnect, with the delay of the failure.
Retry(why, delay) ==
    /\ status' = Status("retrying", why)
    /\ reconnectTimer' = delay
    /\ reconnectAttempts' = IF reconnectAttempts < MaxAttempts THEN reconnectAttempts + 1
                            ELSE MaxAttempts

\* Backoff that waits nothing at the first failure.
BackoffFromZero(attempts) == 2^attempts - 1

\* 2^attempts, at most 30.
Backoff(attempts) == IF attempts < 5 THEN <<1, 2, 4, 8, 16>>[attempts + 1] ELSE 30

\* A stream that fails, before or after it opened: authentication is final, the rate
\* limit waits five seconds, anything else backs off.
Fails(s, why) ==
    /\ s \in streams /\ ~s.aborted
    /\ why \in {"auth_failed", "rate_limited"} => ~s.open
    /\ Settled(s)
    /\ CASE stoppedByClient -> UNCHANGED <<status, reconnectTimer, reconnectAttempts>>
         [] ~stoppedByClient /\ why = "auth_failed" ->
               /\ status' = Status("error", why)
               /\ UNCHANGED <<reconnectTimer, reconnectAttempts>>
         [] ~stoppedByClient /\ why = "rate_limited" -> Retry(why, 5)
         [] OTHER -> Retry(why, Backoff(reconnectAttempts))
    /\ UNCHANGED <<authVars, token, stoppedByClient, startSequence, waiting, batchVars,
                   worker, cut, workerBatch, workerArmed, outbox, board, at, heard>>

\* The server ends an open stream: the worker is told to emit, then the stream fails.
StreamEnds(s) ==
    /\ s.open
    /\ Len(inbox) < MaxPosted
    /\ Fails(s, "stream_disconnected")
    /\ inbox' = IF worker THEN Append(inbox, [type |-> "flush"]) ELSE inbox

\* The connection is refused or breaks.
StreamBreaks(s) ==
    /\ \E why \in {"auth_failed", "rate_limited", "stream_disconnected"} : Fails(s, why)
    /\ UNCHANGED inbox

\* An aborted stream rejects: its failure is ignored.
AbortSettles(s) ==
    /\ s \in streams /\ s.aborted
    /\ Settled(s)
    /\ UNCHANGED <<authVars, token, stoppedByClient, startSequence, reconnectAttempts,
                   reconnectTimer, waiting, status, batchVars, workerVars, board, at, heard>>

-----------------------------------------------------------------------------
(* The events                                                               *)

\* mergeIntoPendingBatch: the first batch of a window arms the flush.
MergeIntoPending(batch) ==
    IF DOMAIN batch = {} THEN UNCHANGED <<pendingBatch, flushArmed>>
    ELSE /\ pendingBatch' = Merge(pendingBatch, batch)
         /\ flushArmed' = TRUE

\* The rest of a frame, or a whole one, ends in a blank line and is parsed.
EndsFrame(piece) == piece # "head"

\* A chunk of the stream: the first part of a frame, the rest of it, or a whole one.
\* The worker gets it as it is; the manager keeps a first part in the stream's buffer.
Chunk(s, piece) ==
    /\ s \in streams /\ s.open /\ ~s.aborted
    /\ at <= Len(feed)
    /\ Len(inbox) < MaxPosted
    /\ s.half <=> piece = "tail"
    /\ streams' = (streams \ {s}) \cup {[s EXCEPT !.half = (piece = "head")]}
    /\ at' = IF EndsFrame(piece) THEN at + 1 ELSE at
    /\ IF worker
       THEN /\ inbox' = Append(inbox, [type |-> "chunk", piece |-> piece, n |-> at])
            /\ UNCHANGED <<pendingBatch, flushArmed, heard>>
       ELSE LET batch == IF EndsFrame(piece) /\ ShouldApply(feed[at])
                         THEN Collect(feed[at], board.slots) ELSE NoBatch
            IN  /\ MergeIntoPending(batch)
                /\ heard' = Over(Slots(batch), heard)
                /\ UNCHANGED inbox
    /\ UNCHANGED <<authVars, token, stoppedByClient, startSequence, reconnectAttempts,
                   reconnectTimer, abortController, streamTask, waiting, status, mockArmed,
                   worker, cut, workerBatch, workerArmed, outbox, board>>

\* Flush that forgets to let go of the batch.
FlushKeeping ==
    /\ flushArmed
    /\ flushArmed' = FALSE
    /\ board' = IF DOMAIN pendingBatch = {} THEN board ELSE ApplyBatch(board, pendingBatch)
    /\ UNCHANGED <<authVars, connVars, pendingBatch, mockArmed, workerVars, at, heard>>

\* The flush of the pending batch.
Flush ==
    /\ flushArmed
    /\ flushArmed' = FALSE
    /\ pendingBatch' = NoBatch
    /\ board' = IF DOMAIN pendingBatch = {} THEN board ELSE ApplyBatch(board, pendingBatch)
    /\ UNCHANGED <<authVars, connVars, mockArmed, workerVars, at, heard>>

\* The list the mock generator makes at a tick: six instruments with prices of its own.
MockList(n) ==
    [n |-> n, name |-> "spot_latest_list", code |-> None, ts |-> n, ok |-> TRUE,
     items |-> <<>>]

\* The mock generator's interval: its list goes to the store past the pending batch.
MockEmits ==
    /\ mockArmed
    /\ at <= Len(feed)
    /\ at' = at + 1
    /\ LET batch == Put({<<"spot_latest_list", None>>}, MockList(at))
       IN  board' = ApplyBatch(board, batch) /\ heard' = Over(Slots(batch), heard)
    /\ UNCHANGED <<authVars, connVars, batchVars, workerVars>>

-----------------------------------------------------------------------------
(* The worker                                                               *)

EmitBatch ==
    /\ Len(outbox) < MaxPosted
    /\ workerArmed' = FALSE
    /\ workerBatch' = NoBatch
    /\ outbox' = IF DOMAIN workerBatch = {} THEN outbox ELSE Append(outbox, workerBatch)

\* Its buffer after a piece: a first part waits, on top of another it spoils both.
Buffered(m) ==
    IF m.piece # "head" THEN 0 ELSE IF cut = 0 THEN m.n ELSE -1

\* The events a piece may complete: the rest of a frame completes what was cut, and
\* pieces of two frames glued together parse as nothing or, when the first one was cut
\* early enough, as the second.
Completed(m) ==
    IF m.piece = "head" THEN {{}}
    ELSE {{feed[m.n]}} \cup (IF cut \in {0, m.n} THEN {} ELSE {{}})

\* onmessage of a chunk.
WorkerParses(m) ==
    /\ m.type = "chunk"
    /\ cut' = Buffered(m)
    /\ \E events \in Completed(m) :
          LET taken == {ev \in events : WorkerShouldApply(ev)}
              batch == IF taken = {} THEN NoBatch ELSE CollectRaw(CHOOSE ev \in taken : TRUE)
          IN  workerBatch' = Merge(workerBatch, batch) /\ heard' = Over(Slots(batch), heard)
    /\ workerArmed' = TRUE
    /\ UNCHANGED outbox

WorkerTakes ==
    /\ worker
    /\ inbox # <<>>
    /\ inbox' = Tail(inbox)
    /\ \/ WorkerParses(Head(inbox))
       \/ /\ Head(inbox).type = "flush"
          /\ EmitBatch
          /\ UNCHANGED <<cut, heard>>
    /\ UNCHANGED <<authVars, connVars, batchVars, worker, board, at>>

\* The worker's own flush timer.
WorkerTimer ==
    /\ worker
    /\ workerArmed
    /\ EmitBatch
    /\ UNCHANGED <<authVars, connVars, batchVars, worker, inbox, cut, board, at, heard>>

\* handleWorkerMessage.
BatchArrives ==
    /\ outbox # <<>>
    /\ outbox' = Tail(outbox)
    /\ MergeIntoPending(Head(outbox))
    /\ UNCHANGED <<authVars, connVars, mockArmed, worker, inbox, cut, workerBatch,
                   workerArmed, board, at, heard>>

-----------------------------------------------------------------------------
StreamStep ==
    \E s \in streams :
        \/ Opens(s)
        \/ StreamEnds(s)
        \/ StreamBreaks(s)
        \/ AbortSettles(s)
        \/ \E piece \in {"head", "tail", "whole"} : Chunk(s, piece)

WorkerStep == WorkerTakes \/ WorkerTimer \/ BatchArrives

Next ==
    \/ LeaveSession
    \/ \E t \in Tokens : EnterSession(t)
    \/ \E w \in waiting : Resume(w)
    \/ TimerFires
    \/ StreamStep
    \/ Flush
    \/ MockEmits
    \/ WorkerStep

\* Timers fire and promises settle; the server, asked again and again, accepts in the end.
Fairness ==
    /\ WF_vars(TimerFires)
    /\ WF_vars(\E w \in waiting : Resume(w))
    /\ WF_vars(\E s \in streams : AbortSettles(s) \/ Opens(s) \/ (~s.open /\ StreamBreaks(s)))
    /\ SF_vars(\E s \in streams : Opens(s))

Spec == Init /\ [][Next]_vars
LiveSpec == Spec /\ Fairness

-----------------------------------------------------------------------------
(* Properties                                                               *)

Live == {s \in streams : ~s.aborted}

\* Every variable has its type.
TypeOK ==
    /\ build \in {"local", "worker", "mock"}
    /\ auth \in Tokens \cup {None}
    /\ token \in Tokens \cup {None}
    /\ stoppedByClient \in BOOLEAN
    /\ startSequence \in Ids \cup {None}
    /\ reconnectAttempts \in 0..MaxAttempts
    /\ reconnectTimer \in 0..30
    /\ abortController \in Ids \cup {None}
    /\ streamTask \in Ids \cup {None}
    /\ streams \subseteq [id : Ids, token : Tokens, open : BOOLEAN, aborted : BOOLEAN,
                          half : BOOLEAN]
    /\ waiting \subseteq [seq : Ids, on : Ids]
    /\ status \in [at : {"idle", "connecting", "connected", "retrying"}, why : {None}]
                  \cup [at : {"retrying"}, why : {"rate_limited", "stream_disconnected"}]
                  \cup [at : {"error"}, why : {"auth_failed"}]
    /\ flushArmed \in BOOLEAN /\ mockArmed \in BOOLEAN
    /\ worker \in BOOLEAN /\ workerArmed \in BOOLEAN
    /\ at \in 1..(Len(feed) + 1)

\* However connects, disconnects and reconnections interleave with streams that are slow
\* to die, at most one stream is not aborted; it is the one whose controller is held, it
\* uses the session's token, and no second start can be on its way past it.
OneLiveStream ==
    /\ \A s, r \in Live : s = r
    /\ \A s \in Live : s.id = abortController /\ s.token = token /\ token = auth
    /\ Live # {} => reconnectTimer = 0 /\ \A w \in waiting : w.seq # startSequence

\* After disconnect nothing of the manager is left that could touch the store or the
\* network: no timer, no batch, no worker, no live stream, no start that will go on.
QuietWhenStopped ==
    token = None =>
        /\ status = Idle
        /\ reconnectTimer = 0 /\ ~flushArmed /\ ~mockArmed /\ ~worker
        /\ DOMAIN pendingBatch = {} /\ outbox = <<>>
        /\ Live = {}

\* The status shown is the state of the connection: connected while a stream is open,
\* connecting or retrying while one is being asked for or will be, error when nothing
\* is going to be tried.
StatusTellsTruth ==
    LET coming == reconnectTimer > 0 \/ \E s \in Live : ~s.open
        resuming == \E w \in waiting : w.seq = startSequence
    IN  /\ status.at = "connected" <=> (mockArmed \/ \E s \in Live : s.open)
        /\ status.at = "connecting" => coming
        /\ status.at = "retrying" => coming \/ resuming
        /\ status.at = "error" => ~coming /\ ~resuming
        /\ status.at = "idle" => token = None \/ resuming

\* What has been received is on its way to the store: a batch that waits has its flush
\* armed, in the manager and in the worker.
PendingIsArmed ==
    /\ DOMAIN pendingBatch # {} => flushArmed
    /\ DOMAIN workerBatch # {} => workerArmed

\* The series of the distribution is in order of time, and no longer than the cap unless
\* the server sent a longer one.
SeriesOrdered ==
    board.series # None =>
        /\ \A i, j \in 1..Len(board.series) : i < j => board.series[i].ts < board.series[j].ts
        /\ \/ Len(board.series) <= SeriesCap
           \/ \E i \in 1..Len(feed) : /\ feed[i].name = "spot_market_distribution_series"
                                      /\ Len(board.series) <= Len(feed[i].items)

\* What the posted batches bring the store, each over those posted before it.
Posted(posts) ==
    LET holding(s) == {i \in 1..Len(posts) : s \in DOMAIN Slots(posts[i])}
        newest(s) == CHOOSE i \in holding(s) : \A j \in holding(s) : j <= i
    IN  [s \in UNION {DOMAIN Slots(posts[i]) : i \in 1..Len(posts)} |-> Slots(posts[newest(s)])[s]]

\* What is on its way to the store and what it holds, the later over the earlier.
Known ==
    Over(Slots(workerBatch), Over(Posted(outbox), Over(Slots(pendingBatch), board.slots)))

\* No window, merge or hand-over between the worker and the manager loses the newest
\* value of a slot: it is in the store or on its way there.
NothingLost == Known = heard

\* The store is a live display of what was collected: it catches up, never goes back,
\* forgets nothing but when the session ends, and shows nothing a left session held back.
Display == INSTANCE LatestBoard WITH known <- heard, shown <- board.slots
RefinesBoard == Display!Spec

\* A session whose stream broke or was held up by an old one gets its stream or a final
\* refusal, if the server accepts in the end.
ReconnectsWith(t) ==
    (auth = t) ~> (auth # t \/ status.at \in {"connected", "error"})

\* What the store shows has passed the schema of its event.
OnlyValidatedShown == \A s \in DOMAIN board.slots : Conforms(board.slots[s])
=============================================================================
