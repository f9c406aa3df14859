------------------------------- MODULE DbSink -------------------------------
(***************************************************************************)
(* The database sink of stream_processing/runner.py: a bounded asyncio      *)
(* queue filled by the consume loop, a sink coroutine that drains it in     *)
(* batches and hands each batch to a worker thread (asyncio.to_thread), a   *)
(* pending batch that survives failed attempts, a bounded number of retries *)
(* with a dead-letter stream behind them, and the flush that stop_async     *)
(* makes after it has cancelled the coroutine.                              *)
(*                                                                          *)
(* The coroutine and the consume loop share one event loop, so a step of    *)
(* the coroutine happens only while the consume loop is at an await.  The   *)
(* worker thread runs at any time.                                          *)
(*                                                                          *)
(* The module has no Next of its own: a pipeline that feeds the queue       *)
(* extends it, and joins its actions with those of its consume loop.        *)
(***************************************************************************)
EXTENDS Integers, Sequences, Functions

CONSTANTS
    QueueMax,      \* maxsize of the asyncio queue
    BatchSize,     \* db_sink_batch_size
    MaxRetries     \* db_sink_max_retries

\* StreamProcessingRunner.__init__ raises the last two to one at least; a queue of
\* size zero would be an unbounded one.
ASSUME SinkAssumption ==
    /\ QueueMax \in Nat \ {0}
    /\ BatchSize \in Nat \ {0}
    /\ MaxRetries \in Nat \ {0}

VARIABLES
    queue,         \* the asyncio queue: a sequence of items
    pending,       \* the batch taken from the queue and not settled yet
    retries,       \* failed attempts of the pending batch
    sink,          \* where the sink coroutine is
    orphan,        \* the batch of a worker thread whose coroutine was cancelled
    rows,          \* the table: a set of items, at most one for each key "at"
    dead,          \* items on the dead-letter stream
    logged         \* items whose dead-letter XADD failed: only a log line is left

sinkVars == <<queue, pending, retries, sink, orphan, rows, dead, logged>>

\* Keys that have a row.
RowKeys == {r.at : r \in rows}

\* The batch's items that get a row when its first n items are inserted one by
\* one: a unique-key conflict is tolerated, so the first item of a key wins.
NewRows(batch, n) ==
    {batch[i] : i \in {j \in 1..n : /\ batch[j].at \notin RowKeys
                                    /\ \A k \in 1..(j - 1) : batch[k].at # batch[j].at}}

\* add_all and one commit for the whole batch fail on a unique key; only then are
\* the records committed one at a time.
RowByRow(batch) ==
    \E i \in DOMAIN batch : \/ batch[i].at \in RowKeys
                            \/ \E j \in 1..(i - 1) : batch[j].at = batch[i].at

\* _persist_kbar_batch succeeds: every key of the batch has a row.
PersistAll(batch) == rows' = rows \cup NewRows(batch, Len(batch))

\* It fails: nothing is committed, or everything is and the reply is lost, or,
\* row by row, some first part of the batch.
PersistFails(batch) ==
    \E n \in 0..Len(batch) :
        /\ n \in {0, Len(batch)} \/ RowByRow(batch)
        /\ rows' = rows \cup NewRows(batch, n)

SinkInit ==
    /\ queue = <<>>
    /\ pending = <<>>
    /\ retries = 0
    /\ sink = "idle"
    /\ orphan = <<>>
    /\ rows = {}
    /\ dead = {}
    /\ logged = {}

----------------------------------------------------------------------------
(* The hand-off: put_nowait, called by the consume loop.                    *)

QueueFull == Len(queue) >= QueueMax

PutNowait(x) ==
    /\ ~QueueFull
    /\ queue' = Append(queue, x)
    /\ UNCHANGED <<pending, retries, sink, orphan, rows, dead, logged>>

----------------------------------------------------------------------------
(* The sink coroutine.                                                      *)

\* How many items a drain takes.
DrainSize == IF Len(queue) < BatchSize THEN Len(queue) ELSE BatchSize

\* The batch the coroutine works on: the pending one if there is one, else a
\* fresh drain of the queue.
AcquireBatch ==
    IF pending # <<>>
    THEN UNCHANGED <<queue, pending>>
    ELSE /\ pending' = SubSeq(queue, 1, DrainSize)
         /\ queue' = SubSeq(queue, DrainSize + 1, Len(queue))

\* The coroutine wakes up and starts a worker thread for the batch.
StartPersist ==
    /\ sink = "idle"
    /\ pending # <<>> \/ queue # <<>>
    /\ AcquireBatch
    /\ sink' = "persisting"
    /\ UNCHANGED <<retries, orphan, rows, dead, logged>>

\* The thread commits the whole batch.
ThreadCommit ==
    /\ sink = "persisting"
    /\ PersistAll(pending)
    /\ sink' = "persisted"
    /\ UNCHANGED <<queue, pending, retries, orphan, dead, logged>>

\* The thread fails.
ThreadFail ==
    /\ sink = "persisting"
    /\ PersistFails(pending)
    /\ sink' = "failed"
    /\ UNCHANGED <<queue, pending, retries, orphan, dead, logged>>

\* The batch is settled: what the success branch does to the pending batch.
ClearPending ==
    /\ pending' = <<>>
    /\ retries' = 0

\* Retries exhausted: each item goes to the dead-letter stream, and an item
\* whose XADD fails is only logged.
Quarantine(batch) ==
    \E published \in SUBSET Range(batch) :
        /\ dead' = dead \cup published
        /\ logged' = logged \cup (Range(batch) \ published)

\* The coroutine resumes after its thread succeeded.
ResumeSuccess ==
    /\ sink = "persisted"
    /\ ClearPending
    /\ sink' = "idle"
    /\ UNCHANGED <<queue, orphan, rows, dead, logged>>

\* Three faulty variants of ResumeFailure: one attempt too many, a batch given up
\* without a trace, a batch never given up.
ResumeFailureLate ==
    /\ sink = "failed"
    /\ sink' = "idle"
    /\ \/ /\ retries > MaxRetries
          /\ Quarantine(pending)
          /\ ClearPending
       \/ /\ retries <= MaxRetries
          /\ retries' = retries + 1
          /\ UNCHANGED <<pending, dead, logged>>
    /\ UNCHANGED <<queue, orphan, rows>>

ResumeFailureDrops ==
    /\ sink = "failed"
    /\ sink' = "idle"
    /\ \/ retries + 1 > MaxRetries /\ ClearPending
       \/ retries + 1 <= MaxRetries /\ retries' = retries + 1 /\ UNCHANGED pending
    /\ UNCHANGED <<queue, orphan, rows, dead, logged>>

ResumeFailureForever ==
    /\ sink = "failed"
    /\ sink' = "idle"
    /\ UNCHANGED <<queue, pending, retries, orphan, rows, dead, logged>>

\* The coroutine resumes after its thread failed: one more attempt is counted,
\* and the attempt after the last allowed one gives the batch up.
ResumeFailure ==
    /\ sink = "failed"
    /\ sink' = "idle"
    /\ \/ /\ retries + 1 > MaxRetries
          /\ Quarantine(pending)
          /\ ClearPending
       \/ /\ retries + 1 <= MaxRetries
          /\ retries' = retries + 1
          /\ UNCHANGED <<pending, dead, logged>>
    /\ UNCHANGED <<queue, orphan, rows>>

----------------------------------------------------------------------------
(* stop_async: cancel the coroutine, then flush synchronously.              *)

\* A faulty variant of CancelSink: cancellation throws the batch away.
CancelSinkClears ==
    /\ sink \in {"idle", "persisting", "persisted", "failed"}
    /\ sink' = "flushing"
    /\ orphan' = IF sink = "persisting" THEN pending ELSE <<>>
    /\ pending' = <<>>
    /\ UNCHANGED <<queue, retries, rows, dead, logged>>

\* Cancelling the coroutine does not stop a thread that is running: it keeps the
\* batch, and the batch stays pending for the flush as well.
CancelSink ==
    /\ sink \in {"idle", "persisting", "persisted", "failed"}
    /\ sink' = "flushing"
    /\ orphan' = IF sink = "persisting" THEN pending ELSE <<>>
    /\ UNCHANGED <<queue, pending, retries, rows, dead, logged>>

\* The orphaned thread ends, one way or the other.
OrphanEnd ==
    /\ orphan # <<>>
    /\ PersistAll(orphan) \/ PersistFails(orphan)
    /\ orphan' = <<>>
    /\ UNCHANGED <<queue, pending, retries, sink, dead, logged>>

\* One turn of flush_db_sinks_once that persists a batch.
FlushBatch ==
    /\ sink = "flushing"
    /\ pending # <<>> \/ queue # <<>>
    /\ PersistAll(IF pending # <<>> THEN pending ELSE SubSeq(queue, 1, DrainSize))
    /\ queue' = IF pending # <<>> THEN queue ELSE SubSeq(queue, DrainSize + 1, Len(queue))
    /\ ClearPending
    /\ UNCHANGED <<sink, orphan, dead, logged>>

\* One turn that fails for good: the batch is quarantined and the turn counts as
\* "nothing flushed".  flush_db_sinks_once returns with the queue as it is, unless
\* the runner's other sink flushed something in the same turn.
FlushQuarantine ==
    /\ sink = "flushing"
    /\ pending # <<>>
    /\ retries + 1 > MaxRetries
    /\ PersistFails(pending)
    /\ Quarantine(pending)
    /\ ClearPending
    /\ sink' \in {"flushing", "flushed"}
    /\ UNCHANGED <<queue, orphan>>

\* One turn that fails with retries left: the exception leaves stop_async.
FlushRaise ==
    /\ sink = "flushing"
    /\ pending # <<>> \/ queue # <<>>
    /\ retries + 1 <= MaxRetries
    /\ AcquireBatch
    /\ PersistFails(pending')
    /\ retries' = retries + 1
    /\ sink' = "flushed"
    /\ UNCHANGED <<orphan, dead, logged>>

\* The exception is the other sink's: what is left here stays unflushed.
FlushAbandoned ==
    /\ sink = "flushing"
    /\ sink' = "flushed"
    /\ UNCHANGED <<queue, pending, retries, orphan, rows, dead, logged>>

\* Nothing is left to flush.
FlushEmpty ==
    /\ sink = "flushing"
    /\ pending = <<>> /\ queue = <<>>
    /\ retries' = 0
    /\ sink' = "flushed"
    /\ UNCHANGED <<queue, pending, orphan, rows, dead, logged>>

\* The process is gone: its memory is empty, the database and Redis are not.
SinkForget ==
    /\ queue' = <<>>
    /\ pending' = <<>>
    /\ retries' = 0
    /\ orphan' = <<>>
    /\ sink' = "idle"
    /\ UNCHANGED <<rows, dead, logged>>

CoroutineResumes == ResumeSuccess \/ ResumeFailure
CoroutineStep == StartPersist \/ CoroutineResumes
ThreadStep == ThreadCommit \/ ThreadFail \/ OrphanEnd
FlushStep == FlushBatch \/ FlushQuarantine \/ FlushRaise \/ FlushAbandoned \/ FlushEmpty

\* What the sink holds, and the promise it makes about it.
Held == Range(queue) \cup Range(pending) \cup Range(orphan)

Sink == INSTANCE WriteBehind WITH
            inflight <- Held, rows <- rows, given <- dead \cup logged

----------------------------------------------------------------------------
(* Invariants of the sink, for the pipelines that extend it.                *)

\* The sink's variables have their types; the queue and the batch respect their
\* bounds and the retry counter its limit.
SinkTypeOK(Item) ==
    /\ queue \in Seq(Item) /\ Len(queue) <= QueueMax
    /\ pending \in Seq(Item) /\ Len(pending) <= BatchSize
    /\ retries \in 0..MaxRetries
    /\ sink \in {"idle", "persisting", "persisted", "failed", "flushing", "flushed"}
    /\ orphan \in Seq(Item)
    /\ rows \in SUBSET Item
    /\ dead \in SUBSET Item
    /\ logged \in SUBSET Item

\* A sequence of items of strictly increasing keys, and one below a key.
InOrder(s) == \A i, j \in DOMAIN s : i < j => s[i].at < s[j].at
EarlierThan(s, key) == \A i \in DOMAIN s : s[i].at < key

\* The pending batch followed by the queue: strictly increasing keys.
SinkInOrder ==
    /\ InOrder(pending)
    /\ InOrder(queue)
    /\ \A j \in DOMAIN queue : EarlierThan(pending, queue[j].at)

\* A key has one row; a batch reported persisted has its rows; a worker thread
\* outlives its coroutine only in a stop, and what it holds is still pending, has
\* a row, or was given up (_flush_tick_db_sink_once_async against stop_async and
\* the synchronous flush).
SinkConsistent ==
    /\ \A x, y \in rows : x.at = y.at => x = y
    /\ sink = "persisted" => \A i \in DOMAIN pending : pending[i].at \in RowKeys
    /\ sink \notin {"flushing", "flushed"} => orphan = <<>>
    /\ \A i \in DOMAIN orphan :
          \/ orphan[i] \in Range(pending) \cup dead \cup logged
          \/ orphan[i].at \in RowKeys
=============================================================================
