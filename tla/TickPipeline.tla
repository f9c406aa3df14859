---------------------------- MODULE TickPipeline ----------------------------
(***************************************************************************)
(* The tick half of a stream-processing worker: one Redis Stream read       *)
(* through a consumer group, the TickStateMachine it feeds, the Redis keys  *)
(* it keeps (k:current, k:zset), the hand-off of finished bars to the       *)
(* database sink, graceful stop, crash and restart.                         *)
(*                                                                          *)
(* The stream is chosen in Init and never changes; what has been published  *)
(* so far is covered by XREADGROUP returning any number of the entries not  *)
(* delivered yet.  An entry is its position in the stream.                  *)
(***************************************************************************)
EXTENDS TickBars, DbSink, FiniteSets

CONSTANTS
    Streams,        \* the streams a behaviour may start from
    ReadCount,      \* entries one XREADGROUP returns at most
    ClaimCount,     \* entries one XAUTOCLAIM returns at most
    MaxEntries,     \* bound: entries of a stream
    MaxApplied,     \* bound: no entry is reclaimed once so many ticks are applied
    MaxFailures     \* bound: Redis errors, crashes and stops

\* The streams are made of ticks, and the counts and bounds are numbers.
ASSUME PipelineAssumption ==
    /\ MaxEntries \in Nat
    /\ \A s \in Streams : s \in Seq(Tick) /\ Len(s) <= MaxEntries
    /\ ReadCount \in Nat \ {0}
    /\ ClaimCount \in Nat \ {0}
    /\ MaxApplied \in Nat
    /\ MaxFailures \in Nat

VARIABLES
    stream,         \* the entries, all of one contract
    delivered,      \* the group's last-delivered id
    pel,            \* the group's pending entries list
    idle,           \* pending entries idle for longer than claim_idle_ms
    phase,          \* where the consume loop is
    work,           \* entries of the current batch still to be handled, lowest first
    acking,         \* the entry whose handler returned True, 0 if none
    machine,        \* the TickStateMachine of the contract
    applied,        \* history: entries applied by this process, in order
    missed,         \* history: bars closed by this process that were not handed off
    kcurrent,       \* Redis: the hash k:current of the trade date written last
    kzset,          \* Redis: the sorted sets k:zset of all trade dates
    failures        \* failures so far

groupVars == <<stream, delivered, pel, idle>>
loopVars == <<phase, work, acking>>
barVars == <<machine, applied, missed, kcurrent, kzset>>
vars == <<groupVars, loopVars, barVars, failures, sinkVars>>

Entries == 1..Len(stream)

Init ==
    /\ stream \in Streams
    /\ delivered = 0
    /\ pel = {}
    /\ idle = {}
    /\ phase = "await"
    /\ work = {}
    /\ acking = 0
    /\ machine = NewMachine
    /\ applied = <<>>
    /\ missed = {}
    /\ kcurrent = NoBar
    /\ kzset = {}
    /\ failures = 0
    /\ SinkInit

Fail ==
    /\ failures < MaxFailures
    /\ failures' = failures + 1

----------------------------------------------------------------------------
(* _consume_once: reclaim, then read.                                       *)

\* Time passes for a pending entry; it matters where XAUTOCLAIM may come next.
BecomeIdle(e) ==
    /\ phase \in {"await", "down"}
    /\ e \in pel \ idle
    /\ Len(applied) < MaxApplied
    /\ idle' = idle \cup {e}
    /\ UNCHANGED <<stream, delivered, pel, loopVars, barVars, failures, sinkVars>>

\* The first n entries of a set, in stream order.
FirstOf(S, n) == {e \in S : Cardinality({f \in S : f < e}) < n}

\* XAUTOCLAIM from 0-0: the first idle entries, whose idle time starts again.
\* An error is taken for an empty answer.
ClaimPending ==
    /\ phase = "await"
    /\ phase' = "claimed"
    /\ work' \in {FirstOf(idle, ClaimCount), {}}
    /\ idle' = idle \ work'
    /\ UNCHANGED <<stream, delivered, pel, acking, barVars, failures, sinkVars>>

\* The command took effect and its reply is lost: the entries are no longer idle,
\* and nobody handles them.
ClaimReplyLost ==
    /\ Fail
    /\ phase = "await"
    /\ phase' = "claimed"
    /\ idle' = idle \ FirstOf(idle, ClaimCount)
    /\ UNCHANGED <<stream, delivered, pel, work, acking, barVars, sinkVars>>

\* The entries a read gives out: the next ones nobody was given.
Deliver(n) ==
    /\ delivered + n <= Len(stream)
    /\ delivered' = delivered + n
    /\ pel' = pel \cup (delivered + 1)..(delivered + n)

\* XREADGROUP ">": as many of the next entries as are published.  An error is taken
\* for an empty answer.
ReadNew ==
    /\ phase = "claimed"
    /\ work = {} /\ acking = 0
    /\ phase' = "read"
    /\ \E n \in 0..ReadCount :
          /\ Deliver(n)
          /\ work' = (delivered + 1)..(delivered + n)
    /\ UNCHANGED <<stream, idle, acking, barVars, failures, sinkVars>>

\* Its reply is lost: the entries are pending without ever having been handled, and
\* the next round's new entries come before them.
ReadReplyLost ==
    /\ Fail
    /\ phase = "claimed"
    /\ work = {} /\ acking = 0
    /\ phase' = "read"
    /\ \E n \in 1..ReadCount : Deliver(n)
    /\ UNCHANGED <<stream, idle, work, acking, barVars, sinkVars>>

\* _refresh_streams, at the head of a round and outside every try, raises: the tick
\* task ends.
RefreshFails ==
    /\ Fail
    /\ phase = "await"
    /\ phase' = "dead"
    /\ UNCHANGED <<groupVars, work, acking, barVars, sinkVars>>

\* The round is over and the loop sleeps.
EndRound ==
    /\ phase = "read"
    /\ work = {} /\ acking = 0
    /\ phase' = "await"
    /\ UNCHANGED <<groupVars, work, acking, barVars, failures, sinkVars>>

----------------------------------------------------------------------------
(* _handle_tick_entry and the XACK after it.                                *)

\* e is the entry the loop handles next.
NextEntry(e) ==
    /\ phase \in {"claimed", "read"}
    /\ acking = 0
    /\ e \in work
    /\ \A f \in work : e <= f

\* The handler returns True: the entry is to be acknowledged.
HandledTrue(e) ==
    /\ work' = work \ {e}
    /\ acking' = e
    /\ UNCHANGED phase

\* The handler returns False: the round ends at once, the rest of the batch
\* stays pending.
HandledFalse ==
    /\ work' = {}
    /\ phase' = "await"
    /\ UNCHANGED acking

DropTick(e) ==
    /\ NextEntry(e)
    /\ Dropped(machine, stream[e])
    /\ HandledTrue(e)
    /\ UNCHANGED <<groupVars, barVars, failures, sinkVars>>

\* The state machine moves before anything is written.
ApplyTick(e) ==
    /\ NextEntry(e)
    /\ ~Dropped(machine, stream[e])
    /\ machine' = AfterTick(machine, stream[e])
    /\ applied' = Append(applied, e)

\* The bar that entry e closes.
Closed(e) == Archived(machine, stream[e])

\* _write_current_k: to_dict first, then the hash.
WriteCurrent ==
    /\ HasAmplitude(machine'.current)
    /\ kcurrent' = machine'.current

\* Every write succeeds: k:current, then k:zset, then the sink's queue.
PublishTick(e) ==
    /\ ApplyTick(e)
    /\ WriteCurrent
    /\ IF Closed(e) = NoBar
       THEN UNCHANGED <<kzset, sinkVars>>
       ELSE /\ HasAmplitude(Closed(e))
            /\ kzset' = kzset \cup {Closed(e)}
            /\ PutNowait(Closed(e))
    /\ HandledTrue(e)
    /\ UNCHANGED <<groupVars, missed, failures>>

\* The closed bar, if any, has left the machine and is not in the queue.
MissHandOff(e) ==
    missed' = IF Closed(e) = NoBar THEN missed
              ELSE missed \cup {[entry |-> e, bar |-> Closed(e)]}

\* Two faulty variants of RedisFails: the closed bar is in the queue before k:zset
\* has it; the error is swallowed and the entry acknowledged.
RedisFailsAfterEnqueue(e) ==
    /\ Fail
    /\ ApplyTick(e)
    /\ WriteCurrent
    /\ UNCHANGED <<kzset, missed>>
    /\ IF Closed(e) = NoBar THEN UNCHANGED sinkVars ELSE PutNowait(Closed(e))
    /\ HandledFalse
    /\ UNCHANGED groupVars

RedisFailsUnnoticed(e) ==
    /\ Fail
    /\ ApplyTick(e)
    /\ UNCHANGED <<kcurrent, kzset>>
    /\ MissHandOff(e)
    /\ HandledTrue(e)
    /\ UNCHANGED <<groupVars, sinkVars>>

\* A Redis command raises: before k:current is written, after it, or after the
\* closed bar is in k:zset too (EXPIRE comes last).
RedisFails(e) ==
    /\ Fail
    /\ ApplyTick(e)
    /\ \/ UNCHANGED <<kcurrent, kzset>>
       \/ WriteCurrent /\ UNCHANGED kzset
       \/ /\ WriteCurrent
          /\ Closed(e) # NoBar /\ HasAmplitude(Closed(e))
          /\ kzset' = kzset \cup {Closed(e)}
    /\ MissHandOff(e)
    /\ HandledFalse
    /\ UNCHANGED <<groupVars, sinkVars>>

\* to_dict raises: the open of the open bar, or of the closed one, is not positive.
InvalidOpen(e) ==
    /\ ApplyTick(e)
    /\ \/ ~HasAmplitude(machine'.current) /\ UNCHANGED kcurrent
       \/ WriteCurrent /\ Closed(e) # NoBar /\ ~HasAmplitude(Closed(e))
    /\ MissHandOff(e)
    /\ HandledFalse
    /\ UNCHANGED <<groupVars, kzset, failures, sinkVars>>

\* Both Redis writes succeed and put_nowait raises QueueFull.
QueueFullTick(e) ==
    /\ QueueFull
    /\ ApplyTick(e)
    /\ Closed(e) # NoBar /\ HasAmplitude(Closed(e))
    /\ WriteCurrent
    /\ kzset' = kzset \cup {Closed(e)}
    /\ MissHandOff(e)
    /\ HandledFalse
    /\ UNCHANGED <<groupVars, failures, sinkVars>>

Ack ==
    /\ acking # 0
    /\ pel' = pel \ {acking}
    /\ idle' = idle \ {acking}
    /\ acking' = 0
    /\ UNCHANGED <<stream, delivered, phase, work, barVars, failures, sinkVars>>

\* XACK is outside every try: an error, before or after it took effect, ends the
\* tick task.
AckError ==
    /\ Fail
    /\ acking # 0
    /\ pel' \in {pel, pel \ {acking}}
    /\ idle' = idle \cap pel'
    /\ acking' = 0
    /\ work' = {}
    /\ phase' = "dead"
    /\ UNCHANGED <<stream, delivered, barVars, sinkVars>>

----------------------------------------------------------------------------
(* The sink, which shares the event loop, and its thread, which does not.   *)

\* The coroutine's turn: the consume loop is at an await or gone.  Once stop_async
\* has set _stop, a coroutine that resumes leaves its loop and drains nothing more.
CoroutineTurn ==
    \/ phase \in {"await", "dead"} /\ CoroutineStep
    \/ phase = "stopped" /\ CoroutineResumes

SinkStep ==
    /\ CoroutineTurn \/ ThreadStep \/ FlushStep
    /\ UNCHANGED <<groupVars, loopVars, barVars, failures>>

----------------------------------------------------------------------------
(* stop_async, the end of the process, a crash, a new process.              *)

\* A signal cancels the tick task where it sleeps; a dead task is noticed by the
\* runtime's heartbeat, which stops the runner as well.
StopLoop ==
    /\ \/ phase = "await" /\ Fail
       \/ phase = "dead" /\ UNCHANGED failures
    /\ phase' = "stopped"
    /\ UNCHANGED <<groupVars, work, acking, barVars, sinkVars>>

StopSink ==
    /\ phase = "stopped"
    /\ CancelSink
    /\ UNCHANGED <<groupVars, loopVars, barVars, failures>>

\* Memory is lost; Redis, the database and the group's state are not.
Forget ==
    /\ phase' = "down"
    /\ work' = {}
    /\ acking' = 0
    /\ machine' = NewMachine
    /\ applied' = <<>>
    /\ missed' = {}
    /\ SinkForget
    /\ UNCHANGED <<groupVars, kcurrent, kzset>>

\* The interpreter waits for the worker thread before it exits.
Exit ==
    /\ phase = "stopped"
    /\ sink = "flushed"
    /\ orphan = <<>>
    /\ Forget
    /\ UNCHANGED failures

Crash ==
    /\ Fail
    /\ phase # "down"
    /\ Forget

Restart ==
    /\ phase = "down"
    /\ phase' = "await"
    /\ UNCHANGED <<groupVars, work, acking, barVars, failures, sinkVars>>

LoopStep ==
    \/ RefreshFails
    \/ ClaimPending \/ ClaimReplyLost
    \/ ReadNew \/ ReadReplyLost
    \/ EndRound
    \/ \E e \in Entries :
          \/ DropTick(e) \/ PublishTick(e)
          \/ RedisFails(e) \/ InvalidOpen(e) \/ QueueFullTick(e)
    \/ Ack
    \/ AckError

Next ==
    \/ \E e \in Entries : BecomeIdle(e)
    \/ LoopStep
    \/ SinkStep
    \/ StopLoop
    \/ StopSink
    \/ Exit
    \/ Crash
    \/ Restart

Spec == Init /\ [][Next]_vars

\* What the scheduling of the code justifies.  The loop, the thread and the
\* flush take their next step; asyncio runs ready callbacks first come first
\* served and every round ends in an await, so the sink coroutine gets its turn;
\* an idle time passes; the supervisor starts the worker again; and Redis does
\* not refuse every XAUTOCLAIM or hide the published entries for ever.
Fairness ==
    /\ WF_vars(LoopStep)
    /\ SF_vars(ClaimPending /\ work' # {})
    /\ SF_vars(ReadNew /\ work' # {})
    /\ \A e \in 1..MaxEntries : SF_vars(BecomeIdle(e))
    /\ SF_vars(CoroutineTurn /\ UNCHANGED <<groupVars, loopVars, barVars, failures>>)
    /\ WF_vars((ThreadStep \/ FlushStep) /\ UNCHANGED <<groupVars, loopVars, barVars, failures>>)
    /\ WF_vars(StopSink)
    /\ WF_vars(phase = "dead" /\ StopLoop)
    /\ WF_vars(Exit)
    /\ WF_vars(Restart)

FairSpec == Spec /\ Fairness

----------------------------------------------------------------------------
(* Type invariant.                                                          *)

\* Every variable has its type; the queue and the batch respect their bounds and
\* the retry counter its limit (StreamProcessingRunner.__init__).
TypeOK ==
    /\ stream \in Seq(Tick)
    /\ delivered \in 0..Len(stream)
    /\ pel \in SUBSET (1..delivered)
    /\ idle \in SUBSET pel
    /\ phase \in {"await", "claimed", "read", "dead", "stopped", "down"}
    /\ work \in SUBSET (pel \ {acking})
    /\ acking \in pel \cup {0}
    /\ work # {} \/ acking # 0 => phase \in {"claimed", "read"}
    /\ machine \in Machine
    /\ applied \in Seq(1..Len(stream))
    /\ missed \in SUBSET [entry : 1..Len(stream), bar : KBar]
    /\ kcurrent \in KBar \cup {NoBar}
    /\ kzset \in SUBSET KBar
    /\ failures \in 0..MaxFailures
    /\ SinkTypeOK(KBar)

----------------------------------------------------------------------------
(* Safety.                                                                  *)

\* The bars this process still answers for.
Unsettled ==
    Range(pending) \cup Range(queue)
        \cup (IF machine.current = NoBar THEN {} ELSE {machine.current})

\* The pending batch, the queue and the open bar, read in this order, are bars of
\* strictly increasing minutes, whatever late, redelivered or reclaimed entries
\* arrive (apply_tick): one process never hands the sink two bars of a minute.
BarsInOrder ==
    /\ SinkInOrder
    /\ machine.current # NoBar => /\ EarlierThan(pending, machine.current.at)
                                  /\ EarlierThan(queue, machine.current.at)

\* Positions in the history of the ticks that went into a minute.
AppliedTo(minute) == {i \in DOMAIN applied : stream[applied[i]].at = minute}

\* Summary of the ticks at some positions of the history: the definition of a bar.
IsSummary(bar, P) ==
    LET price(i) == stream[applied[i]].price
        first == CHOOSE i \in P : \A j \in P : i <= j
        last == CHOOSE i \in P : \A j \in P : i >= j
    IN  /\ P # {}
        /\ bar.open = price(first) /\ bar.close = price(last)
        /\ \A i \in P : bar.low <= price(i) /\ price(i) <= bar.high
        /\ \E i, j \in P : bar.low = price(i) /\ bar.high = price(j)
        /\ bar.volume = SumFunctionOnSet([i \in P |-> stream[applied[i]].volume], P)

\* Every bar the process answers for is the summary of exactly the ticks of its
\* minute that the process applied, also when the minutes of a reclaimed batch and
\* of new entries are mixed (apply_tick).
BarsMatchTicks ==
    \A bar \in Unsettled : IsSummary(bar, AppliedTo(bar.at))

\* The day fields are those of the day-session ticks of the machine's own trade
\* date, and the open bar shows them (_update_day_state).
DayFieldsMatchTicks ==
    LET P == {i \in DOMAIN applied : /\ stream[applied[i]].session
                                     /\ TradeDate(stream[applied[i]].at) = machine.date}
        prices == {stream[applied[i]].price : i \in P}
    IN  machine.current # NoBar =>
        /\ machine.dayHigh = IF P = {} THEN None
                             ELSE CHOOSE p \in prices : \A q \in prices : q <= p
        /\ machine.dayLow = IF P = {} THEN None
                            ELSE CHOOSE p \in prices : \A q \in prices : p <= q
        /\ machine.dayOpen = IF P = {} THEN None
                             ELSE stream[applied[CHOOSE i \in P : \A j \in P : i <= j]].price
        /\ machine.current.dayHigh = machine.dayHigh
        /\ machine.current.dayLow = machine.dayLow

\* Redis is never behind the database: whatever the sink holds, has written or has
\* given up is already in k:zset (_handle_tick_entry archives before it enqueues).
ArchivedBeforePersisted ==
    Range(queue) \cup Range(pending) \cup Range(orphan) \cup rows \cup dead \cup logged
        \subseteq kzset

\* An entry that is about to be acknowledged and was applied is visible: k:current
\* is the machine's open bar, the last one this process wrote (_handle_tick_entry).
AckedIsPublished ==
    (/\ acking # 0
     /\ applied # <<>>
     /\ applied[Len(applied)] = acking)
        => kcurrent = machine.current

\* openspec add-latest-state-worker: "The aggregator SHALL hand off each completed
\* 1-minute K bar to the Tick DB sink path", and a failed hand-off leaves the entry
\* pending: a closed bar that was not handed off has its entry unacknowledged.
ClosedBarsHandedOff ==
    \A x \in missed : x.entry \in pel \/ x.bar \in Range(queue) \cup Range(pending) \cup rows

----------------------------------------------------------------------------
(* The sink keeps the write-behind promise.                                 *)

\* The queue, the pending batch and an orphaned thread's batch together are what
\* the process holds; no bar leaves them without a row, a dead letter or a log
\* line, and no row is ever replaced.
SinkKeepsPromise == Sink!Spec

\* Finitely many failures: every entry ends acknowledged and every bar handed off
\* ends settled, whatever the database does (bounded retries, then dead letter).
Drains ==
    <>[](delivered = Len(stream) /\ pel = {} /\ queue = <<>> /\ pending = <<>>)
=============================================================================
