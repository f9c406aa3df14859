--------------------------- MODULE RealtimeProofs ---------------------------
(***************************************************************************)
(* Theorems of RealtimeManager, for every number of sessions, starts and   *)
(* streams and every length of feed. However connects, disconnects,        *)
(* reconnections and streams that are slow to die interleave, at most      *)
(* one stream is live and it is the session's (ConnInv). The status        *)
(* shown is the state of the connection, and a session that ends leaves    *)
(* nothing behind (StatInv). What was received is in the store or on its   *)
(* way there, in order (DeliveryInv), so that the store is a live          *)
(* display of it (LatestBoard).                                            *)
(***************************************************************************)
EXTENDS RealtimeManager, TLAPS, DataLemmas, FiniteSetTheorems

StreamRecords == [id : Ids, token : Tokens, open : BOOLEAN, aborted : BOOLEAN, half : BOOLEAN]
Starts == [seq : Ids, on : Ids]

\* What the connection is made of.
ConnTypeOK ==
    /\ auth \in Tokens \cup {None}
    /\ token = auth
    /\ startSequence \in Ids \cup {None}
    /\ abortController \in Ids \cup {None}
    /\ streamTask \in Ids \cup {None}
    /\ streams \subseteq StreamRecords
    /\ waiting \subseteq Starts

\* No two streams, and no two starts, have one number, and a start that waits has the
\* number of no stream.
NumbersApart ==
    /\ \A s, r \in streams : s.id = r.id => s = r
    /\ \A w, v \in waiting : w.seq = v.seq => w = v
    /\ \A s \in streams : \A w \in waiting : s.id # w.seq

\* A start that will go on has no timer armed behind it.
ResumesAlone == \A w \in waiting : w.seq = startSequence => reconnectTimer = 0

ConnInv == ConnTypeOK /\ NumbersApart /\ ResumesAlone /\ OneLiveStream

\* The variables that ConnInv reads.
connState == <<auth, token, startSequence, reconnectTimer, abortController, streamTask,
               streams, waiting>>

-----------------------------------------------------------------------------
(* Numbers and aborts.                                                      *)

\* The number of a new start is nobody's (++startSequence).
LEMMA FreshIsNew ==
    ASSUME HasFresh
    PROVE  Fresh \in Ids /\ Fresh \notin UsedIds
BY DEF HasFresh, Fresh

\* Aborting what is held leaves no live stream, and every stream its number.
LEMMA AbortHeldFacts ==
    ASSUME ConnInv
    PROVE  /\ AbortHeld \subseteq StreamRecords
           /\ \A s \in AbortHeld : s.aborted
           /\ \A s \in AbortHeld : \E r \in streams : r.id = s.id
           /\ \A s, r \in AbortHeld : s.id = r.id => s = r
<1> DEFINE A(s) == IF s.id = abortController THEN [s EXCEPT !.aborted = TRUE] ELSE s
<1>1. \A s \in streams : A(s) \in StreamRecords /\ A(s).id = s.id
  BY DEF ConnInv, ConnTypeOK, StreamRecords
<1>2. \A s \in streams : A(s).aborted
  <2> SUFFICES ASSUME NEW s \in streams PROVE A(s).aborted
    OBVIOUS
  <2>1. s \in StreamRecords
    BY DEF ConnInv, ConnTypeOK
  <2>2. CASE s.id = abortController
    BY <2>1, <2>2 DEF StreamRecords
  <2>3. CASE s.id # abortController
    BY <2>3, <2>1 DEF ConnInv, OneLiveStream, Live, StreamRecords
  <2> QED
    BY <2>2, <2>3
<1>3. AbortHeld = {A(s) : s \in streams}
  BY DEF AbortHeld
<1>4. \A s, r \in streams : A(s).id = A(r).id => A(s) = A(r)
  BY <1>1 DEF ConnInv, NumbersApart
<1> HIDE DEF A
<1> QED
  BY <1>1, <1>2, <1>3, <1>4

-----------------------------------------------------------------------------
(* The steps.                                                               *)

LEMMA InitConn == ASSUME Init PROVE ConnInv
BY DEF Init, ConnInv, ConnTypeOK, NumbersApart, ResumesAlone, OneLiveStream, Live

\* startWhenReady keeps ConnInv: when it launches at once the new stream is the only live
\* one, when it waits there is none.
LEMMA StartKeeps ==
    ASSUME ConnInv, HasFresh,
           NEW t \in Tokens, NEW n, NEW held \in {None, abortController},
           StartWhenReady(Fresh, t, n, held),
           token' = t, auth' = t, startSequence' = Fresh, reconnectTimer' = 0
    PROVE  ConnInv'
<1>1. Fresh \in Ids /\ Fresh \notin UsedIds
  BY FreshIsNew
<1>2. /\ \A s \in streams : s.id # Fresh
      /\ \A w \in waiting : w.seq # Fresh
  BY <1>1 DEF UsedIds
<1>3. CASE streamTask = None
  <2>1. /\ abortController' = Fresh /\ streamTask' = Fresh
        /\ streams' = AbortHeld \cup {Stream(Fresh, t)}
        /\ waiting' = waiting
    BY <1>3 DEF StartWhenReady, Launch
  <2> DEFINE new == Stream(Fresh, t)
  <2>2. new \in StreamRecords /\ new.id = Fresh /\ new.token = t /\ ~new.aborted
    BY <1>1 DEF Stream, StreamRecords
  <2>3. \A s \in AbortHeld : s.id # Fresh /\ s.aborted
    BY <1>2, AbortHeldFacts
  <2> HIDE DEF new
  <2>4. ConnTypeOK'
    BY <1>1, <2>1, <2>2, AbortHeldFacts DEF ConnInv, ConnTypeOK, new
  <2>5. NumbersApart'
    <3>1. \A s, r \in streams' : s.id = r.id => s = r
      BY <2>1, <2>2, <2>3, AbortHeldFacts DEF new
    <3>2. \A s \in streams' : \A w \in waiting' : s.id # w.seq
      BY <1>2, <2>1, <2>2, AbortHeldFacts DEF new, ConnInv, NumbersApart
    <3> QED
      BY <2>1, <3>1, <3>2 DEF ConnInv, NumbersApart
  <2>6. Live' = {new}
    BY <2>1, <2>2, <2>3 DEF Live, new
  <2>7. OneLiveStream'
    BY <1>2, <2>1, <2>2, <2>6 DEF OneLiveStream
  <2> QED
    BY <2>4, <2>5, <2>7 DEF ConnInv, ResumesAlone
<1>4. CASE streamTask # None
  <2>1. /\ waiting' = waiting \cup {[seq |-> Fresh, on |-> streamTask]}
        /\ streams' = AbortHeld /\ abortController' = held /\ streamTask' = streamTask
    BY <1>4 DEF StartWhenReady
  <2>2. ConnTypeOK'
    BY <1>1, <1>4, <2>1, AbortHeldFacts DEF ConnInv, ConnTypeOK, Starts
  <2>3. NumbersApart'
    BY <1>2, <2>1, AbortHeldFacts DEF ConnInv, NumbersApart
  <2>4. Live' = {}
    BY <2>1, AbortHeldFacts DEF Live
  <2> QED
    BY <2>2, <2>3, <2>4 DEF ConnInv, ResumesAlone, OneLiveStream
<1> QED
  BY <1>3, <1>4

\* RealtimeBootstrap's cleanup and disconnect.
LEMMA LeaveKeeps == ASSUME ConnInv, LeaveSession PROVE ConnInv'
<1>1. /\ auth' = None /\ token' = None /\ startSequence' = None /\ reconnectTimer' = 0
      /\ abortController' = None /\ streams' = AbortHeld
      /\ streamTask' = streamTask /\ waiting' = waiting
  BY DEF LeaveSession, ClearBatches
<1>2. ConnTypeOK'
  BY <1>1, AbortHeldFacts DEF ConnInv, ConnTypeOK
<1>3. NumbersApart'
  BY <1>1, AbortHeldFacts DEF ConnInv, NumbersApart
<1>4. Live' = {}
  BY <1>1, AbortHeldFacts DEF Live
<1> QED
  BY <1>1, <1>2, <1>3, <1>4 DEF ConnInv, ResumesAlone, OneLiveStream

\* connect.
LEMMA EnterKeeps == ASSUME ConnInv, NEW t \in Tokens, EnterSession(t) PROVE ConnInv'
<1>1. /\ auth' = t /\ token' = t /\ startSequence' = Fresh /\ reconnectTimer' = 0 /\ HasFresh
  BY DEF EnterSession, ClearBatches
<1>2. CASE build = "mock"
  <2>1. abortController' = None /\ streams' = AbortHeld /\ streamTask' = streamTask
        /\ waiting' = waiting
    BY <1>2 DEF EnterSession
  <2>2. ConnTypeOK'
    BY <1>1, <2>1, FreshIsNew, AbortHeldFacts DEF ConnInv, ConnTypeOK
  <2>3. NumbersApart'
    BY <2>1, AbortHeldFacts DEF ConnInv, NumbersApart
  <2>4. Live' = {}
    BY <2>1, AbortHeldFacts DEF Live
  <2> QED
    BY <1>1, <2>2, <2>3, <2>4 DEF ConnInv, ResumesAlone, OneLiveStream
<1>3. CASE build # "mock"
  <2>1. StartWhenReady(Fresh, t, 0, None)
    BY <1>3 DEF EnterSession
  <2> QED
    BY <1>1, <2>1, StartKeeps
<1> QED
  BY <1>2, <1>3

\* The reconnection timer.  It is armed, so no stream is live.
LEMMA TimerKeeps == ASSUME ConnInv, TimerFires PROVE ConnInv'
<1>1. /\ auth' = auth /\ token' = token /\ startSequence' = Fresh /\ reconnectTimer' = 0
      /\ HasFresh /\ reconnectTimer > 0
  BY DEF TimerFires, authVars
<1>2. CASE token = None
  <2>1. UNCHANGED <<abortController, streamTask, streams, waiting>>
    BY <1>2 DEF TimerFires
  <2>2. Live = {}
    BY <1>1 DEF ConnInv, OneLiveStream
  <2>3. Live' = {}
    BY <2>1, <2>2 DEF Live
  <2> QED
    BY <1>1, <2>1, <2>3, FreshIsNew
    DEF ConnInv, ConnTypeOK, NumbersApart, ResumesAlone, OneLiveStream
<1>3. CASE token # None
  <2>1. StartWhenReady(Fresh, token, reconnectAttempts, abortController)
    BY <1>3 DEF TimerFires
  <2>2. token \in Tokens
    BY <1>3 DEF ConnInv, ConnTypeOK
  <2>3. token' = token /\ auth' = token
    BY <1>1 DEF ConnInv, ConnTypeOK
  <2> QED
    BY <1>1, <2>1, <2>2, <2>3, StartKeeps
<1> QED
  BY <1>2, <1>3

\* startWhenReady after its await.  Its number is the one in force, so no stream is live.
LEMMA ResumeKeeps == ASSUME ConnInv, NEW w \in waiting, Resume(w) PROVE ConnInv'
<1>1. /\ waiting' = waiting \ {w} /\ auth' = auth /\ token' = token
      /\ startSequence' = startSequence /\ reconnectTimer' = reconnectTimer
  BY DEF Resume, authVars
<1>2. CASE w.seq # startSequence \/ token = None \/ stoppedByClient
  <2>1. UNCHANGED <<abortController, streamTask, streams>>
    BY <1>2 DEF Resume
  <2>2. Live' = Live
    BY <2>1 DEF Live
  <2> QED
    BY <1>1, <2>1, <2>2 DEF ConnInv, ConnTypeOK, NumbersApart, ResumesAlone, OneLiveStream
<1>3. CASE ~(w.seq # startSequence \/ token = None \/ stoppedByClient)
  <2> DEFINE new == Stream(w.seq, token)
  <2>1. abortController' = w.seq /\ streamTask' = w.seq /\ streams' = streams \cup {new}
    BY <1>3 DEF Resume, Launch
  <2>2. w \in Starts /\ token \in Tokens
    BY <1>3 DEF ConnInv, ConnTypeOK
  <2>3. new \in StreamRecords /\ new.id = w.seq /\ new.token = token /\ ~new.aborted
    BY <2>2 DEF Stream, StreamRecords, Starts
  <2> HIDE DEF new
  <2>4. Live = {} /\ reconnectTimer = 0
    BY <1>3 DEF ConnInv, OneLiveStream, ResumesAlone
  <2>5. Live' = {new}
    BY <2>1, <2>3, <2>4 DEF Live
  <2>6. \A s \in streams : s.id # w.seq
    BY DEF ConnInv, NumbersApart
  <2>7. \A v \in waiting' : v.seq # w.seq
    BY <1>1 DEF ConnInv, NumbersApart
  <2>8. ConnTypeOK'
    BY <1>1, <2>1, <2>2, <2>3 DEF ConnInv, ConnTypeOK, Starts
  <2>9. NumbersApart'
    <3>1. \A s, r \in streams' : s.id = r.id => s = r
      BY <2>1, <2>3, <2>6 DEF ConnInv, NumbersApart
    <3>2. \A s \in streams' : \A v \in waiting' : s.id # v.seq
      BY <1>1, <2>1, <2>3, <2>7 DEF ConnInv, NumbersApart
    <3> QED
      BY <1>1, <3>1, <3>2 DEF ConnInv, NumbersApart
  <2>10. OneLiveStream'
    BY <1>1, <1>3, <2>1, <2>3, <2>4, <2>5, <2>7 DEF ConnInv, ConnTypeOK, OneLiveStream
  <2>11. ResumesAlone'
    BY <1>1, <1>3, <2>7 DEF ResumesAlone
  <2> QED
    BY <2>8, <2>9, <2>10, <2>11 DEF ConnInv
<1> QED
  BY <1>2, <1>3

\* A stream that settles after it was live: the only live one is gone, whatever timer its
\* failure arms.
LEMMA FailsKeeps ==
    ASSUME ConnInv, NEW s \in streams, NEW why, Fails(s, why)
    PROVE  ConnInv'
<1>1. /\ ~s.aborted /\ streams' = streams \ {s}
      /\ abortController' \in {None, abortController} /\ streamTask' \in {None, streamTask}
      /\ auth' = auth /\ token' = token /\ startSequence' = startSequence /\ waiting' = waiting
  BY DEF Fails, Settled, authVars
<1>2. Live' = {}
  BY <1>1 DEF ConnInv, OneLiveStream, Live
<1>3. \A w \in waiting : w.seq # startSequence
  BY <1>1 DEF ConnInv, OneLiveStream, Live
<1>4. ConnTypeOK'
  BY <1>1 DEF ConnInv, ConnTypeOK
<1>5. NumbersApart'
  BY <1>1 DEF ConnInv, NumbersApart
<1> QED
  BY <1>1, <1>2, <1>3, <1>4, <1>5 DEF ConnInv, ResumesAlone, OneLiveStream

\* The finally of an aborted stream: another stream's controller is not let go.
LEMMA AbortSettlesKeeps ==
    ASSUME ConnInv, NEW s \in streams, AbortSettles(s)
    PROVE  ConnInv'
<1>1. /\ s.aborted /\ streams' = streams \ {s}
      /\ abortController' = IF abortController = s.id THEN None ELSE abortController
      /\ streamTask' \in {None, streamTask}
      /\ auth' = auth /\ token' = token /\ startSequence' = startSequence /\ waiting' = waiting
      /\ reconnectTimer' = reconnectTimer
  BY DEF AbortSettles, Settled, authVars
<1>2. Live' = Live
  BY <1>1 DEF Live
<1>3. \A r \in Live : r.id # s.id
  BY <1>1 DEF ConnInv, NumbersApart, Live
<1>4. ConnTypeOK'
  BY <1>1 DEF ConnInv, ConnTypeOK
<1>5. NumbersApart'
  BY <1>1 DEF ConnInv, NumbersApart
<1>6. OneLiveStream'
  BY <1>1, <1>2, <1>3 DEF ConnInv, OneLiveStream
<1> QED
  BY <1>1, <1>4, <1>5, <1>6 DEF ConnInv, ResumesAlone

\* A live stream that opens or hands over a chunk stays the stream it is.
LEMMA ReplacedKeeps ==
    ASSUME ConnInv, NEW s \in streams, NEW r \in StreamRecords,
           ~s.aborted, ~r.aborted, r.id = s.id, r.token = s.token,
           streams' = (streams \ {s}) \cup {r},
           UNCHANGED <<auth, token, startSequence, reconnectTimer, abortController,
                       streamTask, waiting>>
    PROVE  ConnInv'
<1>1. Live = {s}
  BY DEF ConnInv, OneLiveStream, Live
<1>2. Live' = {r}
  BY <1>1 DEF Live
<1>3. ConnTypeOK'
  BY DEF ConnInv, ConnTypeOK
<1>4. NumbersApart'
  BY DEF ConnInv, NumbersApart
<1>5. OneLiveStream'
  BY <1>1, <1>2 DEF ConnInv, OneLiveStream
<1> QED
  BY <1>3, <1>4, <1>5 DEF ConnInv, ResumesAlone

LEMMA StreamStepKeeps == ASSUME ConnInv, StreamStep PROVE ConnInv'
<1>1. PICK s \in streams :
         \/ Opens(s) \/ StreamEnds(s) \/ StreamBreaks(s) \/ AbortSettles(s)
         \/ \E piece \in {"head", "tail", "whole"} : Chunk(s, piece)
  BY DEF StreamStep
<1>2. s \in StreamRecords
  BY DEF ConnInv, ConnTypeOK
<1>3. CASE Opens(s)
  <2> DEFINE r == [s EXCEPT !.open = TRUE]
  <2>1. r \in StreamRecords /\ r.id = s.id /\ r.token = s.token /\ r.aborted = s.aborted
    BY <1>2 DEF StreamRecords
  <2>2. ~s.aborted /\ streams' = (streams \ {s}) \cup {r}
        /\ UNCHANGED <<auth, token, startSequence, reconnectTimer, abortController,
                       streamTask, waiting>>
    BY <1>3 DEF Opens, authVars
  <2> HIDE DEF r
  <2> QED
    BY <2>1, <2>2, ReplacedKeeps
<1>4. CASE StreamEnds(s)
  BY <1>4, FailsKeeps DEF StreamEnds
<1>5. CASE StreamBreaks(s)
  BY <1>5, FailsKeeps DEF StreamBreaks
<1>6. CASE AbortSettles(s)
  BY <1>6, AbortSettlesKeeps
<1>7. CASE \E piece \in {"head", "tail", "whole"} : Chunk(s, piece)
  <2>1. PICK piece \in {"head", "tail", "whole"} : Chunk(s, piece)
    BY <1>7
  <2> DEFINE r == [s EXCEPT !.half = (piece = "head")]
  <2>2. r \in StreamRecords /\ r.id = s.id /\ r.token = s.token /\ r.aborted = s.aborted
    BY <1>2 DEF StreamRecords
  <2>3. ~s.aborted /\ streams' = (streams \ {s}) \cup {r}
        /\ UNCHANGED <<auth, token, startSequence, reconnectTimer, abortController,
                       streamTask, waiting>>
    BY <2>1 DEF Chunk, authVars
  <2> HIDE DEF r
  <2> QED
    BY <2>2, <2>3, ReplacedKeeps
<1> QED
  BY <1>1, <1>3, <1>4, <1>5, <1>6, <1>7

LEMMA UnchangedKeeps == ASSUME ConnInv, UNCHANGED connState PROVE ConnInv'
<1>1. Live' = Live
  BY DEF connState, Live
<1> QED
  BY <1>1 DEF connState, ConnInv, ConnTypeOK, NumbersApart, ResumesAlone, OneLiveStream

LEMMA StepKeepsConn == ASSUME ConnInv, [Next]_vars PROVE ConnInv'
<1>1. CASE LeaveSession
  BY <1>1, LeaveKeeps
<1>2. CASE \E t \in Tokens : EnterSession(t)
  BY <1>2, EnterKeeps
<1>3. CASE \E w \in waiting : Resume(w)
  BY <1>3, ResumeKeeps
<1>4. CASE TimerFires
  BY <1>4, TimerKeeps
<1>5. CASE StreamStep
  BY <1>5, StreamStepKeeps
<1>6. CASE Flush
  <2>1. UNCHANGED connState
    BY <1>6 DEF Flush, connState, connVars, authVars
  <2> QED
    BY <2>1, UnchangedKeeps
<1>7. CASE MockEmits
  <2>1. UNCHANGED connState
    BY <1>7 DEF MockEmits, connState, connVars, authVars
  <2> QED
    BY <2>1, UnchangedKeeps
<1>8. CASE WorkerStep
  <2>1. UNCHANGED connState
    BY <1>8 DEF WorkerStep, WorkerTakes, WorkerTimer, BatchArrives, connState, connVars, authVars
  <2> QED
    BY <2>1, UnchangedKeeps
<1>9. CASE UNCHANGED vars
  <2>1. UNCHANGED connState
    BY <1>9 DEF vars, connState, connVars, authVars
  <2> QED
    BY <2>1, UnchangedKeeps
<1> QED
  BY <1>1, <1>2, <1>3, <1>4, <1>5, <1>6, <1>7, <1>8, <1>9 DEF Next

LEMMA ConnCorrect == Spec => []ConnInv
<1>1. Init => ConnInv
  BY InitConn
<1>2. ConnInv /\ [Next]_vars => ConnInv'
  BY StepKeepsConn
<1> QED
  BY <1>1, <1>2, PTL DEF Spec

\* At most one stream is live, it is the held one with the session's token, and neither a
\* timer nor a waiting start can put a second beside it (RealtimeManager.startWhenReady).
THEOREM ConnectionCorrect == Spec => []OneLiveStream
<1>1. ConnInv => OneLiveStream
  BY DEF ConnInv
<1> QED
  BY <1>1, ConnCorrect, PTL

-----------------------------------------------------------------------------
(* What the page is told, and what a session leaves behind.                 *)

\* The mock build has its generator and nothing else.
MockAlone ==
    /\ build = "mock" => streams = {} /\ waiting = {} /\ reconnectTimer = 0
    /\ mockArmed => build = "mock"

\* A timer is armed by a failure, and the status says so until the timer fires.
TimerTold == reconnectTimer > 0 => status.at = "retrying"

\* What TypeOK says beyond the connection.
RestTypeOK ==
    /\ build \in {"local", "worker", "mock"}
    /\ stoppedByClient \in BOOLEAN
    /\ reconnectAttempts \in 0..MaxAttempts
    /\ reconnectTimer \in 0..30
    /\ status \in [at : {"idle", "connecting", "connected", "retrying"}, why : {None}]
                  \cup [at : {"retrying"}, why : {"rate_limited", "stream_disconnected"}]
                  \cup [at : {"error"}, why : {"auth_failed"}]
    /\ flushArmed \in BOOLEAN /\ mockArmed \in BOOLEAN
    /\ worker \in BOOLEAN /\ workerArmed \in BOOLEAN
    /\ at \in 1..(Len(feed) + 1)

StatInv ==
    /\ RestTypeOK
    /\ feed \in Feeds
    /\ stoppedByClient => token = None
    /\ MockAlone
    /\ TimerTold
    /\ QuietWhenStopped
    /\ StatusTellsTruth
    /\ PendingIsArmed

Resuming == \E w \in waiting : w.seq = startSequence

LEMMA TypeParts == ConnTypeOK /\ RestTypeOK => TypeOK
BY DEF TypeOK, ConnTypeOK, RestTypeOK, StreamRecords, Starts

LEMMA BackoffType == ASSUME NEW n \in Nat PROVE Backoff(n) \in 1..30
<1>1. CASE n < 5
  <2>1. n + 1 \in 1..5
    BY <1>1
  <2>2. \A i \in 1..5 : <<1, 2, 4, 8, 16>>[i] \in 1..30
    OBVIOUS
  <2> QED
    BY <1>1, <2>1, <2>2 DEF Backoff
<1>2. CASE ~(n < 5)
  BY <1>2 DEF Backoff
<1> QED
  BY <1>1, <1>2

LEMMA LaunchTold ==
    ASSUME NEW id \in Ids, NEW t \in Tokens, NEW n, NEW others, Launch(id, t, n, others),
           \A s \in others : s.aborted,
           ~mockArmed', reconnectTimer' = 0
    PROVE  /\ StatusTellsTruth'
           /\ status' \in [at : {"connecting", "retrying"}, why : {None}]
<1> DEFINE new == Stream(id, t)
<1>1. new.open = FALSE /\ new.aborted = FALSE /\ new \in streams'
  BY DEF Stream, Launch
<1>2. new \in Live' /\ \A s \in Live' : ~s.open
  <2>1. streams' = others \cup {new}
    BY DEF Launch
  <2> HIDE DEF new
  <2> QED
    BY <1>1, <2>1 DEF Live
<1>3. status' \in [at : {"connecting", "retrying"}, why : {None}]
  BY DEF Launch, Status
<1> HIDE DEF new
<1> QED
  BY <1>1, <1>2, <1>3 DEF StatusTellsTruth

LEMMA InitStat == ASSUME Init PROVE StatInv
<1>1. RestTypeOK
  <2>1. Len(feed) \in Nat
    BY ManagerAssumption DEF Init
  <2>2. status \in [at : {"idle", "connecting", "connected", "retrying"}, why : {None}]
    BY DEF Init, Idle
  <2>3. at \in 1..(Len(feed) + 1) /\ reconnectTimer \in 0..30 /\ reconnectAttempts \in 0..MaxAttempts
    BY <2>1, ManagerAssumption DEF Init
  <2> QED
    BY <2>2, <2>3 DEF Init, RestTypeOK
<1>2. StatusTellsTruth
  BY DEF Init, StatusTellsTruth, Live, Idle
<1> QED
  BY <1>1, <1>2
  DEF Init, StatInv, MockAlone, TimerTold, QuietWhenStopped, PendingIsArmed, NoBatch, Live

\* What ClearBatches leaves is quiet.
LEMMA ClearedFacts ==
    ASSUME ClearBatches
    PROVE  /\ reconnectTimer' = 0 /\ reconnectAttempts' = 0 /\ ~flushArmed' /\ ~worker'
           /\ DOMAIN pendingBatch' = {} /\ outbox' = <<>>
           /\ PendingIsArmed' /\ TimerTold'
           /\ flushArmed' \in BOOLEAN /\ worker' \in BOOLEAN /\ workerArmed' \in BOOLEAN
<1>1. DOMAIN pendingBatch' = {} /\ DOMAIN workerBatch' = {}
  BY DEF ClearBatches, NoBatch
<1>2. PendingIsArmed' /\ TimerTold'
  BY <1>1 DEF ClearBatches, PendingIsArmed, TimerTold
<1> QED
  BY <1>1, <1>2 DEF ClearBatches

LEMMA LeaveTold == ASSUME ConnInv, StatInv, LeaveSession PROVE StatInv'
<1>1. /\ token' = None /\ ~mockArmed' /\ streams' = AbortHeld /\ status' = Idle
      /\ waiting' = waiting /\ UNCHANGED <<build, feed, at>> /\ ClearBatches
      /\ stoppedByClient' = TRUE /\ mockArmed' = FALSE
  BY DEF LeaveSession
<1>2. Live' = {}
  BY <1>1, AbortHeldFacts DEF Live
<1>3. RestTypeOK'
  <2>1. status' \in [at : {"idle", "connecting", "connected", "retrying"}, why : {None}]
    BY <1>1 DEF Idle
  <2>2. reconnectTimer' \in 0..30 /\ reconnectAttempts' \in 0..MaxAttempts
    BY <1>1, ClearedFacts, ManagerAssumption
  <2> QED
    BY <1>1, <2>1, <2>2, ClearedFacts DEF StatInv, RestTypeOK
<1>4. MockAlone'
  BY <1>1, ClearedFacts DEF StatInv, MockAlone, AbortHeld
<1>5. QuietWhenStopped'
  BY <1>1, <1>2, ClearedFacts DEF QuietWhenStopped
<1>6. StatusTellsTruth'
  BY <1>1, <1>2 DEF StatusTellsTruth, Idle
<1> QED
  BY <1>1, <1>3, <1>4, <1>5, <1>6, ClearedFacts DEF StatInv

LEMMA EnterTold == ASSUME ConnInv, StatInv, NEW t \in Tokens, EnterSession(t) PROVE StatInv'
<1>1. /\ token' = t /\ stoppedByClient' = FALSE /\ startSequence' = Fresh /\ ClearBatches
      /\ mockArmed' = (build = "mock") /\ UNCHANGED <<build, feed, at>> /\ t # None /\ HasFresh
  BY ManagerAssumption DEF EnterSession
<1>2. ASSUME status' \in [at : {"idle", "connecting", "connected", "retrying"}, why : {None}]
      PROVE  RestTypeOK'
  <2>1. reconnectTimer' \in 0..30 /\ reconnectAttempts' \in 0..MaxAttempts
    BY <1>1, ClearedFacts, ManagerAssumption
  <2> QED
    BY <1>1, <1>2, <2>1, ClearedFacts DEF StatInv, RestTypeOK
<1>3. CASE build = "mock"
  <2>1. status' = Status("connected", None) /\ streams' = AbortHeld /\ waiting' = waiting
    BY <1>3 DEF EnterSession
  <2>2. RestTypeOK'
    BY <1>2, <2>1 DEF Status
  <2>3. MockAlone'
    BY <1>1, <1>3, <2>1, ClearedFacts DEF StatInv, MockAlone, AbortHeld
  <2>4. StatusTellsTruth'
    BY <1>1, <1>3, <2>1 DEF StatusTellsTruth, Status
  <2> QED
    BY <1>1, <2>2, <2>3, <2>4, ClearedFacts DEF StatInv, QuietWhenStopped
<1>4. CASE build # "mock"
  <2>1. StartWhenReady(Fresh, t, 0, None) /\ (streamTask # None => status' = Idle)
    BY <1>4 DEF EnterSession
  <2>2. StatusTellsTruth'
        /\ status' \in [at : {"idle", "connecting", "connected", "retrying"}, why : {None}]
    <3>1. CASE streamTask = None
      <4>1. Launch(Fresh, t, 0, AbortHeld) /\ Fresh \in Ids
        BY <1>1, <2>1, <3>1, FreshIsNew DEF StartWhenReady
      <4> QED
        BY <1>1, <1>4, <4>1, LaunchTold, AbortHeldFacts, ClearedFacts
    <3>2. CASE streamTask # None
      <4>1. waiting' = waiting \cup {[seq |-> Fresh, on |-> streamTask]}
            /\ streams' = AbortHeld /\ status' = Idle
        BY <2>1, <3>2 DEF StartWhenReady
      <4>2. Live' = {}
        BY <4>1, AbortHeldFacts DEF Live
      <4>3. \E w \in waiting' : w.seq = startSequence'
        <5>1. [seq |-> Fresh, on |-> streamTask].seq = startSequence'
          BY <1>1
        <5> QED
          BY <4>1, <5>1
      <4> QED
        BY <1>1, <1>4, <4>1, <4>2, <4>3, ClearedFacts DEF StatusTellsTruth, Idle
    <3> QED
      BY <3>1, <3>2
  <2>3. MockAlone'
    BY <1>1, <1>4 DEF MockAlone
  <2> QED
    BY <1>1, <1>2, <2>2, <2>3, ClearedFacts DEF StatInv, QuietWhenStopped
<1> QED
  BY <1>3, <1>4

\* Nothing of a session that has ended is touched while no session is there.
LEMMA TimerTells == ASSUME ConnInv, StatInv, TimerFires PROVE StatInv'
<1>1. /\ reconnectTimer > 0 /\ HasFresh /\ reconnectTimer' = 0 /\ startSequence' = Fresh
      /\ UNCHANGED <<build, feed, token, stoppedByClient, reconnectAttempts, pendingBatch,
                     flushArmed, mockArmed, worker, workerBatch, workerArmed, outbox, at>>
  BY DEF TimerFires, authVars, batchVars, workerVars
<1>2. token # None /\ token \in Tokens /\ build # "mock" /\ ~mockArmed /\ status.at = "retrying"
  BY <1>1 DEF ConnInv, ConnTypeOK, StatInv, QuietWhenStopped, MockAlone, TimerTold, RestTypeOK
<1>3. /\ StartWhenReady(Fresh, token, reconnectAttempts, abortController)
      /\ streamTask # None => status' = status
  BY <1>2 DEF TimerFires
<1>4. /\ StatusTellsTruth'
      /\ status' = status \/ status' \in [at : {"connecting", "retrying"}, why : {None}]
  <2>1. CASE streamTask = None
    <3>1. Launch(Fresh, token, reconnectAttempts, AbortHeld) /\ Fresh \in Ids
      BY <1>1, <1>3, <2>1, FreshIsNew DEF StartWhenReady
    <3> QED
      BY <1>1, <1>2, <3>1, LaunchTold, AbortHeldFacts
  <2>2. CASE streamTask # None
    <3>1. waiting' = waiting \cup {[seq |-> Fresh, on |-> streamTask]}
          /\ streams' = AbortHeld /\ status' = status
      BY <1>3, <2>2 DEF StartWhenReady
    <3>2. Live' = {}
      BY <3>1, AbortHeldFacts DEF Live
    <3>3. \E w \in waiting' : w.seq = startSequence'
      <4>1. [seq |-> Fresh, on |-> streamTask].seq = startSequence'
        BY <1>1
      <4> QED
        BY <3>1, <4>1
    <3> QED
      BY <1>1, <1>2, <3>1, <3>2, <3>3 DEF StatusTellsTruth
  <2> QED
    BY <2>1, <2>2
<1>5. RestTypeOK'
  BY <1>1, <1>4 DEF StatInv, RestTypeOK
<1> QED
  BY <1>1, <1>2, <1>4, <1>5
  DEF StatInv, MockAlone, TimerTold, QuietWhenStopped, PendingIsArmed

LEMMA ResumeTells == ASSUME ConnInv, StatInv, NEW w \in waiting, Resume(w) PROVE StatInv'
<1>1. /\ waiting' = waiting \ {w}
      /\ UNCHANGED <<build, feed, token, stoppedByClient, startSequence, reconnectAttempts,
                     reconnectTimer, pendingBatch, flushArmed, mockArmed, worker, workerBatch,
                     workerArmed, outbox, at>>
  BY DEF Resume, authVars, batchVars, workerVars
<1>2. CASE w.seq # startSequence \/ token = None \/ stoppedByClient
  <2>1. UNCHANGED <<streams, status>> /\ Live' = Live
    BY <1>2 DEF Resume, Live
  <2>2. token = None => status.at = "idle"
    BY DEF StatInv, QuietWhenStopped, Idle
  <2>3. w.seq # startSequence \/ token = None
    BY <1>2 DEF StatInv
  <2>4. StatusTellsTruth'
    BY <1>1, <2>1, <2>2, <2>3 DEF StatInv, StatusTellsTruth
  <2> QED
    BY <1>1, <2>1, <2>4
    DEF StatInv, RestTypeOK, MockAlone, TimerTold, QuietWhenStopped, PendingIsArmed
<1>3. CASE ~(w.seq # startSequence \/ token = None \/ stoppedByClient)
  <2>1. Launch(w.seq, token, reconnectAttempts, streams) /\ w.seq \in Ids /\ token \in Tokens
    BY <1>3 DEF Resume, ConnInv, ConnTypeOK, Starts
  <2>2. \A s \in streams : s.aborted
    BY <1>3 DEF ConnInv, OneLiveStream, Live
  <2>3. build # "mock" /\ ~mockArmed /\ reconnectTimer = 0
    BY <1>3 DEF StatInv, MockAlone, ConnInv, ResumesAlone
  <2>4. /\ StatusTellsTruth'
        /\ status' \in [at : {"connecting", "retrying"}, why : {None}]
    BY <1>1, <2>1, <2>2, <2>3, LaunchTold
  <2>5. RestTypeOK'
    BY <1>1, <2>4 DEF StatInv, RestTypeOK
  <2> QED
    BY <1>1, <1>3, <2>3, <2>4, <2>5
    DEF StatInv, MockAlone, TimerTold, QuietWhenStopped, PendingIsArmed
<1> QED
  BY <1>2, <1>3

\* A live stream means a session, no timer and a build that streams.
LEMMA LiveMeans ==
    ASSUME ConnInv, StatInv, NEW s \in streams, ~s.aborted
    PROVE  /\ token # None /\ ~stoppedByClient /\ reconnectTimer = 0 /\ build # "mock"
           /\ ~mockArmed /\ Live = {s} /\ ~Resuming
<1>1. s \in Live
  BY DEF Live
<1> QED
  BY <1>1 DEF ConnInv, StatInv, OneLiveStream, QuietWhenStopped, MockAlone, Resuming

LEMMA OpensTells == ASSUME ConnInv, StatInv, NEW s \in streams, Opens(s) PROVE StatInv'
<1> DEFINE r == [s EXCEPT !.open = TRUE]
<1>1. /\ ~s.aborted /\ streams' = (streams \ {s}) \cup {r} /\ reconnectAttempts' = 0
      /\ status' = Status("connected", None) /\ worker' = (worker \/ build = "worker")
      /\ UNCHANGED <<build, feed, token, stoppedByClient, startSequence, reconnectTimer, waiting,
                     pendingBatch, flushArmed, mockArmed, workerBatch, workerArmed, outbox, at>>
  BY DEF Opens, authVars, batchVars
<1>2. r.open /\ ~r.aborted
  BY <1>1 DEF ConnInv, ConnTypeOK, StreamRecords
<1> HIDE DEF r
<1>3. token # None /\ reconnectTimer = 0 /\ build # "mock" /\ ~stoppedByClient
  BY <1>1, LiveMeans
<1>4. r \in Live'
  BY <1>1, <1>2 DEF Live
<1>5. StatusTellsTruth'
  BY <1>1, <1>2, <1>4 DEF StatusTellsTruth, Status
<1>6. RestTypeOK'
  <2>1. status' \in [at : {"idle", "connecting", "connected", "retrying"}, why : {None}]
    BY <1>1 DEF Status
  <2>2. reconnectAttempts' \in 0..MaxAttempts /\ worker' \in BOOLEAN
    BY <1>1, ManagerAssumption DEF StatInv, RestTypeOK
  <2> QED
    BY <1>1, <2>1, <2>2 DEF StatInv, RestTypeOK
<1> QED
  BY <1>1, <1>3, <1>5, <1>6
  DEF StatInv, MockAlone, TimerTold, QuietWhenStopped, PendingIsArmed

LEMMA FailsTells == ASSUME ConnInv, StatInv, NEW s \in streams, NEW why, Fails(s, why),
                           why \in {"auth_failed", "rate_limited", "stream_disconnected"}
                    PROVE  StatInv'
<1>1. /\ ~s.aborted /\ streams' = streams \ {s}
      /\ UNCHANGED <<build, feed, token, stoppedByClient, startSequence, waiting, pendingBatch,
                     flushArmed, mockArmed, worker, workerBatch, workerArmed, outbox, at>>
  BY DEF Fails, Settled, authVars, batchVars
<1>2. /\ token # None /\ ~stoppedByClient /\ reconnectTimer = 0 /\ build # "mock"
      /\ ~mockArmed /\ Live = {s} /\ ~Resuming
  BY <1>1, LiveMeans
<1>3. Live' = {}
  BY <1>1, <1>2 DEF Live
<1>4. ~Resuming'
  BY <1>1, <1>2 DEF Resuming
<1>5. \/ /\ why = "auth_failed" /\ status' = Status("error", why)
         /\ UNCHANGED <<reconnectTimer, reconnectAttempts>>
      \/ why = "rate_limited" /\ Retry(why, 5)
      \/ why = "stream_disconnected" /\ Retry(why, Backoff(reconnectAttempts))
  BY <1>2 DEF Fails
<1>6. CASE why = "auth_failed"
  <2>1. status' = [at |-> "error", why |-> "auth_failed"] /\ reconnectTimer' = 0
        /\ reconnectAttempts' = reconnectAttempts
    BY <1>2, <1>5, <1>6 DEF Status
  <2>2. StatusTellsTruth'
    BY <1>1, <1>2, <1>3, <1>4, <2>1 DEF StatusTellsTruth, Resuming
  <2>3. RestTypeOK'
    <3>1. status' \in [at : {"error"}, why : {"auth_failed"}]
      BY <2>1
    <3> QED
      BY <1>1, <2>1, <3>1 DEF StatInv, RestTypeOK
  <2> QED
    BY <1>1, <1>2, <2>1, <2>2, <2>3
    DEF StatInv, MockAlone, TimerTold, QuietWhenStopped, PendingIsArmed
<1>7. CASE why # "auth_failed"
  <2>1. PICK delay \in 1..30 : Retry(why, delay)
    <3>1. reconnectAttempts \in Nat
      BY ManagerAssumption DEF StatInv, RestTypeOK
    <3> QED
      BY <1>5, <1>7, <3>1, BackoffType
  <2>2. status' = [at |-> "retrying", why |-> why] /\ reconnectTimer' = delay
        /\ reconnectAttempts' = IF reconnectAttempts < MaxAttempts THEN reconnectAttempts + 1
                                ELSE MaxAttempts
    BY <2>1 DEF Retry, Status
  <2>3. StatusTellsTruth'
    BY <1>1, <1>2, <1>3, <2>2 DEF StatusTellsTruth
  <2>4. RestTypeOK'
    <3>1. status' \in [at : {"retrying"}, why : {"rate_limited", "stream_disconnected"}]
      BY <1>7, <2>2
    <3>2. reconnectAttempts' \in 0..MaxAttempts /\ reconnectTimer' \in 0..30
      BY <2>2, ManagerAssumption DEF StatInv, RestTypeOK
    <3> QED
      BY <1>1, <3>1, <3>2 DEF StatInv, RestTypeOK
  <2> QED
    BY <1>1, <1>2, <2>2, <2>3, <2>4
    DEF StatInv, MockAlone, TimerTold, QuietWhenStopped, PendingIsArmed
<1> QED
  BY <1>6, <1>7

LEMMA AbortSettlesTells ==
    ASSUME ConnInv, StatInv, NEW s \in streams, AbortSettles(s)
    PROVE  StatInv'
<1>1. /\ s.aborted /\ streams' = streams \ {s}
      /\ UNCHANGED <<build, feed, token, stoppedByClient, startSequence, reconnectAttempts,
                     reconnectTimer, waiting, status, pendingBatch, flushArmed, mockArmed, worker,
                     workerBatch, workerArmed, outbox, at>>
  BY DEF AbortSettles, Settled, authVars, batchVars, workerVars
<1>2. Live' = Live
  BY <1>1 DEF Live
<1> QED
  BY <1>1, <1>2 DEF StatInv, RestTypeOK, MockAlone, TimerTold, QuietWhenStopped,
                    StatusTellsTruth, PendingIsArmed

\* The place in the feed moves by one at most.
LEMMA FeedLength == ASSUME StatInv PROVE Len(feed) \in Nat
BY ManagerAssumption DEF StatInv

\* The flush timer is armed with the first batch of a window, and stays armed.
LEMMA MergeArms ==
    ASSUME NEW batch, MergeIntoPending(batch), StatInv
    PROVE  /\ DOMAIN pendingBatch' # {} => flushArmed'
           /\ flushArmed' \in BOOLEAN
BY DEF MergeIntoPending, StatInv, RestTypeOK, PendingIsArmed

\* What is received while a session runs disturbs neither the connection nor the status.
LEMMA ReceivedTells ==
    ASSUME StatInv, PendingIsArmed', token # None,
           UNCHANGED <<build, feed, token, stoppedByClient, startSequence, reconnectAttempts,
                       reconnectTimer, streams, waiting, status, mockArmed, worker>>,
           flushArmed' \in BOOLEAN, workerArmed' \in BOOLEAN, at' \in 1..(Len(feed) + 1)
    PROVE  StatInv'
<1>1. Live' = Live
  BY DEF Live
<1>2. RestTypeOK'
  BY DEF StatInv, RestTypeOK
<1>3. StatusTellsTruth'
  BY <1>1 DEF StatInv, StatusTellsTruth
<1> QED
  BY <1>2, <1>3 DEF StatInv, MockAlone, TimerTold, QuietWhenStopped

LEMMA ChunkTells ==
    ASSUME ConnInv, StatInv, NEW s \in streams, NEW piece \in {"head", "tail", "whole"},
           Chunk(s, piece)
    PROVE  StatInv'
<1> DEFINE r == [s EXCEPT !.half = (piece = "head")]
<1>1. /\ ~s.aborted /\ s.open /\ streams' = (streams \ {s}) \cup {r} /\ at <= Len(feed)
      /\ at' = IF EndsFrame(piece) THEN at + 1 ELSE at
      /\ UNCHANGED <<build, feed, token, stoppedByClient, startSequence, reconnectAttempts,
                     reconnectTimer, waiting, status, mockArmed, worker, workerBatch,
                     workerArmed, outbox>>
  BY DEF Chunk, authVars
<1>2. r.open = s.open /\ r.aborted = s.aborted
  BY DEF ConnInv, ConnTypeOK, StreamRecords
<1> HIDE DEF r
<1>3. token # None /\ ~stoppedByClient /\ reconnectTimer = 0 /\ build # "mock" /\ Live = {s}
  BY <1>1, LiveMeans
<1>4. Live' = {r}
  BY <1>1, <1>2, <1>3 DEF Live
<1>5. StatusTellsTruth'
  BY <1>1, <1>2, <1>3, <1>4 DEF StatInv, StatusTellsTruth
<1>6. /\ DOMAIN pendingBatch' # {} => flushArmed'
      /\ flushArmed' \in BOOLEAN
  <2>1. CASE worker
    BY <2>1 DEF Chunk, StatInv, RestTypeOK, PendingIsArmed
  <2>2. CASE ~worker
    <3>1. \E batch : MergeIntoPending(batch)
      BY <2>2 DEF Chunk
    <3> QED
      BY <3>1, MergeArms
  <2> QED
    BY <2>1, <2>2
<1>7. at' \in 1..(Len(feed) + 1)
  BY <1>1, FeedLength DEF StatInv, RestTypeOK
<1>8. RestTypeOK'
  BY <1>1, <1>6, <1>7 DEF StatInv, RestTypeOK
<1>9. PendingIsArmed'
  BY <1>1, <1>6 DEF StatInv, PendingIsArmed
<1> QED
  BY <1>1, <1>3, <1>5, <1>8, <1>9 DEF StatInv, MockAlone, TimerTold, QuietWhenStopped

LEMMA StreamStepTells == ASSUME ConnInv, StatInv, StreamStep PROVE StatInv'
<1>1. PICK s \in streams :
         \/ Opens(s) \/ StreamEnds(s) \/ StreamBreaks(s) \/ AbortSettles(s)
         \/ \E piece \in {"head", "tail", "whole"} : Chunk(s, piece)
  BY DEF StreamStep
<1>2. CASE Opens(s)
  BY <1>2, OpensTells
<1>3. CASE StreamEnds(s)
  BY <1>3, FailsTells DEF StreamEnds
<1>4. CASE StreamBreaks(s)
  BY <1>4, FailsTells DEF StreamBreaks
<1>5. CASE AbortSettles(s)
  BY <1>5, AbortSettlesTells
<1>6. CASE \E piece \in {"head", "tail", "whole"} : Chunk(s, piece)
  BY <1>6, ChunkTells
<1> QED
  BY <1>1, <1>2, <1>3, <1>4, <1>5, <1>6

LEMMA FlushTells == ASSUME StatInv, Flush PROVE StatInv'
<1>1. /\ flushArmed /\ ~flushArmed' /\ flushArmed' \in BOOLEAN /\ DOMAIN pendingBatch' = {}
      /\ UNCHANGED <<build, feed, token, stoppedByClient, startSequence, reconnectAttempts,
                     reconnectTimer, streams, waiting, status, mockArmed, worker, workerBatch,
                     workerArmed, outbox, at>>
  BY DEF Flush, NoBatch, authVars, connVars, workerVars
<1>2. token # None
  BY <1>1 DEF StatInv, QuietWhenStopped
<1>3. PendingIsArmed'
  BY <1>1 DEF StatInv, PendingIsArmed
<1>4. workerArmed' \in BOOLEAN /\ at' \in 1..(Len(feed) + 1)
  BY <1>1 DEF StatInv, RestTypeOK
<1> QED
  BY <1>1, <1>2, <1>3, <1>4, ReceivedTells

LEMMA MockTells == ASSUME StatInv, MockEmits PROVE StatInv'
<1>1. /\ mockArmed /\ at <= Len(feed) /\ at' = at + 1
      /\ UNCHANGED <<build, feed, token, stoppedByClient, startSequence, reconnectAttempts,
                     reconnectTimer, streams, waiting, status, mockArmed, worker, workerBatch,
                     workerArmed, outbox, pendingBatch, flushArmed>>
  BY DEF MockEmits, authVars, connVars, workerVars, batchVars
<1>2. token # None
  BY <1>1 DEF StatInv, QuietWhenStopped
<1>3. PendingIsArmed'
  BY <1>1 DEF StatInv, PendingIsArmed
<1>4. workerArmed' \in BOOLEAN /\ flushArmed' \in BOOLEAN
  BY <1>1 DEF StatInv, RestTypeOK
<1>5. at' \in 1..(Len(feed) + 1)
  BY <1>1, FeedLength DEF StatInv, RestTypeOK
<1> QED
  BY <1>1, <1>2, <1>3, <1>4, <1>5, ReceivedTells

\* The worker lives, and has posted, only while a session runs; its batch has its timer.
LEMMA WorkerStepTells == ASSUME StatInv, WorkerStep PROVE StatInv'
<1>1. /\ worker \/ outbox # <<>>
      /\ UNCHANGED <<build, feed, token, stoppedByClient, startSequence, reconnectAttempts,
                     reconnectTimer, streams, waiting, status, mockArmed, worker, at>>
  BY DEF WorkerStep, WorkerTakes, WorkerTimer, BatchArrives, authVars, connVars, batchVars
<1>2. token # None
  BY <1>1 DEF StatInv, QuietWhenStopped
<1>3. PendingIsArmed' /\ flushArmed' \in BOOLEAN /\ workerArmed' \in BOOLEAN
  <2>1. CASE WorkerTakes
    <3>1. UNCHANGED <<pendingBatch, flushArmed>>
      BY <2>1 DEF WorkerTakes, batchVars
    <3>2. CASE WorkerParses(Head(inbox))
      BY <3>1, <3>2 DEF WorkerParses, StatInv, RestTypeOK, PendingIsArmed
    <3>3. CASE EmitBatch
      <4>1. DOMAIN workerBatch' = {} /\ workerArmed' = FALSE
        BY <3>3 DEF EmitBatch, NoBatch
      <4> QED
        BY <3>1, <4>1 DEF StatInv, RestTypeOK, PendingIsArmed
    <3> QED
      BY <2>1, <3>2, <3>3 DEF WorkerTakes
  <2>2. CASE WorkerTimer
    <3>1. UNCHANGED <<pendingBatch, flushArmed>> /\ EmitBatch
      BY <2>2 DEF WorkerTimer, batchVars
    <3>2. DOMAIN workerBatch' = {} /\ workerArmed' = FALSE
      BY <3>1 DEF EmitBatch, NoBatch
    <3> QED
      BY <3>1, <3>2 DEF StatInv, RestTypeOK, PendingIsArmed
  <2>3. CASE BatchArrives
    <3>1. MergeIntoPending(Head(outbox)) /\ UNCHANGED <<workerBatch, workerArmed>>
      BY <2>3 DEF BatchArrives
    <3>2. /\ DOMAIN pendingBatch' # {} => flushArmed'
          /\ flushArmed' \in BOOLEAN
      BY <3>1, MergeArms
    <3> QED
      BY <3>1, <3>2 DEF StatInv, RestTypeOK, PendingIsArmed
  <2> QED
    BY <2>1, <2>2, <2>3 DEF WorkerStep
<1>4. at' \in 1..(Len(feed) + 1)
  BY <1>1 DEF StatInv, RestTypeOK
<1> QED
  BY <1>1, <1>2, <1>3, <1>4, ReceivedTells

LEMMA StepKeepsStat == ASSUME ConnInv, StatInv, [Next]_vars PROVE StatInv'
<1>1. CASE LeaveSession
  BY <1>1, LeaveTold
<1>2. CASE \E t \in Tokens : EnterSession(t)
  BY <1>2, EnterTold
<1>3. CASE \E w \in waiting : Resume(w)
  BY <1>3, ResumeTells
<1>4. CASE TimerFires
  BY <1>4, TimerTells
<1>5. CASE StreamStep
  BY <1>5, StreamStepTells
<1>6. CASE Flush
  BY <1>6, FlushTells
<1>7. CASE MockEmits
  BY <1>7, MockTells
<1>8. CASE WorkerStep
  BY <1>8, WorkerStepTells
<1>9. CASE UNCHANGED vars
  <2>1. Live' = Live
    BY <1>9 DEF vars, connVars, Live
  <2> QED
    BY <1>9, <2>1
    DEF vars, authVars, connVars, batchVars, workerVars, StatInv, RestTypeOK, MockAlone,
        TimerTold, QuietWhenStopped, StatusTellsTruth, PendingIsArmed
<1> QED
  BY <1>1, <1>2, <1>3, <1>4, <1>5, <1>6, <1>7, <1>8, <1>9 DEF Next

LEMMA StatCorrect == Spec => [](ConnInv /\ StatInv)
<1>1. Init => ConnInv /\ StatInv
  BY InitConn, InitStat
<1>2. (ConnInv /\ StatInv) /\ [Next]_vars => (ConnInv /\ StatInv)'
  BY StepKeepsConn, StepKeepsStat
<1> QED
  BY <1>1, <1>2, PTL DEF Spec

\* Every variable of RealtimeManager has its type.
THEOREM TypeCorrect == Spec => []TypeOK
<1>1. ConnInv /\ StatInv => TypeOK
  BY TypeParts DEF ConnInv, StatInv
<1> QED
  BY <1>1, StatCorrect, PTL

\* After disconnect no timer, batch, worker or live stream of the manager is left
\* (RealtimeManager.disconnect), whatever was on its way when it was called.
THEOREM QuietCorrect == Spec => []QuietWhenStopped
<1>1. ConnInv /\ StatInv => QuietWhenStopped
  BY DEF StatInv
<1> QED
  BY <1>1, StatCorrect, PTL

\* The connection status the page shows is the state of the connection
\* (setConnectionStatus in startWhenReady, startStream and scheduleReconnect).
THEOREM StatusCorrect == Spec => []StatusTellsTruth
<1>1. ConnInv /\ StatInv => StatusTellsTruth
  BY DEF StatInv
<1> QED
  BY <1>1, StatCorrect, PTL

\* No batch, in the manager or in its worker, waits without a timer that will take it on
\* (mergeIntoPendingBatch, and the worker's scheduleFlush).
THEOREM ArmedCorrect == Spec => []PendingIsArmed
<1>1. ConnInv /\ StatInv => PendingIsArmed
  BY DEF StatInv
<1> QED
  BY <1>1, StatCorrect, PTL

-----------------------------------------------------------------------------
(* What has been received is in the store or on its way there              *)
(* (DeliveryInv).  The way has stages, the store, the pending batch, the   *)
(* posted ones, the worker's, its messages and the rest of the feed, and   *)
(* an event is never before one of an earlier stage: batches move on as a  *)
(* whole.                                                                  *)

SlotNames == (PerCode \cup PerFeed) \X (Codes \cup {None})
Batches == UNION {[names -> Event] : names \in SUBSET SlotNames}

\* Where bars are shown, and the only one the feed has.
BarSlots == {<<"kbar_current", c>> : c \in Codes}
OwnBar == <<"kbar_current", StreamCode>>

IsBar(ev) == ev.name = "kbar_current" /\ ev.ts # None
IsPoint(ev) == ev.name = "spot_market_distribution_latest" /\ ev.ts # None
IsSeries(ev) == ev.name = "spot_market_distribution_series"

\* A batch holds events of the feed, each in a slot of its own; bars wait under one slot
\* whatever their code, and are filed under OwnBar when they are shown.
BatchOK(batch) ==
    /\ batch \in Batches
    /\ \A s \in DOMAIN batch :
          /\ batch[s].n \in 1..Len(feed)
          /\ batch[s] = feed[batch[s].n]
          /\ s \notin BarSlots
          /\ s = KbarSlot => IsBar(batch[s])
          /\ s = PointSlot => IsPoint(batch[s])
          /\ s = SeriesSlot => IsSeries(batch[s])

Messages == [type : {"chunk"}, piece : {"head", "tail", "whole"}, n : Nat] \cup [type : {"flush"}]

DeliveryTypeOK ==
    /\ board.slots \in Batches
    /\ \A s \in DOMAIN board.slots \cap BarSlots : s = OwnBar /\ board.slots[s].ts # None
    /\ BatchOK(pendingBatch)
    /\ BatchOK(workerBatch)
    /\ outbox \in Seq(Batches) /\ \A i \in 1..Len(outbox) : BatchOK(outbox[i])
    /\ inbox \in Seq(Messages)
    /\ ~worker => workerBatch = NoBatch /\ outbox = <<>> /\ inbox = <<>>
    /\ build = "mock" => ~worker /\ pendingBatch = NoBatch

\* The numbers of the events a batch, or the store, holds.
Numbers(batch) == {batch[s].n : s \in DOMAIN batch}

\* Messages that carry a piece of the stream.
Chunks == {k \in 1..Len(inbox) : inbox[k].type = "chunk"}

Before(M, N) == \A m \in M : \A n \in N : m <= n

StagesInOrder ==
    /\ Before(Numbers(board.slots), Numbers(pendingBatch))
    /\ Before(Numbers(board.slots), Numbers(workerBatch))
    /\ Before(Numbers(pendingBatch), Numbers(workerBatch))
    /\ \A i \in 1..Len(outbox) :
          /\ Before(Numbers(board.slots), Numbers(outbox[i]))
          /\ Before(Numbers(pendingBatch), Numbers(outbox[i]))
          /\ Before(Numbers(outbox[i]), Numbers(workerBatch))
          /\ \A j \in 1..Len(outbox) : i < j => Before(Numbers(outbox[i]), Numbers(outbox[j]))

PostedNumbers == UNION {Numbers(outbox[i]) : i \in 1..Len(outbox)}
SentNumbers == {inbox[k].n : k \in Chunks}

\* The numbers of what is in a batch or shown.
Held ==
    Numbers(board.slots) \cup Numbers(pendingBatch) \cup Numbers(workerBatch)
        \cup PostedNumbers

ArrivalsInOrder ==
    /\ Before(Held, {at})
    /\ \A k \in Chunks :
          /\ Before(Held, {inbox[k].n})
          /\ inbox[k].n \in 1..Len(feed) /\ inbox[k].n <= at
          /\ \A l \in Chunks : k < l => inbox[k].n <= inbox[l].n

\* The numbers of the events that may still reach the series.
Coming ==
    Numbers(pendingBatch) \cup Numbers(workerBatch) \cup PostedNumbers \cup SentNumbers
        \cup at..Len(feed)

SeriesInv ==
    board.series # None =>
        /\ board.series \in Seq([ts : Nat, n : Nat])
        /\ \A n \in Coming : IsPoint(feed[n]) =>
              \A i \in 1..Len(board.series) : board.series[i].ts <= feed[n].ts

DeliveryInv ==
    /\ DeliveryTypeOK
    /\ StagesInOrder
    /\ ArrivalsInOrder
    /\ SeriesInv
    /\ SeriesOrdered
    /\ NothingLost

-----------------------------------------------------------------------------
(* Spreads and slots.                                                       *)

LEMMA BatchShape ==
    ASSUME NEW f \in Batches
    PROVE  /\ f = [s \in DOMAIN f |-> f[s]]
           /\ \A s \in DOMAIN f : f[s] \in Event /\ f[s].n \in Nat
           /\ DOMAIN f \subseteq SlotNames
BY DEF Batches, Event

LEMMA NothingYet == NoBatch \in Batches /\ DOMAIN NoBatch = {} /\ Slots(NoBatch) = NoBatch
<1>1. DOMAIN NoBatch = {} /\ NoBatch \in [{} -> Event]
  BY DEF NoBatch
<1>2. Slots(NoBatch) = NoBatch
  BY <1>1 DEF Slots, Over, NoBatch
<1> QED
  BY <1>1, <1>2 DEF Batches

LEMMA OverShape ==
    ASSUME NEW f, NEW g
    PROVE  /\ DOMAIN Over(f, g) = DOMAIN f \cup DOMAIN g
           /\ \A s \in DOMAIN f : Over(f, g)[s] = f[s]
           /\ \A s \in DOMAIN g \ DOMAIN f : Over(f, g)[s] = g[s]
BY DEF Over

LEMMA OverBatches ==
    ASSUME NEW f \in Batches, NEW g \in Batches
    PROVE  Over(f, g) \in Batches
<1>1. Over(f, g) \in [DOMAIN f \cup DOMAIN g -> Event]
  BY BatchShape DEF Over
<1>2. DOMAIN f \cup DOMAIN g \in SUBSET SlotNames
  BY BatchShape
<1> QED
  BY <1>1, <1>2 DEF Batches

LEMMA OverNothing ==
    ASSUME NEW f \in Batches
    PROVE  Over(NoBatch, f) = f /\ Over(f, NoBatch) = f
<1>1. DOMAIN NoBatch = {} /\ f = [s \in DOMAIN f |-> f[s]]
  BY NothingYet, BatchShape
<1>2. DOMAIN NoBatch \cup DOMAIN f = DOMAIN f /\ DOMAIN f \cup DOMAIN NoBatch = DOMAIN f
  BY <1>1
<1> QED
  BY <1>1, <1>2 DEF Over

LEMMA OverAssociates ==
    ASSUME NEW f, NEW g, NEW h
    PROVE  Over(f, Over(g, h)) = Over(Over(f, g), h)
<1>1. /\ DOMAIN Over(f, g) = DOMAIN f \cup DOMAIN g
      /\ DOMAIN Over(g, h) = DOMAIN g \cup DOMAIN h
  BY DEF Over
<1>2. /\ DOMAIN f \cup DOMAIN Over(g, h) = DOMAIN Over(f, g) \cup DOMAIN h
  BY <1>1
<1>3. \A s \in DOMAIN f \cup DOMAIN Over(g, h) :
         (IF s \in DOMAIN f THEN f[s] ELSE Over(g, h)[s])
           = (IF s \in DOMAIN Over(f, g) THEN Over(f, g)[s] ELSE h[s])
  BY <1>1 DEF Over
<1> QED
  BY <1>2, <1>3 DEF Over

\* What is known of the feed.
LEMMA FeedFacts ==
    ASSUME feed \in Feeds
    PROVE  /\ Len(feed) \in Nat
           /\ \A n \in 1..Len(feed) :
                 /\ feed[n] \in Event /\ feed[n].n = n
                 /\ feed[n].name = "kbar_current" => feed[n].code = StreamCode
<1>1. feed \in Seq(Event)
  BY ManagerAssumption
<1>2. Len(feed) \in Nat /\ \A n \in 1..Len(feed) : feed[n] \in Event
  BY <1>1
<1>3. \A n \in 1..Len(feed) :
         /\ feed[n].n = n
         /\ feed[n].name = "kbar_current" => feed[n].code = StreamCode
  BY FeedsAssumption
<1> QED
  BY <1>2, <1>3

LEMMA SlotFacts ==
    /\ KbarSlot \in SlotNames /\ SeriesSlot \in SlotNames /\ PointSlot \in SlotNames
    /\ SectorSlot \in SlotNames /\ HeartbeatSlot \in SlotNames /\ OwnBar \in SlotNames
    /\ OwnBar \in BarSlots
    /\ BarSlots \cap {KbarSlot, PointSlot, SeriesSlot, SectorSlot, HeartbeatSlot} = {}
    /\ KbarSlot # PointSlot /\ KbarSlot # SeriesSlot /\ PointSlot # SeriesSlot
    /\ SectorSlot \notin {KbarSlot, PointSlot, SeriesSlot}
    /\ HeartbeatSlot \notin {KbarSlot, PointSlot, SeriesSlot}
<1>1. StreamCode \in Codes /\ None \notin Codes
  BY FeedAssumption
<1> QED
  BY <1>1
  DEF KbarSlot, SeriesSlot, PointSlot, SectorSlot, HeartbeatSlot, OwnBar, BarSlots, SlotNames,
      PerFeed

\* What a batch brings the store: its bar under its code, and all else but the series.
LEMMA SlotsShape ==
    ASSUME feed \in Feeds, NEW b, BatchOK(b)
    PROVE  /\ DOMAIN Slots(b) = (DOMAIN b \ {KbarSlot, SeriesSlot})
                                  \cup (IF KbarSlot \in DOMAIN b THEN {OwnBar} ELSE {})
           /\ \A s \in DOMAIN b \ {KbarSlot, SeriesSlot} : Slots(b)[s] = b[s]
           /\ KbarSlot \in DOMAIN b => Slots(b)[OwnBar] = b[KbarSlot]
           /\ Slots(b) \in Batches
<1> DEFINE rest == [s \in DOMAIN b \ {KbarSlot, SeriesSlot} |-> b[s]]
           bar == IF KbarSlot \in DOMAIN b
                  THEN Put({<<"kbar_current", b[KbarSlot].code>>}, b[KbarSlot])
                  ELSE NoBatch
<1>1. Slots(b) = Over(bar, rest)
  BY DEF Slots
<1>2. KbarSlot \in DOMAIN b => b[KbarSlot].code = StreamCode
  <2>1. KbarSlot \in DOMAIN b =>
           /\ b[KbarSlot].n \in 1..Len(feed) /\ b[KbarSlot] = feed[b[KbarSlot].n]
           /\ b[KbarSlot].name = "kbar_current"
    BY DEF BatchOK, IsBar
  <2> QED
    BY <2>1, FeedFacts
<1>3. bar = IF KbarSlot \in DOMAIN b THEN Put({OwnBar}, b[KbarSlot]) ELSE NoBatch
  BY <1>2 DEF OwnBar
<1>4. /\ DOMAIN b \subseteq SlotNames /\ \A s \in DOMAIN b : b[s] \in Event
      /\ OwnBar \notin DOMAIN b
  BY BatchShape, SlotFacts DEF BatchOK
<1>5. DOMAIN rest = DOMAIN b \ {KbarSlot, SeriesSlot} /\ rest \in Batches
  <2>1. rest \in [DOMAIN b \ {KbarSlot, SeriesSlot} -> Event]
    BY <1>4
  <2> QED
    BY <1>4, <2>1 DEF Batches
<1>6. DOMAIN bar = (IF KbarSlot \in DOMAIN b THEN {OwnBar} ELSE {}) /\ bar \in Batches
  <2>1. CASE KbarSlot \in DOMAIN b
    <3>1. bar \in [{OwnBar} -> Event] /\ {OwnBar} \in SUBSET SlotNames
      BY <1>3, <1>4, <2>1, SlotFacts DEF Put
    <3> QED
      BY <2>1, <3>1 DEF Batches
  <2>2. CASE KbarSlot \notin DOMAIN b
    BY <1>3, <2>2, NothingYet
  <2> QED
    BY <2>1, <2>2
<1>7. KbarSlot \in DOMAIN b => bar[OwnBar] = b[KbarSlot]
  BY <1>3 DEF Put
<1>8. \A s \in DOMAIN rest : rest[s] = b[s] /\ s \notin DOMAIN bar
  BY <1>4, <1>5, <1>6
<1> HIDE DEF rest, bar
<1>9. DOMAIN Slots(b) = DOMAIN bar \cup DOMAIN rest
  BY <1>1, OverShape
<1>10. Slots(b) \in Batches
  BY <1>1, <1>5, <1>6, OverBatches
<1>11. \A s \in DOMAIN rest : Slots(b)[s] = rest[s]
  BY <1>1, <1>8 DEF Over
<1>12. KbarSlot \in DOMAIN b => Slots(b)[OwnBar] = bar[OwnBar]
  BY <1>1, <1>6 DEF Over
<1> QED
  BY <1>5, <1>6, <1>7, <1>8, <1>9, <1>10, <1>11, <1>12

\* A spread of batches is a batch.
LEMMA OverOK ==
    ASSUME NEW f, NEW g, BatchOK(f), BatchOK(g)
    PROVE  BatchOK(Over(f, g))
<1>1. Over(f, g) \in Batches
  BY OverBatches DEF BatchOK
<1>2. ASSUME NEW s \in DOMAIN Over(f, g)
      PROVE  \/ s \in DOMAIN f /\ Over(f, g)[s] = f[s]
             \/ s \in DOMAIN g /\ Over(f, g)[s] = g[s]
  BY <1>2 DEF Over
<1> QED
  BY <1>1, <1>2 DEF BatchOK

\* Two functions with one domain and the same values.
LEMMA SameBatch ==
    ASSUME NEW f \in Batches, NEW g \in Batches, DOMAIN f = DOMAIN g,
           \A s \in DOMAIN f : f[s] = g[s]
    PROVE  f = g
BY BatchShape

\* Merging before showing shows the same as showing one after the other.
LEMMA SlotsOver ==
    ASSUME feed \in Feeds, NEW f, NEW g, BatchOK(f), BatchOK(g)
    PROVE  Slots(Over(f, g)) = Over(Slots(f), Slots(g))
<1> DEFINE u == Over(f, g)
           v == Over(Slots(f), Slots(g))
<1>1. BatchOK(u)
  BY OverOK
<1>2. /\ DOMAIN u = DOMAIN f \cup DOMAIN g
      /\ \A s \in DOMAIN f : u[s] = f[s]
      /\ \A s \in DOMAIN g \ DOMAIN f : u[s] = g[s]
  BY OverShape
<1>3. /\ DOMAIN v = DOMAIN Slots(f) \cup DOMAIN Slots(g)
      /\ \A s \in DOMAIN Slots(f) : v[s] = Slots(f)[s]
      /\ \A s \in DOMAIN Slots(g) \ DOMAIN Slots(f) : v[s] = Slots(g)[s]
  BY OverShape
<1>4. Slots(u) \in Batches /\ v \in Batches
  BY <1>1, SlotsShape, OverBatches
<1>5. OwnBar \notin DOMAIN f /\ OwnBar \notin DOMAIN g
  BY SlotFacts DEF BatchOK
<1> HIDE DEF u, v
<1>6. DOMAIN Slots(u) = DOMAIN v
  BY <1>1, <1>2, <1>3, SlotsShape
<1>7. ASSUME NEW s \in DOMAIN Slots(u)
      PROVE  Slots(u)[s] = v[s]
  <2>1. CASE s = OwnBar
    <3>1. KbarSlot \in DOMAIN u /\ Slots(u)[s] = u[KbarSlot]
      BY <1>1, <1>2, <1>5, <1>7, <2>1, SlotsShape
    <3>2. CASE KbarSlot \in DOMAIN f
      <4>1. OwnBar \in DOMAIN Slots(f) /\ Slots(f)[OwnBar] = f[KbarSlot]
        BY <3>2, SlotsShape
      <4>2. u[KbarSlot] = f[KbarSlot] /\ v[OwnBar] = Slots(f)[OwnBar]
        BY <1>2, <1>3, <3>2, <4>1
      <4> QED
        BY <2>1, <3>1, <4>1, <4>2
    <3>3. CASE KbarSlot \notin DOMAIN f
      <4>1. KbarSlot \in DOMAIN g \ DOMAIN f
        BY <1>2, <3>1, <3>3
      <4>2. OwnBar \notin DOMAIN Slots(f)
        BY <1>5, <3>3, SlotsShape
      <4>3. OwnBar \in DOMAIN Slots(g) /\ Slots(g)[OwnBar] = g[KbarSlot]
        BY <4>1, SlotsShape
      <4>4. u[KbarSlot] = g[KbarSlot] /\ v[OwnBar] = Slots(g)[OwnBar]
        BY <1>2, <1>3, <4>1, <4>2, <4>3
      <4> QED
        BY <2>1, <3>1, <4>3, <4>4
    <3> QED
      BY <3>2, <3>3
  <2>2. CASE s # OwnBar
    <3>1. s \in DOMAIN u \ {KbarSlot, SeriesSlot} /\ Slots(u)[s] = u[s]
      BY <1>1, <1>7, <2>2, SlotsShape
    <3>2. CASE s \in DOMAIN f
      <4>1. s \in DOMAIN Slots(f) /\ Slots(f)[s] = f[s]
        BY <3>1, <3>2, SlotsShape
      <4>2. u[s] = f[s] /\ v[s] = Slots(f)[s]
        BY <1>2, <1>3, <3>2, <4>1
      <4> QED
        BY <3>1, <4>1, <4>2
    <3>3. CASE s \notin DOMAIN f
      <4>1. s \in DOMAIN g \ DOMAIN f
        BY <1>2, <3>1, <3>3
      <4>2. s \notin DOMAIN Slots(f)
        BY <2>2, <3>3, SlotsShape
      <4>3. s \in DOMAIN Slots(g) /\ Slots(g)[s] = g[s]
        BY <3>1, <4>1, SlotsShape
      <4>4. u[s] = g[s] /\ v[s] = Slots(g)[s]
        BY <1>2, <1>3, <4>1, <4>2, <4>3
      <4> QED
        BY <3>1, <4>3, <4>4
    <3> QED
      BY <3>2, <3>3
  <2> QED
    BY <2>1, <2>2
<1> QED
  BY <1>4, <1>6, <1>7, SameBatch DEF u, v

-----------------------------------------------------------------------------
(* What the worker has posted.                                              *)

LEMMA PostedShape ==
    ASSUME NEW o \in Seq(Batches)
    PROVE  /\ DOMAIN Posted(o) = UNION {DOMAIN Slots(o[i]) : i \in 1..Len(o)}
           /\ Posted(o) = [s \in DOMAIN Posted(o) |-> Posted(o)[s]]
           /\ \A s \in DOMAIN Posted(o) : \E i \in 1..Len(o) :
                 /\ s \in DOMAIN Slots(o[i]) /\ Posted(o)[s] = Slots(o[i])[s]
                 /\ \A j \in 1..Len(o) : s \in DOMAIN Slots(o[j]) => j <= i
<1> DEFINE holding(s) == {i \in 1..Len(o) : s \in DOMAIN Slots(o[i])}
           newest(s) == CHOOSE i \in holding(s) : \A j \in holding(s) : j <= i
           slots == UNION {DOMAIN Slots(o[i]) : i \in 1..Len(o)}
<1>1. Posted(o) = [s \in slots |-> Slots(o[newest(s)])[s]]
  BY DEF Posted
<1>2. ASSUME NEW s \in slots
      PROVE  newest(s) \in holding(s) /\ \A j \in holding(s) : j <= newest(s)
  <2>1. Len(o) \in Nat /\ holding(s) \subseteq Nat /\ holding(s) # {}
    BY <1>2
  <2>2. IsFiniteSet(holding(s))
    <3>1. IsFiniteSet(1..Len(o)) /\ holding(s) \subseteq 1..Len(o)
      BY <2>1, FS_Interval
    <3> HIDE DEF holding
    <3> QED
      BY <3>1, FS_Subset
  <2>3. \E i \in holding(s) : \A j \in holding(s) : j <= i
    BY <2>1, <2>2, GreatestNumber
  <2> QED
    BY <2>3
<1> QED
  BY <1>1, <1>2

LEMMA PostedValue ==
    ASSUME NEW o \in Seq(Batches), NEW i \in 1..Len(o), NEW s \in DOMAIN Slots(o[i]),
           \A j \in 1..Len(o) : i < j => s \notin DOMAIN Slots(o[j])
    PROVE  s \in DOMAIN Posted(o) /\ Posted(o)[s] = Slots(o[i])[s]
<1>1. s \in DOMAIN Posted(o)
  <2>1. DOMAIN Posted(o) = UNION {DOMAIN Slots(o[j]) : j \in 1..Len(o)}
    BY PostedShape
  <2> QED
    BY <2>1
<1>2. PICK k \in 1..Len(o) :
         /\ s \in DOMAIN Slots(o[k]) /\ Posted(o)[s] = Slots(o[k])[s]
         /\ \A j \in 1..Len(o) : s \in DOMAIN Slots(o[j]) => j <= k
  BY <1>1, PostedShape
<1>3. k = i
  BY <1>2
<1> QED
  BY <1>1, <1>2, <1>3

LEMMA PostedNothing == Posted(<<>>) = NoBatch
<1>1. UNION {DOMAIN Slots(<<>>[i]) : i \in 1..Len(<<>>)} = {}
  OBVIOUS
<1> QED
  BY <1>1 DEF Posted, NoBatch

\* A batch posted is spread over those before it (onmessage "batch").
LEMMA PostedAppend ==
    ASSUME NEW o \in Seq(Batches), NEW b \in Batches
    PROVE  Posted(Append(o, b)) = Over(Slots(b), Posted(o))
<1> DEFINE p == Append(o, b)
           n == Len(o)
<1>1. /\ n \in Nat /\ p \in Seq(Batches) /\ Len(p) = n + 1 /\ p[n + 1] = b
      /\ \A i \in 1..n : i \in 1..(n + 1) /\ p[i] = o[i]
      /\ \A i \in 1..(n + 1) : i \in 1..n \/ i = n + 1
      /\ n + 1 \in 1..(n + 1) /\ \A i \in 1..(n + 1) : i <= n + 1
  OBVIOUS
<1> HIDE DEF p, n
<1>2. DOMAIN Posted(p) = DOMAIN Slots(b) \cup DOMAIN Posted(o)
  <2>1. DOMAIN Posted(p) = UNION {DOMAIN Slots(p[i]) : i \in 1..(n + 1)}
    BY <1>1, PostedShape
  <2>2. DOMAIN Posted(o) = UNION {DOMAIN Slots(o[i]) : i \in 1..n}
    BY PostedShape DEF n
  <2> QED
    BY <1>1, <2>1, <2>2
<1>3. ASSUME NEW s \in DOMAIN Posted(p)
      PROVE  Posted(p)[s] = IF s \in DOMAIN Slots(b) THEN Slots(b)[s] ELSE Posted(o)[s]
  <2>1. PICK k \in 1..(n + 1) :
           /\ s \in DOMAIN Slots(p[k]) /\ Posted(p)[s] = Slots(p[k])[s]
           /\ \A j \in 1..(n + 1) : s \in DOMAIN Slots(p[j]) => j <= k
    BY <1>1, <1>3, PostedShape
  <2>2. CASE k = n + 1
    BY <1>1, <2>1, <2>2
  <2>3. CASE k # n + 1
    <3>1. k \in 1..n /\ s \notin DOMAIN Slots(b) /\ s \in DOMAIN Slots(o[k])
      BY <1>1, <2>1, <2>3
    <3>2. \A j \in 1..n : k < j => s \notin DOMAIN Slots(o[j])
      BY <1>1, <2>1, <3>1
    <3>3. Posted(o)[s] = Slots(o[k])[s]
      BY <3>1, <3>2, PostedValue DEF n
    <3> QED
      BY <1>1, <2>1, <3>1, <3>3
  <2> QED
    BY <2>2, <2>3
<1>4. Posted(p) = [s \in DOMAIN Posted(p) |-> Posted(p)[s]]
  BY <1>1, PostedShape
<1> QED
  BY <1>2, <1>3, <1>4 DEF Over, p

\* The first of the posted batches is the one the others are spread over.
LEMMA PostedTail ==
    ASSUME NEW o \in Seq(Batches), o # <<>>
    PROVE  Posted(o) = Over(Posted(Tail(o)), Slots(Head(o)))
<1> DEFINE p == Tail(o)
           n == Len(o)
<1>1. /\ n \in Nat \ {0} /\ p \in Seq(Batches) /\ Len(p) = n - 1 /\ Head(o) = o[1]
      /\ \A i \in 1..(n - 1) : i + 1 \in 1..n /\ p[i] = o[i + 1]
      /\ \A i \in 1..n : i = 1 \/ i - 1 \in 1..(n - 1)
      /\ \A i \in 1..n : i # 1 => p[i - 1] = o[i]
      /\ 1 \in 1..n
  OBVIOUS
<1> HIDE DEF p, n
<1>2. DOMAIN Posted(o) = DOMAIN Posted(p) \cup DOMAIN Slots(Head(o))
  <2>1. DOMAIN Posted(p) = UNION {DOMAIN Slots(p[i]) : i \in 1..(n - 1)}
    BY <1>1, PostedShape
  <2>2. DOMAIN Posted(o) = UNION {DOMAIN Slots(o[i]) : i \in 1..n}
    BY PostedShape DEF n
  <2> QED
    BY <1>1, <2>1, <2>2
<1>3. ASSUME NEW s \in DOMAIN Posted(o)
      PROVE  Posted(o)[s] = IF s \in DOMAIN Posted(p) THEN Posted(p)[s] ELSE Slots(Head(o))[s]
  <2>1. PICK k \in 1..n :
           /\ s \in DOMAIN Slots(o[k]) /\ Posted(o)[s] = Slots(o[k])[s]
           /\ \A j \in 1..n : s \in DOMAIN Slots(o[j]) => j <= k
    BY <1>3, PostedShape DEF n
  <2>2. CASE k = 1
    <3>1. \A i \in 1..(n - 1) : s \notin DOMAIN Slots(p[i])
      <4> SUFFICES ASSUME NEW i \in 1..(n - 1), s \in DOMAIN Slots(p[i]) PROVE FALSE
        OBVIOUS
      <4>1. i + 1 \in 1..n /\ s \in DOMAIN Slots(o[i + 1])
        BY <1>1
      <4> QED
        BY <2>1, <2>2, <4>1
    <3>2. s \notin DOMAIN Posted(p)
      BY <1>1, <3>1, PostedShape
    <3> QED
      BY <1>1, <2>1, <2>2, <3>2
  <2>3. CASE k # 1
    <3>1. k - 1 \in 1..(n - 1) /\ p[k - 1] = o[k]
      BY <1>1, <2>3
    <3>2. \A j \in 1..(n - 1) : k - 1 < j => s \notin DOMAIN Slots(p[j])
      <4> SUFFICES ASSUME NEW j \in 1..(n - 1), k - 1 < j, s \in DOMAIN Slots(p[j]) PROVE FALSE
        OBVIOUS
      <4>1. j + 1 \in 1..n /\ s \in DOMAIN Slots(o[j + 1])
        BY <1>1
      <4> QED
        BY <2>1, <4>1
    <3>3. PICK m \in 1..Len(p) : m = k - 1
      BY <1>1, <3>1
    <3>4. s \in DOMAIN Slots(p[m]) /\ \A j \in 1..Len(p) : m < j => s \notin DOMAIN Slots(p[j])
      BY <1>1, <2>1, <3>1, <3>2, <3>3
    <3>5. s \in DOMAIN Posted(p) /\ Posted(p)[s] = Slots(p[m])[s]
      <4>1. p \in Seq(Batches)
        BY <1>1
      <4> QED
        BY <3>4, <4>1, PostedValue
    <3> QED
      BY <2>1, <3>1, <3>3, <3>5
  <2> QED
    BY <2>2, <2>3
<1>4. Posted(o) = [s \in DOMAIN Posted(o) |-> Posted(o)[s]]
  BY PostedShape
<1> QED
  BY <1>2, <1>3, <1>4 DEF Over, p

-----------------------------------------------------------------------------
(* What one event adds.                                                     *)

\* An event that passes the session filter, filed under any code, is a batch.
LEMMA FiledOK ==
    ASSUME feed \in Feeds, NEW n \in 1..Len(feed), ShouldApply(feed[n]), NEW code \in Codes
    PROVE  BatchOK(Filed(feed[n], code)) /\ Numbers(Filed(feed[n], code)) \subseteq {n}
<1> DEFINE ev == feed[n]
           b == Filed(ev, code)
<1>1. /\ ev \in Event /\ ev.n = n /\ n \in Nat
      /\ ev.name \in PerCode \cup PerFeed
  BY FeedFacts DEF Event
<1>2. ev.name \in Untimed \/ ev.ts # None
  BY DEF ShouldApply
<1> SUFFICES BatchOK(b) /\ Numbers(b) \subseteq {n}
  OBVIOUS
<1> HIDE DEF ev
<1>3. ASSUME NEW slots \in SUBSET SlotNames, b = Put(slots, ev), slots \cap BarSlots = {},
             KbarSlot \in slots => IsBar(ev), PointSlot \in slots => IsPoint(ev),
             SeriesSlot \in slots => IsSeries(ev)
      PROVE  BatchOK(b) /\ Numbers(b) \subseteq {n}
  <2>1. b \in [slots -> Event] /\ DOMAIN b = slots /\ \A s \in slots : b[s] = ev
    BY <1>1, <1>3 DEF Put
  <2>2. b \in Batches
    BY <2>1 DEF Batches
  <2> HIDE DEF b
  <2> QED
    BY <1>1, <1>3, <2>1, <2>2 DEF BatchOK, Numbers, ev
<1>4. CASE ev.name \in PerCode
  <2>1. b = Put({<<ev.name, code>>}, ev)
    BY <1>4 DEF Filed, ev, PerCode
  <2>2. <<ev.name, code>> \in SlotNames
    BY <1>4 DEF SlotNames
  <2>3. <<ev.name, code>> \notin BarSlots \cup {KbarSlot, PointSlot, SeriesSlot}
    <3>1. ev.name \notin {"kbar_current", "spot_market_distribution_latest",
                          "spot_market_distribution_series"}
      BY <1>4 DEF PerCode
    <3> QED
      BY <3>1 DEF BarSlots, KbarSlot, PointSlot, SeriesSlot
  <2> DEFINE slots == {<<ev.name, code>>}
  <2>4. /\ slots \in SUBSET SlotNames /\ slots \cap BarSlots = {} /\ b = Put(slots, ev)
        /\ KbarSlot \notin slots /\ PointSlot \notin slots /\ SeriesSlot \notin slots
    BY <2>1, <2>2, <2>3
  <2> HIDE DEF slots, b
  <2> QED
    BY <1>3, <2>4
<1>5. CASE ev.name = "index_contrib_sector"
  <2>1. b = Put({SectorSlot, HeartbeatSlot}, ev)
    BY <1>5 DEF Filed, PerCode, ev
  <2> DEFINE slots == {SectorSlot, HeartbeatSlot}
  <2>2. /\ slots \in SUBSET SlotNames /\ slots \cap BarSlots = {} /\ b = Put(slots, ev)
        /\ KbarSlot \notin slots /\ PointSlot \notin slots /\ SeriesSlot \notin slots
    BY <2>1, SlotFacts
  <2> HIDE DEF slots, b
  <2> QED
    BY <1>3, <2>2
<1>6. CASE ev.name \notin PerCode \cup {"index_contrib_sector"}
  <2>1. b = Put({<<ev.name, None>>}, ev)
    BY <1>6 DEF Filed, ev
  <2>2. <<ev.name, None>> \in SlotNames
    BY <1>1 DEF SlotNames
  <2>3. <<ev.name, None>> \notin BarSlots
    BY FeedAssumption DEF BarSlots
  <2>4. /\ KbarSlot = <<ev.name, None>> => IsBar(ev)
        /\ PointSlot = <<ev.name, None>> => IsPoint(ev)
        /\ SeriesSlot = <<ev.name, None>> => IsSeries(ev)
    BY <1>2 DEF KbarSlot, PointSlot, SeriesSlot, IsBar, IsPoint, IsSeries, Untimed
  <2> DEFINE slots == {<<ev.name, None>>}
  <2>5. /\ slots \in SUBSET SlotNames /\ slots \cap BarSlots = {} /\ b = Put(slots, ev)
        /\ KbarSlot \in slots => IsBar(ev)
        /\ PointSlot \in slots => IsPoint(ev)
        /\ SeriesSlot \in slots => IsSeries(ev)
    BY <2>1, <2>2, <2>3, <2>4
  <2> HIDE DEF slots, b
  <2> QED
    BY <1>3, <2>5
<1> QED
  BY <1>4, <1>5, <1>6

LEMMA NothingFiled == BatchOK(NoBatch) /\ Numbers(NoBatch) = {}
BY NothingYet DEF BatchOK, Numbers

\* The manager files an event under a code (extractCodeForEvent).
LEMMA CodeOfType ==
    ASSUME DeliveryTypeOK, NEW ev \in Event
    PROVE  CodeOf(ev, board.slots) \in Codes
<1> DEFINE slots == board.slots
           held == {c \in Codes : <<"kbar_current", c>> \in DOMAIN slots}
<1>1. \A c \in held : c = StreamCode /\ slots[<<"kbar_current", c>>].ts \in Nat
  <2> SUFFICES ASSUME NEW c \in held
               PROVE  c = StreamCode /\ slots[<<"kbar_current", c>>].ts \in Nat
    OBVIOUS
  <2>1. <<"kbar_current", c>> \in DOMAIN slots \cap BarSlots
    BY DEF BarSlots
  <2>2. <<"kbar_current", c>> = OwnBar /\ slots[<<"kbar_current", c>>].ts # None
    BY <2>1 DEF DeliveryTypeOK
  <2>3. slots[<<"kbar_current", c>>] \in Event
    BY <2>1, BatchShape DEF DeliveryTypeOK
  <2> QED
    BY <2>2, <2>3 DEF OwnBar, Event
<1>2. CASE held = {}
  <2>1. NewestKbarCode(slots) = None
    BY <1>2 DEF NewestKbarCode
  <2> QED
    BY <2>1, FeedAssumption DEF CodeOf, Event
<1>3. CASE held # {}
  <2>1. \E c \in held : \A d \in held :
           slots[<<"kbar_current", d>>].ts <= slots[<<"kbar_current", c>>].ts
    <3>1. PICK c \in held : TRUE
      BY <1>3
    <3>2. ASSUME NEW d \in held
          PROVE  slots[<<"kbar_current", d>>].ts <= slots[<<"kbar_current", c>>].ts
      <4>1. d = c /\ slots[<<"kbar_current", c>>].ts \in Nat
        BY <1>1, <3>1
      <4> QED
        BY <4>1
    <3> QED
      BY <3>1, <3>2
  <2>2. NewestKbarCode(slots) \in Codes
    BY <1>3, <2>1 DEF NewestKbarCode
  <2> QED
    BY <2>2, FeedAssumption DEF CodeOf, Event
<1> QED
  BY <1>2, <1>3

LEMMA CollectOK ==
    ASSUME feed \in Feeds, DeliveryTypeOK, NEW n \in 1..Len(feed), ShouldApply(feed[n])
    PROVE  /\ BatchOK(Collect(feed[n], board.slots))
           /\ Numbers(Collect(feed[n], board.slots)) \subseteq {n}
<1>1. CodeOf(feed[n], board.slots) \in Codes
  BY CodeOfType, FeedFacts
<1> QED
  BY <1>1, FiledOK, NothingFiled DEF Collect

\* Part of a batch is a batch.
LEMMA PartOfBatch ==
    ASSUME feed \in Feeds, NEW b, BatchOK(b), NEW S, S \subseteq DOMAIN b,
           NEW part, part = [s \in S |-> b[s]]
    PROVE  BatchOK(part) /\ Numbers(part) \subseteq Numbers(b)
<1>1. /\ DOMAIN b \in SUBSET SlotNames /\ \A s \in DOMAIN b : b[s] \in Event
  BY BatchShape DEF BatchOK
<1>2. DOMAIN part = S /\ \A s \in S : part[s] = b[s]
  OBVIOUS
<1>3. S \in SUBSET SlotNames /\ part \in [S -> Event]
  BY <1>1, <1>2
<1>4. part \in Batches
  BY <1>3 DEF Batches
<1> QED
  BY <1>2, <1>4 DEF BatchOK, Numbers

\* What an event adds is that event, in every slot.
LEMMA FiledAlone ==
    ASSUME NEW ev, NEW code, NEW s \in DOMAIN Filed(ev, code)
    PROVE  Filed(ev, code)[s] = ev
BY DEF Filed, Put

LEMMA CollectRawOK ==
    ASSUME feed \in Feeds, NEW n \in 1..Len(feed), ShouldApply(feed[n])
    PROVE  BatchOK(CollectRaw(feed[n])) /\ Numbers(CollectRaw(feed[n])) \subseteq {n}
<1> DEFINE code == IF feed[n].code # None THEN feed[n].code
                   ELSE IF feed[n].name = "otc_summary_latest" THEN OtcCode ELSE StreamCode
<1>1. code \in Codes
  BY FeedFacts, FeedAssumption DEF Event
<1> DEFINE untimed == IF feed[n].ts = None THEN {HeartbeatSlot} ELSE {}
           filed == Filed(feed[n], code)
           kept == DOMAIN filed \ untimed
<1>2. CollectRaw(feed[n]) = [s \in kept |-> feed[n]]
  BY DEF CollectRaw
<1> HIDE DEF code
<1>3. BatchOK(filed) /\ Numbers(filed) \subseteq {n}
  BY <1>1, FiledOK
<1>4. CollectRaw(feed[n]) = [s \in kept |-> filed[s]]
  BY <1>2, FiledAlone
<1>5. kept \subseteq DOMAIN filed
  OBVIOUS
<1> HIDE DEF filed, kept
<1> QED
  BY <1>3, <1>4, <1>5, PartOfBatch

-----------------------------------------------------------------------------
(* The steps.                                                               *)

deliveryState == <<build, feed, pendingBatch, workerBatch, outbox, inbox, board, at, heard>>

LEMMA NumbersOver ==
    ASSUME NEW f, NEW g
    PROVE  Numbers(Over(f, g)) \subseteq Numbers(f) \cup Numbers(g)
<1>1. ASSUME NEW s \in DOMAIN Over(f, g)
      PROVE  Over(f, g)[s].n \in Numbers(f) \cup Numbers(g)
  BY <1>1 DEF Over, Numbers
<1> QED
  BY <1>1 DEF Numbers

LEMMA NumbersSlots ==
    ASSUME feed \in Feeds, NEW b, BatchOK(b)
    PROVE  Numbers(Slots(b)) \subseteq Numbers(b)
<1>1. ASSUME NEW s \in DOMAIN Slots(b)
      PROVE  Slots(b)[s].n \in Numbers(b)
  <2>1. CASE s \in DOMAIN b \ {KbarSlot, SeriesSlot}
    BY <2>1, SlotsShape DEF Numbers
  <2>2. CASE s \notin DOMAIN b \ {KbarSlot, SeriesSlot}
    <3>1. s = OwnBar /\ KbarSlot \in DOMAIN b
      BY <1>1, <2>2, SlotsShape
    <3> QED
      BY <3>1, SlotsShape DEF Numbers
  <2> QED
    BY <2>1, <2>2
<1> QED
  BY <1>1 DEF Numbers

\* What a batch holds has a place in the feed.
LEMMA NumbersType ==
    ASSUME feed \in Feeds, NEW b, BatchOK(b)
    PROVE  Numbers(b) \subseteq 1..Len(feed)
BY DEF BatchOK, Numbers

LEMMA HeldType ==
    ASSUME feed \in Feeds, DeliveryTypeOK
    PROVE  Held \subseteq Nat /\ Len(outbox) \in Nat /\ Len(inbox) \in Nat /\ Len(feed) \in Nat
<1>1. /\ Len(outbox) \in Nat /\ Len(inbox) \in Nat /\ Len(feed) \in Nat
  BY FeedFacts DEF DeliveryTypeOK
<1>2. Numbers(board.slots) \subseteq Nat
  BY BatchShape DEF DeliveryTypeOK, Numbers
<1>3. \A b : BatchOK(b) => Numbers(b) \subseteq Nat
  BY <1>1, NumbersType
<1>4. /\ Numbers(pendingBatch) \subseteq Nat /\ Numbers(workerBatch) \subseteq Nat
      /\ \A i \in 1..Len(outbox) : Numbers(outbox[i]) \subseteq Nat
  BY <1>3 DEF DeliveryTypeOK
<1> QED
  BY <1>1, <1>2, <1>4 DEF Held, PostedNumbers

\* While nothing more can reach the series it stays in order.
LEMMA SeriesSame ==
    ASSUME SeriesInv, SeriesOrdered, board'.series = board.series, feed' = feed,
           Coming' \subseteq Coming
    PROVE  SeriesInv' /\ SeriesOrdered'
BY DEF SeriesInv, SeriesOrdered

LEMMA InitDelivers == ASSUME Init PROVE DeliveryInv
<1>1. /\ feed \in Feeds /\ pendingBatch = NoBatch /\ workerBatch = NoBatch /\ outbox = <<>>
      /\ inbox = <<>> /\ ~worker /\ board = NoBoard /\ heard = NoBatch /\ at = 1
  BY DEF Init
<1>2. board.slots = NoBatch /\ board.series = None
  BY <1>1 DEF NoBoard
<1>3. DeliveryTypeOK
  BY <1>1, <1>2, NothingYet, NothingFiled DEF DeliveryTypeOK
<1>4. StagesInOrder /\ ArrivalsInOrder
  BY <1>1, <1>2, NothingFiled
  DEF StagesInOrder, ArrivalsInOrder, Held, PostedNumbers, Before, Chunks
<1>5. SeriesInv /\ SeriesOrdered
  BY <1>2 DEF SeriesInv, SeriesOrdered
<1>6. NothingLost
  BY <1>1, <1>2, NothingYet, PostedNothing, OverNothing DEF NothingLost, Known
<1> QED
  BY <1>3, <1>4, <1>5, <1>6 DEF DeliveryInv

\* A step that leaves the way alone; a worker may come to life.
LEMMA SameDelivers ==
    ASSUME DeliveryInv, UNCHANGED deliveryState, worker => worker', build = "mock" => ~worker',
           worker' \in BOOLEAN, worker \in BOOLEAN
    PROVE  DeliveryInv'
<1> USE DEF deliveryState
<1>1. /\ \A b : BatchOK(b)' <=> BatchOK(b)
      /\ Chunks' = Chunks
  BY DEF BatchOK, Chunks
<1>2. DeliveryTypeOK'
  BY <1>1 DEF DeliveryInv, DeliveryTypeOK, BatchOK
<1>3. StagesInOrder'
  BY DEF DeliveryInv, StagesInOrder
<1>4. ArrivalsInOrder'
  BY <1>1 DEF DeliveryInv, ArrivalsInOrder, Held, PostedNumbers
<1>5. SeriesInv' /\ SeriesOrdered'
  <2>1. PostedNumbers' = PostedNumbers /\ SentNumbers' = SentNumbers
    BY <1>1 DEF PostedNumbers, SentNumbers
  <2>2. Coming' = Coming
    BY <2>1 DEF Coming
  <2> QED
    BY <2>2, SeriesSame DEF DeliveryInv
<1>6. NothingLost'
  BY DEF DeliveryInv, NothingLost, Known
<1> QED
  BY <1>2, <1>3, <1>4, <1>5, <1>6 DEF DeliveryInv

\* disconnect: nothing is left on the way, and what was not shown is given up.
LEMMA ClearDelivers ==
    ASSUME StatInv, DeliveryInv, ClearBatches, UNCHANGED <<build, feed, at>>,
           \/ board' = NoBoard /\ heard' = NoBatch
           \/ board' = board /\ heard' = board.slots
    PROVE  DeliveryInv'
<1>1. /\ pendingBatch' = NoBatch /\ workerBatch' = NoBatch /\ outbox' = <<>>
      /\ inbox' = <<>> /\ ~worker'
  BY DEF ClearBatches
<1>2. \/ board'.slots = NoBatch /\ board'.series = None /\ heard' = NoBatch
      \/ board'.slots = board.slots /\ board'.series = board.series /\ heard' = board.slots
  BY DEF NoBoard
<1>3. DeliveryTypeOK'
  <2>1. /\ board'.slots \in Batches
        /\ \A s \in DOMAIN board'.slots \cap BarSlots : s = OwnBar /\ board'.slots[s].ts # None
    BY <1>2, NothingYet DEF DeliveryInv, DeliveryTypeOK
  <2>2. BatchOK(NoBatch)'
    BY NothingYet DEF BatchOK
  <2> QED
    BY <1>1, <2>1, <2>2 DEF DeliveryTypeOK
<1>4. Numbers(board'.slots) \subseteq Held
  BY <1>2, NothingFiled DEF Held
<1>5. StagesInOrder'
  BY <1>1, NothingFiled DEF StagesInOrder, Before
<1>6. ArrivalsInOrder'
  <2>1. Held' \subseteq Held /\ Chunks' = {}
    BY <1>1, <1>4, NothingFiled DEF Held, PostedNumbers, Chunks
  <2> QED
    BY <2>1 DEF DeliveryInv, ArrivalsInOrder, Before
<1>7. SeriesInv' /\ SeriesOrdered'
  <2>1. CASE board'.series = None
    BY <2>1 DEF SeriesInv, SeriesOrdered
  <2>2. CASE board'.series = board.series
    <3>1. Coming' \subseteq Coming
      BY <1>1, NothingFiled DEF Coming, PostedNumbers, SentNumbers, Chunks
    <3> QED
      BY <2>2, <3>1, SeriesSame DEF DeliveryInv
  <2> QED
    BY <1>2, <2>1, <2>2
<1>8. NothingLost'
  <2>1. board'.slots \in Batches /\ heard' = board'.slots
    BY <1>2, <1>3 DEF DeliveryTypeOK
  <2>2. Known' = Over(NoBatch, Over(NoBatch, Over(NoBatch, board'.slots)))
    BY <1>1, NothingYet, PostedNothing DEF Known
  <2> QED
    BY <2>1, <2>2, OverNothing DEF NothingLost
<1> QED
  BY <1>3, <1>5, <1>6, <1>7, <1>8 DEF DeliveryInv

\* What merges into the pending batch is spread over it (mergeIntoPendingBatch).
LEMMA MergeSpreads ==
    ASSUME BatchOK(pendingBatch), NEW b, MergeIntoPending(b)
    PROVE  pendingBatch' = Over(b, pendingBatch)
<1>1. CASE DOMAIN b = {}
  <2>1. /\ pendingBatch' = pendingBatch
        /\ pendingBatch = [s \in DOMAIN pendingBatch |-> pendingBatch[s]]
    BY <1>1, BatchShape DEF MergeIntoPending, BatchOK
  <2> QED
    BY <1>1, <2>1 DEF Over
<1>2. CASE DOMAIN b # {}
  BY <1>2 DEF MergeIntoPending, Merge
<1> QED
  BY <1>1, <1>2

\* A message to the worker that is not a chunk carries nothing.
LEMMA FlushAsked ==
    ASSUME StatInv, DeliveryInv, worker, inbox' = Append(inbox, [type |-> "flush"]),
           UNCHANGED <<build, feed, pendingBatch, workerBatch, outbox, worker, board, at, heard>>
    PROVE  DeliveryInv'
<1>1. feed \in Feeds /\ inbox \in Seq(Messages)
  BY DEF StatInv, DeliveryInv, DeliveryTypeOK
<1>2. inbox' \in Seq(Messages) /\ Len(inbox) \in Nat /\ Len(inbox') = Len(inbox) + 1
  BY <1>1 DEF Messages
<1>3. /\ \A k \in 1..Len(inbox) : inbox'[k] = inbox[k]
      /\ inbox'[Len(inbox) + 1].type = "flush"
  BY <1>1, <1>2
<1>4. Chunks' = Chunks /\ \A k \in Chunks : inbox'[k] = inbox[k]
  BY <1>2, <1>3 DEF Chunks
<1>5. DeliveryTypeOK'
  BY <1>2 DEF DeliveryInv, DeliveryTypeOK, BatchOK
<1>6. StagesInOrder'
  BY DEF DeliveryInv, StagesInOrder
<1>7. ArrivalsInOrder'
  <2>1. ArrivalsInOrder
    BY DEF DeliveryInv
  <2>2. Held' = Held
    BY DEF Held, PostedNumbers
  <2> QED
    BY <1>4, <2>1, <2>2 DEF ArrivalsInOrder
<1>8. SeriesInv' /\ SeriesOrdered'
  <2>1. SentNumbers' = SentNumbers
    BY <1>4 DEF SentNumbers
  <2>2. PostedNumbers' = PostedNumbers
    BY DEF PostedNumbers
  <2>3. Coming' = Coming
    BY <2>1, <2>2 DEF Coming
  <2> QED
    BY <2>3, SeriesSame DEF DeliveryInv
<1>9. NothingLost'
  BY DEF DeliveryInv, NothingLost, Known
<1> QED
  BY <1>5, <1>6, <1>7, <1>8, <1>9 DEF DeliveryInv

\* A piece posted to the worker (handleSseChunk).
LEMMA ChunkPosted ==
    ASSUME StatInv, DeliveryInv, worker, NEW piece \in {"head", "tail", "whole"},
           at <= Len(feed), at' \in {at, at + 1},
           inbox' = Append(inbox, [type |-> "chunk", piece |-> piece, n |-> at]),
           UNCHANGED <<build, feed, pendingBatch, workerBatch, outbox, worker, board, heard>>
    PROVE  DeliveryInv'
<1> DEFINE m == [type |-> "chunk", piece |-> piece, n |-> at]
           N == Len(inbox)
<1>1. /\ feed \in Feeds /\ inbox \in Seq(Messages) /\ at \in 1..Len(feed) /\ N \in Nat
      /\ Len(feed) \in Nat /\ Held \subseteq Nat
  BY HeldType DEF StatInv, RestTypeOK, DeliveryInv, DeliveryTypeOK
<1>2. m \in Messages /\ m.type = "chunk" /\ m.n = at
  BY <1>1 DEF Messages
<1> HIDE DEF m
<1>3. /\ inbox' \in Seq(Messages) /\ Len(inbox') = N + 1
      /\ \A k \in 1..N : inbox'[k] = inbox[k]
      /\ inbox'[N + 1] = m
  BY <1>1, <1>2 DEF m
<1> HIDE DEF N
<1>4. /\ Chunks' = Chunks \cup {N + 1} /\ \A k \in Chunks : k \in 1..N /\ inbox'[k] = inbox[k]
  BY <1>1, <1>2, <1>3 DEF Chunks, N
<1>5. DeliveryTypeOK'
  BY <1>3 DEF DeliveryInv, DeliveryTypeOK, BatchOK
<1>6. StagesInOrder'
  BY DEF DeliveryInv, StagesInOrder
<1>7. ArrivalsInOrder'
  <2>1. Held' = Held
    BY DEF Held, PostedNumbers
  <2>2. Before(Held, {at}) /\ Before(Held, {at'})
    BY <1>1 DEF DeliveryInv, ArrivalsInOrder, Before
  <2>3. ASSUME NEW k \in Chunks'
        PROVE  /\ Before(Held, {inbox'[k].n})
               /\ inbox'[k].n \in 1..Len(feed) /\ inbox'[k].n <= at'
               /\ inbox'[k].n <= at
    <3>1. CASE k \in Chunks
      <4>1. /\ inbox'[k] = inbox[k] /\ Before(Held, {inbox[k].n})
            /\ inbox[k].n \in 1..Len(feed) /\ inbox[k].n <= at
        BY <1>4, <3>1 DEF DeliveryInv, ArrivalsInOrder
      <4>2. inbox'[k].n = inbox[k].n
        BY <4>1
      <4>3. inbox[k].n <= at'
        BY <1>1, <4>1
      <4> QED
        BY <4>1, <4>2, <4>3
    <3>2. CASE k = N + 1
      <4>1. inbox'[k].n = at
        BY <1>2, <1>3, <3>2
      <4>2. at \in 1..Len(feed) /\ at <= at' /\ at <= at
        BY <1>1
      <4> QED
        BY <2>2, <4>1, <4>2
    <3> QED
      BY <1>4, <2>3, <3>1, <3>2
  <2>4. ASSUME NEW k \in Chunks', NEW l \in Chunks', k < l
        PROVE  inbox'[k].n <= inbox'[l].n
    <3>1. k \in Chunks
      BY <1>1, <1>4, <2>4
    <3>2. CASE l \in Chunks
      BY <1>4, <2>4, <3>1, <3>2 DEF DeliveryInv, ArrivalsInOrder
    <3>3. CASE l = N + 1
      BY <1>2, <1>3, <2>3, <3>3
    <3> QED
      BY <1>4, <2>4, <3>2, <3>3
  <2> QED
    BY <2>1, <2>2, <2>3, <2>4 DEF ArrivalsInOrder
<1>8. SeriesInv' /\ SeriesOrdered'
  <2>1. SentNumbers' \subseteq SentNumbers \cup at..Len(feed)
    <3>1. ASSUME NEW k \in Chunks'
          PROVE  inbox'[k].n \in SentNumbers \cup at..Len(feed)
      <4>1. CASE k \in Chunks
        BY <1>4, <4>1 DEF SentNumbers
      <4>2. CASE k = N + 1
        BY <1>1, <1>2, <1>3, <4>2
      <4> QED
        BY <1>4, <3>1, <4>1, <4>2
    <3> QED
      BY <3>1 DEF SentNumbers
  <2>2. at'..Len(feed) \subseteq at..Len(feed)
    BY <1>1
  <2>3. PostedNumbers' = PostedNumbers
    BY DEF PostedNumbers
  <2>4. Coming' \subseteq Coming
    BY <2>1, <2>2, <2>3 DEF Coming
  <2> QED
    BY <2>4, SeriesSame DEF DeliveryInv
<1>9. NothingLost'
  BY DEF DeliveryInv, NothingLost, Known
<1> QED
  BY <1>5, <1>6, <1>7, <1>8, <1>9 DEF DeliveryInv

\* An event collected by the manager itself.
LEMMA Collected ==
    ASSUME StatInv, DeliveryInv, ~worker, build # "mock", at <= Len(feed), at' \in {at, at + 1},
           NEW b, BatchOK(b), Numbers(b) \subseteq {at},
           pendingBatch' = Over(b, pendingBatch), heard' = Over(Slots(b), heard),
           UNCHANGED <<build, feed, inbox, workerBatch, outbox, worker, board>>
    PROVE  DeliveryInv'
<1>1. /\ feed \in Feeds /\ at \in 1..Len(feed) /\ Len(feed) \in Nat /\ Held \subseteq Nat
      /\ workerBatch = NoBatch /\ outbox = <<>> /\ inbox = <<>> /\ Chunks = {} /\ Chunks' = {}
  BY HeldType DEF StatInv, RestTypeOK, DeliveryInv, DeliveryTypeOK, Chunks
<1>2. BatchOK(pendingBatch) /\ BatchOK(pendingBatch')
  BY OverOK DEF DeliveryInv, DeliveryTypeOK
<1>3. Numbers(pendingBatch') \subseteq {at} \cup Numbers(pendingBatch)
  BY NumbersOver
<1>4. /\ Before(Held, {at}) /\ Numbers(pendingBatch) \subseteq Held
      /\ Numbers(board.slots) \subseteq Held
  BY DEF DeliveryInv, ArrivalsInOrder, Held
<1>5. DeliveryTypeOK'
  <2>1. BatchOK(pendingBatch)' /\ BatchOK(workerBatch)'
    BY <1>2 DEF DeliveryInv, DeliveryTypeOK, BatchOK
  <2> QED
    BY <1>1, <2>1 DEF DeliveryInv, DeliveryTypeOK
<1>6. StagesInOrder'
  <2>1. Before(Numbers(board.slots), Numbers(pendingBatch'))
    BY <1>3, <1>4 DEF DeliveryInv, StagesInOrder, Before
  <2> QED
    BY <1>1, <2>1, NothingFiled DEF StagesInOrder, Before
<1>7. ArrivalsInOrder'
  <2>1. Held' \subseteq Held \cup {at}
    BY <1>1, <1>3, NothingFiled DEF Held, PostedNumbers
  <2>2. \A n \in Held' : n <= at'
    BY <1>1, <1>4, <2>1 DEF Before
  <2> QED
    BY <1>1, <2>2 DEF ArrivalsInOrder, Before
<1>8. SeriesInv' /\ SeriesOrdered'
  <2>1. at'..Len(feed) \subseteq at..Len(feed) /\ at \in at..Len(feed)
    BY <1>1
  <2>2. PostedNumbers' = PostedNumbers /\ SentNumbers' = SentNumbers
    BY <1>1 DEF PostedNumbers, SentNumbers
  <2>3. Coming' \subseteq Coming
    BY <1>1, <1>3, <2>1, <2>2 DEF Coming
  <2> QED
    BY <2>3, SeriesSame DEF DeliveryInv
<1>9. NothingLost'
  <2>1. Slots(pendingBatch') = Over(Slots(b), Slots(pendingBatch))
    BY <1>1, <1>2, SlotsOver
  <2>2. Slots(b) \in Batches /\ Slots(pendingBatch) \in Batches /\ board.slots \in Batches
    BY <1>1, <1>2, SlotsShape DEF DeliveryInv, DeliveryTypeOK
  <2>3. Over(Slots(pendingBatch), board.slots) \in Batches
    BY <2>2, OverBatches
  <2>4. Over(Slots(pendingBatch'), board.slots) \in Batches
    BY <2>1, <2>2, OverBatches
  <2>5. Known = Over(Slots(pendingBatch), board.slots)
    BY <1>1, <2>3, NothingYet, PostedNothing, OverNothing DEF Known
  <2>6. Known' = Over(Slots(pendingBatch'), board.slots)
    BY <1>1, <2>4, NothingYet, PostedNothing, OverNothing DEF Known
  <2> QED
    BY <2>1, <2>5, <2>6, OverAssociates DEF DeliveryInv, NothingLost
<1> QED
  BY <1>5, <1>6, <1>7, <1>8, <1>9 DEF DeliveryInv

-----------------------------------------------------------------------------
(* The series of the distribution.                                          *)

Item == [ts : Nat, n : Nat]

Ascends(series) == \A i, j \in 1..Len(series) : i < j => series[i].ts < series[j].ts
UpTo(series, ts) == \A i \in 1..Len(series) : series[i].ts <= ts

\* What the server sends of the distribution.
LEMMA FeedSeries ==
    ASSUME feed \in Feeds, NEW n \in 1..Len(feed)
    PROVE  /\ IsSeries(feed[n]) => feed[n].items \in Seq(Item) /\ Ascends(feed[n].items)
           /\ IsPoint(feed[n]) =>
                 /\ feed[n].ts \in Nat
                 /\ \A m \in 1..n :
                       /\ IsPoint(feed[m]) => feed[m].ts <= feed[n].ts
                       /\ IsSeries(feed[m]) => UpTo(feed[m].items, feed[n].ts)
<1>1. feed[n] \in Event
  BY FeedFacts
<1>2. feed[n].items \in Seq(Item) /\ feed[n].ts \in Nat \cup {None}
  BY <1>1 DEF Event, Item
<1>3. IsSeries(feed[n]) => Ascends(feed[n].items)
  BY FeedsAssumption DEF IsSeries, Ascends
<1>4. IsPoint(feed[n]) => \A m \in 1..n :
         /\ IsPoint(feed[m]) => feed[m].ts <= feed[n].ts
         /\ IsSeries(feed[m]) => UpTo(feed[m].items, feed[n].ts)
  BY FeedsAssumption DEF IsSeries, IsPoint, UpTo
<1> QED
  BY <1>2, <1>3, <1>4 DEF IsPoint

\* A point that is not older than the series keeps it in order and within the cap
\* (appendSpotMarketDistributionSeries).
LEMMA AppendPointKeeps ==
    ASSUME NEW series, series # None => series \in Seq(Item) /\ Ascends(series),
           NEW ev, ev.ts \in Nat, ev.n \in Nat, series # None => UpTo(series, ev.ts)
    PROVE  LET r == AppendPoint(series, ev)
           IN  /\ r \in Seq(Item) /\ Ascends(r) /\ UpTo(r, ev.ts)
               /\ Len(r) <= SeriesCap \/ (series # None /\ Len(r) <= Len(series))
<1> DEFINE r == AppendPoint(series, ev)
           item == [ts |-> ev.ts, n |-> ev.n]
           L == Len(series)
<1>1. item \in Item /\ item.ts = ev.ts /\ SeriesCap \in Nat \ {0}
  BY FeedAssumption DEF Item
<1>2. CASE series = None
  <2>1. r = <<item>>
    BY <1>2 DEF AppendPoint
  <2>2. r \in Seq(Item) /\ Len(r) = 1 /\ r[1] = item
    BY <1>1, <2>1
  <2> QED
    BY <1>1, <2>2 DEF Ascends, UpTo
<1>3. CASE series # None
  <2>1. /\ series \in Seq(Item) /\ L \in Nat
        /\ \A i \in 1..L : series[i] \in Item /\ series[i].ts \in Nat
    <3>1. series \in Seq(Item) /\ L \in Nat /\ \A i \in 1..L : series[i] \in Item
      BY <1>3
    <3>2. \A x \in Item : x.ts \in Nat
      BY DEF Item
    <3> QED
      BY <3>1, <3>2
  <2>2. CASE series # <<>> /\ series[L].ts = item.ts
    <3>1. r = [series EXCEPT ![L] = item]
      BY <1>3, <2>2 DEF AppendPoint
    <3>2. /\ r \in Seq(Item) /\ Len(r) = L /\ L \in 1..L
          /\ \A i \in 1..L : r[i].ts = series[i].ts
      BY <1>1, <2>1, <2>2, <3>1
    <3> QED
      BY <1>3, <2>1, <3>2 DEF Ascends, UpTo
  <2>3. CASE ~(series # <<>> /\ series[L].ts = item.ts)
    <3> DEFINE all == Append(series, item)
               k == IF Len(all) > SeriesCap THEN Len(all) - SeriesCap ELSE 0
    <3>1. r = SubSeq(all, 1 + k, Len(all))
      BY <1>3, <2>3 DEF AppendPoint
    <3>2. /\ all \in Seq(Item) /\ Len(all) = L + 1 /\ all[L + 1] = item
          /\ \A i \in 1..L : all[i] = series[i]
      BY <1>1, <2>1
    <3>3. \A i \in 1..(L + 1) : all[i].ts \in Nat /\ all[i].ts <= ev.ts
      BY <1>1, <1>3, <2>1, <3>2 DEF UpTo
    <3>4. \A i, j \in 1..(L + 1) : i < j => all[i].ts < all[j].ts
      <4> SUFFICES ASSUME NEW i \in 1..(L + 1), NEW j \in 1..(L + 1), i < j
                   PROVE  all[i].ts < all[j].ts
        OBVIOUS
      <4>1. CASE j \in 1..L
        <5>1. i \in 1..L
          BY <2>1, <4>1
        <5> QED
          BY <1>3, <3>2, <4>1, <5>1 DEF Ascends
      <4>2. CASE j = L + 1
        <5>1. i \in 1..L /\ L \in 1..L /\ series # <<>>
          BY <2>1, <4>2
        <5>2. series[L].ts < item.ts
          BY <1>1, <1>3, <2>1, <2>3, <5>1 DEF UpTo
        <5>3. i = L \/ series[i].ts < series[L].ts
          BY <1>3, <2>1, <5>1 DEF Ascends
        <5> QED
          BY <1>1, <2>1, <3>2, <4>2, <5>1, <5>2, <5>3
      <4> QED
        BY <2>1, <4>1, <4>2
    <3>5. k \in 0..L /\ L + 1 - k <= SeriesCap
      BY <1>1, <2>1, <3>2
    <3> HIDE DEF all, k
    <3>6. /\ r \in Seq(Item) /\ Len(r) = L + 1 - k
          /\ \A i \in 1..(L + 1 - k) : r[i] = all[i + k]
      BY <2>1, <3>1, <3>2, <3>5, SubSeqProperties
    <3>7. \A i \in 1..(L + 1 - k) : i + k \in 1..(L + 1)
      BY <2>1, <3>5
    <3>8. Ascends(r)
      <4> SUFFICES ASSUME NEW i \in 1..(L + 1 - k), NEW j \in 1..(L + 1 - k), i < j
                   PROVE  r[i].ts < r[j].ts
        BY <3>6 DEF Ascends
      <4>1. i + k \in 1..(L + 1) /\ j + k \in 1..(L + 1) /\ i + k < j + k
        BY <3>5, <3>7
      <4> QED
        BY <3>4, <3>6, <4>1
    <3>9. UpTo(r, ev.ts)
      BY <3>3, <3>6, <3>7 DEF UpTo
    <3> QED
      BY <3>5, <3>6, <3>8, <3>9
  <2> QED
    BY <2>2, <2>3
<1> QED
  BY <1>2, <1>3

\* What is still on its way is no earlier than what waits to be shown.
LEMMA PendingFirst ==
    ASSUME StatInv, DeliveryInv, NEW p \in Numbers(pendingBatch),
           NEW n \in Numbers(workerBatch) \cup PostedNumbers \cup SentNumbers \cup at..Len(feed)
    PROVE  p <= n
<1>1. feed \in Feeds /\ Held \subseteq Nat /\ at \in Nat /\ Len(feed) \in Nat
  BY HeldType DEF StatInv, RestTypeOK, DeliveryInv
<1>2. p \in Held /\ p \in Nat
  BY <1>1 DEF Held
<1>3. CASE n \in Numbers(workerBatch)
  BY <1>3 DEF DeliveryInv, StagesInOrder, Before
<1>4. CASE n \in PostedNumbers
  BY <1>4 DEF DeliveryInv, StagesInOrder, Before, PostedNumbers
<1>5. CASE n \in SentNumbers
  BY <1>2, <1>5 DEF DeliveryInv, ArrivalsInOrder, Before, SentNumbers
<1>6. CASE n \in at..Len(feed)
  <2>1. p <= at
    BY <1>2 DEF DeliveryInv, ArrivalsInOrder, Before
  <2> QED
    BY <1>1, <1>2, <1>6, <2>1
<1> QED
  BY <1>3, <1>4, <1>5, <1>6

\* A flush leaves the series in order, and what is still to come after it (applySseBatch).
LEMMA SeriesFlushed ==
    ASSUME StatInv, DeliveryInv, board'.series = ApplyBatch(board, pendingBatch).series,
           feed' = feed, pendingBatch' = NoBatch,
           Coming' \subseteq Numbers(workerBatch) \cup PostedNumbers \cup SentNumbers
                                \cup at..Len(feed)
    PROVE  SeriesInv' /\ SeriesOrdered'
<1> DEFINE rest == Numbers(workerBatch) \cup PostedNumbers \cup SentNumbers \cup at..Len(feed)
<1>1. feed \in Feeds /\ Coming' \subseteq rest /\ Coming' \subseteq Coming
  BY DEF StatInv, Coming
<1>2. \A s \in DOMAIN pendingBatch :
         /\ pendingBatch[s].n \in 1..Len(feed) /\ pendingBatch[s] = feed[pendingBatch[s].n]
         /\ pendingBatch[s].n \in Numbers(pendingBatch)
         /\ s = PointSlot => IsPoint(pendingBatch[s])
         /\ s = SeriesSlot => IsSeries(pendingBatch[s])
  BY DEF DeliveryInv, DeliveryTypeOK, BatchOK, Numbers
<1>3. \A n \in Coming' : n \in 1..Len(feed)
  <2>1. /\ Numbers(workerBatch) \subseteq 1..Len(feed)
    BY <1>1, NumbersType DEF DeliveryInv, DeliveryTypeOK
  <2>2. PostedNumbers \subseteq 1..Len(feed)
    BY <1>1, NumbersType DEF DeliveryInv, DeliveryTypeOK, PostedNumbers
  <2>3. SentNumbers \subseteq 1..Len(feed)
    BY DEF DeliveryInv, ArrivalsInOrder, SentNumbers
  <2>4. at..Len(feed) \subseteq 1..Len(feed)
    BY <1>1, FeedFacts DEF StatInv, RestTypeOK
  <2> QED
    BY <1>1, <2>1, <2>2, <2>3, <2>4
<1>4. CASE SeriesSlot \in DOMAIN pendingBatch
  <2> DEFINE p == pendingBatch[SeriesSlot].n
  <2>1. /\ p \in 1..Len(feed) /\ p \in Numbers(pendingBatch) /\ IsSeries(feed[p])
        /\ pendingBatch[SeriesSlot] = feed[p]
    BY <1>2, <1>4
  <2>2. board'.series = feed[p].items
    BY <1>4, <2>1 DEF ApplyBatch
  <2> HIDE DEF p
  <2>3. feed[p].items \in Seq(Item) /\ Ascends(feed[p].items)
    BY <1>1, <2>1, FeedSeries
  <2>4. ASSUME NEW n \in Coming', IsPoint(feed[n])
        PROVE  UpTo(feed[p].items, feed[n].ts)
    <3>1. p <= n /\ n \in 1..Len(feed)
      BY <1>1, <1>3, <2>1, <2>4, PendingFirst
    <3>2. p \in 1..n
      BY <2>1, <3>1
    <3> QED
      BY <1>1, <2>1, <2>4, <3>1, <3>2, FeedSeries
  <2>5. SeriesInv'
    BY <2>2, <2>3, <2>4 DEF SeriesInv, Item, UpTo
  <2>6. SeriesOrdered'
    <3>1. Len(feed[p].items) \in Nat
      BY <2>3
    <3> QED
      BY <2>1, <2>2, <2>3, <3>1 DEF SeriesOrdered, Ascends, IsSeries
  <2> QED
    BY <2>5, <2>6
<1>5. CASE SeriesSlot \notin DOMAIN pendingBatch /\ PointSlot \in DOMAIN pendingBatch
  <2> DEFINE p == pendingBatch[PointSlot].n
             r == AppendPoint(board.series, feed[p])
  <2>1. /\ p \in 1..Len(feed) /\ p \in Numbers(pendingBatch) /\ IsPoint(feed[p])
        /\ pendingBatch[PointSlot] = feed[p] /\ p \in Coming
    BY <1>2, <1>5 DEF Coming
  <2>2. board'.series = r
    BY <1>5, <2>1 DEF ApplyBatch
  <2> HIDE DEF p
  <2>3. feed[p].ts \in Nat /\ feed[p].n \in Nat
    BY <1>1, <2>1, FeedFacts, FeedSeries DEF Event
  <2>4. board.series # None =>
           board.series \in Seq(Item) /\ Ascends(board.series) /\ UpTo(board.series, feed[p].ts)
    BY <2>1 DEF DeliveryInv, SeriesInv, SeriesOrdered, Item, Ascends, UpTo
  <2>5. /\ r \in Seq(Item) /\ Ascends(r) /\ UpTo(r, feed[p].ts)
        /\ Len(r) <= SeriesCap \/ (board.series # None /\ Len(r) <= Len(board.series))
    BY <2>3, <2>4, AppendPointKeeps
  <2> HIDE DEF r
  <2>6. ASSUME NEW n \in Coming', IsPoint(feed[n])
        PROVE  UpTo(r, feed[n].ts)
    <3>1. p <= n /\ n \in 1..Len(feed)
      BY <1>1, <1>3, <2>1, <2>6, PendingFirst
    <3>2. p \in 1..n
      BY <2>1, <3>1
    <3>3. feed[p].ts <= feed[n].ts /\ feed[n].ts \in Nat
      BY <1>1, <2>1, <2>6, <3>1, <3>2, FeedSeries
    <3>4. \A i \in 1..Len(r) : r[i].ts \in Nat
      <4>1. \A i \in 1..Len(r) : r[i] \in Item
        BY <2>5
      <4> QED
        BY <4>1 DEF Item
    <3> QED
      BY <2>3, <2>5, <3>3, <3>4 DEF UpTo
  <2>7. SeriesInv'
    BY <2>2, <2>5, <2>6 DEF SeriesInv, Item, UpTo
  <2>8. Len(r) \in Nat /\ SeriesCap \in Nat
    BY <2>5, FeedAssumption
  <2>9. \/ Len(r) <= SeriesCap
        \/ \E i \in 1..Len(feed) : /\ feed[i].name = "spot_market_distribution_series"
                                   /\ Len(r) <= Len(feed[i].items)
    <3>1. CASE Len(r) <= SeriesCap
      BY <3>1
    <3>2. CASE board.series # None /\ Len(r) <= Len(board.series)
      <4>1. Len(board.series) \in Nat
        BY <2>4, <3>2
      <4>2. CASE Len(board.series) <= SeriesCap
        BY <2>8, <3>2, <4>1, <4>2
      <4>3. CASE ~(Len(board.series) <= SeriesCap)
        <5>1. PICK i \in 1..Len(feed) : /\ feed[i].name = "spot_market_distribution_series"
                                        /\ Len(board.series) <= Len(feed[i].items)
          BY <3>2, <4>3 DEF DeliveryInv, SeriesOrdered
        <5>2. Len(feed[i].items) \in Nat
          BY <1>1, <5>1, FeedSeries DEF IsSeries
        <5>3. Len(r) <= Len(feed[i].items)
          BY <2>8, <3>2, <4>1, <5>1, <5>2
        <5> QED
          BY <5>1, <5>3
      <4> QED
        BY <4>2, <4>3
    <3> QED
      BY <2>5, <3>1, <3>2
  <2>10. SeriesOrdered'
    BY <2>2, <2>5, <2>9 DEF SeriesOrdered, Ascends
  <2> QED
    BY <2>7, <2>10
<1>6. CASE SeriesSlot \notin DOMAIN pendingBatch /\ PointSlot \notin DOMAIN pendingBatch
  <2>1. board'.series = board.series
    BY <1>6 DEF ApplyBatch
  <2>2. SeriesInv /\ SeriesOrdered
    BY DEF DeliveryInv
  <2>3. Coming' \subseteq Coming /\ feed' = feed
    BY <1>1
  <2> QED
    BY <2>1, <2>2, <2>3, SeriesSame
<1> QED
  BY <1>4, <1>5, <1>6

\* The store's bars stay those of the stream's code.
LEMMA BarsApplied ==
    ASSUME feed \in Feeds, DeliveryTypeOK, NEW b, BatchOK(b),
           NEW s \in DOMAIN Over(Slots(b), board.slots) \cap BarSlots
    PROVE  s = OwnBar /\ Over(Slots(b), board.slots)[s].ts # None
<1>1. CASE s \in DOMAIN Slots(b)
  <2>1. s \notin DOMAIN b
    BY DEF BatchOK
  <2>2. s = OwnBar /\ KbarSlot \in DOMAIN b /\ Slots(b)[s] = b[KbarSlot]
    BY <1>1, <2>1, SlotsShape
  <2>3. b[KbarSlot].ts # None
    BY <2>2 DEF BatchOK, IsBar
  <2>4. Over(Slots(b), board.slots)[s] = Slots(b)[s]
    BY <1>1, OverShape
  <2> QED
    BY <2>2, <2>3, <2>4
<1>2. CASE s \notin DOMAIN Slots(b)
  <2>1. s \in DOMAIN board.slots /\ Over(Slots(b), board.slots)[s] = board.slots[s]
    BY <1>2 DEF Over
  <2> QED
    BY <2>1 DEF DeliveryTypeOK
<1> QED
  BY <1>1, <1>2

\* What a flush shows, also when nothing waits.
LEMMA FlushShows ==
    ASSUME StatInv, DeliveryInv, Flush
    PROVE  /\ board'.slots = Over(Slots(pendingBatch), board.slots)
           /\ board'.series = ApplyBatch(board, pendingBatch).series
<1>1. CASE DOMAIN pendingBatch = {}
  <2>1. board' = board
    BY <1>1 DEF Flush
  <2>2. pendingBatch = NoBatch
    BY <1>1, BatchShape DEF DeliveryInv, DeliveryTypeOK, BatchOK, NoBatch
  <2>3. Over(Slots(pendingBatch), board.slots) = board.slots
    BY <2>2, NothingYet, OverNothing DEF DeliveryInv, DeliveryTypeOK
  <2>4. ApplyBatch(board, pendingBatch).series = board.series
    BY <1>1 DEF ApplyBatch
  <2> QED
    BY <2>1, <2>3, <2>4
<1>2. CASE DOMAIN pendingBatch # {}
  <2>1. board' = ApplyBatch(board, pendingBatch)
    BY <1>2 DEF Flush
  <2>2. ApplyBatch(board, pendingBatch).slots = Over(Slots(pendingBatch), board.slots)
    BY DEF ApplyBatch
  <2> QED
    BY <2>1, <2>2
<1> QED
  BY <1>1, <1>2

LEMMA FlushDelivers == ASSUME StatInv, DeliveryInv, Flush PROVE DeliveryInv'
<1>1. /\ pendingBatch' = NoBatch
      /\ UNCHANGED <<build, feed, workerBatch, outbox, inbox, worker, at, heard>>
  BY DEF Flush, authVars, connVars, workerVars
<1>2. /\ board'.slots = Over(Slots(pendingBatch), board.slots)
      /\ board'.series = ApplyBatch(board, pendingBatch).series
  BY FlushShows
<1>3. /\ feed \in Feeds /\ BatchOK(pendingBatch) /\ DeliveryTypeOK /\ board.slots \in Batches
  BY DEF StatInv, DeliveryInv, DeliveryTypeOK
<1>4. Slots(pendingBatch) \in Batches
  BY <1>3, SlotsShape
<1>5. board'.slots \in Batches
  BY <1>2, <1>3, <1>4, OverBatches
<1>6. DeliveryTypeOK'
  <2>1. \A s \in DOMAIN board'.slots \cap BarSlots : s = OwnBar /\ board'.slots[s].ts # None
    BY <1>2, <1>3, BarsApplied
  <2>2. BatchOK(pendingBatch)' /\ BatchOK(workerBatch)'
        /\ \A i \in 1..Len(outbox') : BatchOK(outbox[i])'
    BY <1>1, NothingYet DEF DeliveryInv, DeliveryTypeOK, BatchOK
  <2> QED
    BY <1>1, <1>5, <2>1, <2>2 DEF DeliveryInv, DeliveryTypeOK
<1>7. Numbers(board'.slots) \subseteq Numbers(pendingBatch) \cup Numbers(board.slots)
  BY <1>2, <1>3, NumbersOver, NumbersSlots
<1>8. StagesInOrder'
  BY <1>1, <1>7, NothingFiled DEF DeliveryInv, StagesInOrder, Before
<1>9. PostedNumbers' = PostedNumbers /\ SentNumbers' = SentNumbers /\ Chunks' = Chunks
  BY <1>1 DEF PostedNumbers, SentNumbers, Chunks
<1>10. ArrivalsInOrder'
  <2>1. Held' \subseteq Held
    BY <1>1, <1>7, <1>9, NothingFiled DEF Held
  <2> QED
    BY <1>1, <1>9, <2>1 DEF DeliveryInv, ArrivalsInOrder, Before
<1>11. SeriesInv' /\ SeriesOrdered'
  <2>1. Coming' \subseteq Numbers(workerBatch) \cup PostedNumbers \cup SentNumbers
                             \cup at..Len(feed)
    BY <1>1, <1>9, NothingFiled DEF Coming
  <2> QED
    BY <1>1, <1>2, <2>1, SeriesFlushed
<1>12. NothingLost'
  <2>1. Known' = Over(Slots(workerBatch), Over(Posted(outbox), Over(NoBatch, board'.slots)))
    BY <1>1, NothingYet DEF Known
  <2>2. Over(NoBatch, board'.slots) = board'.slots
    BY <1>5, OverNothing
  <2> QED
    BY <1>1, <1>2, <2>1, <2>2 DEF DeliveryInv, NothingLost, Known
<1> QED
  BY <1>6, <1>8, <1>10, <1>11, <1>12 DEF DeliveryInv

\* The mock generator shows what it makes at once, and nothing waits in its build.
LEMMA MockShows ==
    ASSUME StatInv, DeliveryInv, MockEmits
    PROVE  LET b == Put({<<"spot_latest_list", None>>}, MockList(at))
           IN  /\ Slots(b) = b /\ b \in Batches /\ DOMAIN b \cap BarSlots = {}
               /\ Numbers(b) \subseteq {at}
               /\ board'.slots = Over(b, board.slots) /\ board'.series = board.series
               /\ heard' = Over(b, heard)
<1> DEFINE slot == <<"spot_latest_list", None>>
           b == Put({slot}, MockList(at))
<1>1. at \in Nat
  BY FeedLength DEF StatInv, RestTypeOK
<1>2. MockList(at) \in Event /\ MockList(at).n = at
  <2>1. <<>> \in Seq([ts : Nat, n : Nat])
    OBVIOUS
  <2>2. "spot_latest_list" \in PerCode \cup PerFeed
    BY DEF PerFeed
  <2> QED
    BY <1>1, <2>1, <2>2 DEF MockList, Event
<1>3. slot \in SlotNames /\ slot \notin BarSlots /\ slot \notin {KbarSlot, SeriesSlot, PointSlot}
  BY DEF SlotNames, PerFeed, BarSlots, KbarSlot, SeriesSlot, PointSlot
<1> HIDE DEF slot
<1>4. DOMAIN b = {slot} /\ b = [s \in {slot} |-> MockList(at)] /\ b[slot] = MockList(at)
  BY DEF Put
<1>5. b \in Batches
  <2>1. b \in [{slot} -> Event] /\ {slot} \in SUBSET SlotNames
    BY <1>2, <1>3, <1>4
  <2> QED
    BY <2>1 DEF Batches
<1>6. Numbers(b) \subseteq {at}
  BY <1>2, <1>4 DEF Numbers
<1> HIDE DEF b
<1>7. Slots(b) = b
  <2>1. KbarSlot \notin DOMAIN b /\ DOMAIN b \ {KbarSlot, SeriesSlot} = DOMAIN b
    BY <1>3, <1>4
  <2>2. b = [s \in DOMAIN b |-> b[s]]
    BY <1>5, BatchShape
  <2>3. Slots(b) = Over(NoBatch, [s \in DOMAIN b \ {KbarSlot, SeriesSlot} |-> b[s]])
    BY <2>1 DEF Slots
  <2>4. Slots(b) = Over(NoBatch, b)
    BY <2>1, <2>2, <2>3
  <2> QED
    BY <1>5, <2>4, OverNothing
<1>8. board' = ApplyBatch(board, b) /\ heard' = Over(Slots(b), heard)
  BY DEF MockEmits, b, slot
<1>9. ApplyBatch(board, b).slots = Over(Slots(b), board.slots)
  BY DEF ApplyBatch
<1>10. ApplyBatch(board, b).series = board.series
  BY <1>3, <1>4 DEF ApplyBatch
<1> QED
  BY <1>3, <1>4, <1>5, <1>6, <1>7, <1>8, <1>9, <1>10 DEF b, slot

LEMMA MockDelivers == ASSUME StatInv, DeliveryInv, MockEmits PROVE DeliveryInv'
<1> DEFINE b == Put({<<"spot_latest_list", None>>}, MockList(at))
<1>1. /\ mockArmed /\ build = "mock" /\ at <= Len(feed) /\ at' = at + 1
      /\ UNCHANGED <<build, feed, pendingBatch, workerBatch, outbox, inbox, worker>>
  BY DEF MockEmits, StatInv, MockAlone, authVars, connVars, batchVars, workerVars
<1>2. /\ Slots(b) = b /\ b \in Batches /\ DOMAIN b \cap BarSlots = {} /\ Numbers(b) \subseteq {at}
      /\ board'.slots = Over(b, board.slots) /\ board'.series = board.series
      /\ heard' = Over(b, heard)
  BY MockShows
<1> HIDE DEF b
<1>3. /\ ~worker /\ pendingBatch = NoBatch /\ workerBatch = NoBatch /\ outbox = <<>>
      /\ inbox = <<>> /\ board.slots \in Batches /\ feed \in Feeds
  BY <1>1 DEF StatInv, DeliveryInv, DeliveryTypeOK
<1>4. at \in Nat /\ Len(feed) \in Nat /\ Held \subseteq Nat
  BY <1>3, HeldType DEF StatInv, RestTypeOK, DeliveryInv
<1>5. board'.slots \in Batches
  BY <1>2, <1>3, OverBatches
<1>6. DeliveryTypeOK'
  <2>1. ASSUME NEW s \in DOMAIN board'.slots \cap BarSlots
        PROVE  s = OwnBar /\ board'.slots[s].ts # None
    <3>1. s \notin DOMAIN b
      BY <1>2, <2>1
    <3>2. s \in DOMAIN board.slots /\ board'.slots[s] = board.slots[s]
      BY <1>2, <2>1, <3>1 DEF Over
    <3> QED
      BY <2>1, <3>2 DEF DeliveryInv, DeliveryTypeOK
  <2>2. BatchOK(pendingBatch)' /\ BatchOK(workerBatch)'
    BY <1>1, <1>3, NothingYet DEF BatchOK
  <2> QED
    BY <1>1, <1>3, <1>5, <2>1, <2>2 DEF DeliveryInv, DeliveryTypeOK
<1>7. StagesInOrder'
  BY <1>1, <1>3, NothingFiled DEF StagesInOrder, Before
<1>8. PostedNumbers' = {} /\ PostedNumbers = {} /\ SentNumbers' = {} /\ Chunks' = {}
  BY <1>1, <1>3 DEF PostedNumbers, SentNumbers, Chunks
<1>9. ArrivalsInOrder'
  <2>1. Numbers(board'.slots) \subseteq {at} \cup Numbers(board.slots)
    BY <1>2, NumbersOver
  <2>2. Held' \subseteq Held \cup {at}
    BY <1>1, <1>3, <1>8, <2>1, NothingFiled DEF Held
  <2>4. \A n \in Held : n \in Nat /\ n <= at
    BY <1>4 DEF DeliveryInv, ArrivalsInOrder, Before
  <2>3. ASSUME NEW n \in Held' PROVE n <= at'
    <3>1. n \in Nat /\ n <= at
      BY <1>4, <2>2, <2>3, <2>4
    <3> QED
      BY <1>1, <1>4, <3>1
  <2> QED
    BY <1>8, <2>3 DEF ArrivalsInOrder, Before
<1>10. SeriesInv' /\ SeriesOrdered'
  <2>1. at'..Len(feed) \subseteq at..Len(feed)
    BY <1>1, <1>4
  <2>2. Coming' \subseteq Coming
    BY <1>1, <1>3, <1>8, <2>1, NothingFiled DEF Coming
  <2> QED
    BY <1>1, <1>2, <2>2, SeriesSame DEF DeliveryInv
<1>11. NothingLost'
  <2>1. Known = Over(NoBatch, Over(NoBatch, Over(NoBatch, board.slots)))
    BY <1>3, NothingYet, PostedNothing DEF Known
  <2>2. Known' = Over(NoBatch, Over(NoBatch, Over(NoBatch, board'.slots)))
    BY <1>1, <1>3, NothingYet, PostedNothing DEF Known
  <2> QED
    BY <1>2, <1>3, <1>5, <2>1, <2>2, OverNothing DEF DeliveryInv, NothingLost
<1> QED
  BY <1>6, <1>7, <1>9, <1>10, <1>11 DEF DeliveryInv

\* The messages after the first.
LEMMA InboxTail ==
    ASSUME StatInv, DeliveryInv, inbox # <<>>, inbox' = Tail(inbox)
    PROVE  /\ inbox' \in Seq(Messages) /\ Head(inbox) \in Messages
           /\ \A k \in Chunks' : k + 1 \in Chunks /\ inbox'[k] = inbox[k + 1]
           /\ Head(inbox).type = "chunk" =>
                 /\ Head(inbox).n \in SentNumbers /\ Before(Held, {Head(inbox).n})
                 /\ Head(inbox).n \in 1..Len(feed) /\ Head(inbox).n <= at
                 /\ \A k \in Chunks' : Head(inbox).n <= inbox'[k].n
           /\ SentNumbers' \subseteq SentNumbers
<1> DEFINE N == Len(inbox)
<1>1. inbox \in Seq(Messages)
  BY DEF DeliveryInv, DeliveryTypeOK
<1>2. /\ inbox' \in Seq(Messages) /\ Head(inbox) \in Messages /\ Head(inbox) = inbox[1]
      /\ N \in Nat \ {0} /\ Len(inbox') = N - 1
      /\ \A k \in 1..(N - 1) : inbox'[k] = inbox[k + 1]
  BY <1>1
<1>3. \A k \in 1..(N - 1) : k + 1 \in 1..N /\ k + 1 > 1
  BY <1>2
<1>4. \A k \in Chunks' : k + 1 \in Chunks /\ inbox'[k] = inbox[k + 1] /\ 1 < k + 1
  BY <1>2, <1>3 DEF Chunks
<1>5. SentNumbers' \subseteq SentNumbers
  BY <1>4 DEF SentNumbers
<1>6. ASSUME Head(inbox).type = "chunk"
      PROVE  /\ Head(inbox).n \in SentNumbers /\ Before(Held, {Head(inbox).n})
             /\ Head(inbox).n \in 1..Len(feed) /\ Head(inbox).n <= at
             /\ \A k \in Chunks' : Head(inbox).n <= inbox'[k].n
  <2>1. 1 \in Chunks
    BY <1>2, <1>6 DEF Chunks
  <2>2. Head(inbox).n \in SentNumbers
    BY <1>2, <2>1 DEF SentNumbers
  <2>3. /\ Before(Held, {inbox[1].n}) /\ inbox[1].n \in 1..Len(feed) /\ inbox[1].n <= at
        /\ \A l \in Chunks : 1 < l => inbox[1].n <= inbox[l].n
    BY <2>1 DEF DeliveryInv, ArrivalsInOrder
  <2> QED
    BY <1>2, <1>4, <2>2, <2>3
<1> QED
  BY <1>2, <1>4, <1>5, <1>6

\* The messages that are left are no earlier than what is held.
LEMMA ArrivalsLeft ==
    ASSUME StatInv, DeliveryInv, UNCHANGED <<feed, at>>, Held' \subseteq Held,
           inbox' = inbox \/ (inbox # <<>> /\ inbox' = Tail(inbox))
    PROVE  ArrivalsInOrder'
<1>1. CASE inbox' = inbox
  <2>1. Chunks' = Chunks
    BY <1>1 DEF Chunks
  <2> QED
    BY <1>1, <2>1 DEF DeliveryInv, ArrivalsInOrder, Before
<1>2. CASE inbox # <<>> /\ inbox' = Tail(inbox)
  <2>1. \A k \in Chunks' : k + 1 \in Chunks /\ inbox'[k] = inbox[k + 1]
    BY <1>2, InboxTail
  <2>2. \A k, l \in Chunks' : k < l => k + 1 < l + 1
    BY DEF Chunks
  <2> QED
    BY <2>1, <2>2 DEF DeliveryInv, ArrivalsInOrder, Before
<1> QED
  BY <1>1, <1>2

\* The worker posts what it has collected (emitBatch).
LEMMA EmitDelivers ==
    ASSUME StatInv, DeliveryInv, worker, EmitBatch,
           UNCHANGED <<build, feed, pendingBatch, worker, board, at, heard>>,
           inbox' = inbox \/ (inbox # <<>> /\ inbox' = Tail(inbox))
    PROVE  DeliveryInv'
<1> DEFINE N == Len(outbox)
<1>1. /\ feed \in Feeds /\ outbox \in Seq(Batches) /\ N \in Nat /\ BatchOK(workerBatch)
      /\ workerBatch \in Batches /\ \A i \in 1..N : BatchOK(outbox[i])
      /\ Held \subseteq Nat
  BY HeldType DEF StatInv, DeliveryInv, DeliveryTypeOK, BatchOK
<1>2. workerBatch' = NoBatch
  BY DEF EmitBatch
<1>3. inbox' \in Seq(Messages) /\ SentNumbers' \subseteq SentNumbers
  <2>1. CASE inbox' = inbox
    BY <2>1 DEF DeliveryInv, DeliveryTypeOK, SentNumbers, Chunks
  <2>2. CASE inbox # <<>> /\ inbox' = Tail(inbox)
    BY <2>2, InboxTail
  <2> QED
    BY <2>1, <2>2
<1>4. /\ outbox' \in Seq(Batches)
      /\ Posted(outbox') = Over(Slots(workerBatch), Posted(outbox))
      /\ \/ outbox' = outbox
         \/ /\ Len(outbox') = N + 1 /\ outbox'[N + 1] = workerBatch
            /\ \A i \in 1..N : outbox'[i] = outbox[i]
  <2>1. CASE DOMAIN workerBatch = {}
    <3>1. outbox' = outbox
      BY <2>1 DEF EmitBatch
    <3>2. workerBatch = NoBatch
      BY <1>1, <2>1, BatchShape DEF NoBatch
    <3>3. Posted(outbox) = Over(NoBatch, Posted(outbox))
      <4>1. Posted(outbox) = [s \in DOMAIN Posted(outbox) |-> Posted(outbox)[s]]
        BY <1>1, PostedShape
      <4> QED
        BY <4>1, NothingYet DEF Over
    <3> QED
      BY <1>1, <3>1, <3>2, <3>3, NothingYet
  <2>2. CASE DOMAIN workerBatch # {}
    <3>1. outbox' = Append(outbox, workerBatch)
      BY <2>2 DEF EmitBatch
    <3>2. Posted(outbox') = Over(Slots(workerBatch), Posted(outbox))
      BY <1>1, <3>1, PostedAppend
    <3> QED
      BY <1>1, <3>1, <3>2
  <2> QED
    BY <2>1, <2>2
<1> HIDE DEF N
<1>5. \A i \in 1..Len(outbox') :
         \/ i \in 1..N /\ outbox'[i] = outbox[i]
         \/ i = N + 1 /\ outbox'[i] = workerBatch
  BY <1>1, <1>4 DEF N
<1>6. DeliveryTypeOK'
  <2>1. BatchOK(pendingBatch)' /\ BatchOK(workerBatch)'
    BY <1>2, NothingYet DEF DeliveryInv, DeliveryTypeOK, BatchOK
  <2>2. \A i \in 1..Len(outbox') : BatchOK(outbox[i])'
    BY <1>1, <1>5 DEF BatchOK
  <2> QED
    BY <1>3, <1>4, <2>1, <2>2 DEF DeliveryInv, DeliveryTypeOK
<1>7. StagesInOrder'
  <2>1. \A i \in 1..N :
           /\ Before(Numbers(board.slots), Numbers(outbox[i]))
           /\ Before(Numbers(pendingBatch), Numbers(outbox[i]))
           /\ Before(Numbers(outbox[i]), Numbers(workerBatch))
           /\ \A j \in 1..N : i < j => Before(Numbers(outbox[i]), Numbers(outbox[j]))
    BY DEF DeliveryInv, StagesInOrder, N
  <2>2. /\ Before(Numbers(board.slots), Numbers(pendingBatch))
        /\ Before(Numbers(board.slots), Numbers(workerBatch))
        /\ Before(Numbers(pendingBatch), Numbers(workerBatch))
    BY DEF DeliveryInv, StagesInOrder
  <2>3. \A M : Before(M, Numbers(workerBatch'))
    BY <1>2, NothingFiled DEF Before
  <2>4. ASSUME NEW i \in 1..Len(outbox')
        PROVE  /\ Before(Numbers(board.slots), Numbers(outbox'[i]))
               /\ Before(Numbers(pendingBatch), Numbers(outbox'[i]))
               /\ \A j \in 1..Len(outbox') :
                     i < j => Before(Numbers(outbox'[i]), Numbers(outbox'[j]))
    <3>1. ASSUME NEW j \in 1..Len(outbox'), i < j
          PROVE  Before(Numbers(outbox'[i]), Numbers(outbox'[j]))
      <4>1. i \in 1..N /\ outbox'[i] = outbox[i]
        BY <1>1, <1>5, <2>4, <3>1 DEF N
      <4> QED
        BY <1>5, <2>1, <3>1, <4>1
    <3> QED
      BY <1>5, <2>1, <2>2, <2>4, <3>1
  <2> QED
    BY <2>2, <2>3, <2>4 DEF StagesInOrder
<1>8. PostedNumbers' \subseteq PostedNumbers \cup Numbers(workerBatch)
  <2>1. \A i \in 1..Len(outbox') :
           Numbers(outbox'[i]) \subseteq PostedNumbers \cup Numbers(workerBatch)
    BY <1>5 DEF PostedNumbers, N
  <2> QED
    BY <2>1 DEF PostedNumbers
<1>9. ArrivalsInOrder'
  <2>1. Held' \subseteq Held
    BY <1>2, <1>8, NothingFiled DEF Held
  <2> QED
    BY <2>1, ArrivalsLeft
<1>10. SeriesInv' /\ SeriesOrdered'
  <2>1. Coming' \subseteq Coming
    BY <1>2, <1>3, <1>8, NothingFiled DEF Coming
  <2> QED
    BY <2>1, SeriesSame DEF DeliveryInv
<1>11. NothingLost'
  <2>1. Known' = Over(NoBatch, Over(Posted(outbox'), Over(Slots(pendingBatch), board.slots)))
    BY <1>2, NothingYet DEF Known
  <2>2. Known' = Over(Posted(outbox'), Over(Slots(pendingBatch), board.slots))
    BY <2>1, NothingYet DEF Over
  <2> QED
    BY <1>4, <2>2, OverAssociates DEF DeliveryInv, NothingLost, Known
<1> QED
  BY <1>6, <1>7, <1>9, <1>10, <1>11 DEF DeliveryInv

\* What the worker makes of a piece: an event of the feed that no stage is past, or nothing
\* (processChunk).
LEMMA ParseGives ==
    ASSUME StatInv, DeliveryInv, inbox # <<>>, WorkerParses(Head(inbox))
    PROVE  \E b : /\ BatchOK(b) /\ Numbers(b) \subseteq {Head(inbox).n}
                  /\ workerBatch' = Over(b, workerBatch) /\ heard' = Over(Slots(b), heard)
<1> DEFINE m == Head(inbox)
<1>1. feed \in Feeds /\ m.type = "chunk" /\ inbox \in Seq(Messages)
  BY DEF StatInv, DeliveryInv, DeliveryTypeOK, WorkerParses
<1>2. m \in Messages /\ inbox[1] = m /\ 1 \in Chunks
  BY <1>1 DEF Chunks
<1>3. m.n \in 1..Len(feed)
  BY <1>2 DEF DeliveryInv, ArrivalsInOrder
<1>4. ASSUME NEW events \in SUBSET {feed[m.n]}
      PROVE  LET taken == {ev \in events : WorkerShouldApply(ev)}
                 b == IF taken = {} THEN NoBatch ELSE CollectRaw(CHOOSE ev \in taken : TRUE)
             IN  BatchOK(b) /\ Numbers(b) \subseteq {m.n}
  <2> DEFINE taken == {ev \in events : WorkerShouldApply(ev)}
             b == IF taken = {} THEN NoBatch ELSE CollectRaw(CHOOSE ev \in taken : TRUE)
  <2>1. taken = {} => b = NoBatch
    OBVIOUS
  <2>2. taken # {} => b = CollectRaw(feed[m.n]) /\ ShouldApply(feed[m.n])
    <3>1. taken # {} => (CHOOSE ev \in taken : TRUE) \in taken
      OBVIOUS
    <3>2. taken # {} => (CHOOSE ev \in taken : TRUE) = feed[m.n] /\ ShouldApply(feed[m.n])
      BY <1>4, <3>1 DEF WorkerShouldApply
    <3> HIDE DEF taken, m
    <3> QED
      BY <3>2
  <2>3. BatchOK(b) /\ Numbers(b) \subseteq {m.n}
    <3> HIDE DEF taken, b, m
    <3>1. CASE taken = {}
      BY <2>1, <3>1, NothingFiled
    <3>2. \A n \in 1..Len(feed) :
             ShouldApply(feed[n]) =>
                BatchOK(CollectRaw(feed[n])) /\ Numbers(CollectRaw(feed[n])) \subseteq {n}
      BY <1>1, CollectRawOK
    <3>3. CASE taken # {}
      BY <1>3, <2>2, <3>2, <3>3
    <3> QED
      BY <3>1, <3>3
  <2> QED
    BY <2>3
<1>5. PICK events \in Completed(m) :
         LET taken == {ev \in events : WorkerShouldApply(ev)}
             b == IF taken = {} THEN NoBatch ELSE CollectRaw(CHOOSE ev \in taken : TRUE)
         IN  workerBatch' = Merge(workerBatch, b) /\ heard' = Over(Slots(b), heard)
  BY DEF WorkerParses
<1>6. events \in SUBSET {feed[m.n]}
  BY <1>5 DEF Completed
<1> QED
  BY <1>4, <1>5, <1>6 DEF Merge

LEMMA ParseDelivers ==
    ASSUME StatInv, DeliveryInv, worker, inbox # <<>>, WorkerParses(Head(inbox)),
           inbox' = Tail(inbox), UNCHANGED <<build, feed, pendingBatch, worker, board, at>>
    PROVE  DeliveryInv'
<1> DEFINE n == Head(inbox).n
<1>1. PICK b : /\ BatchOK(b) /\ Numbers(b) \subseteq {n}
               /\ workerBatch' = Over(b, workerBatch) /\ heard' = Over(Slots(b), heard)
  BY ParseGives
<1>2. /\ feed \in Feeds /\ BatchOK(workerBatch) /\ outbox' = outbox /\ Held \subseteq Nat
      /\ Len(feed) \in Nat
  BY HeldType DEF StatInv, DeliveryInv, DeliveryTypeOK, WorkerParses
<1>3. /\ inbox' \in Seq(Messages) /\ SentNumbers' \subseteq SentNumbers
      /\ \A k \in Chunks' : k + 1 \in Chunks /\ inbox'[k] = inbox[k + 1]
      /\ n \in SentNumbers /\ Before(Held, {n}) /\ n \in 1..Len(feed) /\ n <= at
      /\ \A k \in Chunks' : n <= inbox'[k].n
  BY InboxTail DEF WorkerParses
<1>4. n \in Nat /\ \A h \in Held : h <= n
  BY <1>2, <1>3 DEF Before
<1> HIDE DEF n
<1>5. BatchOK(workerBatch') /\ Numbers(workerBatch') \subseteq {n} \cup Numbers(workerBatch)
  BY <1>1, <1>2, OverOK, NumbersOver
<1>6. DeliveryTypeOK'
  <2>1. /\ BatchOK(workerBatch)' /\ BatchOK(pendingBatch)'
        /\ \A i \in 1..Len(outbox') : BatchOK(outbox[i])'
    BY <1>2, <1>5 DEF DeliveryInv, DeliveryTypeOK, BatchOK
  <2> QED
    BY <1>2, <1>3, <2>1 DEF DeliveryInv, DeliveryTypeOK
<1>7. PostedNumbers' = PostedNumbers
  BY <1>2 DEF PostedNumbers
<1>8. StagesInOrder'
  <2>1. /\ Before(Numbers(board.slots), {n}) /\ Before(Numbers(pendingBatch), {n})
        /\ \A i \in 1..Len(outbox) : Before(Numbers(outbox[i]), {n})
    BY <1>3 DEF Held, PostedNumbers, Before
  <2>2. \A M : Before(M, {n}) /\ Before(M, Numbers(workerBatch)) => Before(M, Numbers(workerBatch'))
    BY <1>5 DEF Before
  <2> QED
    BY <1>2, <2>1, <2>2 DEF DeliveryInv, StagesInOrder
<1>9. ArrivalsInOrder'
  <2>1. Held' \subseteq Held \cup {n}
    BY <1>5, <1>7 DEF Held
  <2>2. ASSUME NEW h \in Held'
        PROVE  h <= at' /\ \A k \in Chunks' : h <= inbox'[k].n
    <3>1. CASE h \in Held
      BY <1>3, <3>1 DEF DeliveryInv, ArrivalsInOrder, Before
    <3>2. CASE h = n
      BY <1>3, <3>2
    <3> QED
      BY <2>1, <2>2, <3>1, <3>2
  <2>3. \A k \in Chunks' : inbox'[k].n \in 1..Len(feed') /\ inbox'[k].n <= at'
    BY <1>3 DEF DeliveryInv, ArrivalsInOrder
  <2>4. ASSUME NEW k \in Chunks', NEW l \in Chunks', k < l
        PROVE  inbox'[k].n <= inbox'[l].n
    <3>1. k + 1 < l + 1
      BY <2>4 DEF Chunks
    <3> QED
      BY <1>3, <3>1 DEF DeliveryInv, ArrivalsInOrder
  <2> QED
    BY <2>2, <2>3, <2>4 DEF ArrivalsInOrder, Before
<1>10. SeriesInv' /\ SeriesOrdered'
  <2>1. Coming' \subseteq Coming
    BY <1>3, <1>5, <1>7 DEF Coming
  <2> QED
    BY <2>1, SeriesSame DEF DeliveryInv
<1>11. NothingLost'
  <2>1. Slots(workerBatch') = Over(Slots(b), Slots(workerBatch))
    BY <1>1, <1>2, SlotsOver
  <2> QED
    BY <1>1, <1>2, <2>1, OverAssociates DEF DeliveryInv, NothingLost, Known
<1> QED
  BY <1>6, <1>8, <1>9, <1>10, <1>11 DEF DeliveryInv

\* The manager takes a batch over from the worker (handleWorkerMessage).
LEMMA ArrivalDelivers == ASSUME StatInv, DeliveryInv, BatchArrives PROVE DeliveryInv'
<1> DEFINE N == Len(outbox)
           b == Head(outbox)
<1>1. /\ outbox # <<>> /\ outbox' = Tail(outbox) /\ MergeIntoPending(b)
      /\ UNCHANGED <<build, feed, inbox, workerBatch, worker, board, at, heard>>
  BY DEF BatchArrives, authVars, connVars
<1>2. /\ feed \in Feeds /\ outbox \in Seq(Batches) /\ \A i \in 1..N : BatchOK(outbox[i])
      /\ BatchOK(pendingBatch) /\ worker
  BY <1>1 DEF StatInv, DeliveryInv, DeliveryTypeOK
<1>3. /\ N \in Nat \ {0} /\ outbox' \in Seq(Batches) /\ Len(outbox') = N - 1 /\ b = outbox[1]
      /\ 1 \in 1..N
      /\ \A i \in 1..(N - 1) : i + 1 \in 1..N /\ outbox'[i] = outbox[i + 1] /\ 1 < i + 1
  BY <1>1, <1>2
<1> HIDE DEF N, b
<1>4. BatchOK(b)
  BY <1>2, <1>3
<1>5. pendingBatch' = Over(b, pendingBatch)
  BY <1>1, <1>2, MergeSpreads
<1>6. /\ BatchOK(pendingBatch')
      /\ Numbers(pendingBatch') \subseteq Numbers(b) \cup Numbers(pendingBatch)
  BY <1>2, <1>4, <1>5, OverOK, NumbersOver
<1>7. DeliveryTypeOK'
  <2>1. BatchOK(pendingBatch)' /\ BatchOK(workerBatch)'
    BY <1>1, <1>6 DEF DeliveryInv, DeliveryTypeOK, BatchOK
  <2>2. \A i \in 1..Len(outbox') : BatchOK(outbox[i])'
    BY <1>1, <1>2, <1>3 DEF BatchOK
  <2>3. build # "mock"
    BY <1>2 DEF DeliveryInv, DeliveryTypeOK
  <2> QED
    BY <1>1, <1>2, <1>3, <2>1, <2>2, <2>3 DEF DeliveryInv, DeliveryTypeOK
<1>8. StagesInOrder'
  <2>1. \A i \in 1..N :
           /\ Before(Numbers(board.slots), Numbers(outbox[i]))
           /\ Before(Numbers(pendingBatch), Numbers(outbox[i]))
           /\ Before(Numbers(outbox[i]), Numbers(workerBatch))
           /\ \A j \in 1..N : i < j => Before(Numbers(outbox[i]), Numbers(outbox[j]))
    BY DEF DeliveryInv, StagesInOrder, N
  <2>2. /\ Before(Numbers(board.slots), Numbers(pendingBatch))
        /\ Before(Numbers(board.slots), Numbers(workerBatch))
        /\ Before(Numbers(pendingBatch), Numbers(workerBatch))
    BY DEF DeliveryInv, StagesInOrder
  <2>3. \A M : /\ Before(Numbers(b), M) /\ Before(Numbers(pendingBatch), M)
                     => Before(Numbers(pendingBatch'), M)
               /\ Before(M, Numbers(b)) /\ Before(M, Numbers(pendingBatch))
                     => Before(M, Numbers(pendingBatch'))
    BY <1>6 DEF Before
  <2>4. \A i \in 1..(N - 1) :
           /\ Before(Numbers(board.slots), Numbers(outbox'[i]))
           /\ Before(Numbers(pendingBatch'), Numbers(outbox'[i]))
           /\ Before(Numbers(outbox'[i]), Numbers(workerBatch))
    BY <1>3, <2>1, <2>3
  <2>5. ASSUME NEW i \in 1..(N - 1), NEW j \in 1..(N - 1), i < j
        PROVE  Before(Numbers(outbox'[i]), Numbers(outbox'[j]))
    <3>1. i + 1 < j + 1
      BY <2>5
    <3> QED
      BY <1>3, <2>1, <3>1
  <2>6. /\ Before(Numbers(board.slots), Numbers(pendingBatch'))
        /\ Before(Numbers(pendingBatch'), Numbers(workerBatch))
    BY <1>3, <2>1, <2>2, <2>3
  <2> QED
    BY <1>1, <1>3, <2>2, <2>4, <2>5, <2>6 DEF StagesInOrder
<1>9. PostedNumbers' \subseteq PostedNumbers /\ Numbers(b) \subseteq PostedNumbers
  <2>1. \A i \in 1..Len(outbox') : Numbers(outbox'[i]) \subseteq PostedNumbers
    BY <1>3 DEF PostedNumbers, N
  <2> QED
    BY <1>3, <2>1 DEF PostedNumbers, N
<1>10. SentNumbers' = SentNumbers
  BY <1>1 DEF SentNumbers, Chunks
<1>11. ArrivalsInOrder'
  <2>1. Held' \subseteq Held
    BY <1>1, <1>6, <1>9 DEF Held
  <2> QED
    BY <1>1, <2>1, ArrivalsLeft
<1>12. SeriesInv' /\ SeriesOrdered'
  <2>1. Coming' \subseteq Coming
    BY <1>1, <1>6, <1>9, <1>10 DEF Coming
  <2> QED
    BY <1>1, <2>1, SeriesSame DEF DeliveryInv
<1>13. NothingLost'
  <2>1. Posted(outbox) = Over(Posted(outbox'), Slots(b))
    BY <1>1, <1>2, PostedTail DEF b
  <2>2. Slots(pendingBatch') = Over(Slots(b), Slots(pendingBatch))
    BY <1>2, <1>4, <1>5, SlotsOver
  <2>3. Over(Posted(outbox), Over(Slots(pendingBatch), board.slots))
          = Over(Posted(outbox'), Over(Slots(b), Over(Slots(pendingBatch), board.slots)))
    BY <2>1, OverAssociates
  <2>4. Over(Slots(b), Over(Slots(pendingBatch), board.slots))
          = Over(Slots(pendingBatch'), board.slots)
    BY <2>2, OverAssociates
  <2> QED
    BY <1>1, <2>3, <2>4 DEF DeliveryInv, NothingLost, Known
<1> QED
  BY <1>7, <1>8, <1>11, <1>12, <1>13 DEF DeliveryInv

\* A chunk of the stream, for the worker or for the manager (consumeChunk).
LEMMA ChunkDelivers ==
    ASSUME ConnInv, StatInv, DeliveryInv, NEW s \in streams,
           NEW piece \in {"head", "tail", "whole"}, Chunk(s, piece)
    PROVE  DeliveryInv'
<1>1. /\ ~s.aborted /\ at <= Len(feed) /\ at' \in {at, at + 1}
      /\ UNCHANGED <<build, feed, workerBatch, outbox, worker, board>>
  BY DEF Chunk, authVars
<1>2. build # "mock"
  BY <1>1, LiveMeans
<1>3. CASE worker
  <2>1. /\ inbox' = Append(inbox, [type |-> "chunk", piece |-> piece, n |-> at])
        /\ UNCHANGED <<pendingBatch, heard>>
    BY <1>3 DEF Chunk
  <2> QED
    BY <1>1, <1>3, <2>1, ChunkPosted
<1>4. CASE ~worker
  <2> DEFINE takes == EndsFrame(piece) /\ ShouldApply(feed[at])
             b == IF takes THEN Collect(feed[at], board.slots) ELSE NoBatch
  <2>1. MergeIntoPending(b) /\ heard' = Over(Slots(b), heard) /\ inbox' = inbox
    BY <1>4 DEF Chunk
  <2>2. takes => ShouldApply(feed[at])
    OBVIOUS
  <2> HIDE DEF takes
  <2>3. BatchOK(b) /\ Numbers(b) \subseteq {at}
    <3>1. feed \in Feeds /\ DeliveryTypeOK /\ at \in 1..Len(feed)
      BY <1>1, FeedLength DEF StatInv, RestTypeOK, DeliveryInv
    <3>2. \A n \in 1..Len(feed) :
             ShouldApply(feed[n]) =>
                /\ BatchOK(Collect(feed[n], board.slots))
                /\ Numbers(Collect(feed[n], board.slots)) \subseteq {n}
      BY <3>1, CollectOK
    <3>3. CASE takes
      BY <2>2, <3>1, <3>2, <3>3
    <3>4. CASE ~takes
      BY <3>4, NothingFiled
    <3> QED
      BY <3>3, <3>4
  <2> HIDE DEF b
  <2>4. pendingBatch' = Over(b, pendingBatch)
    BY <2>1, MergeSpreads DEF DeliveryInv, DeliveryTypeOK
  <2> QED
    BY <1>1, <1>2, <1>4, <2>1, <2>3, <2>4, Collected
<1> QED
  BY <1>3, <1>4

LEMMA StreamDelivers ==
    ASSUME ConnInv, StatInv, DeliveryInv, StreamStep
    PROVE  DeliveryInv'
<1>1. PICK s \in streams :
         \/ Opens(s) \/ StreamEnds(s) \/ StreamBreaks(s) \/ AbortSettles(s)
         \/ \E piece \in {"head", "tail", "whole"} : Chunk(s, piece)
  BY DEF StreamStep
<1>2. worker \in BOOLEAN /\ (build = "mock" => ~worker)
  BY DEF StatInv, RestTypeOK, DeliveryInv, DeliveryTypeOK
<1>3. CASE Opens(s)
  <2>1. UNCHANGED deliveryState /\ worker' = (worker \/ build = "worker") /\ build # "mock"
    BY <1>3, LiveMeans DEF Opens, deliveryState, authVars, batchVars
  <2>2. worker' \in BOOLEAN /\ (worker => worker') /\ (build = "mock" => ~worker')
    BY <1>2, <2>1
  <2> QED
    BY <1>2, <2>1, <2>2, SameDelivers
<1>4. CASE StreamEnds(s)
  <2>1. UNCHANGED <<build, feed, pendingBatch, workerBatch, outbox, worker, board, at, heard>>
    BY <1>4 DEF StreamEnds, Fails, authVars, batchVars
  <2>2. inbox' = IF worker THEN Append(inbox, [type |-> "flush"]) ELSE inbox
    BY <1>4 DEF StreamEnds
  <2>3. CASE worker
    BY <2>1, <2>2, <2>3, FlushAsked
  <2>4. CASE ~worker
    BY <1>2, <2>1, <2>2, <2>4, SameDelivers DEF deliveryState
  <2> QED
    BY <2>3, <2>4
<1>5. CASE StreamBreaks(s)
  <2>1. UNCHANGED deliveryState /\ UNCHANGED worker
    BY <1>5 DEF StreamBreaks, Fails, deliveryState, authVars, batchVars
  <2> QED
    BY <1>2, <2>1, SameDelivers
<1>6. CASE AbortSettles(s)
  <2>1. UNCHANGED deliveryState /\ UNCHANGED worker
    BY <1>6 DEF AbortSettles, deliveryState, authVars, batchVars, workerVars
  <2> QED
    BY <1>2, <2>1, SameDelivers
<1>7. CASE \E piece \in {"head", "tail", "whole"} : Chunk(s, piece)
  BY <1>7, ChunkDelivers
<1> QED
  BY <1>1, <1>3, <1>4, <1>5, <1>6, <1>7

LEMMA WorkerDelivers ==
    ASSUME StatInv, DeliveryInv, WorkerStep
    PROVE  DeliveryInv'
<1>1. CASE WorkerTakes /\ WorkerParses(Head(inbox))
  BY <1>1, ParseDelivers DEF WorkerTakes, authVars, batchVars
<1>2. CASE WorkerTakes /\ EmitBatch /\ heard' = heard
  <2>1. /\ worker /\ inbox # <<>> /\ inbox' = Tail(inbox) /\ EmitBatch
        /\ UNCHANGED <<build, feed, pendingBatch, worker, board, at, heard>>
    BY <1>2 DEF WorkerTakes, authVars, batchVars
  <2> QED
    BY <2>1, EmitDelivers
<1>3. CASE WorkerTimer
  <2>1. /\ worker /\ inbox' = inbox /\ EmitBatch
        /\ UNCHANGED <<build, feed, pendingBatch, worker, board, at, heard>>
    BY <1>3 DEF WorkerTimer, authVars, batchVars
  <2> QED
    BY <2>1, EmitDelivers
<1>4. CASE BatchArrives
  BY <1>4, ArrivalDelivers
<1>5. WorkerTakes => WorkerParses(Head(inbox)) \/ (EmitBatch /\ heard' = heard)
  BY DEF WorkerTakes
<1> QED
  BY <1>1, <1>2, <1>3, <1>4, <1>5 DEF WorkerStep

LEMMA StepKeepsDelivery == ASSUME ConnInv, StatInv, DeliveryInv, [Next]_vars PROVE DeliveryInv'
<1>1. worker \in BOOLEAN /\ (build = "mock" => ~worker)
  BY DEF StatInv, RestTypeOK, DeliveryInv, DeliveryTypeOK
<1>2. CASE LeaveSession
  BY <1>2, ClearDelivers DEF LeaveSession
<1>3. CASE \E t \in Tokens : EnterSession(t)
  BY <1>3, ClearDelivers DEF EnterSession
<1>4. CASE \/ \E w \in waiting : Resume(w)
           \/ TimerFires
           \/ UNCHANGED vars
  <2>1. UNCHANGED deliveryState /\ UNCHANGED worker
    BY <1>4
    DEF Resume, TimerFires, vars, deliveryState, authVars, connVars, batchVars, workerVars
  <2> QED
    BY <1>1, <2>1, SameDelivers
<1>5. CASE StreamStep
  BY <1>5, StreamDelivers
<1>6. CASE Flush
  BY <1>6, FlushDelivers
<1>7. CASE MockEmits
  BY <1>7, MockDelivers
<1>8. CASE WorkerStep
  BY <1>8, WorkerDelivers
<1> QED
  BY <1>2, <1>3, <1>4, <1>5, <1>6, <1>7, <1>8 DEF Next

LEMMA DeliveryCorrect == Spec => [](ConnInv /\ StatInv /\ DeliveryInv)
<1>1. Init => ConnInv /\ StatInv /\ DeliveryInv
  BY InitConn, InitStat, InitDelivers
<1>2. (ConnInv /\ StatInv /\ DeliveryInv) /\ [Next]_vars => (ConnInv /\ StatInv /\ DeliveryInv)'
  BY StepKeepsConn, StepKeepsStat, StepKeepsDelivery
<1> QED
  BY <1>1, <1>2, PTL DEF Spec

\* However windows, merges and the hand-over between the worker and the manager interleave
\* with sessions, streams and broken frames, the newest value of every slot collected is in
\* the store or on its way there.
THEOREM NothingLostCorrect == Spec => []NothingLost
<1>1. DeliveryInv => NothingLost
  BY DEF DeliveryInv
<1> QED
  BY <1>1, DeliveryCorrect, PTL

\* The series of the distribution stays in order of time and within its cap, however its
\* points are batched with the series that replaces it (applySseBatch).
THEOREM SeriesCorrect == Spec => []SeriesOrdered
<1>1. DeliveryInv => SeriesOrdered
  BY DEF DeliveryInv
<1> QED
  BY <1>1, DeliveryCorrect, PTL

-----------------------------------------------------------------------------
(* The live display (LatestBoard): heard is what it knows, the store's slots what it shows. *)

\* A spread of newer values over older ones loses no slot and makes none older.
LEMMA OverNewer ==
    ASSUME NEW f \in Batches, NEW g \in Batches, Before(Numbers(g), Numbers(f))
    PROVE  /\ DOMAIN g \subseteq DOMAIN Over(f, g)
           /\ \A s \in DOMAIN g : g[s].n <= Over(f, g)[s].n
<1>1. DOMAIN g \subseteq DOMAIN Over(f, g)
  BY OverShape
<1>2. ASSUME NEW s \in DOMAIN g
      PROVE  g[s].n <= Over(f, g)[s].n
  <2>1. g[s].n \in Nat /\ g[s].n \in Numbers(g)
    BY BatchShape DEF Numbers
  <2>2. CASE s \in DOMAIN f
    <3>1. Over(f, g)[s] = f[s] /\ f[s].n \in Numbers(f)
      BY <2>2, OverShape DEF Numbers
    <3> QED
      BY <2>1, <3>1 DEF Before
  <2>3. CASE s \notin DOMAIN f
    <3>1. Over(f, g)[s] = g[s]
      BY <1>2, <2>3 DEF Over
    <3> QED
      BY <2>1, <3>1
  <2> QED
    BY <2>2, <2>3
<1> QED
  BY <1>1, <1>2

\* What is posted is made of events of the feed.
LEMMA PostedOK ==
    ASSUME StatInv, DeliveryInv
    PROVE  Posted(outbox) \in Batches /\ Numbers(Posted(outbox)) \subseteq PostedNumbers
<1>1. feed \in Feeds /\ outbox \in Seq(Batches) /\ \A i \in 1..Len(outbox) : BatchOK(outbox[i])
  BY DEF StatInv, DeliveryInv, DeliveryTypeOK
<1>2. ASSUME NEW i \in 1..Len(outbox)
      PROVE  /\ Slots(outbox[i]) \in Batches
             /\ Numbers(Slots(outbox[i])) \subseteq PostedNumbers
  <2>1. Numbers(Slots(outbox[i])) \subseteq Numbers(outbox[i])
    BY <1>1, NumbersSlots
  <2> QED
    BY <1>1, <2>1, SlotsShape DEF PostedNumbers
<1>3. ASSUME NEW s \in DOMAIN Posted(outbox)
      PROVE  /\ s \in SlotNames /\ Posted(outbox)[s] \in Event
             /\ Posted(outbox)[s].n \in PostedNumbers
  <2>1. PICK i \in 1..Len(outbox) :
           s \in DOMAIN Slots(outbox[i]) /\ Posted(outbox)[s] = Slots(outbox[i])[s]
    BY <1>1, PostedShape
  <2> DEFINE b == Slots(outbox[i])
  <2>2. b \in Batches /\ Numbers(b) \subseteq PostedNumbers
    BY <1>2
  <2>3. s \in DOMAIN b /\ Posted(outbox)[s] = b[s]
    BY <2>1
  <2> HIDE DEF b
  <2> QED
    BY <2>2, <2>3, BatchShape DEF Numbers
<1>4. Posted(outbox) \in [DOMAIN Posted(outbox) -> Event]
  <2>1. Posted(outbox) = [s \in DOMAIN Posted(outbox) |-> Posted(outbox)[s]]
    BY <1>1, PostedShape
  <2> QED
    BY <1>3, <2>1
<1>5. DOMAIN Posted(outbox) \in SUBSET SlotNames
  BY <1>3
<1> QED
  BY <1>3, <1>4, <1>5 DEF Batches, Numbers

\* What was heard is a batch of events that are held.
LEMMA HeardOK ==
    ASSUME StatInv, DeliveryInv
    PROVE  heard \in Batches /\ Numbers(heard) \subseteq Held
<1> DEFINE w == Slots(workerBatch)
           p == Slots(pendingBatch)
           o == Posted(outbox)
<1>1. /\ w \in Batches /\ Numbers(w) \subseteq Held
      /\ p \in Batches /\ Numbers(p) \subseteq Held
  BY SlotsShape, NumbersSlots DEF StatInv, DeliveryInv, DeliveryTypeOK, Held
<1>2. /\ o \in Batches /\ Numbers(o) \subseteq Held
      /\ board.slots \in Batches /\ Numbers(board.slots) \subseteq Held
  BY PostedOK DEF DeliveryInv, DeliveryTypeOK, Held
<1>3. heard = Over(w, Over(o, Over(p, board.slots)))
  BY DEF DeliveryInv, NothingLost, Known
<1> HIDE DEF w, p, o
<1>4. Over(p, board.slots) \in Batches /\ Numbers(Over(p, board.slots)) \subseteq Held
  BY <1>1, <1>2, OverBatches, NumbersOver
<1>5. /\ Over(o, Over(p, board.slots)) \in Batches
      /\ Numbers(Over(o, Over(p, board.slots))) \subseteq Held
  BY <1>2, <1>4, OverBatches, NumbersOver
<1>6. /\ Over(w, Over(o, Over(p, board.slots))) \in Batches
      /\ Numbers(Over(w, Over(o, Over(p, board.slots)))) \subseteq Held
  BY <1>1, <1>5, OverBatches, NumbersOver
<1> QED
  BY <1>3, <1>6

\* An event collected is learned.
LEMMA HearingLearns ==
    ASSUME StatInv, DeliveryInv, NEW b \in Batches, NEW n, Numbers(b) \subseteq {n},
           Before(Held, {n}), heard' = Over(b, heard),
           board'.slots = board.slots \/ (heard = board.slots /\ heard' = board'.slots)
    PROVE  Display!Learn
<1>1. heard \in Batches /\ Before(Numbers(heard), Numbers(b))
  BY HeardOK DEF Before
<1>2. /\ DOMAIN heard \subseteq DOMAIN heard'
      /\ \A s \in DOMAIN heard : heard[s].n <= heard'[s].n
  BY <1>1, OverNewer
<1>3. /\ \A s \in DOMAIN heard : heard[s].n \in Nat
      /\ \A s \in DOMAIN heard' : heard'[s].n \in Nat
  <2>1. heard' \in Batches
    BY <1>1, OverBatches
  <2> QED
    BY <1>1, <2>1, BatchShape
<1>4. \A s \in DOMAIN heard : heard'[s].n >= heard[s].n
  BY <1>2, <1>3
<1> QED
  BY <1>2, <1>4 DEF Display!Learn

LEMMA FlushDisplays == ASSUME StatInv, DeliveryInv, Flush PROVE Display!Show
<1> DEFINE p == Slots(pendingBatch)
           w == Slots(workerBatch)
           o == Posted(outbox)
           u == Over(p, board.slots)
<1>1. board'.slots = u /\ heard' = heard
  BY FlushShows DEF Flush
<1>2. /\ p \in Batches /\ Numbers(p) \subseteq Numbers(pendingBatch)
      /\ w \in Batches /\ Numbers(w) \subseteq Numbers(workerBatch)
      /\ o \in Batches /\ Numbers(o) \subseteq PostedNumbers
      /\ board.slots \in Batches
  BY SlotsShape, NumbersSlots, PostedOK DEF StatInv, DeliveryInv, DeliveryTypeOK
<1>3. heard = Over(w, Over(o, u))
  BY DEF DeliveryInv, NothingLost, Known
<1> HIDE DEF p, w, o
<1>4. u \in Batches /\ Numbers(u) \subseteq Numbers(pendingBatch) \cup Numbers(board.slots)
  BY <1>2, OverBatches, NumbersOver
<1>5. /\ Before(Numbers(board.slots), Numbers(p))
      /\ Before(Numbers(u), Numbers(w)) /\ Before(Numbers(u), Numbers(o))
      /\ Before(Numbers(o), Numbers(w))
  BY <1>2, <1>4 DEF DeliveryInv, StagesInOrder, Before, PostedNumbers
<1>6. /\ DOMAIN board.slots \subseteq DOMAIN u
      /\ \A s \in DOMAIN board.slots : board.slots[s].n <= u[s].n
  BY <1>2, <1>5, OverNewer
<1> HIDE DEF u
<1> DEFINE v == Over(o, u)
<1>7. /\ DOMAIN u \subseteq DOMAIN v
      /\ \A s \in DOMAIN u : u[s].n <= v[s].n
  BY <1>2, <1>4, <1>5, OverNewer
<1>8. v \in Batches /\ Before(Numbers(v), Numbers(w))
  <2>1. Numbers(v) \subseteq Numbers(o) \cup Numbers(u)
    BY NumbersOver
  <2> QED
    BY <1>2, <1>4, <1>5, <2>1, OverBatches DEF Before
<1>9. heard = Over(w, v)
  BY <1>3
<1> HIDE DEF v
<1>10. /\ DOMAIN v \subseteq DOMAIN heard
       /\ \A s \in DOMAIN v : v[s].n <= heard[s].n
  BY <1>2, <1>8, <1>9, OverNewer
<1>11. ASSUME NEW s \in DOMAIN u
       PROVE  s \in DOMAIN heard /\ u[s].n <= heard[s].n
  <2>1. heard \in Batches
    BY HeardOK
  <2>2. s \in DOMAIN v /\ s \in DOMAIN heard
    BY <1>7, <1>10
  <2>3. u[s].n \in Nat /\ v[s].n \in Nat /\ heard[s].n \in Nat
    BY <1>4, <1>8, <2>1, <2>2, BatchShape
  <2> QED
    BY <1>7, <1>10, <2>2, <2>3
<1> QED
  BY <1>1, <1>6, <1>11 DEF Display!Show

\* A chunk that the manager parses itself is learned; one for the worker is not seen.
LEMMA ChunkLearned ==
    ASSUME ConnInv, StatInv, DeliveryInv, NEW s \in streams,
           NEW piece \in {"head", "tail", "whole"}, Chunk(s, piece)
    PROVE  Display!Learn
<1>1. board' = board /\ at \in 1..Len(feed) /\ feed \in Feeds
  BY FeedLength DEF Chunk, StatInv, RestTypeOK
<1>2. Before(Held, {at})
  BY DEF DeliveryInv, ArrivalsInOrder
<1>3. CASE worker
  <2>1. heard' = heard
    BY <1>3 DEF Chunk
  <2>2. heard' = Over(NoBatch, heard)
    BY <2>1, HeardOK, OverNothing
  <2> QED
    BY <1>1, <1>2, <2>2, NothingYet, NothingFiled, HearingLearns
<1>4. CASE ~worker
  <2> DEFINE takes == EndsFrame(piece) /\ ShouldApply(feed[at])
             b == IF takes THEN Collect(feed[at], board.slots) ELSE NoBatch
  <2>1. heard' = Over(Slots(b), heard)
    BY <1>4 DEF Chunk
  <2>2. takes => ShouldApply(feed[at])
    OBVIOUS
  <2> HIDE DEF takes
  <2>3. BatchOK(b) /\ Numbers(b) \subseteq {at}
    <3>1. \A n \in 1..Len(feed) :
             ShouldApply(feed[n]) =>
                /\ BatchOK(Collect(feed[n], board.slots))
                /\ Numbers(Collect(feed[n], board.slots)) \subseteq {n}
      BY <1>1, CollectOK DEF DeliveryInv
    <3>2. CASE takes
      BY <1>1, <2>2, <3>1, <3>2
    <3>3. CASE ~takes
      BY <3>3, NothingFiled
    <3> QED
      BY <3>2, <3>3
  <2> HIDE DEF b
  <2>4. Slots(b) \in Batches /\ Numbers(Slots(b)) \subseteq {at}
    BY <1>1, <2>3, SlotsShape, NumbersSlots
  <2> QED
    BY <1>1, <1>2, <2>1, <2>4, HearingLearns
<1> QED
  BY <1>3, <1>4

\* What the worker parses is learned.
LEMMA ParseLearned ==
    ASSUME StatInv, DeliveryInv, inbox # <<>>, inbox' = Tail(inbox),
           WorkerParses(Head(inbox)), board' = board
    PROVE  Display!Learn
<1>1. PICK b : /\ BatchOK(b) /\ Numbers(b) \subseteq {Head(inbox).n}
               /\ heard' = Over(Slots(b), heard)
  BY ParseGives
<1>2. Before(Held, {Head(inbox).n})
  BY InboxTail DEF WorkerParses
<1>3. Slots(b) \in Batches /\ Numbers(Slots(b)) \subseteq {Head(inbox).n}
  BY <1>1, SlotsShape, NumbersSlots DEF StatInv
<1> QED
  BY <1>1, <1>2, <1>3, HearingLearns

\* What the mock generator makes is learned and shown at once.
LEMMA MockLearned == ASSUME StatInv, DeliveryInv, MockEmits PROVE Display!Learn
<1> DEFINE b == Put({<<"spot_latest_list", None>>}, MockList(at))
<1>1. /\ b \in Batches /\ Numbers(b) \subseteq {at}
      /\ board'.slots = Over(b, board.slots) /\ heard' = Over(b, heard)
  BY MockShows
<1> HIDE DEF b
<1>2. heard = board.slots
  <2>1. build = "mock"
    BY DEF MockEmits, StatInv, MockAlone
  <2>2. /\ pendingBatch = NoBatch /\ workerBatch = NoBatch /\ outbox = <<>>
        /\ board.slots \in Batches
    BY <2>1 DEF DeliveryInv, DeliveryTypeOK
  <2>3. Known = Over(NoBatch, Over(NoBatch, Over(NoBatch, board.slots)))
    BY <2>2, NothingYet, PostedNothing DEF Known
  <2> QED
    BY <2>2, <2>3, OverNothing DEF DeliveryInv, NothingLost
<1>3. Before(Held, {at})
  BY DEF DeliveryInv, ArrivalsInOrder
<1> QED
  BY <1>1, <1>2, <1>3, HearingLearns

LEMMA InitDisplays == ASSUME Init PROVE Display!Init
BY NothingYet DEF Init, NoBoard, Display!Init

LEMMA StepDisplays ==
    ASSUME ConnInv, StatInv, DeliveryInv, [Next]_vars
    PROVE  [Display!Next]_(Display!boardVars)
<1>1. CASE LeaveSession
  <2>1. DOMAIN heard' = {} /\ DOMAIN board'.slots = {}
    BY <1>1, NothingYet DEF LeaveSession, NoBoard
  <2> QED
    BY <2>1 DEF Display!Next, Display!Clear
<1>2. CASE \E t \in Tokens : EnterSession(t)
  <2>1. heard' = board.slots /\ board' = board
    BY <1>2 DEF EnterSession
  <2> QED
    BY <2>1 DEF Display!Next, Display!GiveUp
<1>3. CASE Flush
  BY <1>3, FlushDisplays DEF Display!Next
<1>4. CASE MockEmits
  BY <1>4, MockLearned DEF Display!Next
<1>5. CASE \E s \in streams : \E piece \in {"head", "tail", "whole"} : Chunk(s, piece)
  BY <1>5, ChunkLearned DEF Display!Next
<1>6. CASE WorkerTakes /\ WorkerParses(Head(inbox))
  BY <1>6, ParseLearned DEF Display!Next, WorkerTakes
<1>7. CASE \/ \E w \in waiting : Resume(w)
           \/ TimerFires
           \/ \E s \in streams :
                 Opens(s) \/ StreamEnds(s) \/ StreamBreaks(s) \/ AbortSettles(s)
           \/ WorkerTakes /\ UNCHANGED heard
           \/ WorkerTimer
           \/ BatchArrives
           \/ UNCHANGED vars
  <2>1. UNCHANGED <<heard, board>>
    BY <1>7
    DEF Resume, TimerFires, Opens, StreamEnds, StreamBreaks, Fails, AbortSettles, WorkerTakes,
        WorkerTimer, BatchArrives, vars
  <2> QED
    BY <2>1 DEF Display!boardVars
<1>8. WorkerTakes => WorkerParses(Head(inbox)) \/ UNCHANGED heard
  BY DEF WorkerTakes
<1> QED
  BY <1>1, <1>2, <1>3, <1>4, <1>5, <1>6, <1>7, <1>8 DEF Next, StreamStep, WorkerStep

\* The store is a live display of what was collected (LatestBoard), through sessions that end
\* or change their token, streams that break, the worker and the flush windows.
THEOREM BoardRefined == Spec => RefinesBoard
<1>1. Init => Display!Init
  BY InitDisplays
<1>2. (ConnInv /\ StatInv /\ DeliveryInv) /\ [Next]_vars => [Display!Next]_(Display!boardVars)
  BY StepDisplays
<1> QED
  BY <1>1, <1>2, DeliveryCorrect, PTL DEF Spec, RefinesBoard, Display!Spec

=============================================================================
