--------------------------- MODULE EmailPipeline ---------------------------
(***************************************************************************)
(* The way of a mail: a row of email_outbox, written by a request; the      *)
(* dispatcher, which claims pending rows and publishes them on a Redis      *)
(* Stream; the worker, which reads the stream through a consumer group,     *)
(* asks the provider to send, and records the outcome in the row and in the *)
(* delivery log; the webhook, through which the provider reports later.     *)
(*                                                                          *)
(* Dispatcher and worker are one thread of one process                      *)
(* (EmailPipelineWorker.run_once), requests and webhooks are others.  What  *)
(* is read in one statement and written in another is two steps, unless     *)
(* nobody else writes what was read.                                        *)
(*                                                                          *)
(* A row is its place in the order of created_at, an entry of the stream    *)
(* its position.                                                            *)
(***************************************************************************)
EXTENDS Integers, Sequences, FiniteSets

CONSTANTS
    MaxRows,        \* bound: rows of the outbox
    DispatchLimit,  \* rows one dispatch recovers, and rows it claims, at most
    ReadCount,      \* entries one XAUTOCLAIM or XREADGROUP returns at most
    MaxFaults,      \* bound: exceptions and crashes of the worker
    MaxEvents,      \* bound: events of the provider
    MaxCopies       \* bound: a row with more entries to come does not get stale

ASSUME EmailAssumption ==
    /\ MaxRows \in Nat
    /\ DispatchLimit \in Nat \ {0}
    /\ ReadCount \in Nat \ {0}
    /\ MaxFaults \in Nat
    /\ MaxEvents \in Nat
    /\ MaxCopies \in Nat

Rows == 1..MaxRows

VARIABLES
    status,         \* email_outbox.status of a row, "none" before it is created
    retry_count,    \* email_outbox.retry_count
    stale,          \* processing rows whose updated_at is 60 s back or more
    logs,           \* email_delivery_logs: what the worker appended for a row
    stream,         \* the entries: the row each is about
    delivered,      \* the group's last-delivered entry
    pel,            \* the group's pending entries list
    idle,           \* pending entries idle for longer than claim_idle_ms
    at,             \* where the worker's thread is, "down" while there is none
    todo,           \* rows a query returned and that are still to be treated
    claimed,        \* rows claimed and not yet published
    work,           \* entries read and still to be handled, lowest first
    then,           \* where the thread goes after these entries
    attempt,        \* attempt_no of the delivery in hand, 0 if none
    verdict,        \* the provider's answer in hand, "none" if none
    accepted,       \* the provider: how often it accepted a mail of a row
    unrecorded,     \* history: acceptances of a row the worker did not record
    refused,        \* history: events that took back a row's "sent"
    events,         \* events so far
    faults          \* exceptions and crashes so far

outboxVars == <<status, retry_count, stale>>
streamVars == <<stream, delivered, pel, idle>>
dispatchVars == <<todo, claimed>>
deliveryVars == <<work, then, attempt, verdict>>
providerVars == <<accepted, unrecorded, refused, events>>
vars == <<outboxVars, logs, streamVars, at, dispatchVars, deliveryVars,
          providerVars, faults>>

Statuses == {"none", "pending", "processing", "sent", "failed"}
Places == {"recover", "recovering", "list", "claim", "claiming", "publish",
           "reclaim", "read", "handle", "send", "mark", "log", "ack", "down"}
LogEntry == [result : {"sent", "failed"}, attempt_no : Nat]
Entries == 1..Len(stream)

Init ==
    /\ status = [r \in Rows |-> "none"]
    /\ retry_count = [r \in Rows |-> 0]
    /\ stale = {}
    /\ logs = [r \in Rows |-> <<>>]
    /\ stream = <<>>
    /\ delivered = 0
    /\ pel = {}
    /\ idle = {}
    /\ at = "down"
    /\ todo = {}
    /\ claimed = {}
    /\ work = {}
    /\ then = "read"
    /\ attempt = 0
    /\ verdict = "none"
    /\ accepted = [r \in Rows |-> 0]
    /\ unrecorded = [r \in Rows |-> 0]
    /\ refused = [r \in Rows |-> 0]
    /\ events = 0
    /\ faults = 0

-----------------------------------------------------------------------------
(* The outbox.                                                              *)

\* The first n members of a set of numbers (ORDER BY ... LIMIT n; COUNT n).
Earliest(S, n) == {x \in S : Cardinality({y \in S : y < x}) < n}

IsFirst(x, S) == x \in S /\ \A y \in S : x <= y

\* Rows of which some change is committed; onupdate renews updated_at.
SetStatus(S, value) ==
    /\ status' = [r \in Rows |-> IF r \in S THEN value ELSE status[r]]
    /\ stale' = stale \ S

Increment(f, r) == [f EXCEPT ![r] = @ + 1]

\* EmailOutboxRepository.create_task, from a request.
Enqueue ==
    /\ \E r \in Rows :
          /\ IsFirst(r, {q \in Rows : status[q] = "none"})
          /\ SetStatus({r}, "pending")
    /\ UNCHANGED <<retry_count, logs, streamVars, at, dispatchVars, deliveryVars,
                   providerVars, faults>>

\* Entries about a row that are still to be delivered or acknowledged.
Copies(r) == {e \in Entries : stream[e] = r /\ (e > delivered \/ e \in pel)}

\* A minute passes since the last change of a row that is processing.
Ages(r) ==
    /\ status[r] = "processing"
    /\ r \notin stale
    /\ Cardinality(Copies(r)) <= MaxCopies
    /\ stale' = stale \cup {r}
    /\ UNCHANGED <<status, retry_count, logs, streamVars, at, dispatchVars,
                   deliveryVars, providerVars, faults>>

\* Half a minute passes since the last delivery of a pending entry.
EntryIdles(e) ==
    /\ e \in pel \ idle
    /\ idle' = idle \cup {e}
    /\ UNCHANGED <<outboxVars, logs, stream, delivered, pel, at, dispatchVars,
                   deliveryVars, providerVars, faults>>

-----------------------------------------------------------------------------
(* Dispatch.                                                                *)

\* A faulty variant of StaleRows: the query asks for the rows it would make.
StaleRowsForgotten == {r \in stale : status[r] = "pending"}
StaleRows == {r \in stale : status[r] = "processing"}

\* recover_stale_processing: the query.  Which rows come first is a matter of
\* updated_at, which is not kept: any.
Recover ==
    /\ at = "recover"
    /\ \E S \in SUBSET StaleRows :
          /\ \/ S = StaleRows /\ Cardinality(S) <= DispatchLimit
             \/ Cardinality(S) = DispatchLimit
          /\ todo' = S
          /\ at' = IF S = {} THEN "list" ELSE "recovering"
    /\ UNCHANGED <<outboxVars, logs, streamVars, claimed, deliveryVars,
                   providerVars, faults>>

\* Its commit, which writes "pending" whatever the rows are by then.
Recovered ==
    /\ at = "recovering"
    /\ SetStatus(todo, "pending")
    /\ todo' = {}
    /\ at' = "list"
    /\ UNCHANGED <<retry_count, logs, streamVars, claimed, deliveryVars,
                   providerVars, faults>>

\* claim_pending: list_pending.
ListPending ==
    /\ at = "list"
    /\ todo' = Earliest({r \in Rows : status[r] = "pending"}, DispatchLimit)
    /\ at' = IF todo' = {} THEN "publish" ELSE "claim"
    /\ UNCHANGED <<outboxVars, logs, streamVars, claimed, deliveryVars,
                   providerVars, faults>>

\* mark_processing: the query finds the row pending, or another change first.
Claim ==
    /\ at = "claim"
    /\ \E r \in todo :
          /\ IsFirst(r, todo)
          /\ \/ /\ status[r] = "pending"
                /\ at' = "claiming"
                /\ UNCHANGED todo
             \/ /\ status[r] # "pending"
                /\ todo' = todo \ {r}
                /\ at' = IF todo' = {} THEN "publish" ELSE "claim"
    /\ UNCHANGED <<outboxVars, logs, streamVars, claimed, deliveryVars,
                   providerVars, faults>>

\* mark_processing: the commit.
Claimed ==
    /\ at = "claiming"
    /\ \E r \in todo :
          /\ IsFirst(r, todo)
          /\ SetStatus({r}, "processing")
          /\ todo' = todo \ {r}
          /\ claimed' = claimed \cup {r}
    /\ at' = IF todo' = {} THEN "publish" ELSE "claim"
    /\ UNCHANGED <<retry_count, logs, streamVars, deliveryVars, providerVars, faults>>

\* dispatch_once: XADD, with claims left or not.
Publish ==
    /\ at = "publish"
    /\ \E r \in claimed :
          /\ IsFirst(r, claimed)
          /\ stream' = Append(stream, r)
          /\ claimed' = claimed \ {r}
    /\ UNCHANGED <<outboxVars, logs, delivered, pel, idle, at, todo, deliveryVars,
                   providerVars, faults>>

\* XADD raises, with or without having added: mark_failed_and_increment_retry.
PublishRaises ==
    /\ at = "publish"
    /\ faults < MaxFaults
    /\ faults' = faults + 1
    /\ \E r \in claimed :
          /\ IsFirst(r, claimed)
          /\ stream' \in {stream, Append(stream, r)}
          /\ retry_count' = Increment(retry_count, r)
          /\ SetStatus({r}, "failed")
          /\ claimed' = claimed \ {r}
    /\ UNCHANGED <<logs, delivered, pel, idle, at, todo, deliveryVars, providerVars>>

Dispatched ==
    /\ at = "publish"
    /\ claimed = {}
    /\ at' = "reclaim"
    /\ UNCHANGED <<outboxVars, logs, streamVars, dispatchVars, deliveryVars,
                   providerVars, faults>>

-----------------------------------------------------------------------------
(* Consumption.                                                             *)

\* The thread turns to entries, or goes on if there are none.
Turn(entries, next) ==
    /\ work' = entries
    /\ then' = next
    /\ at' = IF entries = {} THEN next ELSE "handle"
    /\ attempt' = 0
    /\ verdict' = "none"

\* _consume_claimed.
Reclaim ==
    /\ at = "reclaim"
    /\ LET entries == Earliest(idle, ReadCount)
       IN  /\ idle' = idle \ entries
           /\ Turn(entries, "read")
    /\ UNCHANGED <<outboxVars, logs, stream, delivered, pel, dispatchVars,
                   providerVars, faults>>

\* XAUTOCLAIM raises; Redis may have claimed.
ReclaimRaises ==
    /\ at = "reclaim"
    /\ faults < MaxFaults
    /\ faults' = faults + 1
    /\ idle' \in {idle, idle \ Earliest(idle, ReadCount)}
    /\ at' = "read"
    /\ UNCHANGED <<outboxVars, logs, stream, delivered, pel, dispatchVars,
                   deliveryVars, providerVars>>

NewEntries == {e \in Entries : e > delivered /\ e <= delivered + ReadCount}

\* What Redis does for XREADGROUP.
Deliver ==
    /\ delivered' = delivered + Cardinality(NewEntries)
    /\ pel' = pel \cup NewEntries

\* _consume_new.
Read ==
    /\ at = "read"
    /\ Deliver
    /\ Turn(NewEntries, "recover")
    /\ UNCHANGED <<outboxVars, logs, stream, idle, dispatchVars, providerVars, faults>>

\* XREADGROUP raises; Redis may have delivered.
ReadRaises ==
    /\ at = "read"
    /\ faults < MaxFaults
    /\ faults' = faults + 1
    /\ Deliver \/ UNCHANGED <<delivered, pel>>
    /\ at' = "recover"
    /\ UNCHANGED <<outboxVars, logs, stream, idle, dispatchVars, deliveryVars,
                   providerVars>>

-----------------------------------------------------------------------------
(* Delivery: EmailWorker.handle_message and _handle_entries around it.      *)

\* The entry in hand, and the row it is about.
InHand(e) == IsFirst(e, work)
Handled(r) == \E e \in work : InHand(e) /\ stream[e] = r

\* A faulty variant of StartSend: rows that are sent are not skipped.
StartSendAgain ==
    /\ at = "handle"
    /\ \E r \in Rows : Handled(r) /\ attempt' = retry_count[r] + 1
    /\ at' = "send"
    /\ UNCHANGED <<outboxVars, logs, streamVars, dispatchVars, work, then, verdict,
                   providerVars, faults>>

\* The row is read and is not sent.
StartSend ==
    /\ at = "handle"
    /\ \E r \in Rows :
          /\ Handled(r)
          /\ status[r] # "sent"
          /\ attempt' = retry_count[r] + 1
    /\ at' = "send"
    /\ UNCHANGED <<outboxVars, logs, streamVars, dispatchVars, work, then, verdict,
                   providerVars, faults>>

\* "skipped".
Skip ==
    /\ at = "handle"
    /\ \E r \in Rows : Handled(r) /\ status[r] = "sent"
    /\ at' = "ack"
    /\ UNCHANGED <<outboxVars, logs, streamVars, dispatchVars, deliveryVars,
                   providerVars, faults>>

\* The provider accepts the mail; its answer may still be lost (HandlingRaises).
ProviderAccepts ==
    /\ at = "send"
    /\ \E r \in Rows : Handled(r) /\ accepted' = Increment(accepted, r)
    /\ verdict' = "sent"
    /\ at' = "mark"
    /\ UNCHANGED <<outboxVars, logs, streamVars, dispatchVars, work, then, attempt,
                   unrecorded, refused, events, faults>>

ProviderRejects ==
    /\ at = "send"
    /\ verdict' = "failed"
    /\ at' = "mark"
    /\ UNCHANGED <<outboxVars, logs, streamVars, dispatchVars, work, then, attempt,
                   providerVars, faults>>

\* A faulty variant of Mark: a failure is not counted.
MarkUncounted ==
    /\ at = "mark"
    /\ \E r \in Rows : Handled(r) /\ SetStatus({r}, verdict)
    /\ at' = "log"
    /\ UNCHANGED <<retry_count, logs, streamVars, dispatchVars, deliveryVars,
                   providerVars, faults>>

\* mark_sent or mark_failed_and_increment_retry.
Mark ==
    /\ at = "mark"
    /\ \E r \in Rows :
          /\ Handled(r)
          /\ SetStatus({r}, verdict)
          /\ retry_count' = IF verdict = "failed" THEN Increment(retry_count, r)
                                                  ELSE retry_count
    /\ at' = "log"
    /\ UNCHANGED <<logs, streamVars, dispatchVars, deliveryVars, providerVars, faults>>

\* EmailDeliveryLogRepository.append.
Log ==
    /\ at = "log"
    /\ \E r \in Rows :
          /\ Handled(r)
          /\ logs' = [logs EXCEPT ![r] =
                        Append(@, [result |-> verdict, attempt_no |-> attempt])]
    /\ at' = "ack"
    /\ UNCHANGED <<outboxVars, streamVars, dispatchVars, deliveryVars, providerVars,
                   faults>>

\* XACK.
Ack ==
    /\ at = "ack"
    /\ \E e \in work :
          /\ InHand(e)
          /\ pel' = pel \ {e}
          /\ idle' = idle \ {e}
          /\ Turn(work \ {e}, then)
    /\ UNCHANGED <<outboxVars, logs, stream, delivered, dispatchVars, providerVars,
                   faults>>

Delivering == {"handle", "send", "mark", "log", "ack"}

\* What becomes of an answer the thread has and does not get to record.
Unrecorded ==
    unrecorded' = [r \in Rows |->
                     IF at = "mark" /\ verdict = "sent" /\ Handled(r)
                     THEN unrecorded[r] + 1 ELSE unrecorded[r]]

\* A faulty variant of HandlingRaises: the entry is acknowledged all the same.
HandlingRaisesAcks ==
    /\ at \in Delivering
    /\ faults < MaxFaults
    /\ faults' = faults + 1
    /\ Unrecorded
    /\ \E e \in work :
          /\ InHand(e)
          /\ pel' = pel \ {e}
          /\ idle' = idle \ {e}
          /\ Turn(work \ {e}, then)
    /\ UNCHANGED <<outboxVars, logs, stream, delivered, dispatchVars, accepted,
                   refused, events>>

\* A statement, the provider's call or XACK raises: the entry stays pending.
HandlingRaises ==
    /\ at \in Delivering
    /\ faults < MaxFaults
    /\ faults' = faults + 1
    /\ Unrecorded
    /\ \E e \in work : InHand(e) /\ Turn(work \ {e}, then)
    /\ UNCHANGED <<outboxVars, logs, streamVars, dispatchVars, accepted, refused,
                   events>>

-----------------------------------------------------------------------------
(* The process.                                                             *)

\* It is killed, or a statement of the dispatcher raises: run_once has no try.
Crash ==
    /\ at # "down"
    /\ faults < MaxFaults
    /\ faults' = faults + 1
    /\ at' = "down"
    /\ Unrecorded
    /\ todo' = {}
    /\ claimed' = {}
    /\ work' = {}
    /\ then' = "read"
    /\ attempt' = 0
    /\ verdict' = "none"
    /\ UNCHANGED <<outboxVars, logs, streamVars, accepted, refused, events>>

\* main: ensure_group, then the loop.
Start ==
    /\ at = "down"
    /\ at' = "recover"
    /\ UNCHANGED <<outboxVars, logs, streamVars, dispatchVars, deliveryVars,
                   providerVars, faults>>

-----------------------------------------------------------------------------
(* EmailWebhookService.process_events, an event at a time.                  *)

\* "delivered".
DeliveredEvent ==
    /\ events < MaxEvents
    /\ events' = events + 1
    /\ \E r \in Rows : accepted[r] > 0 /\ SetStatus({r}, "sent")
    /\ UNCHANGED <<retry_count, logs, streamVars, at, dispatchVars, deliveryVars,
                   accepted, unrecorded, refused, faults>>

\* "bounce", "dropped" or "deferred".
FailureEvent ==
    /\ events < MaxEvents
    /\ events' = events + 1
    /\ \E r \in Rows :
          /\ accepted[r] > 0
          /\ SetStatus({r}, "failed")
          /\ refused' = IF status[r] = "sent" THEN Increment(refused, r) ELSE refused
    /\ UNCHANGED <<retry_count, logs, streamVars, at, dispatchVars, deliveryVars,
                   accepted, unrecorded, faults>>

-----------------------------------------------------------------------------
DispatchStep ==
    \/ Recover \/ Recovered \/ ListPending \/ Claim \/ Claimed
    \/ Publish \/ Dispatched

DeliveryStep ==
    \/ Reclaim \/ Read \/ StartSend \/ Skip \/ ProviderAccepts \/ ProviderRejects
    \/ Mark \/ Log \/ Ack

FaultStep ==
    PublishRaises \/ ReclaimRaises \/ ReadRaises \/ HandlingRaises \/ Crash

TimeStep == (\E r \in Rows : Ages(r)) \/ (\E e \in Entries : EntryIdles(e))

Next ==
    \/ Enqueue
    \/ DispatchStep \/ DeliveryStep
    \/ FaultStep \/ Start
    \/ TimeStep
    \/ DeliveredEvent \/ FailureEvent

Spec == Init /\ [][Next]_vars

\* The thread runs, the provider answers or the call times out (httpx: 10 s), a
\* process that is down is started again, and time passes.
FairSpec ==
    /\ Spec
    /\ WF_vars(DispatchStep \/ DeliveryStep)
    /\ WF_vars(Start)
    /\ WF_vars(\E r \in Rows : Ages(r))
    /\ WF_vars(\E e \in Entries : EntryIdles(e))

-----------------------------------------------------------------------------
(* Properties.                                                              *)

\* Variables have their types; what is idle or in hand is pending.
TypeOK ==
    /\ status \in [Rows -> Statuses]
    /\ retry_count \in [Rows -> Nat]
    /\ stale \subseteq Rows
    /\ logs \in [Rows -> Seq(LogEntry)]
    /\ stream \in Seq(Rows)
    /\ delivered \in 0..Len(stream)
    /\ pel \subseteq 1..delivered
    /\ idle \subseteq pel
    /\ at \in Places
    /\ todo \subseteq Rows /\ claimed \subseteq Rows
    /\ work \subseteq pel
    /\ then \in {"read", "recover"}
    /\ attempt \in Nat
    /\ verdict \in {"none", "sent", "failed"}
    /\ accepted \in [Rows -> Nat]
    /\ unrecorded \in [Rows -> Nat]
    /\ refused \in [Rows -> Nat]
    /\ events \in Nat /\ faults \in Nat

\* A second mail of a row has a reason of its own: an acceptance the worker could
\* not record, or an event that took "sent" back.  Entries that are delivered
\* again, rows recovered while their entry waits, and a publication that
\* raised although it was made are no reasons (email_worker.py:31).
MailsExplained ==
    \A r \in Rows : accepted[r] <= 1 + unrecorded[r] + refused[r]

Settled(r) == status[r] \in {"sent", "failed"}

\* An entry that was acknowledged has an outcome in the outbox, and its row is not
\* dispatched again (email_pipeline_worker.py:121, email_worker.py:40).
AckedIsSettled ==
    \A e \in 1..delivered : e \in pel \/ Settled(stream[e])

\* The delivery log numbers the attempts of a row in order, and no number is used
\* again after an attempt that failed (email_worker.py:34).
AttemptsInOrder ==
    \A r \in Rows : \A i, j \in DOMAIN logs[r] :
        i < j => /\ logs[r][i].attempt_no <= logs[r][j].attempt_no
                 /\ logs[r][i].result = "failed" =>
                       logs[r][i].attempt_no < logs[r][j].attempt_no

\* "sent" is taken back only by an event, or after an acceptance went unrecorded or
\* an event had taken it back before.  In particular neither the recovery nor a
\* claim, which write over what they read earlier, does it to another row, nor
\* a second entry (email_outbox_repository.py:118).
SentStands ==
    [][\A r \in Rows :
          status[r] = "sent" /\ status'[r] # "sent" =>
             \/ refused'[r] > refused[r]
             \/ refused[r] > 0
             \/ unrecorded[r] > 0]_vars

\* A row that is pending is sent or has failed in the end, also if the worker
\* dies between claim and publication (email_outbox_repository.py:107).
Settles == \A r \in Rows : status[r] = "pending" ~> Settled(r)
=============================================================================
