---------------------------- MODULE EmailProofs ----------------------------
(***************************************************************************)
(* Theorems of EmailPipeline, for every value of its constants: types, what *)
(* a second mail and an acknowledgement mean, the numbers of attempts, and  *)
(* what takes "sent" back.                                                  *)
(***************************************************************************)
EXTENDS EmailPipeline, FiniteSetTheorems, SequenceTheorems, TLAPS

-----------------------------------------------------------------------------
(* Operators.                                                               *)

\* A query with a limit returns rows that satisfy it.
LEMMA EarliestAmong == ASSUME NEW S, NEW n PROVE Earliest(S, n) \subseteq S
BY DEF Earliest

\* A set of numbers has one first member.
LEMMA FirstUnique ==
    ASSUME NEW S, S \subseteq Int, NEW x, NEW y, IsFirst(x, S), IsFirst(y, S)
    PROVE  x = y
<1>1. x \in Int /\ y \in Int /\ x <= y /\ y <= x
  BY DEF IsFirst
<1> QED
  BY <1>1

\* What SetStatus leaves of the types, and what it does to a row.
LEMMA SetStatusLaw ==
    ASSUME status \in [Rows -> Statuses], stale \subseteq Rows,
           NEW S, NEW value \in Statuses, SetStatus(S, value)
    PROVE  /\ status' \in [Rows -> Statuses]
           /\ stale' \subseteq Rows
           /\ \A r \in Rows : status'[r] = IF r \in S THEN value ELSE status[r]
BY DEF SetStatus

\* A counter that is incremented.
LEMMA IncrementLaw ==
    ASSUME NEW f \in [Rows -> Nat], NEW r \in Rows
    PROVE  /\ Increment(f, r) \in [Rows -> Nat]
           /\ \A q \in Rows : Increment(f, r)[q] = IF q = r THEN f[q] + 1 ELSE f[q]
BY DEF Increment

\* XREADGROUP delivers the entries that follow the last one it delivered.
LEMMA DeliverLaw ==
    ASSUME TypeOK, Deliver
    PROVE  /\ delivered' \in delivered..Len(stream)
           /\ NewEntries = (delivered + 1)..delivered'
           /\ NewEntries \subseteq 1..delivered'
           /\ pel' \subseteq 1..delivered'
<1> DEFINE last == IF delivered + ReadCount <= Len(stream)
                   THEN delivered + ReadCount ELSE Len(stream)
<1>1. Len(stream) \in Nat /\ delivered \in 0..Len(stream) /\ ReadCount \in Nat \ {0}
  BY EmailAssumption, LenProperties DEF TypeOK
<1>2. last \in delivered..Len(stream)
  BY <1>1
<1>3. NewEntries = (delivered + 1)..last
  BY <1>1 DEF NewEntries, Entries
<1>4. Cardinality(NewEntries) = last - delivered
  <2>1. delivered + 1 \in Int /\ last \in Int
    BY <1>1, <1>2
  <2>2. Cardinality((delivered + 1)..last)
           = IF delivered + 1 > last THEN 0 ELSE last - (delivered + 1) + 1
    BY <2>1, FS_Interval
  <2> QED
    BY <1>1, <1>2, <1>3, <2>2
<1>5. delivered' = last
  BY <1>1, <1>2, <1>4 DEF Deliver
<1>6. NewEntries \subseteq 1..delivered'
  BY <1>1, <1>2, <1>3, <1>5
<1>7. pel \subseteq 1..delivered'
  BY <1>1, <1>2, <1>5 DEF TypeOK
<1> HIDE DEF last
<1> QED
  BY <1>1, <1>2, <1>3, <1>5, <1>6, <1>7 DEF Deliver

\* An entry is about one row.
LEMMA EntryRow ==
    ASSUME TypeOK, NEW e \in pel
    PROVE  e \in Int /\ stream[e] \in Rows
<1>1. Len(stream) \in Nat /\ e \in 1..Len(stream)
  BY LenProperties DEF TypeOK
<1> QED
  BY <1>1, ElementOfSeq DEF TypeOK

\* One row is in hand at a time.
LEMMA HandledUnique ==
    ASSUME TypeOK, NEW q, NEW r, Handled(q), Handled(r)
    PROVE  q = r
<1>1. work \subseteq Int
  BY EntryRow DEF TypeOK
<1> QED
  BY <1>1, FirstUnique DEF Handled, InHand

-----------------------------------------------------------------------------
(* Types.                                                                   *)

\* An answer is known while it is recorded.
VerdictKnown == at \in {"mark", "log"} => verdict \in {"sent", "failed"}

TypeInv == TypeOK /\ VerdictKnown

LEMMA TypeInit == Init => TypeInv
<1> SUFFICES ASSUME Init PROVE TypeInv
  OBVIOUS
<1>1. Len(<<>>) = 0 /\ <<>> \in Seq(Rows) /\ <<>> \in Seq(LogEntry)
  OBVIOUS
<1> QED
  BY <1>1 DEF Init, TypeInv, TypeOK, VerdictKnown, Statuses, Places

LEMMA UnrecordedType ==
    ASSUME TypeOK, Unrecorded
    PROVE  unrecorded' \in [Rows -> Nat]
BY DEF TypeOK, Unrecorded

\* The thread turns to pending entries, or to none.
LEMMA TurnType ==
    ASSUME NEW entries, entries \subseteq pel', NEW next \in {"read", "recover"},
           Turn(entries, next)
    PROVE  /\ work' \subseteq pel' /\ then' \in {"read", "recover"}
           /\ at' \in Places \ {"mark", "log"}
           /\ attempt' \in Nat /\ verdict' \in {"none", "sent", "failed"}
BY DEF Turn, Places

LEMMA PublishedType ==
    ASSUME TypeOK, NEW r \in Rows, stream' = Append(stream, r)
    PROVE  /\ stream' \in Seq(Rows)
           /\ delivered \in 0..Len(stream')
           /\ \A e \in 1..delivered : stream'[e] = stream[e]
<1>1. /\ stream' \in Seq(Rows) /\ Len(stream') = Len(stream) + 1
      /\ \A e \in 1..Len(stream) : stream'[e] = stream[e]
  BY AppendProperties DEF TypeOK
<1>2. Len(stream) \in Nat
  BY LenProperties DEF TypeOK
<1> QED
  BY <1>1, <1>2 DEF TypeOK

LEMMA TypeStep == TypeInv /\ [Next]_vars => TypeInv'
<1> SUFFICES ASSUME TypeInv, [Next]_vars
             PROVE  TypeInv'
  OBVIOUS
<1>0. TypeOK /\ VerdictKnown
  BY DEF TypeInv
<1> USE <1>0
<1>1. CASE Enqueue
  <2>1. PICK r \in Rows : SetStatus({r}, "pending")
    BY <1>1 DEF Enqueue
  <2>2. status' \in [Rows -> Statuses] /\ stale' \subseteq Rows
    BY <2>1, SetStatusLaw DEF TypeOK, Statuses
  <2> QED
    BY <1>1, <2>2 DEF Enqueue, TypeInv, TypeOK, VerdictKnown, streamVars, dispatchVars,
                      deliveryVars, providerVars
<1>2. CASE DispatchStep
  <2>1. CASE Recover
    <3>1. todo' \subseteq Rows /\ at' \in {"list", "recovering"}
      BY <2>1 DEF Recover, StaleRows, TypeOK
    <3> QED
      BY <2>1, <3>1 DEF Recover, TypeInv, TypeOK, VerdictKnown, Places, outboxVars,
                        streamVars, deliveryVars, providerVars
  <2>2. CASE Recovered
    <3>1. status' \in [Rows -> Statuses] /\ stale' \subseteq Rows
      BY <2>2, SetStatusLaw DEF Recovered, TypeOK, Statuses
    <3> QED
      BY <2>2, <3>1 DEF Recovered, TypeInv, TypeOK, VerdictKnown, Places, streamVars,
                        deliveryVars, providerVars
  <2>3. CASE ListPending
    <3>1. todo' \subseteq Rows /\ at' \in {"publish", "claim"}
      BY <2>3, EarliestAmong DEF ListPending
    <3> QED
      BY <2>3, <3>1 DEF ListPending, TypeInv, TypeOK, VerdictKnown, Places, outboxVars,
                        streamVars, deliveryVars, providerVars
  <2>4. CASE Claim
    <3>1. todo' \subseteq Rows /\ at' \in {"publish", "claim", "claiming"}
      BY <2>4 DEF Claim, TypeOK
    <3> QED
      BY <2>4, <3>1 DEF Claim, TypeInv, TypeOK, VerdictKnown, Places, outboxVars,
                        streamVars, deliveryVars, providerVars
  <2>5. CASE Claimed
    <3>1. PICK r \in todo : /\ SetStatus({r}, "processing")
                            /\ todo' = todo \ {r} /\ claimed' = claimed \cup {r}
      BY <2>5 DEF Claimed
    <3>2. status' \in [Rows -> Statuses] /\ stale' \subseteq Rows
      BY <3>1, SetStatusLaw DEF TypeOK, Statuses
    <3>3. todo' \subseteq Rows /\ claimed' \subseteq Rows /\ at' \in {"publish", "claim"}
      BY <2>5, <3>1 DEF Claimed, TypeOK
    <3> QED
      BY <2>5, <3>2, <3>3 DEF Claimed, TypeInv, TypeOK, VerdictKnown, Places, streamVars,
                              deliveryVars, providerVars
  <2>6. CASE Publish
    <3>1. PICK r \in claimed : stream' = Append(stream, r) /\ claimed' = claimed \ {r}
      BY <2>6 DEF Publish
    <3>2. stream' \in Seq(Rows) /\ delivered \in 0..Len(stream')
      BY <3>1, PublishedType DEF TypeOK
    <3> QED
      BY <2>6, <3>1, <3>2 DEF Publish, TypeInv, TypeOK, VerdictKnown, outboxVars,
                              deliveryVars, providerVars
  <2>7. CASE Dispatched
    BY <2>7 DEF Dispatched, TypeInv, TypeOK, VerdictKnown, Places, outboxVars, streamVars,
                dispatchVars, deliveryVars, providerVars
  <2> QED
    BY <1>2, <2>1, <2>2, <2>3, <2>4, <2>5, <2>6, <2>7 DEF DispatchStep
<1>3. CASE DeliveryStep
  <2>1. CASE Reclaim
    <3> DEFINE entries == Earliest(idle, ReadCount)
    <3>1. entries \subseteq pel' /\ Turn(entries, "read") /\ idle' = idle \ entries
          /\ pel' = pel
      BY <2>1, EarliestAmong DEF Reclaim, TypeOK
    <3> HIDE DEF entries
    <3>2. /\ work' \subseteq pel' /\ then' \in {"read", "recover"}
          /\ at' \in Places \ {"mark", "log"}
          /\ attempt' \in Nat /\ verdict' \in {"none", "sent", "failed"}
      BY <3>1, TurnType
    <3> QED
      BY <2>1, <3>1, <3>2 DEF Reclaim, TypeInv, TypeOK, VerdictKnown, outboxVars,
                              dispatchVars, providerVars
  <2>2. CASE Read
    <3>1. Deliver /\ Turn(NewEntries, "recover")
      BY <2>2 DEF Read
    <3>2. delivered' \in 0..Len(stream) /\ pel' \subseteq 1..delivered'
          /\ NewEntries \subseteq pel' /\ pel \subseteq pel'
      <4>1. delivered' \in delivered..Len(stream) /\ pel' \subseteq 1..delivered'
        BY <3>1, DeliverLaw
      <4>2. Len(stream) \in Nat
        BY LenProperties DEF TypeOK
      <4> QED
        BY <3>1, <4>1, <4>2 DEF Deliver, TypeOK
    <3>3. /\ work' \subseteq pel' /\ then' \in {"read", "recover"}
          /\ at' \in Places \ {"mark", "log"}
          /\ attempt' \in Nat /\ verdict' \in {"none", "sent", "failed"}
      BY <3>1, <3>2, TurnType
    <3> QED
      BY <2>2, <3>2, <3>3 DEF Read, TypeInv, TypeOK, VerdictKnown, outboxVars,
                              dispatchVars, providerVars
  <2>3. CASE StartSend
    <3>1. attempt' \in Nat
      BY <2>3 DEF StartSend, TypeOK
    <3> QED
      BY <2>3, <3>1 DEF StartSend, TypeInv, TypeOK, VerdictKnown, Places, outboxVars,
                        streamVars, dispatchVars, providerVars
  <2>4. CASE Skip
    BY <2>4 DEF Skip, TypeInv, TypeOK, VerdictKnown, Places, outboxVars, streamVars,
                dispatchVars, deliveryVars, providerVars
  <2>5. CASE ProviderAccepts
    <3>1. accepted' \in [Rows -> Nat]
      <4>1. accepted \in [Rows -> Nat]
        BY DEF TypeOK
      <4>2. \E r \in Rows : accepted' = Increment(accepted, r)
        BY <2>5 DEF ProviderAccepts
      <4> QED
        BY <4>1, <4>2, IncrementLaw
    <3> QED
      BY <2>5, <3>1 DEF ProviderAccepts, TypeInv, TypeOK, VerdictKnown, Places,
                        outboxVars, streamVars, dispatchVars
  <2>6. CASE ProviderRejects
    BY <2>6 DEF ProviderRejects, TypeInv, TypeOK, VerdictKnown, Places, outboxVars,
                streamVars, dispatchVars, providerVars
  <2>7. CASE Mark
    <3>1. PICK r \in Rows :
             /\ SetStatus({r}, verdict)
             /\ retry_count' = IF verdict = "failed" THEN Increment(retry_count, r)
                                                     ELSE retry_count
      BY <2>7 DEF Mark
    <3>2. verdict \in Statuses /\ verdict \in {"sent", "failed"}
      BY <2>7 DEF Mark, VerdictKnown, Statuses
    <3>3. status' \in [Rows -> Statuses] /\ stale' \subseteq Rows
      BY <3>1, <3>2, SetStatusLaw DEF TypeOK
    <3>4. retry_count' \in [Rows -> Nat]
      <4>1. retry_count \in [Rows -> Nat]
        BY DEF TypeOK
      <4> QED
        BY <3>1, <4>1, IncrementLaw
    <3> QED
      BY <2>7, <3>2, <3>3, <3>4 DEF Mark, TypeInv, TypeOK, VerdictKnown, Places,
                                    streamVars, dispatchVars, deliveryVars, providerVars
  <2>8. CASE Log
    <3>1. PICK r \in Rows :
             logs' = [logs EXCEPT ![r] =
                        Append(@, [result |-> verdict, attempt_no |-> attempt])]
      BY <2>8 DEF Log
    <3>2. [result |-> verdict, attempt_no |-> attempt] \in LogEntry
      BY <2>8 DEF Log, VerdictKnown, LogEntry, TypeOK
    <3>3. logs' \in [Rows -> Seq(LogEntry)]
      <4>1. Append(logs[r], [result |-> verdict, attempt_no |-> attempt]) \in Seq(LogEntry)
        BY <3>2, AppendProperties DEF TypeOK
      <4> QED
        BY <3>1, <4>1 DEF TypeOK
    <3> QED
      BY <2>8, <3>3 DEF Log, TypeInv, TypeOK, VerdictKnown, Places, outboxVars,
                        streamVars, dispatchVars, deliveryVars, providerVars
  <2>9. CASE Ack
    <3>1. PICK e \in work : /\ pel' = pel \ {e} /\ idle' = idle \ {e}
                            /\ Turn(work \ {e}, then)
      BY <2>9 DEF Ack
    <3>2. work \ {e} \subseteq pel' /\ then \in {"read", "recover"}
      BY <3>1 DEF TypeOK
    <3>3. /\ work' \subseteq pel' /\ then' \in {"read", "recover"}
          /\ at' \in Places \ {"mark", "log"}
          /\ attempt' \in Nat /\ verdict' \in {"none", "sent", "failed"}
      BY <3>1, <3>2, TurnType
    <3> QED
      BY <2>9, <3>1, <3>3 DEF Ack, TypeInv, TypeOK, VerdictKnown, outboxVars,
                              dispatchVars, providerVars
  <2> QED
    BY <1>3, <2>1, <2>2, <2>3, <2>4, <2>5, <2>6, <2>7, <2>8, <2>9 DEF DeliveryStep
<1>4. CASE FaultStep
  <2>1. CASE PublishRaises
    <3>1. PICK r \in claimed :
             /\ stream' \in {stream, Append(stream, r)}
             /\ retry_count' = Increment(retry_count, r)
             /\ SetStatus({r}, "failed")
             /\ claimed' = claimed \ {r}
      BY <2>1 DEF PublishRaises
    <3>2. r \in Rows
      BY DEF TypeOK
    <3>3. stream' \in Seq(Rows) /\ delivered \in 0..Len(stream')
      BY <3>1, <3>2, PublishedType DEF TypeOK
    <3>4. status' \in [Rows -> Statuses] /\ stale' \subseteq Rows
      BY <3>1, SetStatusLaw DEF TypeOK, Statuses
    <3>5. retry_count \in [Rows -> Nat] /\ faults' \in Nat
      BY <2>1 DEF PublishRaises, TypeOK
    <3>6. retry_count' \in [Rows -> Nat]
      BY <3>1, <3>2, <3>5, IncrementLaw
    <3> QED
      BY <2>1, <3>1, <3>3, <3>4, <3>5, <3>6 DEF PublishRaises, TypeInv, TypeOK, VerdictKnown,
                                          deliveryVars, providerVars
  <2>2. CASE ReclaimRaises
    <3>1. idle' \subseteq pel /\ faults' \in Nat
      BY <2>2 DEF ReclaimRaises, TypeOK
    <3> QED
      BY <2>2, <3>1 DEF ReclaimRaises, TypeInv, TypeOK, VerdictKnown, Places, outboxVars,
                        dispatchVars, deliveryVars, providerVars
  <2>3. CASE ReadRaises
    <3>1. delivered' \in 0..Len(stream) /\ pel' \subseteq 1..delivered' /\ pel \subseteq pel'
      <4>1. CASE Deliver
        <5>1. delivered' \in delivered..Len(stream) /\ pel' \subseteq 1..delivered'
          BY <4>1, DeliverLaw
        <5>2. Len(stream) \in Nat
          BY LenProperties DEF TypeOK
        <5> QED
          BY <4>1, <5>1, <5>2 DEF Deliver, TypeOK
      <4>2. CASE UNCHANGED <<delivered, pel>>
        BY <4>2 DEF TypeOK
      <4> QED
        BY <2>3, <4>1, <4>2 DEF ReadRaises
    <3>2. faults' \in Nat
      BY <2>3 DEF ReadRaises, TypeOK
    <3> QED
      BY <2>3, <3>1, <3>2 DEF ReadRaises, TypeInv, TypeOK, VerdictKnown, Places, outboxVars,
                              dispatchVars, deliveryVars, providerVars
  <2>4. CASE HandlingRaises
    <3>1. PICK e \in work : Turn(work \ {e}, then)
      BY <2>4 DEF HandlingRaises
    <3>2. work \ {e} \subseteq pel' /\ then \in {"read", "recover"} /\ faults' \in Nat
      BY <2>4 DEF HandlingRaises, TypeOK, streamVars
    <3>3. /\ work' \subseteq pel' /\ then' \in {"read", "recover"}
          /\ at' \in Places \ {"mark", "log"}
          /\ attempt' \in Nat /\ verdict' \in {"none", "sent", "failed"}
      BY <3>1, <3>2, TurnType
    <3>4. unrecorded' \in [Rows -> Nat]
      BY <2>4, UnrecordedType DEF HandlingRaises
    <3> QED
      BY <2>4, <3>2, <3>3, <3>4 DEF HandlingRaises, TypeInv, TypeOK, VerdictKnown,
                                    outboxVars, streamVars, dispatchVars
  <2>5. CASE Crash
    <3>1. unrecorded' \in [Rows -> Nat] /\ faults' \in Nat
      BY <2>5, UnrecordedType DEF Crash, TypeOK
    <3> QED
      BY <2>5, <3>1 DEF Crash, TypeInv, TypeOK, VerdictKnown, Places, outboxVars, streamVars
  <2> QED
    BY <1>4, <2>1, <2>2, <2>3, <2>4, <2>5 DEF FaultStep
<1>5. CASE Start
  BY <1>5 DEF Start, TypeInv, TypeOK, VerdictKnown, Places, outboxVars, streamVars,
              dispatchVars, deliveryVars, providerVars
<1>6. CASE TimeStep
  <2>1. ASSUME NEW r \in Rows, Ages(r) PROVE TypeInv'
    <3>1. stale' \subseteq Rows
      BY <2>1 DEF Ages, TypeOK
    <3> QED
      BY <2>1, <3>1 DEF Ages, TypeInv, TypeOK, VerdictKnown, streamVars, dispatchVars,
                        deliveryVars, providerVars
  <2>2. ASSUME NEW e \in Entries, EntryIdles(e) PROVE TypeInv'
    <3>1. idle' \subseteq pel
      BY <2>2 DEF EntryIdles, TypeOK
    <3> QED
      BY <2>2, <3>1 DEF EntryIdles, TypeInv, TypeOK, VerdictKnown, outboxVars, dispatchVars,
                        deliveryVars, providerVars
  <2> QED
    BY <1>6, <2>1, <2>2 DEF TimeStep
<1>7. CASE DeliveredEvent
  <2>1. status' \in [Rows -> Statuses] /\ stale' \subseteq Rows
    BY <1>7, SetStatusLaw DEF DeliveredEvent, TypeOK, Statuses
  <2>2. events' \in Nat
    BY <1>7 DEF DeliveredEvent, TypeOK
  <2> QED
    BY <1>7, <2>1, <2>2 DEF DeliveredEvent, TypeInv, TypeOK, VerdictKnown, streamVars,
                            dispatchVars, deliveryVars
<1>8. CASE FailureEvent
  <2>1. PICK r \in Rows :
           /\ SetStatus({r}, "failed")
           /\ refused' = IF status[r] = "sent" THEN Increment(refused, r) ELSE refused
    BY <1>8 DEF FailureEvent
  <2>2. status' \in [Rows -> Statuses] /\ stale' \subseteq Rows
    BY <2>1, SetStatusLaw DEF TypeOK, Statuses
  <2>3. refused \in [Rows -> Nat] /\ events' \in Nat
    BY <1>8 DEF FailureEvent, TypeOK
  <2>4. refused' \in [Rows -> Nat]
    BY <2>1, <2>3, IncrementLaw
  <2> QED
    BY <1>8, <2>2, <2>3, <2>4 DEF FailureEvent, TypeInv, TypeOK, VerdictKnown, streamVars,
                            dispatchVars, deliveryVars
<1>9. CASE UNCHANGED vars
  BY <1>9 DEF vars, TypeInv, TypeOK, VerdictKnown, outboxVars, streamVars, dispatchVars,
              deliveryVars, providerVars
<1> QED
  BY <1>1, <1>2, <1>3, <1>4, <1>5, <1>6, <1>7, <1>8, <1>9 DEF Next

\* Every variable keeps its type, and what is idle or in hand is pending.
THEOREM TypeCorrect == Spec => []TypeOK
<1>1. TypeInv => TypeOK
  BY DEF TypeInv
<1> QED
  BY <1>1, TypeInit, TypeStep, PTL DEF Spec

-----------------------------------------------------------------------------
(* What a second mail of a row means, and what takes "sent" back.           *)

\* Rows are at hand only where the dispatcher treats them.
DispatchOver ==
    /\ at \notin {"recovering", "claim", "claiming"} => todo = {}
    /\ at \notin {"claim", "claiming", "publish"} => claimed = {}

\* An acceptance the worker has and has not recorded yet.
NotRecorded(r) == at = "mark" /\ verdict = "sent" /\ Handled(r)

\* The dispatcher may write the row without looking at it again.
Writes(r) ==
    \/ at = "recovering" /\ r \in todo
    \/ at = "claiming" /\ IsFirst(r, todo)
    \/ r \in claimed

\* So may the worker, who found the row not sent.
Sending(r) == Handled(r) /\ (at = "send" \/ (at = "mark" /\ verdict = "failed"))

Reasons(r) == unrecorded[r] + refused[r]

\* The mails of a row have their reasons, but for the one that is recorded.
MailsOf(r) ==
    /\ accepted[r] <= 1 + Reasons(r)
    /\ status[r] = "sent" \/ NotRecorded(r) => accepted[r] >= 1
    /\ status[r] # "sent" /\ ~NotRecorded(r) => accepted[r] <= Reasons(r)
    /\ Writes(r) \/ Sending(r) => accepted[r] <= Reasons(r)

MailInv == DispatchOver /\ \A r \in Rows : MailsOf(r)

\* The numbers these compare.
LEMMA MailNumbers ==
    ASSUME TypeOK, NEW r \in Rows
    PROVE  accepted[r] \in Nat /\ unrecorded[r] \in Nat /\ refused[r] \in Nat
BY DEF TypeOK

\* A step that changes neither rows nor counts, and takes up only rows that are
\* not sent.
LEMMA MailsKept ==
    ASSUME NEW r \in Rows, MailsOf(r),
           UNCHANGED <<status, accepted, unrecorded, refused>>,
           NotRecorded(r)' <=> NotRecorded(r),
           Writes(r)' \/ Sending(r)' =>
              Writes(r) \/ Sending(r) \/ (status[r] # "sent" /\ ~NotRecorded(r))
    PROVE  MailsOf(r)'
BY DEF MailsOf, Reasons

LEMMA DispatchStays ==
    ASSUME DispatchOver, UNCHANGED <<todo, claimed>>,
           at' \in {"recovering", "claim", "claiming"} \/ todo = {},
           at' \in {"claim", "claiming", "publish"} \/ claimed = {}
    PROVE  DispatchOver'
BY DEF DispatchOver

LEMMA DispatchOverStep == TypeInv /\ DispatchOver /\ [Next]_vars => DispatchOver'
<1> SUFFICES ASSUME TypeInv, DispatchOver, [Next]_vars
             PROVE  DispatchOver'
  OBVIOUS
<1>0. then \in {"read", "recover"}
  BY DEF TypeInv, TypeOK
<1>1. ASSUME UNCHANGED <<at, todo, claimed>> PROVE DispatchOver'
  BY <1>1 DEF DispatchOver
<1>2. CASE Enqueue \/ TimeStep \/ DeliveredEvent \/ FailureEvent \/ UNCHANGED vars
  BY <1>1, <1>2 DEF Enqueue, TimeStep, Ages, EntryIdles, DeliveredEvent, FailureEvent, vars,
                    dispatchVars
<1>3. CASE DispatchStep
  <2>1. CASE Recover
    BY <2>1 DEF Recover, DispatchOver
  <2>2. CASE Recovered
    BY <2>2 DEF Recovered, DispatchOver
  <2>3. CASE ListPending
    BY <2>3 DEF ListPending, DispatchOver
  <2>4. CASE Claim
    BY <2>4 DEF Claim, DispatchOver
  <2>5. CASE Claimed
    BY <2>5 DEF Claimed, DispatchOver
  <2>6. CASE Publish
    BY <2>6 DEF Publish, DispatchOver
  <2>7. CASE Dispatched
    BY <2>7 DEF Dispatched, DispatchOver, dispatchVars
  <2> QED
    BY <1>3, <2>1, <2>2, <2>3, <2>4, <2>5, <2>6, <2>7 DEF DispatchStep
<1>4. CASE DeliveryStep
  <2>1. UNCHANGED <<todo, claimed>>
    BY <1>4 DEF DeliveryStep, Reclaim, Read, StartSend, Skip, ProviderAccepts,
                ProviderRejects, Mark, Log, Ack, dispatchVars
  <2>2. at \notin {"recovering", "claim", "claiming", "publish"}
    BY <1>4 DEF DeliveryStep, Reclaim, Read, StartSend, Skip, ProviderAccepts,
                ProviderRejects, Mark, Log, Ack
  <2> QED
    BY <2>1, <2>2 DEF DispatchOver
<1>5. CASE FaultStep
  <2>1. CASE PublishRaises
    BY <2>1 DEF PublishRaises, DispatchOver
  <2>2. CASE ReclaimRaises
    BY <2>2 DEF ReclaimRaises, DispatchOver, dispatchVars
  <2>3. CASE ReadRaises
    BY <2>3 DEF ReadRaises, DispatchOver, dispatchVars
  <2>4. CASE HandlingRaises
    BY <2>4 DEF HandlingRaises, Delivering, DispatchOver, dispatchVars
  <2>5. CASE Crash
    BY <2>5 DEF Crash, DispatchOver
  <2> QED
    BY <1>5, <2>1, <2>2, <2>3, <2>4, <2>5 DEF FaultStep
<1>6. CASE Start
  BY <1>6 DEF Start, DispatchOver, dispatchVars
<1> QED
  BY <1>2, <1>3, <1>4, <1>5, <1>6 DEF Next

\* Rows are taken up only if they are not sent.
LEMMA DispatchMails ==
    ASSUME TypeInv, MailInv, DispatchStep, NEW r \in Rows
    PROVE  MailsOf(r)'
<1>0. MailsOf(r) /\ TypeOK
  BY DEF MailInv, TypeInv
<1>1. at # "mark" /\ at' # "mark" /\ ~NotRecorded(r) /\ ~NotRecorded(r)' /\ ~Sending(r)'
  BY DEF DispatchStep, Recover, Recovered, ListPending, Claim, Claimed, Publish, Dispatched,
         NotRecorded, Sending
<1>2. UNCHANGED <<accepted, unrecorded, refused>>
  BY DEF DispatchStep, Recover, Recovered, ListPending, Claim, Claimed, Publish, Dispatched,
         providerVars
<1>3. CASE Recover
  <2>1. Writes(r)' => Writes(r) \/ status[r] # "sent"
    BY <1>3 DEF Recover, Writes, StaleRows
  <2> QED
    BY <1>0, <1>1, <1>2, <1>3, <2>1, MailsKept DEF Recover, outboxVars
<1>4. CASE Recovered
  <2>1. status'[r] = IF r \in todo THEN "pending" ELSE status[r]
    BY <1>0, <1>4, SetStatusLaw DEF Recovered, TypeOK, Statuses
  <2>2. r \in todo => Writes(r)
    BY <1>4 DEF Recovered, Writes
  <2>3. Writes(r)' => Writes(r)
    BY <1>4 DEF Recovered, Writes
  <2> QED
    BY <1>0, <1>1, <1>2, <2>1, <2>2, <2>3 DEF MailsOf, Reasons
<1>5. CASE ListPending
  <2>1. Writes(r)' => Writes(r)
    BY <1>5 DEF ListPending, Writes
  <2> QED
    BY <1>0, <1>1, <1>2, <1>5, <2>1, MailsKept DEF ListPending, outboxVars
<1>6. CASE Claim
  <2>1. Writes(r)' => Writes(r) \/ status[r] # "sent"
    <3>1. PICK q \in todo : /\ IsFirst(q, todo)
                            /\ at' = "claiming" => status[q] = "pending" /\ todo' = todo
      BY <1>6 DEF Claim
    <3>2. ASSUME at' = "claiming", IsFirst(r, todo)' PROVE r = q
      <4>1. todo \subseteq Int /\ IsFirst(r, todo)
        BY <1>0, <3>1, <3>2 DEF TypeOK, Rows, IsFirst
      <4> QED
        BY <3>1, <4>1, FirstUnique
    <3> QED
      BY <1>6, <3>1, <3>2 DEF Claim, Writes
  <2> QED
    BY <1>0, <1>1, <1>2, <1>6, <2>1, MailsKept DEF Claim, outboxVars
<1>7. CASE Claimed
  <2>1. PICK q \in todo : /\ IsFirst(q, todo) /\ SetStatus({q}, "processing")
                          /\ claimed' = claimed \cup {q}
    BY <1>7 DEF Claimed
  <2>2. status'[r] = IF r = q THEN "processing" ELSE status[r]
    BY <1>0, <2>1, SetStatusLaw DEF TypeOK, Statuses
  <2>3. Writes(q) /\ (Writes(r)' => Writes(r))
    BY <1>7, <2>1 DEF Claimed, Writes
  <2>4. r = q => Writes(r)
    BY <2>3
  <2> QED
    BY <1>0, <1>1, <1>2, <2>2, <2>3, <2>4 DEF MailsOf, Reasons
<1>8. CASE Publish
  <2>1. Writes(r)' => Writes(r)
    BY <1>8 DEF Publish, Writes
  <2> QED
    BY <1>0, <1>1, <1>2, <1>8, <2>1, MailsKept DEF Publish, outboxVars
<1>9. CASE Dispatched
  <2>1. Writes(r)' => Writes(r)
    BY <1>9 DEF Dispatched, Writes, dispatchVars
  <2> QED
    BY <1>0, <1>1, <1>2, <1>9, <2>1, MailsKept DEF Dispatched, outboxVars
<1> QED
  BY <1>3, <1>4, <1>5, <1>6, <1>7, <1>8, <1>9 DEF DispatchStep

\* The step of a delivery that finds the row not sent, and those that count.
LEMMA DeliveryMails ==
    ASSUME TypeInv, MailInv, DeliveryStep, NEW r \in Rows
    PROVE  MailsOf(r)'
<1>0. MailsOf(r) /\ TypeOK /\ VerdictKnown /\ then \in {"read", "recover"}
  BY DEF MailInv, TypeInv, TypeOK
<1>1. todo = {} /\ claimed = {} /\ todo' = {} /\ claimed' = {}
  BY DEF MailInv, DispatchOver, DeliveryStep, Reclaim, Read, StartSend, Skip,
         ProviderAccepts, ProviderRejects, Mark, Log, Ack, dispatchVars
<1>2. ~Writes(r) /\ ~Writes(r)'
  BY <1>1 DEF Writes, IsFirst
<1>3. ASSUME at \notin {"mark"}, at' \notin {"send", "mark"},
             UNCHANGED <<status, accepted, unrecorded, refused>>
      PROVE  MailsOf(r)'
  <2>1. ~NotRecorded(r) /\ ~NotRecorded(r)' /\ ~Sending(r)'
    BY <1>3 DEF NotRecorded, Sending
  <2> QED
    BY <1>0, <1>2, <1>3, <2>1, MailsKept
<1>4. CASE Reclaim \/ Read \/ Skip \/ Log \/ Ack
  <2>1. at \notin {"mark"} /\ at' \notin {"send", "mark"}
    BY <1>0, <1>4 DEF Reclaim, Read, Skip, Log, Ack, Turn
  <2>2. UNCHANGED <<status, accepted, unrecorded, refused>>
    BY <1>4 DEF Reclaim, Read, Skip, Log, Ack, outboxVars, providerVars
  <2> QED
    BY <1>3, <2>1, <2>2
<1>5. CASE StartSend
  <2>1. PICK q \in Rows : Handled(q) /\ status[q] # "sent"
    BY <1>5 DEF StartSend
  <2>2. Handled(r)' <=> Handled(r)
    BY <1>5 DEF StartSend, Handled, InHand, IsFirst, streamVars
  <2>3. ~NotRecorded(r) /\ ~NotRecorded(r)' /\ (Sending(r)' => status[r] # "sent")
    BY <1>0, <1>5, <2>1, <2>2, HandledUnique DEF StartSend, NotRecorded, Sending
  <2> QED
    BY <1>0, <1>2, <1>5, <2>3, MailsKept DEF StartSend, outboxVars, providerVars
<1>6. CASE ProviderAccepts
  <2>1. PICK q \in Rows : Handled(q) /\ accepted' = Increment(accepted, q)
    BY <1>6 DEF ProviderAccepts
  <2>2. accepted'[r] = IF r = q THEN accepted[r] + 1 ELSE accepted[r]
    <3>1. accepted \in [Rows -> Nat]
      BY <1>0 DEF TypeOK
    <3> QED
      BY <2>1, <3>1, IncrementLaw
  <2>3. Handled(r)' <=> Handled(r)
    BY <1>6 DEF ProviderAccepts, Handled, InHand, IsFirst, streamVars
  <2>4. /\ r = q => Sending(r) /\ NotRecorded(r)'
        /\ r # q => ~Handled(r)
        /\ ~NotRecorded(r) /\ ~Sending(r)'
        /\ NotRecorded(r)' => Handled(r)
    BY <1>0, <1>6, <2>1, <2>3, HandledUnique DEF ProviderAccepts, NotRecorded, Sending
  <2>5. UNCHANGED <<status, unrecorded, refused>>
    BY <1>6 DEF ProviderAccepts, outboxVars
  <2>6. accepted[r] \in Nat /\ unrecorded[r] \in Nat /\ refused[r] \in Nat
    BY <1>0, MailNumbers
  <2> QED
    BY <1>0, <1>2, <2>2, <2>4, <2>5, <2>6 DEF MailsOf, Reasons
<1>7. CASE ProviderRejects
  <2>1. Handled(r)' <=> Handled(r)
    BY <1>7 DEF ProviderRejects, Handled, InHand, IsFirst, streamVars
  <2>2. ~NotRecorded(r) /\ ~NotRecorded(r)' /\ (Sending(r)' => Sending(r))
    BY <1>7, <2>1 DEF ProviderRejects, NotRecorded, Sending
  <2> QED
    BY <1>0, <1>2, <1>7, <2>2, MailsKept DEF ProviderRejects, outboxVars, providerVars
<1>8. CASE Mark
  <2>1. PICK q \in Rows : Handled(q) /\ SetStatus({q}, verdict)
    BY <1>8 DEF Mark
  <2>2. verdict \in {"sent", "failed"}
    BY <1>0, <1>8 DEF Mark, VerdictKnown
  <2>3. status'[r] = IF r = q THEN verdict ELSE status[r]
    BY <1>0, <2>1, <2>2, SetStatusLaw DEF TypeOK, Statuses
  <2>4. /\ ~NotRecorded(r)' /\ ~Sending(r)'
        /\ r = q /\ verdict = "sent" => NotRecorded(r)
        /\ r = q /\ verdict = "failed" => Sending(r)
        /\ r # q => ~NotRecorded(r)
    BY <1>0, <1>8, <2>1, HandledUnique DEF Mark, NotRecorded, Sending
  <2>5. UNCHANGED <<accepted, unrecorded, refused>>
    BY <1>8 DEF Mark, providerVars
  <2> QED
    BY <1>0, <1>2, <2>2, <2>3, <2>4, <2>5 DEF MailsOf, Reasons
<1> QED
  BY <1>4, <1>5, <1>6, <1>7, <1>8 DEF DeliveryStep

\* An acceptance that is not recorded becomes a reason.
LEMMA LostMails ==
    ASSUME TypeInv, MailInv, NEW r \in Rows, Unrecorded,
           UNCHANGED <<status, accepted, refused>>,
           at' \notin {"send", "mark", "recovering", "claiming"}, claimed' = {}
    PROVE  MailsOf(r)'
<1>1. MailsOf(r) /\ TypeOK
  BY DEF MailInv, TypeInv
<1>2. unrecorded'[r] = IF NotRecorded(r) THEN unrecorded[r] + 1 ELSE unrecorded[r]
  BY DEF Unrecorded, NotRecorded
<1>3. ~NotRecorded(r)' /\ ~Sending(r)' /\ ~Writes(r)'
  BY DEF NotRecorded, Sending, Writes
<1>4. accepted[r] \in Nat /\ unrecorded[r] \in Nat /\ refused[r] \in Nat
  BY <1>1, MailNumbers
<1> QED
  BY <1>1, <1>2, <1>3, <1>4 DEF MailsOf, Reasons

LEMMA FaultMails ==
    ASSUME TypeInv, MailInv, FaultStep, NEW r \in Rows
    PROVE  MailsOf(r)'
<1>0. MailsOf(r) /\ TypeOK /\ then \in {"read", "recover"} /\ DispatchOver
  BY DEF MailInv, TypeInv, TypeOK
<1>1. CASE PublishRaises
  <2>1. PICK q \in claimed : SetStatus({q}, "failed") /\ claimed' = claimed \ {q}
    BY <1>1 DEF PublishRaises
  <2>2. status'[r] = IF r = q THEN "failed" ELSE status[r]
    BY <1>0, <2>1, SetStatusLaw DEF TypeOK, Statuses
  <2>3. /\ r = q => Writes(r)
        /\ Writes(r)' => Writes(r)
        /\ ~NotRecorded(r) /\ ~NotRecorded(r)' /\ ~Sending(r)'
    BY <1>1, <2>1 DEF PublishRaises, Writes, NotRecorded, Sending
  <2>4. UNCHANGED <<accepted, unrecorded, refused>>
    BY <1>1 DEF PublishRaises, providerVars
  <2> QED
    BY <1>0, <2>2, <2>3, <2>4 DEF MailsOf, Reasons
<1>2. CASE ReclaimRaises \/ ReadRaises
  <2>1. ~NotRecorded(r) /\ ~NotRecorded(r)' /\ ~Sending(r)'
    BY <1>2 DEF ReclaimRaises, ReadRaises, NotRecorded, Sending
  <2>2. Writes(r)' => Writes(r)
    BY <1>2 DEF ReclaimRaises, ReadRaises, Writes, dispatchVars
  <2>3. UNCHANGED <<status, accepted, unrecorded, refused>>
    BY <1>2 DEF ReclaimRaises, ReadRaises, outboxVars, providerVars
  <2> QED
    BY <1>0, <2>1, <2>2, <2>3, MailsKept
<1>3. CASE HandlingRaises
  <2>1. claimed' = {}
    BY <1>0, <1>3 DEF HandlingRaises, Delivering, DispatchOver, dispatchVars
  <2>2. at' \notin {"send", "mark", "recovering", "claiming"}
    BY <1>0, <1>3 DEF HandlingRaises, Turn
  <2>3. Unrecorded /\ UNCHANGED <<status, accepted, refused>>
    BY <1>3 DEF HandlingRaises, outboxVars
  <2> QED
    BY <2>1, <2>2, <2>3, LostMails
<1>4. CASE Crash
  <2>1. /\ claimed' = {} /\ at' \notin {"send", "mark", "recovering", "claiming"}
        /\ Unrecorded /\ UNCHANGED <<status, accepted, refused>>
    BY <1>4 DEF Crash, outboxVars
  <2> QED
    BY <2>1, LostMails
<1> QED
  BY <1>1, <1>2, <1>3, <1>4 DEF FaultStep

\* Steps of others leave the worker where it is.
LEMMA WorkerStays ==
    ASSUME NEW r, UNCHANGED <<at, todo, claimed, work, verdict, stream>>
    PROVE  /\ NotRecorded(r)' <=> NotRecorded(r)
           /\ Writes(r)' <=> Writes(r)
           /\ Sending(r)' <=> Sending(r)
<1>1. Handled(r)' <=> Handled(r)
  BY DEF Handled, InHand, IsFirst
<1>2. IsFirst(r, todo)' <=> IsFirst(r, todo)
  BY DEF IsFirst
<1> QED
  BY <1>1, <1>2 DEF NotRecorded, Writes, Sending

LEMMA OtherMails ==
    ASSUME TypeInv, MailInv, NEW r \in Rows,
           Enqueue \/ TimeStep \/ DeliveredEvent \/ FailureEvent \/ UNCHANGED vars
    PROVE  MailsOf(r)'
<1>0. MailsOf(r) /\ TypeOK
  BY DEF MailInv, TypeInv
<1>1. UNCHANGED <<at, todo, claimed, work, verdict, stream, accepted, unrecorded>>
  BY DEF Enqueue, TimeStep, Ages, EntryIdles, DeliveredEvent, FailureEvent, vars,
         streamVars, dispatchVars, deliveryVars, providerVars
<1>2. /\ NotRecorded(r)' <=> NotRecorded(r)
      /\ Writes(r)' <=> Writes(r)
      /\ Sending(r)' <=> Sending(r)
  BY <1>1, WorkerStays
<1>3. CASE Enqueue
  <2>1. PICK q \in Rows : status[q] = "none" /\ SetStatus({q}, "pending")
    BY <1>3 DEF Enqueue, IsFirst
  <2>2. status'[r] = IF r = q THEN "pending" ELSE status[r]
    BY <1>0, <2>1, SetStatusLaw DEF TypeOK, Statuses
  <2>3. refused' = refused
    BY <1>3 DEF Enqueue, providerVars
  <2> QED
    BY <1>0, <1>1, <1>2, <2>1, <2>2, <2>3 DEF MailsOf, Reasons
<1>4. CASE TimeStep \/ UNCHANGED vars
  <2>1. UNCHANGED <<status, refused>>
    BY <1>4 DEF TimeStep, Ages, EntryIdles, vars, outboxVars, providerVars
  <2> QED
    BY <1>0, <1>1, <1>2, <2>1, MailsKept
<1>5. CASE DeliveredEvent
  <2>1. PICK q \in Rows : accepted[q] > 0 /\ SetStatus({q}, "sent")
    BY <1>5 DEF DeliveredEvent
  <2>2. status'[r] = IF r = q THEN "sent" ELSE status[r]
    BY <1>0, <2>1, SetStatusLaw DEF TypeOK, Statuses
  <2>3. refused' = refused
    BY <1>5 DEF DeliveredEvent
  <2>4. accepted[r] \in Nat /\ (r = q => accepted[r] >= 1)
    BY <1>0, <2>1, MailNumbers
  <2> QED
    BY <1>0, <1>1, <1>2, <2>2, <2>3, <2>4 DEF MailsOf, Reasons
<1>6. CASE FailureEvent
  <2>1. PICK q \in Rows :
           /\ SetStatus({q}, "failed")
           /\ refused' = IF status[q] = "sent" THEN Increment(refused, q) ELSE refused
    BY <1>6 DEF FailureEvent
  <2>2. status'[r] = IF r = q THEN "failed" ELSE status[r]
    BY <1>0, <2>1, SetStatusLaw DEF TypeOK, Statuses
  <2>3. refused'[r] = IF r = q /\ status[r] = "sent" THEN refused[r] + 1 ELSE refused[r]
    <3>1. refused \in [Rows -> Nat]
      BY <1>0 DEF TypeOK
    <3> QED
      BY <2>1, <3>1, IncrementLaw
  <2>4. accepted[r] \in Nat /\ unrecorded[r] \in Nat /\ refused[r] \in Nat
    BY <1>0, MailNumbers
  <2> QED
    BY <1>0, <1>1, <1>2, <2>2, <2>3, <2>4 DEF MailsOf, Reasons
<1> QED
  BY <1>3, <1>4, <1>5, <1>6

LEMMA MailStep == TypeInv /\ MailInv /\ [Next]_vars => MailInv'
<1> SUFFICES ASSUME TypeInv, MailInv, [Next]_vars
             PROVE  MailInv'
  OBVIOUS
<1>1. DispatchOver'
  BY DispatchOverStep DEF MailInv
<1>2. ASSUME NEW r \in Rows PROVE MailsOf(r)'
  <2>1. CASE Start
    <3>1. MailsOf(r)
      BY DEF MailInv
    <3>2. /\ ~NotRecorded(r) /\ ~NotRecorded(r)' /\ ~Sending(r)'
          /\ Writes(r)' => Writes(r)
      BY <2>1 DEF Start, NotRecorded, Sending, Writes, dispatchVars
    <3> QED
      BY <2>1, <3>1, <3>2, MailsKept DEF Start, outboxVars, providerVars
  <2> QED
    BY <2>1, DispatchMails, DeliveryMails, FaultMails, OtherMails DEF Next
<1> QED
  BY <1>1, <1>2 DEF MailInv

LEMMA MailInit == Init => MailInv
BY DEF Init, MailInv, DispatchOver, MailsOf, NotRecorded, Writes, Sending, Reasons

LEMMA MailCorrect == Spec => [](TypeInv /\ MailInv)
BY TypeInit, TypeStep, MailInit, MailStep, PTL DEF Spec

\* A second mail of a row has a reason of its own.
THEOREM MailsCorrect == Spec => []MailsExplained
<1>1. TypeInv /\ MailInv => MailsExplained
  <2> SUFFICES ASSUME TypeInv, MailInv, NEW r \in Rows
               PROVE  accepted[r] <= 1 + unrecorded[r] + refused[r]
    BY DEF MailsExplained
  <2>1. accepted[r] <= 1 + (unrecorded[r] + refused[r])
    BY DEF MailInv, MailsOf, Reasons
  <2>2. accepted[r] \in Nat /\ unrecorded[r] \in Nat /\ refused[r] \in Nat
    BY MailNumbers DEF TypeInv
  <2> QED
    BY <2>1, <2>2
<1> QED
  BY <1>1, MailCorrect, PTL

\* What the dispatcher and the worker write over "sent" has a reason.
THEOREM SentCorrect == Spec => SentStands
<1>1. TypeInv /\ MailInv /\ [Next]_vars =>
         [\A r \in Rows :
             status[r] = "sent" /\ status'[r] # "sent" =>
                \/ refused'[r] > refused[r]
                \/ refused[r] > 0
                \/ unrecorded[r] > 0]_vars
  <2> SUFFICES ASSUME TypeInv, MailInv, [Next]_vars, NEW r \in Rows,
                      status[r] = "sent", status'[r] # "sent"
               PROVE  refused'[r] > refused[r] \/ refused[r] > 0 \/ unrecorded[r] > 0
    OBVIOUS
  <2>0. TypeOK /\ VerdictKnown /\ MailsOf(r)
    BY DEF TypeInv, MailInv
  <2>1. accepted[r] \in Nat /\ unrecorded[r] \in Nat /\ refused[r] \in Nat
    BY <2>0, MailNumbers
  <2>2. ASSUME Writes(r) \/ Sending(r) PROVE refused[r] > 0 \/ unrecorded[r] > 0
    BY <2>0, <2>1, <2>2 DEF MailsOf, Reasons
  <2>3. ASSUME NEW S, NEW value \in Statuses, SetStatus(S, value) PROVE r \in S
    BY <2>0, <2>3, SetStatusLaw DEF TypeOK
  <2>4. CASE Recovered
    BY <2>2, <2>3, <2>4 DEF Recovered, Writes, Statuses
  <2>5. CASE Claimed
    <3>1. PICK q \in todo : IsFirst(q, todo) /\ SetStatus({q}, "processing")
      BY <2>5 DEF Claimed
    <3>2. r = q
      BY <2>3, <3>1 DEF Statuses
    <3> QED
      BY <2>2, <2>5, <3>1, <3>2 DEF Claimed, Writes
  <2>6. CASE PublishRaises
    <3>1. PICK q \in claimed : SetStatus({q}, "failed")
      BY <2>6 DEF PublishRaises
    <3>2. r = q
      BY <2>3, <3>1 DEF Statuses
    <3> QED
      BY <2>2, <3>2 DEF Writes
  <2>7. CASE Mark
    <3>1. PICK q \in Rows : Handled(q) /\ SetStatus({q}, verdict)
      BY <2>7 DEF Mark
    <3>2. verdict \in {"sent", "failed"}
      BY <2>0, <2>7 DEF Mark, VerdictKnown
    <3>3. r = q
      BY <2>3, <3>1, <3>2 DEF Statuses
    <3>4. status'[r] = verdict
      BY <2>0, <3>1, <3>2, <3>3, SetStatusLaw DEF TypeOK, Statuses
    <3> QED
      BY <2>2, <2>7, <3>1, <3>2, <3>3, <3>4 DEF Mark, Sending
  <2>8. CASE Enqueue
    <3>1. PICK q \in Rows : status[q] = "none" /\ SetStatus({q}, "pending")
      BY <2>8 DEF Enqueue, IsFirst
    <3>2. r = q
      BY <2>3, <3>1 DEF Statuses
    <3> QED
      BY <3>1, <3>2
  <2>9. CASE DeliveredEvent
    <3>1. PICK q \in Rows : SetStatus({q}, "sent")
      BY <2>9 DEF DeliveredEvent
    <3>2. status'[r] = IF r = q THEN "sent" ELSE status[r]
      BY <2>0, <3>1, SetStatusLaw DEF TypeOK, Statuses
    <3> QED
      BY <3>2
  <2>10. CASE FailureEvent
    <3>1. PICK q \in Rows :
             /\ SetStatus({q}, "failed")
             /\ refused' = IF status[q] = "sent" THEN Increment(refused, q) ELSE refused
      BY <2>10 DEF FailureEvent
    <3>2. r = q
      BY <2>3, <3>1 DEF Statuses
    <3>3. refused'[r] = refused[r] + 1
      <4>1. refused \in [Rows -> Nat]
        BY <2>0 DEF TypeOK
      <4> QED
        BY <3>1, <3>2, <4>1, IncrementLaw
    <3> QED
      BY <2>1, <3>3
  <2>11. ASSUME status' = status PROVE FALSE
    BY <2>11
  <2>12. CASE Recover \/ ListPending \/ Claim \/ Publish \/ Dispatched
    BY <2>11, <2>12 DEF Recover, ListPending, Claim, Publish, Dispatched, outboxVars
  <2>13. CASE Reclaim \/ Read \/ StartSend \/ Skip \/ ProviderAccepts \/ ProviderRejects
              \/ Log \/ Ack
    BY <2>11, <2>13 DEF Reclaim, Read, StartSend, Skip, ProviderAccepts, ProviderRejects,
                        Log, Ack, outboxVars
  <2>14. CASE ReclaimRaises \/ ReadRaises \/ HandlingRaises \/ Crash \/ Start \/ TimeStep
              \/ UNCHANGED vars
    BY <2>11, <2>14 DEF ReclaimRaises, ReadRaises, HandlingRaises, Crash, Start, TimeStep,
                        Ages, EntryIdles, vars, outboxVars
  <2> QED
    BY <2>4, <2>5, <2>6, <2>7, <2>8, <2>9, <2>10, <2>12, <2>13, <2>14
       DEF Next, DispatchStep, DeliveryStep, FaultStep
<1> QED
  BY <1>1, MailCorrect, PTL DEF Spec, SentStands

-----------------------------------------------------------------------------
(* What an acknowledgement means.                                           *)

\* The commit at hand gives the row back to the dispatcher.
Commits(r) ==
    \/ at = "recovering" /\ r \in todo
    \/ at = "claiming" /\ IsFirst(r, todo)

\* No entry about the row was acknowledged.
NoneAcked(r) == \A e \in 1..delivered : stream[e] = r => e \in pel

AckInv ==
    /\ AckedIsSettled
    /\ at \in {"log", "ack"} => \A r \in Rows : Handled(r) => Settled(r)
    /\ \A r \in Rows : Commits(r) => NoneAcked(r)

\* Only the dispatcher's commits take an outcome back.
LEMMA OutcomeStays ==
    ASSUME TypeInv, [Next]_vars, NEW r \in Rows, Settled(r), ~Settled(r)'
    PROVE  Commits(r)
<1>0. TypeOK /\ VerdictKnown
  BY DEF TypeInv
<1>1. ASSUME NEW S, NEW value \in {"sent", "failed"}, SetStatus(S, value) PROVE FALSE
  BY <1>0, <1>1, SetStatusLaw DEF TypeOK, Statuses, Settled
<1>2. ASSUME NEW S, NEW value \in Statuses, SetStatus(S, value) PROVE r \in S
  BY <1>0, <1>2, SetStatusLaw DEF TypeOK, Settled
<1>3. status' # status
  BY DEF Settled
<1>4. CASE Recovered
  BY <1>2, <1>4 DEF Recovered, Commits, Statuses
<1>5. CASE Claimed
  <2>1. PICK q \in todo : IsFirst(q, todo) /\ SetStatus({q}, "processing")
    BY <1>5 DEF Claimed
  <2>2. r = q
    BY <1>2, <2>1 DEF Statuses
  <2> QED
    BY <1>5, <2>1, <2>2 DEF Claimed, Commits
<1>6. CASE Enqueue
  <2>1. PICK q \in Rows : status[q] = "none" /\ SetStatus({q}, "pending")
    BY <1>6 DEF Enqueue, IsFirst
  <2>2. r = q
    BY <1>2, <2>1 DEF Statuses
  <2> QED
    BY <2>1, <2>2 DEF Settled
<1>7. CASE PublishRaises \/ DeliveredEvent \/ FailureEvent
  BY <1>1, <1>7 DEF PublishRaises, DeliveredEvent, FailureEvent
<1>8. CASE Mark
  <2>1. \E q \in Rows : SetStatus({q}, verdict)
    BY <1>8 DEF Mark
  <2>2. verdict \in {"sent", "failed"}
    BY <1>0, <1>8 DEF Mark, VerdictKnown
  <2> QED
    BY <1>1, <2>1, <2>2
<1>9. CASE Recover \/ ListPending \/ Claim \/ Publish \/ Dispatched
  BY <1>3, <1>9 DEF Recover, ListPending, Claim, Publish, Dispatched, outboxVars
<1>10. CASE Reclaim \/ Read \/ StartSend \/ Skip \/ ProviderAccepts \/ ProviderRejects
            \/ Log \/ Ack
  BY <1>3, <1>10 DEF Reclaim, Read, StartSend, Skip, ProviderAccepts, ProviderRejects,
                     Log, Ack, outboxVars
<1>11. CASE ReclaimRaises \/ ReadRaises \/ HandlingRaises \/ Crash \/ Start \/ TimeStep
            \/ UNCHANGED vars
  BY <1>3, <1>11 DEF ReclaimRaises, ReadRaises, HandlingRaises, Crash, Start, TimeStep,
                     Ages, EntryIdles, vars, outboxVars
<1> QED
  BY <1>4, <1>5, <1>6, <1>7, <1>8, <1>9, <1>10, <1>11
     DEF Next, DispatchStep, DeliveryStep, FaultStep

\* An entry that is acknowledged was so before, or is acknowledged by this step.
Acked(e) == e \in 1..delivered /\ e \notin pel

LEMMA AckedBefore ==
    ASSUME TypeInv, [Next]_vars, ~Ack, NEW e, Acked(e)'
    PROVE  Acked(e) /\ stream'[e] = stream[e]
<1>0. TypeOK
  BY DEF TypeInv
<1>1. CASE UNCHANGED <<stream, delivered, pel>>
  BY <1>1 DEF Acked
<1>2. ASSUME UNCHANGED <<delivered, pel>>, NEW r \in Rows,
             stream' \in {stream, Append(stream, r)}
      PROVE  Acked(e) /\ stream'[e] = stream[e]
  BY <1>0, <1>2, PublishedType DEF Acked
<1>3. ASSUME Deliver, stream' = stream PROVE Acked(e) /\ stream'[e] = stream[e]
  <2>1. /\ delivered' \in delivered..Len(stream)
        /\ NewEntries = (delivered + 1)..delivered'
    BY <1>0, <1>3, DeliverLaw
  <2>2. delivered \in Nat /\ Len(stream) \in Nat
    BY <1>0, LenProperties DEF TypeOK
  <2>3. e \in 1..delivered' /\ e \notin pel /\ e \notin NewEntries
    BY <1>3 DEF Acked, Deliver
  <2>4. e \in 1..delivered
    BY <2>1, <2>2, <2>3
  <2> QED
    BY <1>3, <2>3, <2>4 DEF Acked
<1>4. CASE Publish
  <2>1. \E r \in Rows : stream' = Append(stream, r)
    BY <1>0, <1>4 DEF Publish, TypeOK
  <2> QED
    BY <1>2, <1>4, <2>1 DEF Publish
<1>5. CASE PublishRaises
  <2>1. \E r \in Rows : stream' \in {stream, Append(stream, r)}
    BY <1>0, <1>5 DEF PublishRaises, TypeOK
  <2> QED
    BY <1>2, <1>5, <2>1 DEF PublishRaises
<1>6. CASE Read \/ ReadRaises
  BY <1>1, <1>3, <1>6 DEF Read, ReadRaises
<1>7. CASE Enqueue \/ Recover \/ Recovered \/ ListPending \/ Claim \/ Claimed \/ Dispatched
  BY <1>1, <1>7 DEF Enqueue, Recover, Recovered, ListPending, Claim, Claimed, Dispatched,
                    streamVars
<1>8. CASE Reclaim \/ StartSend \/ Skip \/ ProviderAccepts \/ ProviderRejects \/ Mark \/ Log
  BY <1>1, <1>8 DEF Reclaim, StartSend, Skip, ProviderAccepts, ProviderRejects, Mark, Log,
                    streamVars
<1>9. CASE ReclaimRaises \/ HandlingRaises \/ Crash \/ Start \/ TimeStep
           \/ DeliveredEvent \/ FailureEvent \/ UNCHANGED vars
  BY <1>1, <1>9 DEF ReclaimRaises, HandlingRaises, Crash, Start, TimeStep, Ages, EntryIdles,
                    DeliveredEvent, FailureEvent, vars, streamVars
<1> QED
  BY <1>4, <1>5, <1>6, <1>7, <1>8, <1>9 DEF Next, DispatchStep, DeliveryStep, FaultStep

\* A commit is prepared for a row that has no outcome.
LEMMA CommitsPrepared ==
    ASSUME TypeInv, [Next]_vars, NEW r \in Rows, Commits(r)'
    PROVE  ~Ack /\ (Commits(r) \/ ~Settled(r))
<1>0. TypeOK /\ then \in {"read", "recover"}
  BY DEF TypeInv, TypeOK
<1>1. at' \in {"recovering", "claiming"}
  BY DEF Commits
<1>2. CASE Recover
  BY <1>2 DEF Recover, Ack, Commits, StaleRows, Settled
<1>3. CASE Claim
  <2>1. PICK q \in todo : /\ IsFirst(q, todo)
                          /\ at' = "claiming" => status[q] = "pending" /\ todo' = todo
    BY <1>3 DEF Claim
  <2>2. at' = "claiming" /\ IsFirst(r, todo)'
    BY <1>3 DEF Claim, Commits
  <2>3. todo \subseteq Int /\ IsFirst(r, todo)
    BY <1>0, <2>1, <2>2 DEF TypeOK, Rows, IsFirst
  <2>4. r = q
    BY <2>1, <2>3, FirstUnique
  <2> QED
    BY <1>3, <2>1, <2>2, <2>4 DEF Claim, Ack, Settled
<1>4. CASE Enqueue \/ TimeStep \/ DeliveredEvent \/ FailureEvent \/ UNCHANGED vars
  <2>1. UNCHANGED <<at, todo>>
    BY <1>4 DEF Enqueue, TimeStep, Ages, EntryIdles, DeliveredEvent, FailureEvent, vars,
                dispatchVars
  <2>2. at # "ack"
    BY <1>1, <2>1
  <2> QED
    BY <2>1, <2>2 DEF Commits, IsFirst, Ack
<1>5. CASE Recovered \/ ListPending \/ Claimed \/ Publish \/ Dispatched \/ Start
  BY <1>1, <1>5 DEF Recovered, ListPending, Claimed, Publish, Dispatched, Start
<1>6. CASE DeliveryStep
  BY <1>0, <1>1, <1>6 DEF DeliveryStep, Reclaim, Read, StartSend, Skip, ProviderAccepts,
                          ProviderRejects, Mark, Log, Ack, Turn
<1>7. CASE FaultStep
  BY <1>0, <1>1, <1>7 DEF FaultStep, PublishRaises, ReclaimRaises, ReadRaises,
                          HandlingRaises, Crash, Turn
<1> QED
  BY <1>2, <1>3, <1>4, <1>5, <1>6, <1>7 DEF Next, DispatchStep

\* The worker acknowledges after it has recorded an outcome, or found "sent".
LEMMA HandledSettled ==
    ASSUME TypeInv, AckInv, [Next]_vars, at' \in {"log", "ack"}, NEW r \in Rows, Handled(r)'
    PROVE  Settled(r)'
<1>0. TypeOK /\ VerdictKnown /\ then \in {"read", "recover"}
  BY DEF TypeInv, TypeOK
<1>1. ASSUME UNCHANGED <<work, stream>> PROVE Handled(r)
  BY <1>1 DEF Handled, InHand, IsFirst
<1>2. CASE Skip
  <2>1. PICK q \in Rows : Handled(q) /\ status[q] = "sent"
    BY <1>2 DEF Skip
  <2>2. Handled(r)
    BY <1>1, <1>2 DEF Skip, streamVars, deliveryVars
  <2>3. q = r
    BY <1>0, <2>1, <2>2, HandledUnique
  <2> QED
    BY <1>2, <2>1, <2>3 DEF Skip, Settled, outboxVars
<1>3. CASE Mark
  <2>1. PICK q \in Rows : Handled(q) /\ SetStatus({q}, verdict)
    BY <1>3 DEF Mark
  <2>2. Handled(r)
    BY <1>1, <1>3 DEF Mark, streamVars, deliveryVars
  <2>3. q = r
    BY <1>0, <2>1, <2>2, HandledUnique
  <2>4. verdict \in {"sent", "failed"}
    BY <1>0, <1>3 DEF Mark, VerdictKnown
  <2>5. status'[r] = verdict
    BY <1>0, <2>1, <2>3, <2>4, SetStatusLaw DEF TypeOK, Statuses
  <2> QED
    BY <2>4, <2>5 DEF Settled
<1>4. CASE Log
  <2>1. Handled(r)
    BY <1>1, <1>4 DEF Log, streamVars, deliveryVars
  <2>2. Settled(r)
    BY <1>4, <2>1 DEF Log, AckInv
  <2> QED
    BY <1>4, <2>2 DEF Log, Settled, outboxVars
<1>5. CASE Enqueue \/ TimeStep \/ DeliveredEvent \/ FailureEvent \/ UNCHANGED vars
  <2>1. UNCHANGED <<at, work, stream>>
    BY <1>5 DEF Enqueue, TimeStep, Ages, EntryIdles, DeliveredEvent, FailureEvent, vars,
                streamVars, deliveryVars
  <2>2. Settled(r)
    BY <1>1, <2>1 DEF AckInv
  <2>3. ~Commits(r)
    BY <2>1 DEF Commits
  <2> QED
    BY <2>2, <2>3, OutcomeStays
<1>6. CASE DispatchStep \/ Start
  BY <1>6 DEF DispatchStep, Recover, Recovered, ListPending, Claim, Claimed, Publish,
              Dispatched, Start
<1>7. CASE Reclaim \/ Read \/ StartSend \/ ProviderAccepts \/ ProviderRejects \/ Ack
  BY <1>0, <1>7 DEF Reclaim, Read, StartSend, ProviderAccepts, ProviderRejects, Ack, Turn
<1>8. CASE FaultStep
  BY <1>0, <1>8 DEF FaultStep, PublishRaises, ReclaimRaises, ReadRaises, HandlingRaises,
                    Crash, Turn
<1> QED
  BY <1>2, <1>3, <1>4, <1>5, <1>6, <1>7, <1>8 DEF Next, DeliveryStep

LEMMA AckStep == TypeInv /\ AckInv /\ [Next]_vars => AckInv'
<1> SUFFICES ASSUME TypeInv, AckInv, [Next]_vars
             PROVE  AckInv'
  OBVIOUS
<1>0. TypeOK
  BY DEF TypeInv
<1>1. ASSUME NEW e, Acked(e) PROVE stream[e] \in Rows /\ Settled(stream[e])
  <2>1. e \in 1..Len(stream)
    BY <1>0, <1>1, LenProperties DEF TypeOK, Acked
  <2>2. stream[e] \in Rows
    BY <1>0, <2>1, ElementOfSeq DEF TypeOK
  <2> QED
    BY <1>1, <2>2 DEF AckInv, AckedIsSettled, Acked
<1>2. ASSUME NEW e, Acked(e)' PROVE Settled(stream[e])'
  <2>1. CASE Ack
    <3>1. PICK f \in work : InHand(f) /\ pel' = pel \ {f}
      BY <2>1 DEF Ack
    <3>2. UNCHANGED <<status, stream, delivered>>
      BY <2>1 DEF Ack, outboxVars
    <3>3. Acked(e) \/ e = f
      BY <1>2, <3>1, <3>2 DEF Acked
    <3>4. ASSUME e = f PROVE Settled(stream[e])
      <4>1. f \in pel
        BY <1>0, <3>1 DEF TypeOK
      <4>2. stream[f] \in Rows /\ Handled(stream[f])
        BY <1>0, <3>1, <4>1, EntryRow DEF Handled
      <4> QED
        BY <2>1, <3>4, <4>2 DEF Ack, AckInv
    <3> QED
      BY <1>1, <3>2, <3>3, <3>4 DEF Settled
  <2>2. CASE ~Ack
    <3>1. Acked(e) /\ stream'[e] = stream[e]
      BY <1>2, <2>2, AckedBefore
    <3>2. stream[e] \in Rows /\ Settled(stream[e])
      BY <1>1, <3>1
    <3>3. ~Commits(stream[e])
      BY <3>1, <3>2 DEF AckInv, NoneAcked, Acked
    <3>4. status'[stream[e]] \in {"sent", "failed"}
      BY <3>2, <3>3, OutcomeStays DEF Settled
    <3> QED
      BY <3>1, <3>4 DEF Settled
  <2> QED
    BY <2>1, <2>2
<1>3. AckedIsSettled'
  BY <1>2 DEF AckedIsSettled, Acked
<1>4. ASSUME NEW r \in Rows, Commits(r)' PROVE NoneAcked(r)'
  <2>1. ~Ack /\ (Commits(r) \/ ~Settled(r))
    BY <1>4, CommitsPrepared
  <2>2. NoneAcked(r)
    BY <1>1, <2>1 DEF AckInv, NoneAcked, Acked
  <2>3. ASSUME NEW e, Acked(e)', stream'[e] = r PROVE FALSE
    <3>1. Acked(e) /\ stream[e] = r
      BY <2>1, <2>3, AckedBefore
    <3> QED
      BY <2>2, <3>1 DEF NoneAcked, Acked
  <2> QED
    BY <2>3 DEF NoneAcked, Acked
<1> QED
  BY <1>3, <1>4, HandledSettled DEF AckInv

LEMMA AckInit == Init => AckInv
<1> SUFFICES ASSUME Init PROVE AckInv
  OBVIOUS
<1>1. 1..delivered = {}
  BY DEF Init
<1> QED
  BY <1>1 DEF Init, AckInv, AckedIsSettled, Commits, NoneAcked

\* An acknowledged entry has an outcome in the outbox.
THEOREM AckedCorrect == Spec => []AckedIsSettled
<1>1. AckInv => AckedIsSettled
  BY DEF AckInv
<1> QED
  BY <1>1, TypeInit, TypeStep, AckInit, AckStep, PTL DEF Spec

-----------------------------------------------------------------------------
(* The numbers of attempts.                                                 *)

\* The entries of a log are below a number, those of failed attempts strictly.
Below(log, n) ==
    \A i \in DOMAIN log : /\ log[i].attempt_no <= n
                          /\ log[i].result = "failed" => log[i].attempt_no < n

InOrder(log) ==
    \A i, j \in DOMAIN log :
        i < j => /\ log[i].attempt_no <= log[j].attempt_no
                 /\ log[i].result = "failed" => log[i].attempt_no < log[j].attempt_no

\* The next attempt has a number of its own; the one in hand is the next, or is
\* counted already if it failed.
AttemptsOf(r) ==
    /\ InOrder(logs[r])
    /\ Below(logs[r], retry_count[r] + 1)
    /\ at \in {"send", "mark"} /\ Handled(r) => attempt = retry_count[r] + 1
    /\ at = "log" /\ Handled(r) =>
          /\ Below(logs[r], attempt)
          /\ attempt <= retry_count[r] + 1
          /\ verdict = "failed" => attempt <= retry_count[r]

AttemptInv == \A r \in Rows : AttemptsOf(r)

\* A log stays below a larger number.
LEMMA BelowMore ==
    ASSUME NEW log \in Seq(LogEntry), NEW n \in Nat, NEW k \in Nat, n <= k, Below(log, n)
    PROVE  Below(log, k)
<1> SUFFICES ASSUME NEW i \in DOMAIN log
             PROVE  /\ log[i].attempt_no <= k
                    /\ log[i].result = "failed" => log[i].attempt_no < k
  BY DEF Below
<1>1. log[i].attempt_no \in Nat
  <2>1. i \in 1..Len(log)
    BY LenProperties
  <2>2. log[i] \in LogEntry
    BY <2>1, ElementOfSeq
  <2> QED
    BY <2>2 DEF LogEntry
<1>2. /\ log[i].attempt_no <= n
      /\ log[i].result = "failed" => log[i].attempt_no < n
  BY DEF Below
<1> QED
  BY <1>1, <1>2

\* A log that is below its next entry stays in order.
LEMMA LogGrows ==
    ASSUME NEW log \in Seq(LogEntry), NEW entry \in LogEntry,
           InOrder(log), Below(log, entry.attempt_no)
    PROVE  /\ InOrder(Append(log, entry))
           /\ \A n \in Nat : /\ Below(log, n)
                             /\ entry.attempt_no <= n
                             /\ entry.result = "failed" => entry.attempt_no < n
                             => Below(Append(log, entry), n)
<1> DEFINE more == Append(log, entry)
<1>1. /\ Len(log) \in Nat /\ DOMAIN log = 1..Len(log)
      /\ DOMAIN more = 1..(Len(log) + 1)
      /\ \A i \in 1..Len(log) : more[i] = log[i]
      /\ more[Len(log) + 1] = entry
  BY AppendProperties, LenProperties
<1> HIDE DEF more
<1>2. \A i \in DOMAIN more : i \in DOMAIN log \/ i = Len(log) + 1
  BY <1>1
<1>3. InOrder(more)
  <2> SUFFICES ASSUME NEW i \in DOMAIN more, NEW j \in DOMAIN more, i < j
               PROVE  /\ more[i].attempt_no <= more[j].attempt_no
                      /\ more[i].result = "failed" =>
                            more[i].attempt_no < more[j].attempt_no
    BY DEF InOrder
  <2>1. i \in DOMAIN log
    BY <1>1, <1>2
  <2>2. CASE j \in DOMAIN log
    BY <1>1, <2>1, <2>2 DEF InOrder
  <2>3. CASE j = Len(log) + 1
    BY <1>1, <2>1, <2>3 DEF Below
  <2> QED
    BY <1>2, <2>2, <2>3
<1>4. ASSUME NEW n \in Nat, Below(log, n), entry.attempt_no <= n,
             entry.result = "failed" => entry.attempt_no < n
      PROVE  Below(more, n)
  <2>1. ASSUME NEW i \in DOMAIN log
        PROVE  /\ more[i].attempt_no <= n
               /\ more[i].result = "failed" => more[i].attempt_no < n
    BY <1>1, <1>4, <2>1 DEF Below
  <2> QED
    BY <1>1, <1>2, <1>4, <2>1 DEF Below
<1> QED
  BY <1>3, <1>4 DEF more

\* A step that leaves the log, and the count or raises it.
LEMMA AttemptsKept ==
    ASSUME TypeOK, NEW r \in Rows, AttemptsOf(r), logs' = logs,
           retry_count'[r] \in Nat, retry_count'[r] >= retry_count[r],
           at' \notin {"send", "mark", "log"}
    PROVE  AttemptsOf(r)'
<1>1. logs[r] \in Seq(LogEntry) /\ retry_count[r] \in Nat
  BY DEF TypeOK
<1>2. Below(logs[r], retry_count'[r] + 1)
  <2>1. Below(logs[r], retry_count[r] + 1)
    BY DEF AttemptsOf
  <2>2. retry_count[r] + 1 \in Nat /\ retry_count'[r] + 1 \in Nat
        /\ retry_count[r] + 1 <= retry_count'[r] + 1
    BY <1>1
  <2> QED
    BY <1>1, <2>1, <2>2, BelowMore
<1> QED
  BY <1>2 DEF AttemptsOf

\* A step that leaves the delivery in hand.
LEMMA AttemptsStay ==
    ASSUME NEW r \in Rows, AttemptsOf(r),
           UNCHANGED <<logs, retry_count, at, work, stream, attempt, verdict>>
    PROVE  AttemptsOf(r)'
<1>1. Handled(r)' <=> Handled(r)
  BY DEF Handled, InHand, IsFirst
<1> QED
  BY <1>1 DEF AttemptsOf

LEMMA AttemptStep == TypeInv /\ AttemptInv /\ [Next]_vars => AttemptInv'
<1> SUFFICES ASSUME TypeInv, AttemptInv, [Next]_vars, NEW r \in Rows
             PROVE  AttemptsOf(r)'
  BY DEF AttemptInv
<1>0. TypeOK /\ VerdictKnown /\ AttemptsOf(r) /\ then \in {"read", "recover"}
  BY DEF TypeInv, TypeOK, AttemptInv
<1>1. /\ logs[r] \in Seq(LogEntry) /\ retry_count[r] \in Nat /\ attempt \in Nat
      /\ retry_count \in [Rows -> Nat] /\ logs \in [Rows -> Seq(LogEntry)]
  BY <1>0 DEF TypeOK
<1>2. ASSUME UNCHANGED <<logs, retry_count>>, at' \notin {"send", "mark", "log"}
      PROVE  AttemptsOf(r)'
  BY <1>0, <1>1, <1>2, AttemptsKept
<1>3. ASSUME UNCHANGED <<work, stream>> PROVE Handled(r)' <=> Handled(r)
  BY <1>3 DEF Handled, InHand, IsFirst
<1>4. CASE Enqueue \/ TimeStep \/ DeliveredEvent \/ FailureEvent \/ UNCHANGED vars
  <2>1. UNCHANGED <<logs, retry_count, at, work, stream, attempt, verdict>>
    BY <1>4 DEF Enqueue, TimeStep, Ages, EntryIdles, DeliveredEvent, FailureEvent, vars,
                outboxVars, streamVars, deliveryVars
  <2> QED
    BY <1>0, <2>1, AttemptsStay
<1>5. CASE DispatchStep \/ Start
  <2>1. UNCHANGED <<logs, retry_count>>
    BY <1>5 DEF DispatchStep, Recover, Recovered, ListPending, Claim, Claimed, Publish,
                Dispatched, Start, outboxVars
  <2>2. at' \notin {"send", "mark", "log"}
    BY <1>5 DEF DispatchStep, Recover, Recovered, ListPending, Claim, Claimed, Publish,
                Dispatched, Start
  <2> QED
    BY <1>2, <2>1, <2>2
<1>6. CASE Reclaim \/ Read \/ Skip \/ Ack
  <2>1. UNCHANGED <<logs, retry_count>>
    BY <1>6 DEF Reclaim, Read, Skip, Ack, outboxVars
  <2>2. at' \notin {"send", "mark", "log"}
    BY <1>0, <1>6 DEF Reclaim, Read, Skip, Ack, Turn
  <2> QED
    BY <1>2, <2>1, <2>2
<1>7. CASE StartSend
  <2>1. PICK q \in Rows : Handled(q) /\ attempt' = retry_count[q] + 1
    BY <1>7 DEF StartSend
  <2>2. UNCHANGED <<logs, retry_count, work, stream>> /\ at' = "send"
    BY <1>7 DEF StartSend, outboxVars, streamVars
  <2>3. Handled(r)' => q = r
    BY <1>0, <1>3, <2>1, <2>2, HandledUnique
  <2> QED
    BY <1>0, <2>1, <2>2, <2>3 DEF AttemptsOf
<1>8. CASE ProviderAccepts \/ ProviderRejects
  <2>1. /\ UNCHANGED <<logs, retry_count, work, stream, attempt>>
        /\ at = "send" /\ at' = "mark"
    BY <1>8 DEF ProviderAccepts, ProviderRejects, outboxVars, streamVars
  <2>2. Handled(r)' <=> Handled(r)
    BY <1>3, <2>1
  <2> QED
    BY <1>0, <2>1, <2>2 DEF AttemptsOf
<1>9. CASE Mark
  <2>1. PICK q \in Rows :
           /\ Handled(q)
           /\ retry_count' = IF verdict = "failed" THEN Increment(retry_count, q)
                                                   ELSE retry_count
    BY <1>9 DEF Mark
  <2>2. UNCHANGED <<logs, work, stream, attempt, verdict>> /\ at = "mark" /\ at' = "log"
    BY <1>9 DEF Mark, streamVars, deliveryVars
  <2>3. retry_count'[r] = IF verdict = "failed" /\ r = q THEN retry_count[r] + 1
                                                         ELSE retry_count[r]
    BY <1>1, <2>1, IncrementLaw
  <2>4. retry_count'[r] \in Nat /\ retry_count'[r] >= retry_count[r]
    BY <1>1, <2>3
  <2>5. Handled(r)' <=> Handled(r)
    BY <1>3, <2>2
  <2>6. InOrder(logs[r]) /\ Below(logs[r], retry_count[r] + 1)
    BY <1>0 DEF AttemptsOf
  <2>7. Below(logs[r], retry_count'[r] + 1)
    <3>1. retry_count[r] + 1 \in Nat /\ retry_count'[r] + 1 \in Nat
          /\ retry_count[r] + 1 <= retry_count'[r] + 1
      BY <1>1, <2>4
    <3> QED
      BY <1>1, <2>6, <3>1, BelowMore
  <2>8. ASSUME Handled(r)
        PROVE  /\ Below(logs[r], attempt)
               /\ attempt <= retry_count'[r] + 1
               /\ verdict = "failed" => attempt <= retry_count'[r]
    <3>1. attempt = retry_count[r] + 1
      BY <1>0, <2>2, <2>8 DEF AttemptsOf
    <3>2. r = q
      BY <1>0, <2>1, <2>8, HandledUnique
    <3> QED
      BY <1>1, <2>3, <2>6, <3>1, <3>2
  <2> QED
    BY <2>2, <2>5, <2>6, <2>7, <2>8 DEF AttemptsOf
<1>10. CASE Log
  <2> DEFINE entry == [result |-> verdict, attempt_no |-> attempt]
  <2>1. PICK q \in Rows : Handled(q) /\ logs' = [logs EXCEPT ![q] = Append(@, entry)]
    BY <1>10 DEF Log
  <2>2. retry_count' = retry_count /\ at = "log" /\ at' = "ack"
    BY <1>10 DEF Log, outboxVars
  <2>3. CASE r = q
    <3>1. logs'[r] = Append(logs[r], entry)
      BY <1>1, <2>1, <2>3
    <3>2. entry \in LogEntry /\ entry.attempt_no = attempt /\ entry.result = verdict
      BY <1>0, <1>1, <2>2 DEF VerdictKnown, LogEntry
    <3>3. /\ Below(logs[r], attempt) /\ attempt <= retry_count[r] + 1
          /\ verdict = "failed" => attempt <= retry_count[r]
          /\ InOrder(logs[r]) /\ Below(logs[r], retry_count[r] + 1)
      BY <1>0, <2>1, <2>2, <2>3 DEF AttemptsOf
    <3> HIDE DEF entry
    <3>4. InOrder(logs'[r])
      BY <1>1, <3>1, <3>2, <3>3, LogGrows
    <3>5. Below(logs'[r], retry_count[r] + 1)
      <4>1. retry_count[r] + 1 \in Nat
            /\ (entry.result = "failed" => entry.attempt_no < retry_count[r] + 1)
        BY <1>1, <3>2, <3>3
      <4>2. entry.attempt_no <= retry_count[r] + 1
        BY <3>2, <3>3
      <4>3. Below(logs[r], entry.attempt_no)
        BY <3>2, <3>3
      <4>4. \A n \in Nat : /\ Below(logs[r], n)
                           /\ entry.attempt_no <= n
                           /\ entry.result = "failed" => entry.attempt_no < n
                           => Below(Append(logs[r], entry), n)
        BY <1>1, <3>2, <3>3, <4>3, LogGrows
      <4>5. Below(Append(logs[r], entry), retry_count[r] + 1)
        BY <3>3, <4>1, <4>2, <4>4
      <4> QED
        BY <3>1, <4>5
    <3> QED
      BY <2>2, <3>4, <3>5 DEF AttemptsOf
  <2>4. CASE r # q
    <3>1. logs'[r] = logs[r]
      BY <1>1, <2>1, <2>4
    <3> QED
      BY <1>0, <2>2, <3>1 DEF AttemptsOf
  <2> QED
    BY <2>3, <2>4
<1>11. CASE PublishRaises
  <2>1. PICK q \in claimed : retry_count' = Increment(retry_count, q)
    BY <1>11 DEF PublishRaises
  <2>2. q \in Rows
    BY <1>0 DEF TypeOK
  <2>3. retry_count'[r] \in Nat /\ retry_count'[r] >= retry_count[r]
    <3>1. Increment(retry_count, q)[r] \in Nat
          /\ Increment(retry_count, q)[r] >= retry_count[r]
      BY <1>1, <2>2 DEF Increment
    <3> QED
      BY <2>1, <3>1
  <2>4. logs' = logs /\ at' \notin {"send", "mark", "log"}
    BY <1>11 DEF PublishRaises
  <2> QED
    BY <1>0, <2>3, <2>4, AttemptsKept
<1>12. CASE ReclaimRaises \/ ReadRaises \/ HandlingRaises \/ Crash
  <2>1. UNCHANGED <<logs, retry_count>>
    BY <1>12 DEF ReclaimRaises, ReadRaises, HandlingRaises, Crash, outboxVars
  <2>2. at' \notin {"send", "mark", "log"}
    BY <1>0, <1>12 DEF ReclaimRaises, ReadRaises, HandlingRaises, Crash, Turn
  <2> QED
    BY <1>2, <2>1, <2>2
<1> QED
  BY <1>4, <1>5, <1>6, <1>7, <1>8, <1>9, <1>10, <1>11, <1>12
     DEF Next, DeliveryStep, FaultStep

LEMMA AttemptInit == Init => AttemptInv
<1> SUFFICES ASSUME Init, NEW r \in Rows PROVE AttemptsOf(r)
  BY DEF AttemptInv
<1>1. logs[r] = <<>> /\ at = "down"
  BY DEF Init
<1>2. DOMAIN logs[r] = {}
  BY <1>1
<1> QED
  BY <1>1, <1>2 DEF AttemptsOf, InOrder, Below

\* The numbers of a row's attempts are in order, and a failed one's is its own.
THEOREM AttemptsCorrect == Spec => []AttemptsInOrder
<1>1. AttemptInv => AttemptsInOrder
  BY DEF AttemptInv, AttemptsOf, AttemptsInOrder, InOrder
<1> QED
  BY <1>1, TypeInit, TypeStep, AttemptInit, AttemptStep, PTL DEF Spec
=============================================================================
