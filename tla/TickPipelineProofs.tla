------------------------- MODULE TickPipelineProofs -------------------------
(***************************************************************************)
(* Theorems of TickPipeline, for every value of its constants: every       *)
(* variable keeps its type, one process hands the sink bars of strictly    *)
(* increasing minutes, Redis is never behind the database, the bars and    *)
(* the day fields are those of the ticks, a bar is archived as the summary *)
(* of its minute, and the queue, pending batch and worker thread together  *)
(* keep the write-behind promise.                                          *)
(***************************************************************************)
EXTENDS TickPipeline, DataLemmas

(***************************************************************************)
(* The database sink, for any set of items with a key in "at": what its    *)
(* steps do to its type invariant and to SinkConsistent.  The proofs of    *)
(* the pipeline cite one lemma for each group of sink steps.               *)
(***************************************************************************)
----------------------------------------------------------------------------
(* Batches and rows.                                                        *)

\* A drain takes at most a batch, and the rest stays in the queue.
LEMMA DrainType ==
    ASSUME NEW Item, queue \in Seq(Item)
    PROVE  /\ DrainSize \in 0..BatchSize /\ DrainSize <= Len(queue)
           /\ SubSeq(queue, 1, DrainSize) \in Seq(Item)
           /\ Len(SubSeq(queue, 1, DrainSize)) = DrainSize
           /\ SubSeq(queue, DrainSize + 1, Len(queue)) \in Seq(Item)
           /\ Len(SubSeq(queue, DrainSize + 1, Len(queue))) = Len(queue) - DrainSize
           /\ queue # <<>> => DrainSize >= 1
           /\ \A i \in 1..DrainSize : SubSeq(queue, 1, DrainSize)[i] = queue[i]
           /\ \A i \in 1..(Len(queue) - DrainSize) :
                 SubSeq(queue, DrainSize + 1, Len(queue))[i] = queue[DrainSize + i]
<1>1. Len(queue) \in Nat /\ \A i \in 1..Len(queue) : queue[i] \in Item
  BY LenProperties, ElementOfSeq
<1>2. DrainSize \in 0..BatchSize /\ DrainSize <= Len(queue)
  BY <1>1, SinkAssumption DEF DrainSize
<1>3. queue # <<>> => Len(queue) >= 1
  BY <1>1, EmptySeq
<1>4. queue # <<>> => DrainSize >= 1
  BY <1>1, <1>3, SinkAssumption DEF DrainSize
<1>5. /\ SubSeq(queue, 1, DrainSize) \in Seq(Item)
      /\ Len(SubSeq(queue, 1, DrainSize)) = IF 1 <= DrainSize THEN DrainSize - 1 + 1 ELSE 0
      /\ \A i \in 1..(DrainSize - 1 + 1) : SubSeq(queue, 1, DrainSize)[i] = queue[1 + i - 1]
  <2>1. \A i \in 1..DrainSize : queue[i] \in Item
    BY <1>1, <1>2
  <2>2. DrainSize \in Int /\ 1 \in Int
    BY <1>2
  <2> QED
    BY <2>1, <2>2, SubSeqProperties
<1>6. LET rest == SubSeq(queue, DrainSize + 1, Len(queue))
      IN  /\ rest \in Seq(Item)
          /\ Len(rest) = IF DrainSize + 1 <= Len(queue)
                         THEN Len(queue) - (DrainSize + 1) + 1 ELSE 0
          /\ \A i \in 1..(Len(queue) - (DrainSize + 1) + 1) :
                rest[i] = queue[(DrainSize + 1) + i - 1]
  <2>1. \A i \in (DrainSize + 1)..Len(queue) : queue[i] \in Item
    BY <1>1, <1>2
  <2>2. DrainSize + 1 \in Int /\ Len(queue) \in Int
    BY <1>1, <1>2
  <2> QED
    BY <2>1, <2>2, SubSeqProperties
<1>7. /\ Len(SubSeq(queue, 1, DrainSize)) = DrainSize
      /\ \A i \in 1..DrainSize : SubSeq(queue, 1, DrainSize)[i] = queue[i]
  BY <1>2, <1>5
<1>8. /\ Len(SubSeq(queue, DrainSize + 1, Len(queue))) = Len(queue) - DrainSize
      /\ \A i \in 1..(Len(queue) - DrainSize) :
            SubSeq(queue, DrainSize + 1, Len(queue))[i] = queue[DrainSize + i]
  BY <1>1, <1>2, <1>6
<1> QED
  BY <1>2, <1>4, <1>5, <1>6, <1>7, <1>8

\* A drain splits the queue's items between the batch and the rest.
LEMMA DrainRange ==
    ASSUME NEW Item, queue \in Seq(Item)
    PROVE  Range(SubSeq(queue, 1, DrainSize))
              \cup Range(SubSeq(queue, DrainSize + 1, Len(queue))) = Range(queue)
<1>1. Len(queue) \in Nat /\ DrainSize \in Nat /\ DrainSize <= Len(queue)
  BY LenProperties, DrainType
<1> DEFINE batch == SubSeq(queue, 1, DrainSize)
           rest == SubSeq(queue, DrainSize + 1, Len(queue))
<1>2. batch \in Seq(Item) /\ rest \in Seq(Item)
  BY DrainType
<1>3. Len(batch) = DrainSize /\ Len(rest) = Len(queue) - DrainSize
  BY DrainType
<1>4. \A i \in 1..DrainSize : batch[i] = queue[i]
  BY DrainType
<1>5. \A i \in 1..(Len(queue) - DrainSize) : rest[i] = queue[DrainSize + i]
  BY DrainType
<1>6. /\ Range(batch) = {batch[i] : i \in 1..DrainSize}
      /\ Range(rest) = {rest[i] : i \in 1..(Len(queue) - DrainSize)}
      /\ Range(queue) = {queue[i] : i \in 1..Len(queue)}
  BY <1>2, <1>3, RangeEquality
<1> HIDE DEF batch, rest
<1>7. ASSUME NEW k \in 1..Len(queue)
      PROVE  queue[k] \in Range(batch) \cup Range(rest)
  <2>1. CASE k <= DrainSize
    <3>1. k \in 1..DrainSize
      BY <1>1, <2>1
    <3> QED
      BY <3>1, <1>4, <1>6
  <2>2. CASE k > DrainSize
    <3>1. k - DrainSize \in 1..(Len(queue) - DrainSize) /\ DrainSize + (k - DrainSize) = k
      BY <1>1, <2>2
    <3> QED
      BY <3>1, <1>5, <1>6
  <2> QED
    BY <1>1, <2>1, <2>2
<1>8. ASSUME NEW i \in 1..DrainSize PROVE batch[i] \in Range(queue)
  <2>1. i \in 1..Len(queue)
    BY <1>1
  <2> QED
    BY <2>1, <1>4, <1>6
<1>9. ASSUME NEW i \in 1..(Len(queue) - DrainSize) PROVE rest[i] \in Range(queue)
  <2>1. DrainSize + i \in 1..Len(queue)
    BY <1>1
  <2> QED
    BY <2>1, <1>5, <1>6
<1> QED
  BY <1>6, <1>7, <1>8, <1>9 DEF batch, rest

\* New rows are items of the batch.
LEMMA NewRowsInBatch ==
    ASSUME NEW Item, NEW batch \in Seq(Item), NEW n \in 0..Len(batch)
    PROVE  NewRows(batch, n) \subseteq Range(batch) /\ NewRows(batch, n) \subseteq Item
<1>1. Len(batch) \in Nat /\ 1..n \subseteq 1..Len(batch)
  BY LenProperties
<1>2. Range(batch) = {batch[i] : i \in 1..Len(batch)} /\ Range(batch) \subseteq Item
  BY RangeEquality, RangeOfSeq
<1> QED
  BY <1>1, <1>2 DEF NewRows

\* Inserting a batch, or a first part of it, keeps one row for each key.
LEMMA NewRowsUnique ==
    ASSUME NEW Item, NEW batch \in Seq(Item), NEW n \in 0..Len(batch),
           \A x, y \in rows : x.at = y.at => x = y
    PROVE  \A x, y \in rows \cup NewRows(batch, n) : x.at = y.at => x = y
<1>1. Len(batch) \in Nat /\ n \in Nat
  BY LenProperties
<1>2. ASSUME NEW x \in rows, NEW y \in NewRows(batch, n) PROVE x.at # y.at
  BY <1>2 DEF NewRows, RowKeys
<1>3. ASSUME NEW x \in NewRows(batch, n), NEW y \in NewRows(batch, n), x.at = y.at
      PROVE  x = y
  <2>1. PICK i \in 1..n : /\ x = batch[i]
                          /\ \A k \in 1..(i - 1) : batch[k].at # batch[i].at
    BY DEF NewRows
  <2>2. PICK j \in 1..n : /\ y = batch[j]
                          /\ \A k \in 1..(j - 1) : batch[k].at # batch[j].at
    BY DEF NewRows
  <2>3. ~(i < j) /\ ~(j < i)
    <3>1. i < j => i \in 1..(j - 1)
      BY <1>1
    <3>2. j < i => j \in 1..(i - 1)
      BY <1>1
    <3> QED
      BY <3>1, <3>2, <2>1, <2>2, <1>3
  <2>4. i = j
    BY <2>3, <1>1
  <2> QED
    BY <2>1, <2>2, <2>4
<1> QED
  BY <1>2, <1>3

\* A batch of distinct keys that is inserted as a whole leaves every key a row.
LEMMA NewRowsCover ==
    ASSUME NEW Item, NEW batch \in Seq(Item), InOrder(batch),
           \A x \in Item : x.at \in Nat,
           NEW i \in DOMAIN batch
    PROVE  \E r \in rows \cup NewRows(batch, Len(batch)) : r.at = batch[i].at
<1>1. Len(batch) \in Nat /\ DOMAIN batch = 1..Len(batch)
  BY LenProperties
<1>2. CASE batch[i].at \in RowKeys
  BY <1>2 DEF RowKeys
<1>3. CASE batch[i].at \notin RowKeys
  <2>1. ASSUME NEW k \in 1..(i - 1) PROVE batch[k].at # batch[i].at
    <3>1. k \in DOMAIN batch /\ k < i
      BY <1>1
    <3>2. batch[k] \in Item /\ batch[i] \in Item
      BY <3>1, <1>1, ElementOfSeq
    <3>3. batch[k].at < batch[i].at /\ batch[k].at \in Nat /\ batch[i].at \in Nat
      BY <3>1, <3>2 DEF InOrder
    <3> QED
      BY <3>3
  <2>2. batch[i] \in NewRows(batch, Len(batch))
    BY <1>1, <1>3, <2>1 DEF NewRows
  <2> QED
    BY <2>2
<1> QED
  BY <1>2, <1>3

----------------------------------------------------------------------------
(* The type invariant of the sink.                                          *)

\* put_nowait keeps the sink's types.
LEMMA PutType ==
    ASSUME NEW Item, SinkTypeOK(Item), NEW x \in Item, PutNowait(x)
    PROVE  SinkTypeOK(Item)'
<1>1. Append(queue, x) \in Seq(Item) /\ Len(Append(queue, x)) = Len(queue) + 1
  BY AppendProperties DEF SinkTypeOK
<1>2. Len(queue) + 1 <= QueueMax
  BY SinkAssumption, LenProperties DEF PutNowait, QueueFull, SinkTypeOK
<1> QED
  BY <1>1, <1>2 DEF PutNowait, SinkTypeOK

\* The batch the coroutine works on and what it leaves in the queue.
LEMMA AcquireType ==
    ASSUME NEW Item, SinkTypeOK(Item), AcquireBatch
    PROVE  /\ queue' \in Seq(Item) /\ Len(queue') <= QueueMax
           /\ pending' \in Seq(Item) /\ Len(pending') <= BatchSize
<1>1. CASE pending # <<>>
  BY <1>1 DEF AcquireBatch, SinkTypeOK
<1>2. CASE pending = <<>>
  <2>1. /\ pending' = SubSeq(queue, 1, DrainSize)
        /\ queue' = SubSeq(queue, DrainSize + 1, Len(queue))
    BY <1>2 DEF AcquireBatch
  <2>2. queue \in Seq(Item) /\ Len(queue) <= QueueMax /\ Len(queue) \in Nat
    BY LenProperties DEF SinkTypeOK
  <2>3. /\ DrainSize \in 0..BatchSize /\ DrainSize <= Len(queue)
        /\ SubSeq(queue, 1, DrainSize) \in Seq(Item)
        /\ Len(SubSeq(queue, 1, DrainSize)) = DrainSize
        /\ SubSeq(queue, DrainSize + 1, Len(queue)) \in Seq(Item)
        /\ Len(SubSeq(queue, DrainSize + 1, Len(queue))) = Len(queue) - DrainSize
    BY <2>2, DrainType
  <2> QED
    BY <2>1, <2>2, <2>3, SinkAssumption
<1> QED
  BY <1>1, <1>2

\* Rows, dead letters and log lines are items.
LEMMA PersistType ==
    ASSUME NEW Item, NEW batch \in Seq(Item), rows \in SUBSET Item,
           PersistAll(batch) \/ PersistFails(batch)
    PROVE  rows' \in SUBSET Item
<1>1. Len(batch) \in Nat
  BY LenProperties
<1>2. PICK n \in 0..Len(batch) : rows' = rows \cup NewRows(batch, n)
  BY <1>1 DEF PersistAll, PersistFails
<1> QED
  BY <1>2, NewRowsInBatch

\* Items given up are items (_quarantine_tick_batch).
LEMMA QuarantineType ==
    ASSUME NEW Item, NEW batch \in Seq(Item), dead \in SUBSET Item, logged \in SUBSET Item,
           Quarantine(batch)
    PROVE  dead' \in SUBSET Item /\ logged' \in SUBSET Item
<1>1. Range(batch) \subseteq Item
  BY RangeOfSeq
<1> QED
  BY <1>1 DEF Quarantine

\* Every step of the coroutine, the thread and the flush keeps the types.
LEMMA SinkTypeStep ==
    ASSUME NEW Item, SinkTypeOK(Item),
           CoroutineStep \/ ThreadStep \/ FlushStep \/ CancelSink \/ SinkForget
    PROVE  SinkTypeOK(Item)'
<1> USE SinkAssumption
<1>0. <<>> \in Seq(Item) /\ Len(<<>>) = 0
  BY EmptySeq
<1>1. CASE StartPersist
  <2>1. AcquireBatch
    BY <1>1 DEF StartPersist
  <2> QED
    BY <1>1, <2>1, AcquireType DEF StartPersist, SinkTypeOK
<1>2. CASE ResumeSuccess
  BY <1>0, <1>2 DEF ResumeSuccess, ClearPending, SinkTypeOK
<1>3. CASE ResumeFailure
  <2>1. CASE retries + 1 > MaxRetries /\ Quarantine(pending) /\ ClearPending
    <3>1. dead' \in SUBSET Item /\ logged' \in SUBSET Item
      BY <2>1, QuarantineType DEF SinkTypeOK
    <3> QED
      BY <1>0, <1>3, <2>1, <3>1 DEF ResumeFailure, ClearPending, SinkTypeOK
  <2>2. CASE retries + 1 <= MaxRetries /\ retries' = retries + 1
             /\ UNCHANGED <<pending, dead, logged>>
    BY <1>3, <2>2 DEF ResumeFailure, SinkTypeOK
  <2> QED
    BY <1>3, <2>1, <2>2 DEF ResumeFailure
<1>4. CASE ThreadCommit
  <2>1. rows' \in SUBSET Item
    BY <1>4, PersistType DEF ThreadCommit, SinkTypeOK
  <2> QED
    BY <1>4, <2>1 DEF ThreadCommit, SinkTypeOK
<1>5. CASE ThreadFail
  <2>1. rows' \in SUBSET Item
    BY <1>5, PersistType DEF ThreadFail, SinkTypeOK
  <2> QED
    BY <1>5, <2>1 DEF ThreadFail, SinkTypeOK
<1>6. CASE OrphanEnd
  <2>1. rows' \in SUBSET Item
    BY <1>6, PersistType DEF OrphanEnd, SinkTypeOK
  <2> QED
    BY <1>0, <1>6, <2>1 DEF OrphanEnd, SinkTypeOK
<1>7. CASE FlushBatch
  <2>1. CASE pending # <<>>
    <3>1. rows' \in SUBSET Item
      BY <1>7, <2>1, PersistType DEF FlushBatch, SinkTypeOK
    <3> QED
      BY <1>0, <1>7, <2>1, <3>1 DEF FlushBatch, ClearPending, SinkTypeOK
  <2>2. CASE pending = <<>>
    <3>1. queue \in Seq(Item) /\ Len(queue) <= QueueMax /\ Len(queue) \in Nat
      BY LenProperties DEF SinkTypeOK
    <3>2. /\ DrainSize \in 0..BatchSize
          /\ SubSeq(queue, 1, DrainSize) \in Seq(Item)
          /\ SubSeq(queue, DrainSize + 1, Len(queue)) \in Seq(Item)
          /\ Len(SubSeq(queue, DrainSize + 1, Len(queue))) = Len(queue) - DrainSize
      BY <3>1, DrainType
    <3>3. PersistAll(SubSeq(queue, 1, DrainSize))
      BY <1>7, <2>2 DEF FlushBatch
    <3>4. rows' \in SUBSET Item
      BY <3>2, <3>3, PersistType DEF SinkTypeOK
    <3> QED
      BY <1>0, <1>7, <2>2, <3>1, <3>2, <3>4 DEF FlushBatch, ClearPending, SinkTypeOK
  <2> QED
    BY <2>1, <2>2
<1>8. CASE FlushQuarantine
  <2>1. rows' \in SUBSET Item
    BY <1>8, PersistType DEF FlushQuarantine, SinkTypeOK
  <2>2. dead' \in SUBSET Item /\ logged' \in SUBSET Item
    BY <1>8, QuarantineType DEF FlushQuarantine, SinkTypeOK
  <2> QED
    BY <1>0, <1>8, <2>1, <2>2 DEF FlushQuarantine, ClearPending, SinkTypeOK
<1>9. CASE FlushRaise
  <2>1. /\ queue' \in Seq(Item) /\ Len(queue') <= QueueMax
        /\ pending' \in Seq(Item) /\ Len(pending') <= BatchSize
    BY <1>9, AcquireType DEF FlushRaise
  <2>2. \E n \in 0..Len(pending') : rows' = rows \cup NewRows(pending', n)
    BY <1>9 DEF FlushRaise, PersistFails
  <2>3. rows' \in SUBSET Item
    BY <2>1, <2>2, NewRowsInBatch DEF SinkTypeOK
  <2> QED
    BY <1>9, <2>1, <2>3 DEF FlushRaise, SinkTypeOK
<1>10. CASE FlushAbandoned \/ FlushEmpty
  BY <1>10 DEF FlushAbandoned, FlushEmpty, SinkTypeOK
<1>11. CASE CancelSink
  BY <1>0, <1>11 DEF CancelSink, SinkTypeOK
<1>12. CASE SinkForget
  BY <1>0, <1>12 DEF SinkForget, SinkTypeOK
<1> QED
  BY <1>1, <1>2, <1>3, <1>4, <1>5, <1>6, <1>7, <1>8, <1>9, <1>10, <1>11, <1>12
     DEF CoroutineStep, CoroutineResumes, ThreadStep, FlushStep

----------------------------------------------------------------------------
(* The order of the batch and the queue.                                    *)

Batch == SubSeq(queue, 1, DrainSize)
Rest == SubSeq(queue, DrainSize + 1, Len(queue))

SinkMove == CoroutineStep \/ ThreadStep \/ FlushStep \/ CancelSink

\* All that a step of the sink can do to the batch and the queue.
LEMMA QueueCases ==
    ASSUME SinkMove \/ SinkForget
    PROVE  \/ UNCHANGED <<queue, pending>>
           \/ pending' = <<>> /\ queue' = queue
           \/ pending = <<>> /\ pending' = Batch /\ queue' = Rest
           \/ pending = <<>> /\ pending' = <<>> /\ queue' = Rest
           \/ pending' = <<>> /\ queue' = <<>>
<1>1. CASE StartPersist \/ FlushRaise
  <2>1. AcquireBatch
    BY <1>1 DEF StartPersist, FlushRaise
  <2> QED
    BY <2>1 DEF AcquireBatch, Batch, Rest
<1>2. CASE ResumeSuccess \/ FlushQuarantine \/ FlushAbandoned \/ FlushEmpty \/ SinkForget
  BY <1>2 DEF ResumeSuccess, FlushQuarantine, FlushAbandoned, FlushEmpty, SinkForget,
              ClearPending
<1>3. CASE ResumeFailure
  BY <1>3 DEF ResumeFailure, ClearPending
<1>4. CASE ThreadStep \/ CancelSink
  BY <1>4 DEF ThreadStep, ThreadCommit, ThreadFail, OrphanEnd, CancelSink
<1>5. CASE FlushBatch
  BY <1>5 DEF FlushBatch, ClearPending, Rest
<1> QED
  BY <1>1, <1>2, <1>3, <1>4, <1>5 DEF SinkMove, CoroutineStep, CoroutineResumes, FlushStep

\* Draining an ordered queue gives an ordered batch before an ordered rest.
LEMMA DrainInOrder ==
    ASSUME NEW Item, queue \in Seq(Item), InOrder(queue)
    PROVE  /\ InOrder(Batch)
           /\ InOrder(Rest)
           /\ \A j \in DOMAIN Rest : EarlierThan(Batch, Rest[j].at)
<1>1. Len(queue) \in Nat /\ DrainSize \in Nat /\ DrainSize <= Len(queue)
      /\ DOMAIN queue = 1..Len(queue)
  BY LenProperties, DrainType
<1>2. DOMAIN Batch = 1..DrainSize /\ \A i \in 1..DrainSize : Batch[i] = queue[i]
  BY DrainType, LenProperties DEF Batch
<1>3. /\ DOMAIN Rest = 1..(Len(queue) - DrainSize)
      /\ \A i \in 1..(Len(queue) - DrainSize) : Rest[i] = queue[DrainSize + i]
  BY DrainType, LenProperties DEF Rest
<1>4. InOrder(Batch)
  <2> SUFFICES ASSUME NEW i \in DOMAIN Batch, NEW j \in DOMAIN Batch, i < j
               PROVE  Batch[i].at < Batch[j].at
    BY DEF InOrder
  <2>1. i \in 1..Len(queue) /\ j \in 1..Len(queue) /\ Batch[i] = queue[i] /\ Batch[j] = queue[j]
    BY <1>1, <1>2
  <2> QED
    BY <1>1, <2>1 DEF InOrder
<1>5. InOrder(Rest)
  <2> SUFFICES ASSUME NEW i \in DOMAIN Rest, NEW j \in DOMAIN Rest, i < j
               PROVE  Rest[i].at < Rest[j].at
    BY DEF InOrder
  <2>1. /\ DrainSize + i \in 1..Len(queue) /\ DrainSize + j \in 1..Len(queue)
        /\ DrainSize + i < DrainSize + j
        /\ Rest[i] = queue[DrainSize + i] /\ Rest[j] = queue[DrainSize + j]
    BY <1>1, <1>3
  <2> QED
    BY <1>1, <2>1 DEF InOrder
<1>6. ASSUME NEW j \in DOMAIN Rest, NEW i \in DOMAIN Batch
      PROVE  Batch[i].at < Rest[j].at
  <2>1. /\ i \in 1..Len(queue) /\ DrainSize + j \in 1..Len(queue)
        /\ i < DrainSize + j
        /\ Batch[i] = queue[i] /\ Rest[j] = queue[DrainSize + j]
    BY <1>1, <1>2, <1>3
  <2> QED
    BY <1>1, <2>1 DEF InOrder
<1> QED
  BY <1>4, <1>5, <1>6 DEF EarlierThan

\* Steps of the sink keep the order, and hold back nothing new.
LEMMA SinkOrderStep ==
    ASSUME NEW Item, SinkTypeOK(Item), SinkInOrder, SinkMove \/ SinkForget
    PROVE  /\ SinkInOrder'
           /\ Range(queue') \cup Range(pending') \subseteq Range(queue) \cup Range(pending)
<1>1. queue \in Seq(Item) /\ pending \in Seq(Item)
  BY DEF SinkTypeOK
<1>2. /\ InOrder(Batch) /\ InOrder(Rest)
      /\ \A j \in DOMAIN Rest : EarlierThan(Batch, Rest[j].at)
      /\ Range(Batch) \cup Range(Rest) = Range(queue)
  BY <1>1, DrainInOrder, DrainRange DEF SinkInOrder, Batch, Rest
<1>3. /\ Range(<<>>) = {} /\ InOrder(<<>>)
      /\ \A key : EarlierThan(<<>>, key)
  BY DEF Range, InOrder, EarlierThan
<1>4. /\ InOrder(pending) /\ InOrder(queue)
      /\ \A j \in DOMAIN queue : EarlierThan(pending, queue[j].at)
  BY DEF SinkInOrder
<1>5. SinkInOrder' <=> /\ InOrder(pending') /\ InOrder(queue')
                       /\ \A j \in DOMAIN queue' : EarlierThan(pending', queue'[j].at)
  BY DEF SinkInOrder, InOrder, EarlierThan
<1>6. CASE UNCHANGED <<queue, pending>>
  BY <1>4, <1>5, <1>6
<1>7. CASE pending' = <<>> /\ queue' = queue
  BY <1>3, <1>4, <1>5, <1>7
<1>8. CASE pending = <<>> /\ pending' = Batch /\ queue' = Rest
  BY <1>2, <1>3, <1>5, <1>8
<1>9. CASE pending = <<>> /\ pending' = <<>> /\ queue' = Rest
  BY <1>2, <1>3, <1>5, <1>9
<1>10. CASE pending' = <<>> /\ queue' = <<>>
  BY <1>3, <1>5, <1>10
<1> QED
  BY <1>6, <1>7, <1>8, <1>9, <1>10, QueueCases

\* put_nowait of an item later than everything the sink holds keeps the order.
LEMMA PutInOrder ==
    ASSUME NEW Item, SinkTypeOK(Item), SinkInOrder, NEW x \in Item, PutNowait(x),
           EarlierThan(pending, x.at), EarlierThan(queue, x.at)
    PROVE  /\ SinkInOrder'
           /\ Range(queue') = Range(queue) \cup {x}
<1>1. /\ queue \in Seq(Item) /\ queue' = Append(queue, x) /\ pending' = pending
  BY DEF SinkTypeOK, PutNowait
<1>2. /\ Len(queue) \in Nat /\ DOMAIN queue = 1..Len(queue)
      /\ DOMAIN queue' = 1..(Len(queue) + 1)
      /\ \A i \in 1..Len(queue) : queue'[i] = queue[i]
      /\ queue'[Len(queue) + 1] = x
  BY <1>1, AppendProperties, LenProperties
<1>3. /\ InOrder(pending) /\ InOrder(queue)
      /\ \A j \in DOMAIN queue : EarlierThan(pending, queue[j].at)
  BY DEF SinkInOrder
<1>4. InOrder(queue')
  <2> SUFFICES ASSUME NEW i \in DOMAIN queue', NEW j \in DOMAIN queue', i < j
               PROVE  queue'[i].at < queue'[j].at
    BY DEF InOrder
  <2>1. i \in DOMAIN queue /\ queue'[i] = queue[i]
    BY <1>2
  <2>2. CASE j = Len(queue) + 1
    BY <1>2, <2>1, <2>2 DEF EarlierThan
  <2>3. CASE j # Len(queue) + 1
    <3>1. j \in DOMAIN queue /\ queue'[j] = queue[j]
      BY <1>2, <2>3
    <3> QED
      BY <1>3, <2>1, <3>1 DEF InOrder
  <2> QED
    BY <2>2, <2>3
<1>5. ASSUME NEW j \in DOMAIN queue' PROVE EarlierThan(pending, queue'[j].at)
  <2>1. CASE j = Len(queue) + 1
    BY <1>2, <2>1
  <2>2. CASE j # Len(queue) + 1
    <3>1. j \in DOMAIN queue /\ queue'[j] = queue[j]
      BY <1>2, <2>2
    <3> QED
      BY <1>3, <3>1
  <2> QED
    BY <2>1, <2>2
<1>6. SinkInOrder'
  <2>1. SinkInOrder' <=> /\ InOrder(pending') /\ InOrder(queue')
                         /\ \A j \in DOMAIN queue' : EarlierThan(pending', queue'[j].at)
    BY DEF SinkInOrder, InOrder, EarlierThan
  <2> QED
    BY <2>1, <1>1, <1>3, <1>4, <1>5
<1>7. Range(queue') = Range(queue) \cup {x}
  <2>1. Range(queue') = {queue'[i] : i \in 1..(Len(queue) + 1)}
    BY <1>2 DEF Range
  <2>2. Range(queue) = {queue[i] : i \in 1..Len(queue)}
    BY <1>2 DEF Range
  <2>3. \A i \in 1..(Len(queue) + 1) : i \in 1..Len(queue) \/ i = Len(queue) + 1
    BY <1>2
  <2>4. Len(queue) + 1 \in 1..(Len(queue) + 1) /\ 1..Len(queue) \subseteq 1..(Len(queue) + 1)
    BY <1>2
  <2> QED
    BY <1>2, <2>1, <2>2, <2>3, <2>4
<1> QED
  BY <1>6, <1>7

----------------------------------------------------------------------------
(* The sink settles what it holds.                                          *)

UniqueRows == \A x, y \in rows : x.at = y.at => x = y

\* A persist, successful or not, adds rows of its batch and keeps keys unique.
LEMMA PersistFacts ==
    ASSUME NEW Item, NEW batch \in Seq(Item), UniqueRows,
           PersistAll(batch) \/ PersistFails(batch)
    PROVE  /\ rows \subseteq rows' /\ RowKeys \subseteq RowKeys'
           /\ rows' \ rows \subseteq Range(batch)
           /\ UniqueRows'
<1>1. Len(batch) \in Nat
  BY LenProperties
<1>2. PICK n \in 0..Len(batch) : rows' = rows \cup NewRows(batch, n)
  BY <1>1 DEF PersistAll, PersistFails
<1>3. NewRows(batch, n) \subseteq Range(batch)
  BY NewRowsInBatch
<1>4. \A x, y \in rows \cup NewRows(batch, n) : x.at = y.at => x = y
  BY NewRowsUnique DEF UniqueRows
<1> QED
  BY <1>2, <1>3, <1>4 DEF RowKeys, UniqueRows

\* A successful one leaves every key of an ordered batch a row.
LEMMA PersistCovers ==
    ASSUME NEW Item, NEW batch \in Seq(Item), InOrder(batch),
           \A x \in Item : x.at \in Nat, PersistAll(batch)
    PROVE  \A i \in DOMAIN batch : batch[i].at \in RowKeys'
<1> SUFFICES ASSUME NEW i \in DOMAIN batch PROVE batch[i].at \in RowKeys'
  OBVIOUS
<1>1. PICK r \in rows \cup NewRows(batch, Len(batch)) : r.at = batch[i].at
  BY NewRowsCover
<1> QED
  BY <1>1 DEF PersistAll, RowKeys

\* Quarantining a batch gives up exactly its items.
LEMMA QuarantineFacts ==
    ASSUME NEW batch, Quarantine(batch)
    PROVE  /\ dead \cup logged \subseteq dead' \cup logged'
           /\ (dead' \cup logged') \ (dead \cup logged) \subseteq Range(batch)
           /\ Range(batch) \subseteq dead' \cup logged'
BY DEF Quarantine

\* What a step must do to settle: the form the proofs below establish.
Settled ==
    /\ rows \subseteq rows'
    /\ rows' \ rows \subseteq Held
    /\ UniqueRows'
    /\ dead \cup logged \subseteq dead' \cup logged'
    /\ (dead' \cup logged') \ (dead \cup logged) \subseteq Held
    /\ Held' \subseteq Held
    /\ \A x \in Held \ Held' : x.at \in RowKeys' \/ x \in dead' \cup logged'

\* Settled, in the sink's terms, is the abstract Settle.
LEMMA SettledIsSettle == ASSUME Settled PROVE Sink!Settle
BY DEF Settled, Sink!Settle, Sink!Keys, RowKeys, UniqueRows

\* Every step of the coroutine, the threads, the flush and the cancellation keeps
\* SinkConsistent and is a step the write-behind promise allows.
LEMMA SinkMoveSettles ==
    ASSUME NEW Item, \A x \in Item : x.at \in Nat,
           SinkTypeOK(Item), SinkInOrder, SinkConsistent, SinkMove
    PROVE  SinkConsistent' /\ Settled
<1>0. /\ pending \in Seq(Item) /\ queue \in Seq(Item) /\ orphan \in Seq(Item)
      /\ InOrder(pending) /\ UniqueRows
  BY DEF SinkTypeOK, SinkInOrder, SinkConsistent, UniqueRows
<1>1. /\ Range(<<>>) = {} /\ DOMAIN <<>> = {}
      /\ Range(pending) = {pending[i] : i \in DOMAIN pending}
      /\ Range(orphan) = {orphan[i] : i \in DOMAIN orphan}
  BY DEF Range
<1>2. /\ InOrder(Batch) /\ Batch \in Seq(Item)
      /\ Range(Batch) \cup Range(Rest) = Range(queue)
      /\ Range(Batch) = {Batch[i] : i \in DOMAIN Batch}
  BY <1>0, DrainInOrder, DrainType, DrainRange DEF SinkInOrder, Batch, Rest, Range
<1>3. /\ sink \notin {"flushing", "flushed"} => orphan = <<>>
      /\ sink = "persisted" => \A i \in DOMAIN pending : pending[i].at \in RowKeys
      /\ \A i \in DOMAIN orphan : \/ orphan[i] \in Range(pending) \cup dead \cup logged
                                  \/ orphan[i].at \in RowKeys
  BY DEF SinkConsistent
<1> DEFINE OrphanSettled ==
        \A i \in DOMAIN orphan : \/ orphan[i] \in Range(pending) \cup dead \cup logged
                                 \/ orphan[i].at \in RowKeys
<1>4. SinkConsistent' <=>
        /\ UniqueRows'
        /\ sink' = "persisted" => \A i \in DOMAIN pending' : pending'[i].at \in RowKeys'
        /\ sink' \notin {"flushing", "flushed"} => orphan' = <<>>
        /\ OrphanSettled'
  BY DEF SinkConsistent, UniqueRows
<1>5. Held' = Range(queue') \cup Range(pending') \cup Range(orphan')
  BY DEF Held
<1>6. (rows' = rows) => UniqueRows' /\ RowKeys' = RowKeys
  BY <1>0 DEF UniqueRows, RowKeys
<1>7. CASE StartPersist
  <2>1. orphan = <<>> /\ orphan' = <<>> /\ sink' = "persisting"
        /\ UNCHANGED <<rows, dead, logged>>
    BY <1>3, <1>7 DEF StartPersist
  <2>2. Range(queue') \cup Range(pending') = Range(queue) \cup Range(pending)
    <3>1. CASE pending # <<>>
      BY <1>7, <3>1 DEF StartPersist, AcquireBatch
    <3>2. CASE pending = <<>>
      <4>1. pending' = Batch /\ queue' = Rest
        BY <1>7, <3>2 DEF StartPersist, AcquireBatch, Batch, Rest
      <4> QED
        BY <1>1, <1>2, <3>2, <4>1
    <3> QED
      BY <3>1, <3>2
  <2>3. Held' = Held
    BY <2>1, <2>2, <1>5 DEF Held
  <2> QED
    BY <1>1, <1>4, <1>6, <2>1, <2>3 DEF Settled
<1>8. CASE ResumeSuccess
  <2>1. orphan = <<>> /\ orphan' = <<>> /\ sink' = "idle" /\ pending' = <<>> /\ queue' = queue
        /\ UNCHANGED <<rows, dead, logged>>
    BY <1>3, <1>8 DEF ResumeSuccess, ClearPending
  <2>2. \A x \in Range(pending) : x.at \in RowKeys
    BY <1>1, <1>3, <1>8 DEF ResumeSuccess
  <2> QED
    BY <1>1, <1>4, <1>5, <1>6, <2>1, <2>2 DEF Settled, Held
<1>9. CASE ResumeFailure
  <2>1. orphan = <<>> /\ orphan' = <<>> /\ sink' = "idle" /\ queue' = queue /\ rows' = rows
    BY <1>3, <1>9 DEF ResumeFailure
  <2>2. CASE Quarantine(pending) /\ ClearPending
    <3>1. /\ dead \cup logged \subseteq dead' \cup logged'
          /\ (dead' \cup logged') \ (dead \cup logged) \subseteq Range(pending)
          /\ Range(pending) \subseteq dead' \cup logged'
          /\ pending' = <<>>
      BY <2>2, QuarantineFacts DEF ClearPending
    <3> QED
      BY <1>1, <1>4, <1>5, <1>6, <2>1, <3>1 DEF Settled, Held
  <2>3. CASE UNCHANGED <<pending, dead, logged>>
    BY <1>1, <1>4, <1>5, <1>6, <2>1, <2>3 DEF Settled, Held
  <2> QED
    BY <1>9, <2>2, <2>3 DEF ResumeFailure
<1>10. CASE ThreadCommit
  <2>1. /\ orphan = <<>> /\ orphan' = <<>> /\ sink' = "persisted"
        /\ UNCHANGED <<queue, pending, dead, logged>>
        /\ PersistAll(pending)
    BY <1>3, <1>10 DEF ThreadCommit
  <2>2. rows \subseteq rows' /\ rows' \ rows \subseteq Range(pending) /\ UniqueRows'
    BY <1>0, <2>1, PersistFacts
  <2>3. \A i \in DOMAIN pending' : pending'[i].at \in RowKeys'
    BY <1>0, <2>1, PersistCovers
  <2> QED
    BY <1>1, <1>4, <1>5, <2>1, <2>2, <2>3 DEF Settled, Held
<1>11. CASE ThreadFail
  <2>1. /\ orphan = <<>> /\ orphan' = <<>> /\ sink' = "failed"
        /\ UNCHANGED <<queue, pending, dead, logged>>
        /\ PersistFails(pending)
    BY <1>3, <1>11 DEF ThreadFail
  <2>2. rows \subseteq rows' /\ rows' \ rows \subseteq Range(pending) /\ UniqueRows'
    BY <1>0, <2>1, PersistFacts
  <2> QED
    BY <1>1, <1>4, <1>5, <2>1, <2>2 DEF Settled, Held
<1>12. CASE OrphanEnd
  <2>1. /\ orphan' = <<>> /\ UNCHANGED <<queue, pending, sink, dead, logged>>
        /\ PersistAll(orphan) \/ PersistFails(orphan)
        /\ sink \in {"flushing", "flushed"}
    BY <1>3, <1>12 DEF OrphanEnd
  <2>2. /\ rows \subseteq rows' /\ RowKeys \subseteq RowKeys'
        /\ rows' \ rows \subseteq Range(orphan) /\ UniqueRows'
    BY <1>0, <2>1, PersistFacts
  <2>3. sink # "persisted"
    BY <2>1
  <2>4. \A x \in Range(orphan) : x \in Range(pending) \cup dead \cup logged \/ x.at \in RowKeys'
    BY <1>1, <1>3, <2>2
  <2> QED
    BY <1>1, <1>4, <1>5, <2>1, <2>2, <2>3, <2>4 DEF Settled, Held
<1>13. CASE FlushBatch
  <2>1. /\ pending' = <<>> /\ UNCHANGED <<sink, orphan, dead, logged>> /\ sink = "flushing"
    BY <1>13 DEF FlushBatch, ClearPending
  <2>2. CASE pending # <<>>
    <3>1. PersistAll(pending) /\ queue' = queue
      BY <1>13, <2>2 DEF FlushBatch
    <3>2. /\ rows \subseteq rows' /\ RowKeys \subseteq RowKeys'
          /\ rows' \ rows \subseteq Range(pending) /\ UniqueRows'
      BY <1>0, <3>1, PersistFacts
    <3>3. \A x \in Range(pending) : x.at \in RowKeys'
      BY <1>0, <1>1, <3>1, PersistCovers
    <3>4. OrphanSettled'
      BY <1>1, <1>3, <2>1, <3>2, <3>3
    <3> QED
      BY <1>1, <1>4, <1>5, <2>1, <3>1, <3>2, <3>3, <3>4 DEF Settled, Held
  <2>3. CASE pending = <<>>
    <3>1. PersistAll(Batch) /\ queue' = Rest
      BY <1>13, <2>3 DEF FlushBatch, Batch, Rest
    <3>2. /\ rows \subseteq rows' /\ RowKeys \subseteq RowKeys'
          /\ rows' \ rows \subseteq Range(Batch) /\ UniqueRows'
      BY <1>0, <1>2, <3>1, PersistFacts
    <3>3. \A x \in Range(Batch) : x.at \in RowKeys'
      BY <1>2, <3>1, PersistCovers
    <3>4. OrphanSettled'
      BY <1>1, <1>3, <2>1, <2>3, <3>2
    <3> QED
      BY <1>1, <1>2, <1>4, <1>5, <2>1, <2>3, <3>1, <3>2, <3>3, <3>4 DEF Settled, Held
  <2> QED
    BY <2>2, <2>3
<1>14. CASE FlushQuarantine
  <2>1. /\ pending' = <<>> /\ UNCHANGED <<queue, orphan>>
        /\ sink' \in {"flushing", "flushed"}
        /\ PersistFails(pending) /\ Quarantine(pending)
    BY <1>14 DEF FlushQuarantine, ClearPending
  <2>2. /\ rows \subseteq rows' /\ RowKeys \subseteq RowKeys'
        /\ rows' \ rows \subseteq Range(pending) /\ UniqueRows'
    BY <1>0, <2>1, PersistFacts
  <2>3. /\ dead \cup logged \subseteq dead' \cup logged'
        /\ (dead' \cup logged') \ (dead \cup logged) \subseteq Range(pending)
        /\ Range(pending) \subseteq dead' \cup logged'
    BY <2>1, QuarantineFacts
  <2>4. OrphanSettled'
    BY <1>1, <1>3, <2>1, <2>2, <2>3
  <2> QED
    BY <1>1, <1>4, <1>5, <2>1, <2>2, <2>3, <2>4 DEF Settled, Held
<1>15. CASE FlushRaise
  <2>1. /\ AcquireBatch /\ UNCHANGED <<orphan, dead, logged>> /\ sink' = "flushed"
        /\ PersistFails(pending')
    BY <1>15 DEF FlushRaise
  <2>2. /\ pending' \in Seq(Item)
        /\ Range(queue') \cup Range(pending') = Range(queue) \cup Range(pending)
        /\ Range(pending) \subseteq Range(pending')
    <3>1. CASE pending # <<>>
      BY <1>0, <2>1, <3>1 DEF AcquireBatch
    <3>2. CASE pending = <<>>
      <4>1. pending' = Batch /\ queue' = Rest
        BY <2>1, <3>2 DEF AcquireBatch, Batch, Rest
      <4> QED
        BY <1>1, <1>2, <3>2, <4>1
    <3> QED
      BY <3>1, <3>2
  <2>3. PICK n \in 0..Len(pending') : rows' = rows \cup NewRows(pending', n)
    BY <2>1 DEF PersistFails
  <2>4. /\ NewRows(pending', n) \subseteq Range(pending')
        /\ UniqueRows'
    <3>1. NewRows(pending', n) \subseteq Range(pending')
      BY <2>2, NewRowsInBatch
    <3>2. \A x, y \in rows \cup NewRows(pending', n) : x.at = y.at => x = y
      BY <1>0, <2>2, NewRowsUnique DEF UniqueRows
    <3> QED
      BY <2>3, <3>1, <3>2 DEF UniqueRows
  <2>5. rows \subseteq rows' /\ RowKeys \subseteq RowKeys'
    BY <2>3 DEF RowKeys
  <2>6. Held' = Held
    BY <1>5, <2>1, <2>2 DEF Held
  <2>7. OrphanSettled'
    BY <1>3, <2>1, <2>2, <2>5
  <2>8. rows' \ rows \subseteq Held
    BY <2>2, <2>3, <2>4 DEF Held
  <2> QED
    BY <1>4, <2>1, <2>4, <2>5, <2>6, <2>7, <2>8 DEF Settled
<1>16. CASE FlushAbandoned \/ FlushEmpty
  <2>1. UNCHANGED <<queue, pending, orphan, rows, dead, logged>> /\ sink' = "flushed"
    BY <1>16 DEF FlushAbandoned, FlushEmpty
  <2>2. Held' = Held /\ OrphanSettled'
    BY <1>3, <1>5, <1>6, <2>1 DEF Held
  <2> QED
    BY <1>4, <1>6, <2>1, <2>2 DEF Settled
<1>17. CASE CancelSink
  <2>1. /\ UNCHANGED <<queue, pending, rows, dead, logged>> /\ sink' = "flushing"
        /\ orphan = <<>> /\ orphan' \in {pending, <<>>}
    BY <1>3, <1>17 DEF CancelSink
  <2>2. Held' = Held /\ OrphanSettled'
    BY <1>1, <1>5, <2>1 DEF Held
  <2> QED
    BY <1>4, <1>6, <2>1, <2>2 DEF Settled
<1> QED
  BY <1>7, <1>8, <1>9, <1>10, <1>11, <1>12, <1>13, <1>14, <1>15, <1>16, <1>17
     DEF SinkMove, CoroutineStep, CoroutineResumes, ThreadStep, FlushStep

\* put_nowait is the acceptance of an item.
LEMMA PutAccepts ==
    ASSUME NEW Item, SinkTypeOK(Item), SinkInOrder, SinkConsistent, NEW x \in Item,
           PutNowait(x), EarlierThan(pending, x.at), EarlierThan(queue, x.at)
    PROVE  SinkConsistent' /\ Sink!Accept
<1>1. Range(queue') = Range(queue) \cup {x}
  BY PutInOrder
<1>2. UNCHANGED <<pending, sink, orphan, rows, dead, logged>>
  BY DEF PutNowait
<1>3. SinkConsistent'
  BY <1>2 DEF SinkConsistent, RowKeys
<1>4. Held' = Held \cup {x}
  BY <1>1, <1>2 DEF Held
<1> QED
  BY <1>2, <1>3, <1>4 DEF Sink!Accept

\* The end of the process forgets everything the sink holds.
LEMMA ForgetForgets ==
    ASSUME SinkConsistent, SinkForget
    PROVE  SinkConsistent' /\ Sink!Forget
<1>1. /\ queue' = <<>> /\ pending' = <<>> /\ orphan' = <<>> /\ sink' = "idle"
      /\ UNCHANGED <<rows, dead, logged>>
  BY DEF SinkForget
<1>2. Held' = {}
  BY <1>1 DEF Held, Range
<1> QED
  BY <1>1, <1>2 DEF Sink!Forget, SinkConsistent, RowKeys

----------------------------------------------------------------------------
(* The tick state machine.                                                  *)

\* Trade dates are numbers (trade_date_for).
LEMMA TradeDateType == ASSUME NEW a \in Nat PROVE TradeDate(a) \in Nat
BY TradeDateAssumption, SMT DEF TradeDate

\* Day fields stay prices or None (_update_day_state).
LEMMA DayFieldsType ==
    ASSUME NEW m \in Machine, NEW t \in Tick, t.price # None
    PROVE  /\ DayOpen(m, t) \in Nat \cup {None}
           /\ DayHigh(m, t) \in Nat \cup {None}
           /\ DayLow(m, t) \in Nat \cup {None}
BY DEF Machine, Tick, DayOpen, DayHigh, DayLow, Higher, Lower

\* What a tick that is not dropped does to the machine.
LEMMA AfterTickFacts ==
    ASSUME NEW m \in Machine, NEW t \in Tick, ~Dropped(m, t)
    PROVE  /\ AfterTick(m, t) \in Machine
           /\ AfterTick(m, t).current \in KBar
           /\ AfterTick(m, t).current.at = t.at
           /\ Archived(m, t) \in KBar \cup {NoBar}
           /\ Archived(m, t) # NoBar => /\ Archived(m, t) = m.current
                                        /\ m.current.at < t.at
           /\ m.current # NoBar => m.current.at <= t.at
<1>1. t.price \in Nat /\ t.at \in Nat /\ t.volume \in Nat
  BY DEF Dropped, Tick
<1>2. TradeDate(t.at) \in Nat
  BY <1>1, TradeDateType
<1>3. /\ DayOpen(m, t) \in Nat \cup {None}
      /\ DayHigh(m, t) \in Nat \cup {None}
      /\ DayLow(m, t) \in Nat \cup {None}
  BY <1>1, NoneAssumption, DayFieldsType
<1>4. OpenedBar(m, t) \in KBar /\ OpenedBar(m, t).at = t.at
  BY <1>1, <1>2, <1>3 DEF OpenedBar, KBar
<1>5. ASSUME SameMinute(m, t)
      PROVE  UpdatedBar(m, t) \in KBar /\ UpdatedBar(m, t).at = t.at
  <2>1. m.current \in KBar /\ m.current.at = t.at
    BY <1>5 DEF SameMinute, Machine, NoBar
  <2>2. Higher(m.current.high, t.price) \in Nat /\ Lower(m.current.low, t.price) \in Nat
        /\ m.current.volume + t.volume \in Nat
    BY <2>1, <1>1 DEF KBar, Higher, Lower
  <2> QED
    BY <2>1, <2>2, <1>1, <1>3 DEF UpdatedBar, KBar
<1>6. AfterTick(m, t).current \in KBar /\ AfterTick(m, t).current.at = t.at
  BY <1>4, <1>5 DEF AfterTick
<1>7. AfterTick(m, t) \in Machine
  BY <1>2, <1>3, <1>6 DEF AfterTick, Machine
<1>8. m.current # NoBar => m.current \in KBar /\ m.current.at <= t.at
  BY <1>1 DEF Dropped, Machine, KBar, NoBar
<1>9. Archived(m, t) # NoBar => Archived(m, t) = m.current /\ m.current.at < t.at
  BY <1>1, <1>8 DEF Archived, SameMinute, KBar
<1> QED
  BY <1>6, <1>7, <1>8, <1>9

----------------------------------------------------------------------------
(* Type correctness.                                                        *)

\* What applying entry e gives.
LEMMA ApplyFacts ==
    ASSUME TypeOK, NEW e \in Entries, ApplyTick(e)
    PROVE  /\ stream[e] \in Tick /\ e \in work /\ e \in pel
           /\ machine' \in Machine
           /\ machine'.current \in KBar
           /\ machine'.current.at = stream[e].at
           /\ Closed(e) \in KBar \cup {NoBar}
           /\ Closed(e) # NoBar => /\ Closed(e) = machine.current
                                   /\ machine.current.at < stream[e].at
           /\ machine.current # NoBar => machine.current.at <= stream[e].at
           /\ applied' \in Seq(1..Len(stream))
<1>1. stream[e] \in Tick
  BY ElementOfSeq DEF TypeOK, Entries
<1>2. machine \in Machine /\ ~Dropped(machine, stream[e])
      /\ machine' = AfterTick(machine, stream[e])
  BY DEF TypeOK, ApplyTick
<1>3. applied' \in Seq(1..Len(stream))
  BY AppendProperties DEF TypeOK, ApplyTick, Entries
<1>4. e \in work /\ e \in pel
  BY DEF TypeOK, ApplyTick, NextEntry
<1> QED
  BY <1>1, <1>2, <1>3, <1>4, AfterTickFacts DEF Closed

\* What is remembered of a missed hand-off is an entry and a bar.
LEMMA MissType ==
    ASSUME TypeOK, NEW e \in Entries, MissHandOff(e), Closed(e) \in KBar \cup {NoBar}
    PROVE  missed' \in SUBSET [entry : 1..Len(stream), bar : KBar]
<1>1. CASE Closed(e) = NoBar
  BY <1>1 DEF MissHandOff, TypeOK
<1>2. CASE Closed(e) # NoBar
  <2>1. [entry |-> e, bar |-> Closed(e)] \in [entry : 1..Len(stream), bar : KBar]
    BY <1>2 DEF Entries
  <2> QED
    BY <1>2, <2>1 DEF MissHandOff, TypeOK
<1> QED
  BY <1>1, <1>2

\* The variables of the sink are left alone.
LEMMA SinkTypeUnchanged ==
    ASSUME NEW Item, SinkTypeOK(Item), UNCHANGED sinkVars
    PROVE  SinkTypeOK(Item)'
BY DEF SinkTypeOK, sinkVars

\* A new process over an empty database has the types.
LEMMA InitType == ASSUME Init PROVE TypeOK
<1>1. stream \in Seq(Tick) /\ Len(stream) \in Nat
  BY PipelineAssumption, LenProperties DEF Init
<1>2. <<>> \in Seq(1..Len(stream)) /\ <<>> \in Seq(KBar) /\ Len(<<>>) = 0
  BY EmptySeq
<1>3. NewMachine \in Machine
  BY DEF NewMachine, Machine
<1>4. SinkTypeOK(KBar)
  BY <1>2, SinkAssumption DEF Init, SinkInit, SinkTypeOK
<1> QED
  BY <1>1, <1>2, <1>3, <1>4, PipelineAssumption DEF Init, TypeOK

\* The consumer group and the loop's bookkeeping.
LEMMA GroupType ==
    ASSUME TypeOK,
           \/ \E e \in Entries : BecomeIdle(e)
           \/ ClaimPending \/ ClaimReplyLost \/ ReadNew \/ ReadReplyLost
           \/ EndRound \/ RefreshFails \/ Ack \/ AckError
    PROVE  TypeOK'
<1> USE DEF TypeOK, groupVars, loopVars, barVars
<1>0. Len(stream) \in Nat
  BY LenProperties
<1>1. CASE \E e \in Entries : BecomeIdle(e)
  BY <1>1, SinkTypeUnchanged DEF BecomeIdle
<1>2. CASE ClaimPending
  <2>1. work' \subseteq idle /\ idle' \subseteq idle
    BY <1>2 DEF ClaimPending, FirstOf
  <2> QED
    BY <1>2, <2>1, SinkTypeUnchanged DEF ClaimPending
<1>3. CASE ClaimReplyLost
  <2>1. failures' \in 0..MaxFailures /\ idle' \subseteq idle
    BY <1>3, PipelineAssumption DEF ClaimReplyLost, Fail
  <2> QED
    BY <1>3, <2>1, SinkTypeUnchanged DEF ClaimReplyLost
<1>4. ASSUME NEW n \in 0..ReadCount, Deliver(n)
      PROVE  /\ delivered' \in 0..Len(stream)
             /\ pel \subseteq pel' /\ pel' \in SUBSET (1..delivered')
             /\ (delivered + 1)..(delivered + n) \subseteq pel'
  <2>1. /\ delivered + n <= Len(stream) /\ delivered' = delivered + n
        /\ pel' = pel \cup (delivered + 1)..(delivered + n)
    BY <1>4 DEF Deliver
  <2>2. delivered \in Nat /\ n \in Nat /\ delivered' \in 0..Len(stream)
    BY <1>0, <2>1, PipelineAssumption
  <2>3. 1..delivered \subseteq 1..delivered' /\ (delivered + 1)..(delivered + n) \subseteq 1..delivered'
    BY <2>1, <2>2
  <2> QED
    BY <2>1, <2>2, <2>3
<1>5. CASE ReadNew
  <2>1. PICK n \in 0..ReadCount : Deliver(n) /\ work' = (delivered + 1)..(delivered + n)
    BY <1>5 DEF ReadNew
  <2> QED
    BY <1>4, <1>5, <2>1, SinkTypeUnchanged DEF ReadNew
<1>6. CASE ReadReplyLost
  <2>1. PICK n \in 0..ReadCount : Deliver(n)
    BY <1>6, PipelineAssumption DEF ReadReplyLost
  <2>2. failures' \in 0..MaxFailures
    BY <1>6, PipelineAssumption DEF ReadReplyLost, Fail
  <2> QED
    BY <1>4, <1>6, <2>1, <2>2, SinkTypeUnchanged DEF ReadReplyLost
<1>7. CASE EndRound
  BY <1>7, SinkTypeUnchanged DEF EndRound
<1>8. CASE Ack
  BY <1>8, SinkTypeUnchanged DEF Ack
<1>9. CASE AckError
  BY <1>9, SinkTypeUnchanged, PipelineAssumption DEF AckError, Fail
<1>10. CASE RefreshFails
  BY <1>10, SinkTypeUnchanged, PipelineAssumption DEF RefreshFails, Fail
<1> QED
  BY <1>1, <1>2, <1>3, <1>5, <1>6, <1>7, <1>8, <1>9, <1>10

\* The tick handler.
LEMMA HandlerType ==
    ASSUME TypeOK, NEW e \in Entries,
           \/ DropTick(e) \/ PublishTick(e)
           \/ RedisFails(e) \/ InvalidOpen(e) \/ QueueFullTick(e)
    PROVE  TypeOK'
<1> USE DEF groupVars, loopVars, barVars
<1>0. /\ work \subseteq pel \ {acking} /\ e \in 1..Len(stream)
      /\ pel \in SUBSET (1..delivered) /\ kzset \in SUBSET KBar
      /\ SinkTypeOK(KBar)
  BY DEF TypeOK, Entries
<1> DEFINE Applied == /\ machine' \in Machine
                      /\ machine'.current \in KBar
                      /\ Closed(e) \in KBar \cup {NoBar}
                      /\ applied' \in Seq(1..Len(stream))
                      /\ e \in pel
                      /\ phase \in {"claimed", "read"} /\ acking = 0
<1>1. ApplyTick(e) => Applied
  BY ApplyFacts DEF ApplyTick, NextEntry
<1>2. MissHandOff(e) /\ Applied
         => missed' \in SUBSET [entry : 1..Len(stream), bar : KBar]
  BY MissType
<1>3. HandledTrue(e) /\ e \in pel /\ UNCHANGED groupVars
         => /\ work' \in SUBSET (pel' \ {acking'}) /\ acking' \in pel' \cup {0}
            /\ phase' = phase
  BY <1>0 DEF HandledTrue
<1>4. HandledFalse /\ UNCHANGED groupVars
         => /\ work' \in SUBSET (pel' \ {acking'}) /\ acking' = acking
            /\ phase' = "await" /\ work' = {}
  BY DEF HandledFalse
<1> HIDE DEF Applied
<1>5. CASE DropTick(e)
  <2>1. e \in pel /\ phase \in {"claimed", "read"}
    BY <1>0, <1>5 DEF DropTick, NextEntry
  <2> QED
    BY <1>3, <1>5, <2>1, SinkTypeUnchanged DEF DropTick, TypeOK
<1>6. CASE PublishTick(e)
  <2>1. Applied /\ HandledTrue(e) /\ UNCHANGED <<groupVars, missed, failures>> /\ e \in pel
    BY <1>1, <1>6 DEF PublishTick, Applied
  <2>2. kcurrent' \in KBar
    BY <1>6, <2>1 DEF PublishTick, WriteCurrent, Applied
  <2>3. kzset' \in SUBSET KBar /\ SinkTypeOK(KBar)'
    <3>1. CASE Closed(e) = NoBar
      <4>1. UNCHANGED <<kzset, sinkVars>>
        BY <1>6, <3>1 DEF PublishTick
      <4> QED
        BY <1>0, <4>1, SinkTypeUnchanged
    <3>2. CASE Closed(e) # NoBar
      <4>1. kzset' = kzset \cup {Closed(e)} /\ PutNowait(Closed(e))
        BY <1>6, <3>2 DEF PublishTick
      <4>2. Closed(e) \in KBar
        BY <2>1, <3>2 DEF Applied
      <4> QED
        BY <1>0, <4>1, <4>2, PutType
    <3> QED
      BY <3>1, <3>2
  <2> QED
    BY <1>3, <2>1, <2>2, <2>3 DEF TypeOK, Applied
<1>7. CASE RedisFails(e)
  <2>1. Applied /\ HandledFalse /\ UNCHANGED <<groupVars, sinkVars>>
    BY <1>1, <1>7 DEF RedisFails
  <2>2. kcurrent' \in KBar \cup {NoBar}
    BY <1>7, <2>1 DEF RedisFails, WriteCurrent, Applied, TypeOK
  <2>3. kzset' \in SUBSET KBar
    BY <1>0, <1>7, <2>1 DEF RedisFails, Applied
  <2>4. missed' \in SUBSET [entry : 1..Len(stream), bar : KBar]
    BY <1>2, <1>7, <2>1 DEF RedisFails
  <2>5. failures' \in 0..MaxFailures
    BY <1>7, PipelineAssumption DEF RedisFails, Fail, TypeOK
  <2> QED
    BY <1>4, <2>1, <2>2, <2>3, <2>4, <2>5, SinkTypeUnchanged DEF TypeOK, Applied
<1>8. CASE InvalidOpen(e)
  <2>1. Applied /\ HandledFalse /\ UNCHANGED <<groupVars, kzset, failures, sinkVars>>
    BY <1>1, <1>8 DEF InvalidOpen
  <2>2. kcurrent' \in KBar \cup {NoBar}
    BY <1>8, <2>1 DEF InvalidOpen, WriteCurrent, Applied, TypeOK
  <2>3. missed' \in SUBSET [entry : 1..Len(stream), bar : KBar]
    BY <1>2, <1>8, <2>1 DEF InvalidOpen
  <2> QED
    BY <1>4, <2>1, <2>2, <2>3, SinkTypeUnchanged DEF TypeOK, Applied
<1>9. CASE QueueFullTick(e)
  <2>1. Applied /\ HandledFalse /\ UNCHANGED <<groupVars, failures, sinkVars>>
    BY <1>1, <1>9 DEF QueueFullTick
  <2>2. kcurrent' \in KBar
    BY <1>9, <2>1 DEF QueueFullTick, WriteCurrent, Applied
  <2>3. kzset' \in SUBSET KBar
    BY <1>0, <1>9, <2>1 DEF QueueFullTick, Applied
  <2>4. missed' \in SUBSET [entry : 1..Len(stream), bar : KBar]
    BY <1>2, <1>9, <2>1 DEF QueueFullTick
  <2> QED
    BY <1>4, <2>1, <2>2, <2>3, <2>4, SinkTypeUnchanged DEF TypeOK, Applied
<1> QED
  BY <1>5, <1>6, <1>7, <1>8, <1>9

\* The sink, the stop, the end of the process and its restart.
LEMMA LifecycleType ==
    ASSUME TypeOK,
           SinkStep \/ StopLoop \/ StopSink \/ Exit \/ Crash \/ Restart
    PROVE  TypeOK'
<1> USE DEF groupVars, loopVars, barVars
<1>0. SinkTypeOK(KBar)
  BY DEF TypeOK
<1>1. CASE SinkStep
  <2>1. SinkTypeOK(KBar)'
    BY <1>0, <1>1, SinkTypeStep DEF SinkStep, CoroutineTurn, CoroutineStep
  <2> QED
    BY <1>1, <2>1 DEF SinkStep, TypeOK
<1>2. CASE StopLoop
  BY <1>2, SinkTypeUnchanged, PipelineAssumption DEF StopLoop, Fail, TypeOK
<1>3. CASE StopSink
  <2>1. SinkTypeOK(KBar)'
    BY <1>0, <1>3, SinkTypeStep DEF StopSink
  <2> QED
    BY <1>3, <2>1 DEF StopSink, TypeOK
<1>4. CASE Exit \/ Crash
  <2>1. Forget /\ failures' \in 0..MaxFailures
    BY <1>4, PipelineAssumption DEF Exit, Crash, Fail, TypeOK
  <2>2. SinkTypeOK(KBar)'
    BY <1>0, <2>1, SinkTypeStep DEF Forget
  <2>3. NewMachine \in Machine
    BY DEF NewMachine, Machine
  <2>4. <<>> \in Seq(1..Len(stream))
    BY EmptySeq
  <2> QED
    BY <2>1, <2>2, <2>3, <2>4 DEF Forget, TypeOK
<1>5. CASE Restart
  BY <1>5, SinkTypeUnchanged DEF Restart, TypeOK
<1> QED
  BY <1>1, <1>2, <1>3, <1>4, <1>5

\* Every step keeps the types.
LEMMA TypeStep == ASSUME TypeOK, [Next]_vars PROVE TypeOK'
<1>1. CASE UNCHANGED vars
  BY <1>1, SinkTypeUnchanged DEF vars, groupVars, loopVars, barVars, TypeOK
<1>2. CASE Next
  BY <1>2, GroupType, HandlerType, LifecycleType DEF Next, LoopStep
<1> QED
  BY <1>1, <1>2

\* Every variable keeps its type: the queue and the batch never exceed their
\* bounds and the retry counter never exceeds db_sink_max_retries, whatever the
\* interleaving of loop, coroutine, thread, stop and crash.
THEOREM TypeCorrect == Spec => []TypeOK
<1>1. Init => TypeOK
  BY InitType
<1>2. TypeOK /\ [Next]_vars => TypeOK'
  BY TypeStep
<1> QED
  BY <1>1, <1>2, PTL DEF Spec

----------------------------------------------------------------------------
(* Order, consistency, archive-before-persist and the promise of the sink.  *)

\* A process without an open bar has closed none.
NothingBeforeFirstBar == machine.current = NoBar => queue = <<>> /\ pending = <<>>

\* The inductive invariant.
IInv ==
    /\ TypeOK
    /\ BarsInOrder
    /\ NothingBeforeFirstBar
    /\ SinkConsistent
    /\ ArchivedBeforePersisted

\* What a step does to the machine, its history, the archive and the sink, in five
\* kinds.
LEMMA NextKinds ==
    ASSUME [Next]_vars
    PROVE  /\ kzset \subseteq kzset' /\ stream' = stream
           /\ \/ UNCHANGED <<machine, applied, sinkVars>>
              \/ \E e \in Entries : ApplyTick(e) /\ UNCHANGED sinkVars
              \/ \E e \in Entries : /\ ApplyTick(e)
                                    /\ Closed(e) # NoBar
                                    /\ kzset' = kzset \cup {Closed(e)}
                                    /\ PutNowait(Closed(e))
              \/ SinkMove /\ UNCHANGED <<machine, applied, kzset>>
              \/ /\ SinkForget /\ machine' = NewMachine /\ applied' = <<>>
                 /\ kzset' = kzset
<1> USE DEF groupVars, loopVars, barVars
<1>1. CASE \E e \in Entries : BecomeIdle(e)
  BY <1>1 DEF BecomeIdle
<1>2. CASE \/ ClaimPending \/ ClaimReplyLost \/ ReadNew \/ ReadReplyLost \/ EndRound
          \/ RefreshFails \/ Ack \/ AckError \/ StopLoop \/ Restart
  BY <1>2 DEF ClaimPending, ClaimReplyLost, ReadNew, ReadReplyLost, EndRound,
              RefreshFails, Ack, AckError, StopLoop, Restart
<1>3. CASE \E e \in Entries : DropTick(e)
  BY <1>3 DEF DropTick
<1>4. CASE \E e \in Entries : PublishTick(e)
  <2>1. PICK e \in Entries : PublishTick(e)
    BY <1>4
  <2>2. ApplyTick(e) /\ UNCHANGED stream
    BY <2>1 DEF PublishTick
  <2>3. CASE Closed(e) = NoBar
    BY <2>1, <2>2, <2>3 DEF PublishTick
  <2>4. CASE Closed(e) # NoBar
    <3>1. kzset' = kzset \cup {Closed(e)} /\ PutNowait(Closed(e))
      BY <2>1, <2>4 DEF PublishTick
    <3> QED
      BY <2>2, <2>4, <3>1
  <2> QED
    BY <2>3, <2>4
<1>5. CASE \E e \in Entries : RedisFails(e) \/ InvalidOpen(e) \/ QueueFullTick(e)
  <2>1. PICK e \in Entries : RedisFails(e) \/ InvalidOpen(e) \/ QueueFullTick(e)
    BY <1>5
  <2>2. ApplyTick(e) /\ UNCHANGED <<stream, sinkVars>>
    BY <2>1 DEF RedisFails, InvalidOpen, QueueFullTick
  <2>3. kzset \subseteq kzset'
    BY <2>1 DEF RedisFails, InvalidOpen, QueueFullTick
  <2> QED
    BY <2>2, <2>3
<1>6. CASE SinkStep
  BY <1>6 DEF SinkStep, CoroutineTurn, CoroutineStep, SinkMove
<1>7. CASE StopSink
  BY <1>7 DEF StopSink, SinkMove
<1>8. CASE Exit \/ Crash
  BY <1>8 DEF Exit, Crash, Forget
<1>9. CASE UNCHANGED vars
  BY <1>9 DEF vars
<1> QED
  BY <1>1, <1>2, <1>3, <1>4, <1>5, <1>6, <1>7, <1>8, <1>9 DEF Next, LoopStep

\* Bars are items with a key.
LEMMA BarKeys == \A x \in KBar : x.at \in Nat
BY DEF KBar

\* A tick that is applied moves the open bar forward, so that everything in the
\* sink stays earlier than it.
LEMMA OpenBarMovesOn ==
    ASSUME IInv, NEW e \in Entries, ApplyTick(e)
    PROVE  /\ machine'.current \in KBar /\ machine'.current # NoBar
           /\ EarlierThan(pending, machine'.current.at)
           /\ EarlierThan(queue, machine'.current.at)
<1>0. TypeOK /\ BarsInOrder /\ NothingBeforeFirstBar
  BY DEF IInv
<1>1. /\ machine'.current \in KBar /\ machine'.current.at = stream[e].at
      /\ machine.current # NoBar => machine.current.at <= stream[e].at
      /\ stream[e] \in Tick
  BY <1>0, ApplyFacts
<1>2. machine'.current # NoBar
  BY <1>1, NoneAssumption
<1>3. /\ pending \in Seq(KBar) /\ queue \in Seq(KBar)
  BY <1>0 DEF TypeOK, SinkTypeOK
<1>4. /\ \A i \in DOMAIN pending : pending[i].at \in Nat
      /\ \A i \in DOMAIN queue : queue[i].at \in Nat
  BY <1>3, BarKeys, LenProperties, ElementOfSeq
<1>5. stream[e].at \in Nat
  BY <1>1 DEF Tick
<1>6. CASE machine.current = NoBar
  BY <1>0, <1>1, <1>2, <1>6 DEF NothingBeforeFirstBar, EarlierThan
<1>7. CASE machine.current # NoBar
  <2>1. EarlierThan(pending, machine.current.at) /\ EarlierThan(queue, machine.current.at)
    BY <1>0, <1>7 DEF BarsInOrder
  <2>2. machine.current.at \in Nat
    BY <1>0, <1>7, BarKeys DEF TypeOK, Machine
  <2> QED
    BY <1>1, <1>2, <1>4, <1>5, <1>7, <2>1, <2>2 DEF EarlierThan
<1> QED
  BY <1>6, <1>7

\* One step: the invariant is kept and the sink makes a step of its promise.
LEMMA StepKeepsPromise ==
    ASSUME IInv, [Next]_vars
    PROVE  IInv' /\ [Sink!Next]_(Sink!wbVars)
<1>0. /\ TypeOK /\ BarsInOrder /\ NothingBeforeFirstBar /\ SinkConsistent
      /\ ArchivedBeforePersisted /\ SinkInOrder /\ SinkTypeOK(KBar)
  BY DEF IInv, BarsInOrder, TypeOK
<1>1. TypeOK' /\ kzset \subseteq kzset'
  BY <1>0, TypeStep, NextKinds
<1>2. ArchivedBeforePersisted <=> Held \cup rows \cup dead \cup logged \subseteq kzset
  BY DEF ArchivedBeforePersisted, Held
<1>3. ArchivedBeforePersisted' <=> Held' \cup rows' \cup dead' \cup logged' \subseteq kzset'
  BY DEF ArchivedBeforePersisted, Held
<1>4. BarsInOrder' <=>
        /\ SinkInOrder'
        /\ machine'.current # NoBar => /\ EarlierThan(pending', machine'.current.at)
                                       /\ EarlierThan(queue', machine'.current.at)
  BY DEF BarsInOrder, EarlierThan
<1>5. UNCHANGED sinkVars
        => /\ SinkInOrder' /\ SinkConsistent' /\ ArchivedBeforePersisted'
           /\ UNCHANGED Sink!wbVars
  <2> SUFFICES ASSUME UNCHANGED sinkVars
               PROVE  /\ SinkInOrder' /\ SinkConsistent' /\ ArchivedBeforePersisted'
                      /\ UNCHANGED Sink!wbVars
    OBVIOUS
  <2>1. UNCHANGED <<queue, pending, retries, sink, orphan, rows, dead, logged>>
    BY DEF sinkVars
  <2>2. UNCHANGED Held
    BY <2>1 DEF Held
  <2>3. SinkInOrder'
    BY <1>0, <2>1 DEF SinkInOrder, InOrder, EarlierThan
  <2>4. SinkConsistent'
    BY <1>0, <2>1 DEF SinkConsistent, RowKeys
  <2> QED
    BY <1>0, <1>1, <1>2, <1>3, <2>1, <2>2, <2>3, <2>4 DEF Sink!wbVars
<1>6. CASE UNCHANGED <<machine, sinkVars>>
  <2>1. UNCHANGED <<queue, pending>>
    BY <1>6 DEF sinkVars
  <2>2. BarsInOrder' /\ NothingBeforeFirstBar'
    BY <1>0, <1>4, <1>5, <1>6, <2>1 DEF BarsInOrder, NothingBeforeFirstBar
  <2> QED
    BY <1>1, <1>5, <1>6, <2>2 DEF IInv
<1>7. CASE \E e \in Entries : ApplyTick(e) /\ UNCHANGED sinkVars
  <2>1. PICK e \in Entries : ApplyTick(e) /\ UNCHANGED sinkVars
    BY <1>7
  <2>2. /\ machine'.current # NoBar
        /\ EarlierThan(pending, machine'.current.at)
        /\ EarlierThan(queue, machine'.current.at)
    BY <2>1, OpenBarMovesOn
  <2>3. UNCHANGED <<queue, pending>>
    BY <2>1 DEF sinkVars
  <2>4. BarsInOrder' /\ NothingBeforeFirstBar'
    BY <1>4, <1>5, <2>1, <2>2, <2>3 DEF NothingBeforeFirstBar
  <2> QED
    BY <1>1, <1>5, <2>1, <2>4 DEF IInv
<1>8. CASE \E e \in Entries : /\ ApplyTick(e)
                              /\ Closed(e) # NoBar
                              /\ kzset' = kzset \cup {Closed(e)}
                              /\ PutNowait(Closed(e))
  <2>1. PICK e \in Entries : /\ ApplyTick(e)
                             /\ Closed(e) # NoBar
                             /\ kzset' = kzset \cup {Closed(e)}
                             /\ PutNowait(Closed(e))
    BY <1>8
  <2> DEFINE bar == Closed(e)
  <2>2. /\ bar \in KBar /\ bar = machine.current /\ bar.at < machine'.current.at
        /\ machine.current # NoBar
    BY <1>0, <2>1, ApplyFacts
  <2>3. /\ machine'.current # NoBar
        /\ EarlierThan(pending, machine'.current.at)
        /\ EarlierThan(queue, machine'.current.at)
    BY <2>1, OpenBarMovesOn
  <2>4. EarlierThan(pending, bar.at) /\ EarlierThan(queue, bar.at)
    BY <1>0, <2>2 DEF BarsInOrder
  <2>5. SinkInOrder' /\ Range(queue') = Range(queue) \cup {bar}
    BY <1>0, <2>1, <2>2, <2>4, PutInOrder
  <2>6. SinkConsistent' /\ Sink!Accept
    BY <1>0, <2>1, <2>2, <2>4, PutAccepts
  <2>7. UNCHANGED <<pending, orphan, rows, dead, logged>> /\ queue' = Append(queue, bar)
    BY <2>1 DEF PutNowait
  <2>8. EarlierThan(queue', machine'.current.at)
    <3>1. queue \in Seq(KBar)
      BY <1>0 DEF SinkTypeOK
    <3>2. /\ Len(queue) \in Nat /\ DOMAIN queue = 1..Len(queue)
          /\ DOMAIN queue' = 1..(Len(queue) + 1)
          /\ \A i \in 1..Len(queue) : queue'[i] = queue[i]
          /\ queue'[Len(queue) + 1] = bar
      BY <2>2, <2>7, <3>1, AppendProperties, LenProperties
    <3>3. \A i \in DOMAIN queue' : i \in DOMAIN queue \/ i = Len(queue) + 1
      BY <3>2
    <3> QED
      BY <2>2, <2>3, <3>2, <3>3 DEF EarlierThan
  <2>9. BarsInOrder' /\ NothingBeforeFirstBar'
    BY <1>4, <2>3, <2>5, <2>7, <2>8 DEF NothingBeforeFirstBar
  <2>10. ArchivedBeforePersisted'
    <3>1. Held' = Held \cup {bar}
      BY <2>5, <2>7 DEF Held
    <3> QED
      BY <1>0, <1>2, <1>3, <2>1, <2>7, <3>1
  <2> QED
    BY <1>1, <2>6, <2>9, <2>10 DEF IInv, Sink!Next
<1>9. CASE SinkMove /\ UNCHANGED <<machine, kzset>>
  <2>1. SinkConsistent' /\ Settled
    BY <1>0, <1>9, BarKeys, SinkMoveSettles
  <2>2. SinkInOrder' /\ Range(queue') \cup Range(pending') \subseteq Range(queue) \cup Range(pending)
    BY <1>0, <1>9, SinkOrderStep
  <2>3. ArchivedBeforePersisted'
    <3>1. Held' \cup rows' \cup dead' \cup logged' \subseteq Held \cup rows \cup dead \cup logged
      BY <2>1 DEF Settled
    <3> QED
      BY <1>0, <1>2, <1>3, <1>9, <3>1
  <2>4. ASSUME machine.current # NoBar
        PROVE  /\ EarlierThan(pending', machine.current.at)
               /\ EarlierThan(queue', machine.current.at)
    <3>1. \A x \in Range(queue) \cup Range(pending) : x.at < machine.current.at
      BY <1>0, <2>4 DEF BarsInOrder, EarlierThan, Range
    <3>2. \A x \in Range(queue') \cup Range(pending') : x.at < machine.current.at
      BY <2>2, <3>1
    <3> QED
      BY <3>2 DEF EarlierThan, Range
  <2>5. BarsInOrder'
    BY <1>4, <1>9, <2>2, <2>4
  <2>6. NothingBeforeFirstBar'
    <3>1. CASE machine.current # NoBar
      BY <1>9, <3>1 DEF NothingBeforeFirstBar
    <3>2. CASE machine.current = NoBar
      <4>1. queue = <<>> /\ pending = <<>>
        BY <1>0, <3>2 DEF NothingBeforeFirstBar
      <4>2. Range(queue') \cup Range(pending') = {}
        BY <2>2, <4>1 DEF Range
      <4>3. queue' \in Seq(KBar) /\ pending' \in Seq(KBar)
        BY <1>1 DEF TypeOK, SinkTypeOK
      <4>4. queue' # <<>> => 1 \in DOMAIN queue'
        BY <4>3, EmptySeq, LenProperties
      <4>5. pending' # <<>> => 1 \in DOMAIN pending'
        BY <4>3, EmptySeq, LenProperties
      <4>6. queue' = <<>> /\ pending' = <<>>
        BY <4>2, <4>4, <4>5 DEF Range
      <4> QED
        BY <4>6 DEF NothingBeforeFirstBar
    <3> QED
      BY <3>1, <3>2
  <2> QED
    BY <1>1, <2>1, <2>3, <2>5, <2>6, SettledIsSettle DEF IInv, Sink!Next
<1>10. CASE SinkForget /\ machine' = NewMachine /\ kzset' = kzset
  <2>1. SinkConsistent' /\ Sink!Forget
    BY <1>0, <1>10, ForgetForgets
  <2>2. SinkInOrder'
    BY <1>0, <1>10, SinkOrderStep
  <2>3. queue' = <<>> /\ pending' = <<>> /\ orphan' = <<>> /\ UNCHANGED <<rows, dead, logged>>
    BY <1>10 DEF SinkForget
  <2>4. ArchivedBeforePersisted'
    <3>1. Held' = {}
      BY <2>3 DEF Held, Range
    <3> QED
      BY <1>0, <1>2, <1>3, <1>10, <2>3, <3>1
  <2>5. BarsInOrder' /\ NothingBeforeFirstBar'
    BY <1>4, <1>10, <2>2, <2>3 DEF NewMachine, NothingBeforeFirstBar
  <2> QED
    BY <1>1, <2>1, <2>4, <2>5 DEF IInv, Sink!Next
<1> QED
  BY <1>6, <1>7, <1>8, <1>9, <1>10, NextKinds

\* The initial states satisfy the invariant and the abstract Init.
LEMMA InitPromises == ASSUME Init PROVE IInv /\ Sink!Init
<1>1. TypeOK
  BY InitType
<1>2. /\ queue = <<>> /\ pending = <<>> /\ orphan = <<>> /\ sink = "idle"
      /\ rows = {} /\ dead = {} /\ logged = {} /\ machine = NewMachine
  BY DEF Init, SinkInit
<1>3. BarsInOrder /\ NothingBeforeFirstBar
  BY <1>2 DEF BarsInOrder, SinkInOrder, InOrder, EarlierThan, NothingBeforeFirstBar, NewMachine
<1>4. Held = {}
  BY <1>2 DEF Held, Range
<1>5. SinkConsistent
  BY <1>2 DEF SinkConsistent
<1>6. ArchivedBeforePersisted
  BY <1>2 DEF ArchivedBeforePersisted, Range
<1> QED
  BY <1>1, <1>2, <1>3, <1>4, <1>5, <1>6 DEF IInv, Sink!Init

\* The inductive invariant of the pipeline.
LEMMA Invariance == Spec => []IInv
<1>1. Init => IInv
  BY InitPromises
<1>2. IInv /\ [Next]_vars => IInv'
  BY StepKeepsPromise
<1> QED
  BY <1>1, <1>2, PTL DEF Spec

\* The bars a process answers for are of strictly increasing minutes: late,
\* redelivered and reclaimed entries never make it hand the sink two bars of a
\* minute (apply_tick, _handle_tick_entry).
THEOREM OrderCorrect == Spec => []BarsInOrder
<1>1. IInv => BarsInOrder
  BY DEF IInv
<1> QED
  BY <1>1, Invariance, PTL

\* A minute has one row, a batch reported persisted has its rows, and the batch of
\* a thread that outlives its cancelled coroutine is never lost sight of.
THEOREM SinkCorrect == Spec => []SinkConsistent
<1>1. IInv => SinkConsistent
  BY DEF IInv
<1> QED
  BY <1>1, Invariance, PTL

\* Redis is never behind the database (_handle_tick_entry archives first).
THEOREM ArchiveCorrect == Spec => []ArchivedBeforePersisted
<1>1. IInv => ArchivedBeforePersisted
  BY DEF IInv
<1> QED
  BY <1>1, Invariance, PTL

\* The queue, the pending batch and an orphaned thread's batch implement the
\* write-behind promise: short of the end of the process, a bar handed off leaves
\* them only with a row for its minute, a dead letter, or an error in the log.
THEOREM PromiseKept == Spec => SinkKeepsPromise
<1>1. Init => Sink!Init
  BY InitPromises
<1>2. IInv /\ [Next]_vars => [Sink!Next]_(Sink!wbVars)
  BY StepKeepsPromise
<1> QED
  BY <1>1, <1>2, Invariance, PTL DEF Spec, SinkKeepsPromise, Sink!Spec

----------------------------------------------------------------------------
(* What is acknowledged is published.                                       *)

\* The last applied tick is in the open bar's minute and has a price, so the same
\* entry would not be dropped if it came again.
LastAppliedOpen ==
    applied # <<>> =>
        LET tick == stream[applied[Len(applied)]]
        IN  machine.current # NoBar /\ machine.current.at = tick.at /\ tick.price # None

\* The steps that touch neither the machine nor the history, and do not begin an
\* acknowledgement.
LEMMA AckQuiet ==
    ASSUME [Next]_vars, ~(\E e \in Entries : \/ DropTick(e) \/ PublishTick(e) \/ RedisFails(e)
                                             \/ InvalidOpen(e) \/ QueueFullTick(e)),
           ~Exit, ~Crash
    PROVE  /\ UNCHANGED <<stream, machine, applied, kcurrent>>
           /\ acking' = acking \/ acking' = 0
<1> USE DEF groupVars, loopVars, barVars
<1>1. CASE \E e \in Entries : BecomeIdle(e)
  BY <1>1 DEF BecomeIdle
<1>2. CASE \/ ClaimPending \/ ClaimReplyLost \/ ReadNew \/ ReadReplyLost \/ EndRound
          \/ RefreshFails \/ Ack \/ AckError \/ StopLoop \/ Restart
  BY <1>2 DEF ClaimPending, ClaimReplyLost, ReadNew, ReadReplyLost, EndRound,
              RefreshFails, Ack, AckError, StopLoop, Restart
<1>3. CASE SinkStep \/ StopSink
  BY <1>3 DEF SinkStep, StopSink
<1>4. CASE UNCHANGED vars
  BY <1>4 DEF vars
<1> QED
  BY <1>1, <1>2, <1>3, <1>4 DEF Next, LoopStep

\* Every step keeps the last applied entry the one the open bar comes from.
LEMMA AckStep ==
    ASSUME TypeOK, LastAppliedOpen, AckedIsPublished, [Next]_vars
    PROVE  LastAppliedOpen' /\ AckedIsPublished'
<1>1. CASE \E e \in Entries : DropTick(e)
  <2>1. PICK e \in Entries : DropTick(e)
    BY <1>1
  <2>2. /\ UNCHANGED <<stream, machine, applied, kcurrent>> /\ acking' = e
        /\ Dropped(machine, stream[e])
    BY <2>1 DEF DropTick, HandledTrue, groupVars, barVars
  <2>3. stream[e] \in Tick
    BY ElementOfSeq DEF TypeOK, Entries
  <2>4. applied # <<>> => applied[Len(applied)] # e
    BY <2>2, <2>3 DEF LastAppliedOpen, Dropped, Tick
  <2> QED
    BY <2>2, <2>4 DEF LastAppliedOpen, AckedIsPublished
<1>2. CASE \E e \in Entries : \/ PublishTick(e) \/ RedisFails(e)
                              \/ InvalidOpen(e) \/ QueueFullTick(e)
  <2>1. PICK e \in Entries : \/ PublishTick(e) \/ RedisFails(e)
                             \/ InvalidOpen(e) \/ QueueFullTick(e)
    BY <1>2
  <2>2. ApplyTick(e) /\ UNCHANGED stream
    BY <2>1 DEF PublishTick, RedisFails, InvalidOpen, QueueFullTick, groupVars
  <2>3. /\ machine'.current \in KBar /\ machine'.current.at = stream[e].at
        /\ applied' = Append(applied, e)
    BY <2>2, ApplyFacts DEF ApplyTick
  <2>4. applied'[Len(applied')] = e
    <3>1. applied \in Seq(1..Len(stream)) /\ e \in 1..Len(stream)
      BY DEF TypeOK, Entries
    <3> QED
      BY <2>3, <3>1, AppendProperties, LenProperties
  <2>5. stream[e].price # None
    BY <2>2 DEF ApplyTick, Dropped
  <2>6. LastAppliedOpen'
    BY <2>2, <2>3, <2>4, <2>5, NoneAssumption DEF LastAppliedOpen
  <2>7. CASE PublishTick(e)
    <3>1. kcurrent' = machine'.current
      BY <2>7 DEF PublishTick, WriteCurrent
    <3> QED
      BY <2>6, <3>1 DEF AckedIsPublished
  <2>8. CASE RedisFails(e) \/ InvalidOpen(e) \/ QueueFullTick(e)
    <3>1. acking' = acking /\ acking = 0
      BY <2>2, <2>8 DEF RedisFails, InvalidOpen, QueueFullTick, HandledFalse, ApplyTick, NextEntry
    <3> QED
      BY <2>6, <3>1 DEF AckedIsPublished
  <2> QED
    BY <2>1, <2>7, <2>8
<1>3. CASE Exit \/ Crash
  <2>1. acking' = 0 /\ applied' = <<>>
    BY <1>3 DEF Exit, Crash, Forget
  <2> QED
    BY <2>1 DEF LastAppliedOpen, AckedIsPublished
<1>4. CASE /\ ~(\E e \in Entries : \/ DropTick(e) \/ PublishTick(e) \/ RedisFails(e)
                                   \/ InvalidOpen(e) \/ QueueFullTick(e))
           /\ ~Exit /\ ~Crash
  <2>1. /\ UNCHANGED <<stream, machine, applied, kcurrent>>
        /\ acking' = acking \/ acking' = 0
    BY <1>4, AckQuiet
  <2> QED
    BY <2>1 DEF LastAppliedOpen, AckedIsPublished
<1> QED
  BY <1>1, <1>2, <1>3, <1>4

\* When an applied entry is about to be acknowledged, k:current is the machine's
\* open bar (_handle_tick_entry returns True only after _write_current_k).
THEOREM AckCorrect == Spec => []AckedIsPublished
<1>1. Init => LastAppliedOpen /\ AckedIsPublished
  BY DEF Init, LastAppliedOpen, AckedIsPublished
<1>2. TypeOK /\ LastAppliedOpen /\ AckedIsPublished /\ [Next]_vars
         => LastAppliedOpen' /\ AckedIsPublished'
  BY AckStep
<1> QED
  BY <1>1, <1>2, TypeCorrect, PTL DEF Spec

----------------------------------------------------------------------------
(* Every bar is the summary of the ticks of its minute.                     *)

\* The ticks this process applied, in order.
Ticks == [i \in DOMAIN applied |-> stream[applied[i]]]

\* The bar summarises the ticks at the positions P: IsSummary with witnesses in the
\* place of its choices.
SummaryOf(bar, P, tick) ==
    /\ P # {}
    /\ \E first \in P : (\A j \in P : first <= j) /\ bar.open = tick[first].price
    /\ \E last \in P : (\A j \in P : last >= j) /\ bar.close = tick[last].price
    /\ \A i \in P : bar.low <= tick[i].price /\ tick[i].price <= bar.high
    /\ \E i, j \in P : bar.low = tick[i].price /\ bar.high = tick[j].price
    /\ bar.volume = SumFunctionOnSet([i \in P |-> tick[i].volume], P)

\* The ticks at P have a price, and P is a finite set of positions.
Priced(P, tick) ==
    /\ P \subseteq Nat /\ IsFiniteSet(P)
    /\ \A i \in P : tick[i] \in Tick /\ tick[i].price # None

\* The bar a tick opens summarises that tick (apply_tick opens with its price and
\* its volume).
LEMMA FirstTick ==
    ASSUME NEW m, NEW n \in Nat, NEW tick, tick[n] \in Tick, tick[n].price # None
    PROVE  SummaryOf(OpenedBar(m, tick[n]), {n}, tick)
<1> DEFINE t == tick[n]
           g == [i \in {n} |-> tick[i].volume]
<1>1. t.price \in Nat /\ t.volume \in Nat
  BY DEF Tick
<1>2. SumFunctionOnSet(g, {n}) = t.volume
  <2>1. g[n] = t.volume /\ g \in [{n} -> Nat]
    BY <1>1
  <2> HIDE DEF g
  <2> QED
    BY <1>1, <2>1, SumOne
<1>3. /\ OpenedBar(m, t).open = t.price /\ OpenedBar(m, t).close = t.price
      /\ OpenedBar(m, t).low = t.price /\ OpenedBar(m, t).high = t.price
      /\ OpenedBar(m, t).volume = t.volume
  BY DEF OpenedBar
<1> QED
  BY <1>1, <1>2, <1>3 DEF SummaryOf

\* A tick that updates the open bar makes it the summary of one tick more
\* (apply_tick widens high and low, moves the close and adds the volume).
LEMMA NextTick ==
    ASSUME NEW P, NEW tick, Priced(P, tick),
           NEW m, m.current \in KBar, SummaryOf(m.current, P, tick),
           NEW n \in Nat, \A i \in P : i < n,
           NEW more, more[n] \in Tick, more[n].price # None,
           \A i \in P : more[i] = tick[i]
    PROVE  SummaryOf(UpdatedBar(m, more[n]), P \cup {n}, more)
<1> DEFINE t == more[n]
           old == m.current
           new == UpdatedBar(m, t)
           f == [i \in P |-> tick[i].volume]
           g == [i \in P \cup {n} |-> more[i].volume]
<1>1. /\ t.price \in Nat /\ t.volume \in Nat
      /\ old.low \in Nat /\ old.high \in Nat /\ old.volume \in Nat
      /\ \A i \in P : tick[i].price \in Nat /\ tick[i].volume \in Nat /\ i \in Nat
  BY DEF Tick, KBar, Priced
<1>2. /\ new.open = old.open /\ new.close = t.price
      /\ new.high = Higher(old.high, t.price) /\ new.low = Lower(old.low, t.price)
      /\ new.volume = old.volume + t.volume
  BY DEF UpdatedBar
<1>3. new.volume = SumFunctionOnSet(g, P \cup {n})
  <2>1. IsFiniteSet(P) /\ n \notin P
    BY <1>1 DEF Priced
  <2>4. g[n] = t.volume
    OBVIOUS
  <2>5. f \in [P -> Nat] /\ g \in [P \cup {n} -> Nat]
    BY <1>1
  <2>6. \A x \in P : g[x] = f[x]
    OBVIOUS
  <2>2. old.volume = SumFunctionOnSet(f, P)
    BY DEF SummaryOf
  <2> HIDE DEF f, g, new, old, t
  <2>3. SumFunctionOnSet(g, P \cup {n}) = SumFunctionOnSet(f, P) + g[n]
    BY <2>1, <2>5, <2>6, SumAdd
  <2> QED
    BY <1>1, <1>2, <2>4, <2>2, <2>3
<1>4. PICK first \in P : (\A j \in P : first <= j) /\ old.open = tick[first].price
  BY DEF SummaryOf
<1>5. \E i \in P \cup {n} : (\A j \in P \cup {n} : i <= j) /\ new.open = more[i].price
  <2>1. first <= n
    BY <1>1, <1>4
  <2> QED
    BY <1>2, <1>4, <2>1
<1>6. \E i \in P \cup {n} : (\A j \in P \cup {n} : i >= j) /\ new.close = more[i].price
  <2>1. \A j \in P \cup {n} : n >= j
    BY <1>1
  <2> QED
    BY <1>2, <2>1
<1>7. PICK lo \in P, hi \in P : old.low = tick[lo].price /\ old.high = tick[hi].price
  BY DEF SummaryOf
<1>8. \A i \in P : old.low <= tick[i].price /\ tick[i].price <= old.high
  BY DEF SummaryOf
<1>9. \A i \in P \cup {n} : new.low <= more[i].price /\ more[i].price <= new.high
  BY <1>1, <1>2, <1>8 DEF Higher, Lower
<1>10. \E i, j \in P \cup {n} : new.low = more[i].price /\ new.high = more[j].price
  BY <1>1, <1>2, <1>7 DEF Higher, Lower
<1> HIDE DEF new
<1>11. SummaryOf(new, P \cup {n}, more)
  BY <1>3, <1>5, <1>6, <1>9, <1>10 DEF SummaryOf
<1> QED
  BY <1>11 DEF new

\* A summary depends on nothing but the ticks at its positions.
LEMMA SameTicks ==
    ASSUME NEW bar, NEW P, NEW tick, NEW more, SummaryOf(bar, P, tick),
           \A i \in P : more[i] = tick[i]
    PROVE  SummaryOf(bar, P, more)
<1>1. [i \in P |-> tick[i].volume] = [i \in P |-> more[i].volume]
  OBVIOUS
<1> QED
  BY <1>1 DEF SummaryOf

\* Such a summary is the one of BarsMatchTicks.
LEMMA SummaryMeans ==
    ASSUME NEW bar, NEW P, P \subseteq DOMAIN applied, P \subseteq Nat,
           SummaryOf(bar, P, Ticks)
    PROVE  IsSummary(bar, P)
<1>1. \A i \in P : Ticks[i] = stream[applied[i]]
  BY DEF Ticks
<1>2. PICK first \in P : (\A j \in P : first <= j) /\ bar.open = Ticks[first].price
  BY DEF SummaryOf
<1>3. (CHOOSE i \in P : \A j \in P : i <= j) = first
  <2>1. \A i \in P : (\A j \in P : i <= j) => i = first
    BY <1>2
  <2> QED
    BY <1>2, <2>1
<1>4. PICK last \in P : (\A j \in P : last >= j) /\ bar.close = Ticks[last].price
  BY DEF SummaryOf
<1>5. (CHOOSE i \in P : \A j \in P : i >= j) = last
  <2>1. \A i \in P : (\A j \in P : i >= j) => i = last
    BY <1>4
  <2> QED
    BY <1>4, <2>1
<1>6. [i \in P |-> Ticks[i].volume] = [i \in P |-> stream[applied[i]].volume]
  BY <1>1
<1> QED
  BY <1>1, <1>2, <1>3, <1>4, <1>5, <1>6 DEF SummaryOf, IsSummary

\* Every tick of the history has a price and is not later than the open bar, and a
\* process without an open bar is as new.
HistoryInOrder ==
    /\ machine.current = NoBar => machine = NewMachine
    /\ \A i \in DOMAIN applied :
          /\ stream[applied[i]].price # None
          /\ machine.current # NoBar
          /\ stream[applied[i]].at <= machine.current.at

\* Every bar the process answers for is a summary.
BarsSummarise == \A bar \in Unsettled : SummaryOf(bar, AppliedTo(bar.at), Ticks)

\* The position of the next tick in the history.
NextPosition == Len(applied) + 1

\* The positions of the history.
LEMMA HistoryFacts ==
    ASSUME TypeOK
    PROVE  /\ DOMAIN applied = 1..Len(applied) /\ Len(applied) \in Nat
           /\ \A i \in DOMAIN applied : stream[applied[i]] \in Tick
           /\ \A i \in DOMAIN applied : Ticks[i] = stream[applied[i]]
           /\ \A P \in SUBSET DOMAIN applied : IsFiniteSet(P) /\ P \subseteq Nat
<1>1. applied \in Seq(1..Len(stream)) /\ stream \in Seq(Tick)
  BY DEF TypeOK
<1>2. DOMAIN applied = 1..Len(applied) /\ Len(applied) \in Nat
  BY <1>1, LenProperties
<1>3. \A i \in DOMAIN applied : stream[applied[i]] \in Tick
  BY <1>1, <1>2, ElementOfSeq
<1>4. IsFiniteSet(1..Len(applied))
  BY <1>2, FS_Interval
<1>5. \A P \in SUBSET DOMAIN applied : IsFiniteSet(P) /\ P \subseteq Nat
  BY <1>2, <1>4, FS_Subset
<1> QED
  BY <1>2, <1>3, <1>5 DEF Ticks

\* An applied tick is one more tick of the history (the call of apply_tick).
LEMMA HistoryGrows ==
    ASSUME TypeOK, NEW e \in Entries, ApplyTick(e), stream' = stream
    PROVE  /\ NextPosition \in Nat /\ NextPosition \notin DOMAIN applied
           /\ \A i \in DOMAIN applied : i < NextPosition
           /\ DOMAIN applied' = (DOMAIN applied) \cup {NextPosition}
           /\ stream'[applied'[NextPosition]] = stream[e]
           /\ \A i \in DOMAIN applied : stream'[applied'[i]] = stream[applied[i]]
           /\ Ticks'[NextPosition] = stream[e] /\ \A i \in DOMAIN applied : Ticks'[i] = Ticks[i]
           /\ stream[e] \in Tick /\ stream[e].price # None
<1>1. DOMAIN applied = 1..Len(applied) /\ Len(applied) \in Nat
  BY HistoryFacts
<1>2. applied' = Append(applied, e) /\ applied \in Seq(1..Len(stream)) /\ e \in 1..Len(stream)
  BY DEF ApplyTick, TypeOK, Entries
<1>3. /\ DOMAIN applied' = 1..(Len(applied) + 1)
      /\ \A i \in 1..Len(applied) : applied'[i] = applied[i]
      /\ applied'[Len(applied) + 1] = e
  BY <1>1, <1>2, AppendProperties, LenProperties
<1>4. DOMAIN applied' = (DOMAIN applied) \cup {NextPosition}
  BY <1>1, <1>3 DEF NextPosition
<1>5. /\ stream'[applied'[NextPosition]] = stream[e]
      /\ \A i \in DOMAIN applied : stream'[applied'[i]] = stream[applied[i]]
  BY <1>1, <1>3 DEF NextPosition
<1>6. Ticks'[NextPosition] = stream[e] /\ \A i \in DOMAIN applied : Ticks'[i] = Ticks[i]
  BY <1>4, <1>5 DEF Ticks
<1>7. stream[e] \in Tick /\ stream[e].price # None
  BY ApplyFacts DEF ApplyTick, Dropped
<1> QED
  BY <1>1, <1>4, <1>5, <1>6, <1>7 DEF NextPosition

\* The ticks that went into a minute before a tick is applied and after it.
LEMMA AppliedToGrows ==
    ASSUME TypeOK, NEW e \in Entries, ApplyTick(e), stream' = stream, NEW minute
    PROVE  /\ stream[e].at # minute => AppliedTo(minute)' = AppliedTo(minute)
           /\ stream[e].at = minute => AppliedTo(minute)' = AppliedTo(minute) \cup {NextPosition}
BY HistoryGrows DEF AppliedTo

\* A tick is applied: the open bar is the summary of its minute.
LEMMA OpenBarSummarises ==
    ASSUME TypeOK, HistoryInOrder, BarsSummarise,
           NEW e \in Entries, ApplyTick(e), stream' = stream
    PROVE  SummaryOf(machine.current, AppliedTo(machine.current.at), Ticks)'
<1> DEFINE t == stream[e]
           P == AppliedTo(t.at)
<1>1. /\ machine'.current.at = t.at /\ t \in Tick /\ t.price # None /\ t.at \in Nat
      /\ machine.current # NoBar => machine.current.at <= t.at /\ machine.current.at \in Nat
      /\ machine' = AfterTick(machine, t) /\ machine \in Machine
  BY ApplyFacts, HistoryGrows, BarKeys DEF ApplyTick, Tick, TypeOK, Machine
<1>2. AppliedTo(machine.current.at)' = P \cup {NextPosition}
  <2>1. \A minute : minute = t.at => AppliedTo(minute)' = AppliedTo(minute) \cup {NextPosition}
    BY AppliedToGrows
  <2> QED
    BY <1>1, <2>1
<1>3. /\ P \subseteq DOMAIN applied
      /\ NextPosition \in Nat /\ Ticks'[NextPosition] = t /\ \A i \in P : Ticks'[i] = Ticks[i] /\ i < NextPosition
  BY HistoryGrows DEF AppliedTo
<1>4. CASE SameMinute(machine, t)
  <2>1. machine.current \in KBar /\ machine.current.at = t.at /\ machine.current \in Unsettled
    BY <1>1, <1>4 DEF SameMinute, Machine, Unsettled
  <2>2. SummaryOf(machine.current, P, Ticks)
    BY <2>1 DEF BarsSummarise
  <2>3. Priced(P, Ticks)
    <3>1. IsFiniteSet(P) /\ P \subseteq Nat
      BY <1>3, HistoryFacts
    <3>2. \A i \in P : Ticks[i] = stream[applied[i]] /\ Ticks[i] \in Tick
      BY <1>3, HistoryFacts
    <3>3. \A i \in P : Ticks[i].price # None
      BY <1>3, <3>2 DEF HistoryInOrder
    <3> QED
      BY <3>1, <3>2, <3>3 DEF Priced
  <2>4. machine'.current = UpdatedBar(machine, t)
    BY <1>1, <1>4 DEF AfterTick
  <2> HIDE DEF P
  <2>5. SummaryOf(UpdatedBar(machine, Ticks'[NextPosition]), P \cup {NextPosition}, Ticks')
    BY <1>1, <1>3, <2>1, <2>2, <2>3, NextTick
  <2> QED
    BY <1>1, <1>2, <1>3, <2>4, <2>5
<1>5. CASE ~SameMinute(machine, t)
  <2>1. P = {}
    <3> SUFFICES ASSUME NEW i \in P PROVE FALSE
      OBVIOUS
    <3>1. stream[applied[i]].at = t.at /\ i \in DOMAIN applied
      BY DEF AppliedTo
    <3>2. machine.current # NoBar /\ t.at <= machine.current.at
      BY <3>1 DEF HistoryInOrder
    <3> QED
      BY <1>1, <1>5, <3>2 DEF SameMinute
  <2>2. machine'.current = OpenedBar(machine, t)
    BY <1>1, <1>5 DEF AfterTick
  <2> HIDE DEF P
  <2>3. SummaryOf(OpenedBar(machine, Ticks'[NextPosition]), {NextPosition}, Ticks')
    BY <1>1, <1>3, FirstTick
  <2> QED
    BY <1>1, <1>2, <1>3, <2>1, <2>2, <2>3
<1> QED
  BY <1>4, <1>5

\* The history and the open bar after any step.
LEMMA HistoryStep ==
    ASSUME TypeOK, HistoryInOrder, [Next]_vars
    PROVE  HistoryInOrder'
<1>0. stream' = stream
  BY NextKinds
<1>1. CASE UNCHANGED <<machine, applied>>
  BY <1>0, <1>1 DEF HistoryInOrder
<1>2. CASE \E e \in Entries : ApplyTick(e)
  <2>1. PICK e \in Entries : ApplyTick(e)
    BY <1>2
  <2>2. /\ machine'.current \in KBar /\ machine'.current.at = stream[e].at
        /\ machine.current # NoBar => machine.current.at <= stream[e].at
    BY <2>1, ApplyFacts
  <2>3. machine'.current # NoBar
    BY <2>2, NoneAssumption
  <2>4. stream[e] \in Tick /\ stream[e].at \in Nat
    BY <1>0, <2>1, HistoryGrows DEF Tick
  <2>5. machine.current # NoBar => machine.current.at \in Nat
    BY BarKeys DEF TypeOK, Machine
  <2>6. \A i \in DOMAIN applied : /\ stream[applied[i]].price # None
                                  /\ stream[applied[i]].at <= stream[e].at
    <3>1. \A i \in DOMAIN applied : stream[applied[i]].at \in Nat
      BY HistoryFacts DEF Tick
    <3> QED
      BY <2>2, <2>4, <2>5, <3>1 DEF HistoryInOrder
  <2>7. ASSUME NEW i \in DOMAIN applied'
        PROVE  /\ stream'[applied'[i]].price # None
               /\ stream'[applied'[i]].at <= stream[e].at
    BY <1>0, <2>1, <2>4, <2>6, HistoryGrows
  <2> QED
    BY <2>2, <2>3, <2>7 DEF HistoryInOrder
<1>3. CASE machine' = NewMachine /\ applied' = <<>>
  BY <1>3 DEF HistoryInOrder, NewMachine
<1> QED
  BY <1>1, <1>2, <1>3, NextKinds

\* Every bar the process answers for stays a summary.
LEMMA BarsStep ==
    ASSUME IInv, HistoryInOrder, BarsSummarise, [Next]_vars
    PROVE  BarsSummarise'
<1>0. stream' = stream /\ TypeOK /\ BarsInOrder
  BY NextKinds DEF IInv
<1>1. ASSUME UNCHANGED <<machine, applied>>,
             Range(queue') \cup Range(pending') \subseteq Range(queue) \cup Range(pending)
      PROVE  BarsSummarise'
  <2>1. Unsettled' \subseteq Unsettled
    BY <1>1 DEF Unsettled
  <2>2. Ticks' = Ticks /\ \A bar : AppliedTo(bar.at)' = AppliedTo(bar.at)
    BY <1>0, <1>1 DEF Ticks, AppliedTo
  <2> QED
    BY <2>1, <2>2 DEF BarsSummarise
<1>2. ASSUME NEW e \in Entries, ApplyTick(e),
             \A bar \in Range(queue') \cup Range(pending') :
                bar \in Unsettled /\ bar.at < machine'.current.at
      PROVE  BarsSummarise'
  <2>1. machine'.current.at = stream[e].at /\ stream[e] \in Tick
    BY <1>0, <1>2, ApplyFacts
  <2>2. SummaryOf(machine.current, AppliedTo(machine.current.at), Ticks)'
    BY <1>0, <1>2, OpenBarSummarises
  <2>3. ASSUME NEW bar \in Range(queue') \cup Range(pending')
        PROVE  SummaryOf(bar, AppliedTo(bar.at)', Ticks')
    <3>1. bar \in Unsettled /\ bar.at < stream[e].at
      BY <1>2, <2>1
    <3>2. SummaryOf(bar, AppliedTo(bar.at), Ticks)
      BY <3>1 DEF BarsSummarise
    <3>3. stream[e].at # bar.at
      <4>1. stream[e].at \in Nat
        BY <2>1 DEF Tick
      <4> QED
        BY <3>1, <4>1
    <3>4. AppliedTo(bar.at)' = AppliedTo(bar.at)
      BY <1>0, <1>2, <3>3, AppliedToGrows
    <3>5. \A i \in AppliedTo(bar.at) : Ticks'[i] = Ticks[i]
      BY <1>0, <1>2, HistoryGrows DEF AppliedTo
    <3> QED
      BY <3>2, <3>4, <3>5, SameTicks
  <2> QED
    BY <2>2, <2>3 DEF BarsSummarise, Unsettled
<1>3. CASE UNCHANGED <<machine, applied, sinkVars>>
  BY <1>1, <1>3 DEF sinkVars
<1>4. CASE \E e \in Entries : ApplyTick(e) /\ UNCHANGED sinkVars
  <2>1. PICK e \in Entries : ApplyTick(e) /\ UNCHANGED sinkVars
    BY <1>4
  <2>2. /\ EarlierThan(pending, machine'.current.at)
        /\ EarlierThan(queue, machine'.current.at)
    BY <2>1, OpenBarMovesOn
  <2>3. UNCHANGED <<queue, pending>>
    BY <2>1 DEF sinkVars
  <2>4. \A bar \in Range(queue') \cup Range(pending') :
           bar \in Unsettled /\ bar.at < machine'.current.at
    BY <2>2, <2>3 DEF EarlierThan, Range, Unsettled
  <2> QED
    BY <1>2, <2>1, <2>4
<1>5. CASE \E e \in Entries : /\ ApplyTick(e)
                              /\ Closed(e) # NoBar
                              /\ kzset' = kzset \cup {Closed(e)}
                              /\ PutNowait(Closed(e))
  <2>1. PICK e \in Entries : ApplyTick(e) /\ Closed(e) # NoBar /\ PutNowait(Closed(e))
    BY <1>5
  <2>2. /\ EarlierThan(pending, machine'.current.at)
        /\ EarlierThan(queue, machine'.current.at)
    BY <2>1, OpenBarMovesOn
  <2>3. /\ Closed(e) \in KBar /\ Closed(e) = machine.current /\ machine.current # NoBar
        /\ Closed(e).at < machine'.current.at
    BY <1>0, <2>1, ApplyFacts
  <2>4. pending' = pending /\ Range(queue') = Range(queue) \cup {Closed(e)}
    <3>1. EarlierThan(pending, Closed(e).at) /\ EarlierThan(queue, Closed(e).at)
      BY <1>0, <2>3 DEF BarsInOrder
    <3>2. SinkTypeOK(KBar) /\ SinkInOrder
      BY <1>0 DEF TypeOK, BarsInOrder
    <3>3. Range(queue') = Range(queue) \cup {Closed(e)}
      BY <2>1, <2>3, <3>1, <3>2, PutInOrder
    <3> QED
      BY <2>1, <3>3 DEF PutNowait
  <2>5. \A bar \in Range(queue') \cup Range(pending') :
           bar \in Unsettled /\ bar.at < machine'.current.at
    BY <2>2, <2>3, <2>4 DEF EarlierThan, Range, Unsettled
  <2> QED
    BY <1>2, <2>1, <2>5
<1>6. CASE SinkMove /\ UNCHANGED <<machine, applied, kzset>>
  <2>1. SinkTypeOK(KBar) /\ SinkInOrder
    BY <1>0 DEF TypeOK, BarsInOrder
  <2>2. Range(queue') \cup Range(pending') \subseteq Range(queue) \cup Range(pending)
    BY <1>6, <2>1, SinkOrderStep
  <2> QED
    BY <1>1, <1>6, <2>2
<1>7. CASE SinkForget /\ machine' = NewMachine
  <2>1. queue' = <<>> /\ pending' = <<>> /\ machine'.current = NoBar
    BY <1>7 DEF SinkForget, NewMachine
  <2>2. Unsettled' = {}
    BY <2>1 DEF Unsettled, Range
  <2> QED
    BY <2>2 DEF BarsSummarise
<1> QED
  BY <1>3, <1>4, <1>5, <1>6, <1>7, NextKinds

\* The bars in the pending batch and the queue and the open bar are the summaries of
\* exactly the ticks the process applied to their minutes, also when the minutes of a
\* reclaimed batch and of new entries are mixed (apply_tick).  What has left them for
\* the archive is the next theorem's.
THEOREM BarsCorrect == Spec => []BarsMatchTicks
<1>1. Init => HistoryInOrder /\ BarsSummarise
  BY DEF Init, SinkInit, HistoryInOrder, BarsSummarise, Unsettled, Range, NewMachine
<1>2. IInv /\ HistoryInOrder /\ BarsSummarise /\ [Next]_vars
         => HistoryInOrder' /\ BarsSummarise'
  BY HistoryStep, BarsStep DEF IInv
<1>3. IInv /\ BarsSummarise => BarsMatchTicks
  <2> SUFFICES ASSUME TypeOK, BarsSummarise, NEW bar \in Unsettled
               PROVE  IsSummary(bar, AppliedTo(bar.at))
    BY DEF IInv, BarsMatchTicks
  <2>1. AppliedTo(bar.at) \in SUBSET DOMAIN applied
    BY DEF AppliedTo
  <2>2. AppliedTo(bar.at) \subseteq Nat
    BY <2>1, HistoryFacts
  <2> QED
    BY <2>1, <2>2, SummaryMeans DEF BarsSummarise
<1> QED
  BY <1>1, <1>2, <1>3, Invariance, PTL DEF Spec

\* What enters k:zset summarises exactly the ticks of its minute that the process
\* applied, this step's included, and the process has gone on to a later minute, of
\* which its next ticks will be.
ArchivedWhenComplete ==
    \A bar \in kzset' \ kzset :
        /\ IsSummary(bar, AppliedTo(bar.at))'
        /\ machine'.current # NoBar /\ bar.at < machine'.current.at

\* k:zset gets nothing but the bar an applied tick closes.
LEMMA ArchiveKinds ==
    ASSUME [Next]_vars
    PROVE  \/ kzset' = kzset
           \/ \E e \in Entries : /\ ApplyTick(e) /\ Closed(e) # NoBar
                                 /\ kzset' = kzset \cup {Closed(e)}
<1>1. CASE \E e \in Entries : RedisFails(e) \/ InvalidOpen(e) \/ QueueFullTick(e)
  <2>1. PICK e \in Entries : RedisFails(e) \/ InvalidOpen(e) \/ QueueFullTick(e)
    BY <1>1
  <2>2. ApplyTick(e)
    BY <2>1 DEF RedisFails, InvalidOpen, QueueFullTick
  <2>3. kzset' = kzset \/ (Closed(e) # NoBar /\ kzset' = kzset \cup {Closed(e)})
    BY <2>1 DEF RedisFails, InvalidOpen, QueueFullTick
  <2> QED
    BY <2>2, <2>3
<1>2. CASE \E e \in Entries : PublishTick(e)
  <2>1. PICK e \in Entries : PublishTick(e)
    BY <1>2
  <2>2. ApplyTick(e)
    BY <2>1 DEF PublishTick
  <2>3. kzset' = kzset \/ (Closed(e) # NoBar /\ kzset' = kzset \cup {Closed(e)})
    BY <2>1 DEF PublishTick
  <2> QED
    BY <2>2, <2>3
<1>3. CASE \E e \in Entries : BecomeIdle(e) \/ DropTick(e)
  BY <1>3 DEF BecomeIdle, DropTick, barVars
<1>4. CASE \/ ClaimPending \/ ClaimReplyLost \/ ReadNew \/ ReadReplyLost \/ EndRound
          \/ RefreshFails \/ Ack \/ AckError \/ StopLoop \/ Restart
  BY <1>4 DEF ClaimPending, ClaimReplyLost, ReadNew, ReadReplyLost, EndRound,
              RefreshFails, Ack, AckError, StopLoop, Restart, barVars
<1>5. CASE SinkStep \/ StopSink
  BY <1>5 DEF SinkStep, StopSink, barVars
<1>6. CASE Exit \/ Crash
  BY <1>6 DEF Exit, Crash, Forget
<1>7. CASE UNCHANGED vars
  BY <1>7 DEF vars, barVars
<1> QED
  BY <1>1, <1>2, <1>3, <1>4, <1>5, <1>6, <1>7 DEF Next, LoopStep

\* A summary depends on nothing but the history at its positions.
LEMMA SameSummary ==
    ASSUME NEW bar, NEW P, IsSummary(bar, P), AppliedTo(bar.at)' = P,
           \E i \in P : \A j \in P : i <= j,
           \E i \in P : \A j \in P : i >= j,
           \A i \in P : stream'[applied'[i]] = stream[applied[i]]
    PROVE  IsSummary(bar, AppliedTo(bar.at))'
<1>1. PICK first : first = CHOOSE i \in P : \A j \in P : i <= j
  OBVIOUS
<1>2. PICK last : last = CHOOSE i \in P : \A j \in P : i >= j
  OBVIOUS
<1>3. first \in P /\ last \in P
  BY <1>1, <1>2
<1>4. [i \in P |-> stream'[applied'[i]].volume] = [i \in P |-> stream[applied[i]].volume]
  OBVIOUS
<1>5. PICK volumes : volumes = [i \in P |-> stream[applied[i]].volume]
  OBVIOUS
<1>6. /\ P # {}
      /\ bar.open = stream[applied[first]].price /\ bar.close = stream[applied[last]].price
      /\ \A i \in P : bar.low <= stream[applied[i]].price /\ stream[applied[i]].price <= bar.high
      /\ \E i, j \in P : bar.low = stream[applied[i]].price /\ bar.high = stream[applied[j]].price
      /\ bar.volume = SumFunctionOnSet(volumes, P)
  BY <1>1, <1>2, <1>5 DEF IsSummary
<1>7. /\ P # {}
      /\ bar.open = stream'[applied'[first]].price /\ bar.close = stream'[applied'[last]].price
      /\ \A i \in P : bar.low <= stream'[applied'[i]].price /\ stream'[applied'[i]].price <= bar.high
      /\ \E i, j \in P : bar.low = stream'[applied'[i]].price /\ bar.high = stream'[applied'[j]].price
      /\ bar.volume = SumFunctionOnSet([i \in P |-> stream'[applied'[i]].volume], P)
  BY <1>3, <1>4, <1>5, <1>6
<1>8. PICK Q : Q = AppliedTo(bar.at)' /\ Q = P
  OBVIOUS
<1> QED
  BY <1>1, <1>2, <1>7, <1>8 DEF IsSummary

\* A bar that a step archives is the bar that was open: a complete summary.
LEMMA ArchiveStep ==
    ASSUME IInv, HistoryInOrder, BarsSummarise, [Next]_vars
    PROVE  ArchivedWhenComplete
<1>0. TypeOK /\ stream' = stream
  BY NextKinds DEF IInv
<1> SUFFICES ASSUME NEW bar \in kzset' \ kzset
             PROVE  /\ IsSummary(bar, AppliedTo(bar.at))'
                    /\ machine'.current # NoBar /\ bar.at < machine'.current.at
  BY DEF ArchivedWhenComplete
<1>1. PICK e \in Entries : ApplyTick(e) /\ Closed(e) # NoBar /\ bar = Closed(e)
  BY ArchiveKinds
<1>2. /\ bar = machine.current /\ machine.current # NoBar /\ bar \in KBar
      /\ bar.at < machine'.current.at /\ machine'.current.at = stream[e].at
      /\ machine'.current \in KBar /\ stream[e] \in Tick
  BY <1>0, <1>1, ApplyFacts
<1>3. stream[e].at # bar.at
  BY <1>2 DEF Tick, KBar
<1>4. AppliedTo(bar.at)' = AppliedTo(bar.at) /\ AppliedTo(bar.at) \in SUBSET DOMAIN applied
  BY <1>0, <1>1, <1>3, AppliedToGrows DEF AppliedTo
<1>5. SummaryOf(bar, AppliedTo(bar.at), Ticks)
  BY <1>2 DEF BarsSummarise, Unsettled
<1>6. AppliedTo(bar.at) \subseteq Nat
  BY <1>0, <1>4, HistoryFacts
<1>7. IsSummary(bar, AppliedTo(bar.at))
  BY <1>4, <1>5, <1>6, SummaryMeans
<1>8. \A i \in AppliedTo(bar.at) : stream'[applied'[i]] = stream[applied[i]]
  BY <1>0, <1>1, <1>4, HistoryGrows
<1>9. /\ \E i \in AppliedTo(bar.at) : \A j \in AppliedTo(bar.at) : i <= j
      /\ \E i \in AppliedTo(bar.at) : \A j \in AppliedTo(bar.at) : i >= j
  BY <1>5 DEF SummaryOf
<1>10. IsSummary(bar, AppliedTo(bar.at))'
  BY <1>4, <1>7, <1>8, <1>9, SameSummary
<1> QED
  BY <1>2, <1>10, NoneAssumption

\* No bar enters k:zset, at whatever time and after whatever failures, but as the summary
\* of exactly the ticks the process applied to its minute, and once its minute is over.
\* By ArchiveCorrect every row, dead letter and log line is such a bar
\* (_handle_tick_entry, _write_k_archive).
THEOREM ArchivedComplete == Spec => [][ArchivedWhenComplete]_vars
<1>1. Init => HistoryInOrder /\ BarsSummarise
  BY DEF Init, SinkInit, HistoryInOrder, BarsSummarise, Unsettled, Range, NewMachine
<1>2. IInv /\ HistoryInOrder /\ BarsSummarise /\ [Next]_vars
         => /\ HistoryInOrder' /\ BarsSummarise'
            /\ ArchivedWhenComplete
  BY HistoryStep, BarsStep, ArchiveStep DEF IInv
<1> QED
  BY <1>1, <1>2, Invariance, PTL DEF Spec

----------------------------------------------------------------------------
(* The day fields are those of the day-session ticks of the trade date.     *)

\* A later minute is not of an earlier trade date (trade_date_for).
LEMMA TradeDateMonotone ==
    ASSUME NEW a \in Nat, NEW b \in Nat, a <= b
    PROVE  TradeDate(a) <= TradeDate(b)
<1> DEFINE L == TradeDateLength
           p == a \div L
           q == b \div L
<1>1. L \in Nat /\ L > 0
  BY TradeDateAssumption
<1>2. p \in Nat /\ q \in Nat
  BY TradeDateType DEF TradeDate
<1>3. L * p <= a
  BY <1>1
<1>4. b < L * q + L
  BY <1>1
<1> HIDE DEF L, p, q
<1>5. SUFFICES ASSUME p > q PROVE FALSE
  BY <1>2 DEF TradeDate, L, p, q
<1>6. p >= q + 1
  BY <1>2, <1>5
<1>7. PICK d \in Nat : p = q + 1 + d
  <2>1. p - (q + 1) \in Nat /\ p = q + 1 + (p - (q + 1))
    BY <1>2, <1>6
  <2> QED
    BY <2>1
<1>8. L * p = L * q + L + L * d
  BY <1>1, <1>2, <1>7
<1>9. L * d \in Nat /\ L * q \in Nat
  BY <1>1, <1>2
<1> QED
  BY <1>1, <1>3, <1>4, <1>8, <1>9

\* The positions of the day-session ticks of a trade date.
SessionTicks(date) == {i \in DOMAIN applied : /\ stream[applied[i]].session
                                              /\ TradeDate(stream[applied[i]].at) = date}

\* Day fields show the first, the highest and the lowest of the ticks at P.
DayOf(open, high, low, P, tick) ==
    /\ P = {} => open = None /\ high = None /\ low = None
    /\ P # {} =>
          /\ \E first \in P : (\A j \in P : first <= j) /\ open = tick[first].price
          /\ \E i \in P : high = tick[i].price
          /\ \E i \in P : low = tick[i].price
          /\ \A i \in P : low <= tick[i].price /\ tick[i].price <= high

\* The machine's day fields are those of its trade date, and its open bar shows them.
DayFieldsShow ==
    machine.current # NoBar =>
        /\ machine.date = TradeDate(machine.current.at)
        /\ DayOf(machine.dayOpen, machine.dayHigh, machine.dayLow,
                 SessionTicks(machine.date), Ticks)
        /\ machine.current.dayHigh = machine.dayHigh
        /\ machine.current.dayLow = machine.dayLow

\* The tick at n comes after those at P, and leaves them as they are.
Adds(more, n, P, tick) ==
    /\ n \in Nat /\ \A i \in P : i < n
    /\ more[n] \in Tick /\ more[n].price # None
    /\ \A i \in P : more[i] = tick[i]

\* o, h and l are the day fields after one more price.
Widens(o, h, l, open, high, low, price) ==
    /\ open \in Nat \cup {None} /\ high \in Nat \cup {None} /\ low \in Nat \cup {None}
    /\ o = IF open = None THEN price ELSE open
    /\ h = IF high = None THEN price ELSE Higher(high, price)
    /\ l = IF low = None THEN price ELSE Lower(low, price)

\* One tick of the session more.
LEMMA DayGrows ==
    ASSUME NEW P, NEW tick, Priced(P, tick),
           NEW open, NEW high, NEW low, DayOf(open, high, low, P, tick),
           NEW n, NEW more, Adds(more, n, P, tick),
           NEW o, NEW h, NEW l, Widens(o, h, l, open, high, low, more[n].price)
    PROVE  DayOf(o, h, l, P \cup {n}, more)
<1> USE DEF Adds, Widens
<1> DEFINE price == more[n].price
           Q == P \cup {n}
<1>1. /\ price \in Nat /\ None \notin Nat
      /\ \A i \in P : more[i].price \in Nat /\ i \in Nat /\ more[i].price = tick[i].price
  BY NoneAssumption DEF Tick, Priced
<1>2. CASE P = {}
  BY <1>1, <1>2 DEF DayOf
<1>3. CASE P # {}
  <2>1. PICK first \in P : (\A j \in P : first <= j) /\ open = tick[first].price
    BY <1>3 DEF DayOf
  <2>2. PICK hi \in P : high = tick[hi].price
    BY <1>3 DEF DayOf
  <2>3. PICK lo \in P : low = tick[lo].price
    BY <1>3 DEF DayOf
  <2>4. \A i \in P : low <= tick[i].price /\ tick[i].price <= high
    BY <1>3 DEF DayOf
  <2>5. open # None /\ high # None /\ low # None /\ high \in Nat /\ low \in Nat
    BY <1>1, <2>1, <2>2, <2>3
  <2>6. \E i \in Q : (\A j \in Q : i <= j) /\ open = more[i].price
    <3>1. \A j \in Q : first <= j
      BY <1>1, <2>1
    <3> QED
      BY <1>1, <2>1, <3>1
  <2>7. \E i \in Q : Higher(high, price) = more[i].price
    BY <1>1, <2>2 DEF Higher
  <2>8. \E i \in Q : Lower(low, price) = more[i].price
    BY <1>1, <2>3 DEF Lower
  <2>9. \A i \in Q : Lower(low, price) <= more[i].price /\ more[i].price <= Higher(high, price)
    BY <1>1, <2>4, <2>5 DEF Higher, Lower
  <2> HIDE DEF price
  <2>10. DayOf(open, Higher(high, price), Lower(low, price), Q, more)
    BY <2>6, <2>7, <2>8, <2>9 DEF DayOf
  <2> QED
    BY <2>5, <2>10 DEF price
<1> QED
  BY <1>2, <1>3

\* Day fields depend on nothing but the ticks of the session.
LEMMA SameDay ==
    ASSUME NEW P, NEW tick, NEW more, NEW open, NEW high, NEW low,
           DayOf(open, high, low, P, tick), \A i \in P : more[i] = tick[i]
    PROVE  DayOf(open, high, low, P, more)
BY DEF DayOf

\* A tick is applied: the day fields are those of its trade date
\* (_update_day_state).
LEMMA DayStep ==
    ASSUME TypeOK, HistoryInOrder, DayFieldsShow,
           NEW e \in Entries, ApplyTick(e), stream' = stream
    PROVE  DayFieldsShow'
<1> DEFINE t == stream[e]
           d == TradeDate(t.at)
           P == SessionTicks(d)
           open == IF OtherDate(machine, t) THEN None ELSE machine.dayOpen
           high == IF OtherDate(machine, t) THEN None ELSE machine.dayHigh
           low == IF OtherDate(machine, t) THEN None ELSE machine.dayLow
           n == NextPosition
<1>1. /\ machine'.current.at = t.at /\ t \in Tick /\ t.price # None /\ t.at \in Nat
      /\ machine.current # NoBar => machine.current.at <= t.at /\ machine.current.at \in Nat
      /\ machine' = AfterTick(machine, t) /\ machine \in Machine
  BY ApplyFacts, HistoryGrows, BarKeys DEF ApplyTick, Tick, TypeOK, Machine
<1>2. /\ machine'.date = d
      /\ machine'.dayOpen = DayOpen(machine, t)
      /\ machine'.dayHigh = DayHigh(machine, t)
      /\ machine'.dayLow = DayLow(machine, t)
  BY <1>1 DEF AfterTick
<1>3. /\ machine'.current.dayHigh = machine'.dayHigh
      /\ machine'.current.dayLow = machine'.dayLow
  BY <1>1, <1>2 DEF AfterTick, UpdatedBar, OpenedBar
<1>4. SessionTicks(machine.date)' = IF t.session THEN P \cup {n} ELSE P
  <2>1. t.session \in BOOLEAN
    BY <1>1 DEF Tick
  <2>2. \A date : date = d => SessionTicks(date)' = IF t.session THEN P \cup {n} ELSE P
    BY <2>1, HistoryGrows DEF SessionTicks
  <2> QED
    BY <1>2, <2>2
<1>5. /\ P \subseteq DOMAIN applied
      /\ n \in Nat /\ Ticks'[n] = t /\ \A i \in P : Ticks'[i] = Ticks[i] /\ i < n
  BY HistoryGrows DEF SessionTicks
<1>6. DayOf(open, high, low, P, Ticks)
  <2>1. CASE OtherDate(machine, t)
    <3>1. P = {}
      <4> SUFFICES ASSUME NEW i \in P PROVE FALSE
        OBVIOUS
      <4>1. TradeDate(stream[applied[i]].at) = d /\ i \in DOMAIN applied
        BY DEF SessionTicks
      <4>2. machine.current # NoBar /\ stream[applied[i]].at <= machine.current.at
        BY <4>1 DEF HistoryInOrder
      <4>3. stream[applied[i]].at \in Nat /\ machine.current.at \in Nat
            /\ machine.current.at <= t.at
        BY <1>1, <4>1, <4>2, HistoryFacts DEF Tick
      <4>4. d <= TradeDate(machine.current.at) /\ TradeDate(machine.current.at) <= d
        BY <1>1, <4>1, <4>2, <4>3, TradeDateMonotone
      <4>5. d \in Nat /\ TradeDate(machine.current.at) \in Nat
        BY <1>1, <4>3, TradeDateType
      <4>6. machine.date = TradeDate(machine.current.at)
        BY <4>2 DEF DayFieldsShow
      <4> HIDE DEF d
      <4>7. machine.date = d
        BY <4>4, <4>5, <4>6
      <4> QED
        BY <2>1, <4>7 DEF OtherDate, d
    <3> QED
      BY <2>1, <3>1 DEF DayOf
  <2>2. CASE ~OtherDate(machine, t)
    <3>1. machine.date = d
      BY <2>2 DEF OtherDate
    <3>2. machine.current # NoBar
      <4>1. d # None
        BY <1>1, TradeDateType, NoneAssumption
      <4> QED
        BY <3>1, <4>1 DEF HistoryInOrder, NewMachine
    <3> QED
      BY <2>2, <3>1, <3>2 DEF DayFieldsShow
  <2> QED
    BY <2>1, <2>2
<1>7. Priced(P, Ticks)
  <2>1. IsFiniteSet(P) /\ P \subseteq Nat
    BY <1>5, HistoryFacts
  <2>2. \A i \in P : Ticks[i] = stream[applied[i]] /\ Ticks[i] \in Tick
    BY <1>5, HistoryFacts
  <2>3. \A i \in P : Ticks[i].price # None
    BY <1>5, <2>2 DEF HistoryInOrder
  <2> QED
    BY <2>1, <2>2, <2>3 DEF Priced
<1>8. open \in Nat \cup {None} /\ high \in Nat \cup {None} /\ low \in Nat \cup {None}
  BY <1>1 DEF Machine
<1>9. DayOf(machine.dayOpen, machine.dayHigh, machine.dayLow,
            SessionTicks(machine.date), Ticks)'
  <2>1. CASE t.session
    <3>1. /\ DayOpen(machine, t) = IF open = None THEN t.price ELSE open
          /\ DayHigh(machine, t) = IF high = None THEN t.price ELSE Higher(high, t.price)
          /\ DayLow(machine, t) = IF low = None THEN t.price ELSE Lower(low, t.price)
      BY <2>1 DEF DayOpen, DayHigh, DayLow
    <3> HIDE DEF P, open, high, low, n, t
    <3>2. Ticks'[n].price = t.price /\ Adds(Ticks', n, P, Ticks)
      BY <1>1, <1>5 DEF Adds
    <3>3. DayOf(DayOpen(machine, t), DayHigh(machine, t), DayLow(machine, t), P \cup {n}, Ticks')
      <4>1. PICK o, h, l : /\ o = DayOpen(machine, t)
                           /\ h = DayHigh(machine, t)
                           /\ l = DayLow(machine, t)
        OBVIOUS
      <4>2. Widens(o, h, l, open, high, low, Ticks'[n].price)
        BY <1>8, <3>1, <3>2, <4>1 DEF Widens
      <4>3. DayOf(o, h, l, P \cup {n}, Ticks')
        BY <1>6, <1>7, <3>2, <4>2, DayGrows
      <4> QED
        BY <4>1, <4>3
    <3> QED
      BY <1>2, <1>4, <2>1, <3>3
  <2>2. CASE ~t.session
    <3>1. /\ DayOpen(machine, t) = open
          /\ DayHigh(machine, t) = high
          /\ DayLow(machine, t) = low
      BY <2>2 DEF DayOpen, DayHigh, DayLow
    <3> HIDE DEF P, open, high, low, n, t
    <3>2. DayOf(open, high, low, P, Ticks')
      BY <1>5, <1>6, SameDay
    <3> QED
      BY <1>2, <1>4, <2>2, <3>1, <3>2
  <2> QED
    BY <2>1, <2>2
<1>10. (machine.date = TradeDate(machine.current.at))'
  BY <1>1, <1>2
<1> QED
  BY <1>3, <1>9, <1>10 DEF DayFieldsShow

\* The day fields are the open, high and low of the day-session ticks of the
\* machine's own trade date, and the open bar shows them (_update_day_state).
THEOREM DayFieldsCorrect == Spec => []DayFieldsMatchTicks
<1>1. Init => HistoryInOrder /\ DayFieldsShow
  BY DEF Init, HistoryInOrder, DayFieldsShow, NewMachine
<1>2. TypeOK /\ HistoryInOrder /\ DayFieldsShow /\ [Next]_vars
         => HistoryInOrder' /\ DayFieldsShow'
  <2> SUFFICES ASSUME TypeOK, HistoryInOrder, DayFieldsShow, [Next]_vars
               PROVE  DayFieldsShow'
    BY HistoryStep
  <2>0. stream' = stream
    BY NextKinds
  <2>1. CASE UNCHANGED <<machine, applied>>
    BY <2>0, <2>1 DEF DayFieldsShow, SessionTicks, Ticks
  <2>2. CASE \E e \in Entries : ApplyTick(e)
    BY <2>0, <2>2, DayStep
  <2>3. CASE machine' = NewMachine
    BY <2>3 DEF DayFieldsShow, NewMachine
  <2> QED
    BY <2>1, <2>2, <2>3, NextKinds
<1>3. TypeOK /\ HistoryInOrder /\ DayFieldsShow => DayFieldsMatchTicks
  <2> SUFFICES ASSUME TypeOK, HistoryInOrder, DayFieldsShow, machine.current # NoBar
               PROVE  DayFieldsMatchTicks
    BY DEF DayFieldsMatchTicks
  <2> DEFINE P == SessionTicks(machine.date)
             prices == {stream[applied[i]].price : i \in P}
  <2>1. /\ DayOf(machine.dayOpen, machine.dayHigh, machine.dayLow, P, Ticks)
        /\ machine.current.dayHigh = machine.dayHigh
        /\ machine.current.dayLow = machine.dayLow
    BY DEF DayFieldsShow
  <2>2. /\ P \subseteq Nat
        /\ \A i \in P : Ticks[i] = stream[applied[i]] /\ stream[applied[i]].price \in Nat
    <3>1. P \in SUBSET DOMAIN applied
      BY DEF SessionTicks
    <3> QED
      BY <3>1, HistoryFacts DEF HistoryInOrder, Tick
  <2>3. P = {} => machine.dayOpen = None /\ machine.dayHigh = None /\ machine.dayLow = None
    BY <2>1 DEF DayOf
  <2>4. ASSUME P # {}
        PROVE  /\ machine.dayHigh = CHOOSE p \in prices : \A q \in prices : q <= p
               /\ machine.dayLow = CHOOSE p \in prices : \A q \in prices : p <= q
               /\ machine.dayOpen = stream[applied[CHOOSE i \in P : \A j \in P : i <= j]].price
    <3> HIDE DEF P
    <3>1. /\ machine.dayHigh \in prices /\ \A q \in prices : q <= machine.dayHigh
          /\ machine.dayLow \in prices /\ \A q \in prices : machine.dayLow <= q
          /\ prices \subseteq Nat
      BY <2>1, <2>2, <2>4 DEF DayOf
    <3>2. PICK first \in P : (\A j \in P : first <= j) /\ machine.dayOpen = Ticks[first].price
      BY <2>1, <2>4 DEF DayOf
    <3>3. (CHOOSE i \in P : \A j \in P : i <= j) = first
      <4>1. \A i \in P : (\A j \in P : i <= j) => i = first
        BY <2>2, <3>2
      <4> QED
        BY <3>2, <4>1
    <3> HIDE DEF prices
    <3>4. \A p \in prices : (\A q \in prices : q <= p) => p = machine.dayHigh
      <4> SUFFICES ASSUME NEW p \in prices, \A q \in prices : q <= p
                   PROVE  p = machine.dayHigh
        OBVIOUS
      <4>1. p \in Nat /\ machine.dayHigh \in Nat
        BY <3>1
      <4>2. p <= machine.dayHigh /\ machine.dayHigh <= p
        BY <3>1
      <4> QED
        BY <4>1, <4>2
    <3>5. \A p \in prices : (\A q \in prices : p <= q) => p = machine.dayLow
      <4> SUFFICES ASSUME NEW p \in prices, \A q \in prices : p <= q
                   PROVE  p = machine.dayLow
        OBVIOUS
      <4>1. p \in Nat /\ machine.dayLow \in Nat
        BY <3>1
      <4>2. p <= machine.dayLow /\ machine.dayLow <= p
        BY <3>1
      <4> QED
        BY <4>1, <4>2
    <3>6. (CHOOSE p \in prices : \A q \in prices : q <= p) = machine.dayHigh
      BY <3>1, <3>4
    <3>7. (CHOOSE p \in prices : \A q \in prices : p <= q) = machine.dayLow
      BY <3>1, <3>5
    <3> QED
      BY <2>2, <3>2, <3>3, <3>6, <3>7
  <2>5. P = {i \in DOMAIN applied : /\ stream[applied[i]].session
                                    /\ TradeDate(stream[applied[i]].at) = machine.date}
    BY DEF SessionTicks
  <2> HIDE DEF P
  <2> QED
    BY <2>1, <2>3, <2>4, <2>5 DEF DayFieldsMatchTicks
<1> QED
  BY <1>1, <1>2, <1>3, TypeCorrect, PTL DEF Spec
=============================================================================
