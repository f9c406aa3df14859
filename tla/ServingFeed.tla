---------------------------- MODULE ServingFeed ----------------------------
(***************************************************************************)
(* The serving events the browser receives and what becomes of one: the     *)
(* session-hours filter, the batch it is collected into, the merge of       *)
(* batches and the update of the realtime store.  Pure operators, used by   *)
(* RealtimeManager.                                                         *)
(*                                                                          *)
(* An event is [n, name, code, ts, ok, items]: n is its place in the feed   *)
(* and stands for its payload, code is the instrument it names or None, ts  *)
(* the time it carries or None, ok says whether its other fields have their *)
(* types, items is the payload of a series event.                           *)
(* A batch is a function from slots <<name, code>> to events.               *)
(***************************************************************************)
EXTENDS Integers, Sequences

CONSTANTS
    Codes,          \* instrument codes
    StreamCode,     \* DEFAULT_STREAM_CODE
    OtcCode,        \* DEFAULT_OTC_CODE
    None,
    DayLength,      \* a day, in ticks of the clock
    SessionStart,   \* 09:00 of a day
    SessionEnd,     \* 13:45 of a day
    SeriesCap       \* SPOT_MARKET_DISTRIBUTION_SERIES_CAP

ASSUME FeedAssumption ==
    /\ StreamCode \in Codes
    /\ OtcCode \in Codes
    /\ None \notin Codes
    /\ DayLength \in Nat \ {0}
    /\ SessionStart \in 0..SessionEnd
    /\ SessionEnd \in 0..(DayLength - 1)
    /\ SeriesCap \in Nat \ {0}

\* Events of which the batch keeps one value per instrument, and the others.
PerCode == {"metric_latest", "market_summary_latest", "otc_summary_latest", "quote_latest"}

PerFeed == {"kbar_current", "spot_latest_list", "spot_market_distribution_latest",
            "spot_market_distribution_series", "index_contrib_ranking",
            "index_contrib_sector", "heartbeat"}

Event == [n : Nat, name : PerCode \cup PerFeed, code : Codes \cup {None},
          ts : Nat \cup {None}, ok : BOOLEAN, items : Seq([ts : Nat, n : Nat])]

\* The schemas: a bar names its instrument and its minute, and every event but the
\* per-instrument ones carries its time.
Conforms(ev) ==
    /\ ev.ok
    /\ ev.name = "kbar_current" => ev.code # None
    /\ ev.name \in PerFeed \ {"spot_market_distribution_series"} => ev.ts # None

\* Events that are shown at any hour.
Untimed == {"heartbeat", "index_contrib_ranking", "index_contrib_sector"}

KbarSlot == <<"kbar_current", None>>
SectorSlot == <<"index_contrib_sector", None>>
HeartbeatSlot == <<"heartbeat", None>>
PointSlot == <<"spot_market_distribution_latest", None>>
SeriesSlot == <<"spot_market_distribution_series", None>>

NoBatch == [s \in {} |-> None]

\* Slots of one event.
Put(slots, ev) == [s \in slots |-> ev]

\* A spread: the later batch over the earlier one, slot by slot.
Over(late, early) ==
    [s \in DOMAIN late \cup DOMAIN early |-> IF s \in DOMAIN late THEN late[s] ELSE early[s]]

\* The session of a time is the one of its own Taipei date, both ends included.
InSession(ts) ==
    LET clock == ts % DayLength
    IN  SessionStart <= clock /\ clock <= SessionEnd

ShouldApply(ev) ==
    \/ ev.name \in Untimed
    \/ ev.ts # None /\ InSession(ev.ts)

NoBoard == [slots |-> NoBatch, series |-> None]

\* The instrument whose minute bar in the store is the newest.
NewestKbarCode(slots) ==
    LET held == {c \in Codes : <<"kbar_current", c>> \in DOMAIN slots}
    IN  IF held = {} THEN None
        ELSE CHOOSE c \in held : \A d \in held :
                slots[<<"kbar_current", d>>].ts <= slots[<<"kbar_current", c>>].ts

\* The instrument an event is filed under by the manager: the one it names, else the
\* one of the newest bar, else a default.
CodeOf(ev, slots) ==
    IF ev.code # None THEN ev.code
    ELSE IF NewestKbarCode(slots) # None THEN NewestKbarCode(slots)
    ELSE IF ev.name = "otc_summary_latest" THEN OtcCode ELSE StreamCode

\* What one event adds to a batch when it is filed under a code.
Filed(ev, code) ==
    CASE ev.name \in PerCode -> Put({<<ev.name, code>>}, ev)
      [] ev.name = "index_contrib_sector" -> Put({SectorSlot, HeartbeatSlot}, ev)
      [] OTHER -> Put({<<ev.name, None>>}, ev)

\* The manager's collector: an event that fails its schema is ignored.
Collect(ev, slots) ==
    IF ~Conforms(ev) THEN NoBatch ELSE Filed(ev, CodeOf(ev, slots))

\* The worker's copy of the filter.
WorkerShouldApply(ev) == ShouldApply(ev)

\* The worker's collector: no schema, and defaults of its own.  It takes for a heartbeat
\* only a time that is a number.
CollectRaw(ev) ==
    LET code == IF ev.code # None THEN ev.code
                ELSE IF ev.name = "otc_summary_latest" THEN OtcCode ELSE StreamCode
        untimed == IF ev.ts = None THEN {HeartbeatSlot} ELSE {}
    IN  [s \in DOMAIN Filed(ev, code) \ untimed |-> ev]

\* Merge in which the earlier batch wins.
MergeOlderWins(pending, incoming) == Over(pending, incoming)

\* A later batch wins slot by slot.
Merge(pending, incoming) == Over(incoming, pending)

\* AppendPoint that does not look at the time of the last item.
AppendPointAlways(series, ev) ==
    LET all == Append(IF series = None THEN <<>> ELSE series, [ts |-> ev.ts, n |-> ev.n])
    IN  SubSeq(all, 1 + (IF Len(all) > SeriesCap THEN Len(all) - SeriesCap ELSE 0), Len(all))

\* A point of the distribution joins the series: in the place of the last item when it
\* has its time, at the end otherwise, the oldest leaving above the cap.
AppendPoint(series, ev) ==
    LET item == [ts |-> ev.ts, n |-> ev.n]
    IN  IF series = None THEN <<item>>
        ELSE IF series # <<>> /\ series[Len(series)].ts = item.ts
        THEN [series EXCEPT ![Len(series)] = item]
        ELSE LET all == Append(series, item)
             IN  SubSeq(all, 1 + (IF Len(all) > SeriesCap THEN Len(all) - SeriesCap ELSE 0),
                        Len(all))

\* The slots of the store a batch writes: a bar is filed under its own code.
Slots(batch) ==
    LET bar == IF KbarSlot \in DOMAIN batch
               THEN Put({<<"kbar_current", batch[KbarSlot].code>>}, batch[KbarSlot])
               ELSE NoBatch
    IN  Over(bar, [s \in DOMAIN batch \ {KbarSlot, SeriesSlot} |-> batch[s]])

\* ApplyBatch that does not spread the slots the store already holds.
ApplyBatchReplacing(board, batch) ==
    [slots  |-> Slots(batch),
     series |-> IF PointSlot \in DOMAIN batch
                THEN AppendPoint(board.series, batch[PointSlot]) ELSE board.series]

\* applySseBatch: a series of the batch replaces the one of the store, and only a
\* batch without one appends its point.
ApplyBatch(board, batch) ==
    [slots  |-> Over(Slots(batch), board.slots),
     series |-> CASE SeriesSlot \in DOMAIN batch -> batch[SeriesSlot].items
                  [] SeriesSlot \notin DOMAIN batch /\ PointSlot \in DOMAIN batch ->
                        AppendPoint(board.series, batch[PointSlot])
                  [] OTHER -> board.series]
=============================================================================
