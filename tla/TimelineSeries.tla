--------------------------- MODULE TimelineSeries ---------------------------
(***************************************************************************)
(* The series behind the dashboard's charts, as pure functions: the upsert  *)
(* every hook patches its series with, the builders that turn the rows of a *)
(* fetched baseline into a series, and the two charts made of two series.   *)
(*                                                                          *)
(* A point is [minute, value, extra]; extra is what the point takes from    *)
(* elsewhere (the day's high, the base of an OTC change, whether yesterday's *)
(* volume is known).  A row, like a realtime payload, is [at, minute,       *)
(* valued, high]: its value is at, its place in the feed, so that two values *)
(* are the same only if they are the same sample; a row without the hook's  *)
(* field is not valued.                                                     *)
(***************************************************************************)
EXTENDS Integers, Sequences, FiniteSets, SequencesExt

\* The members of S in the order of the pairs of less.
Sorted(S, less) ==
    [i \in 1..Cardinality(S) |->
        CHOOSE m \in S : Cardinality({n \in S : <<n, m>> \in less}) = i - 1]

\* The numbers of S, in order.
Ascending(S) == Sorted(S, {p \in S \X S : p[1] < p[2]})

\* The rows at some positions.
Picked(rows, positions) ==
    [i \in 1..Cardinality(positions) |-> rows[Ascending(positions)[i]]]

Minutes(series) == {series[i].minute : i \in DOMAIN series}

\* rebuildIndexMap: minute -> position, the last of equal minutes.
IndexOf(series) ==
    [m \in Minutes(series) |-> Max({i \in DOMAIN series : series[i].minute = m})]

\* The first position whose minute is not before m, by bisection.
FindInsertIndex(series, m) ==
    LET places == 1..(Len(series) + 1)
        Place[range \in places \X places] ==
            LET low == range[1]
                high == range[2]
                mid == (low + high) \div 2
            IN IF low >= high THEN low
               ELSE IF series[mid].minute < m THEN Place[<<mid + 1, high>>] ELSE Place[<<low, mid>>]
    IN Place[<<1, Len(series) + 1>>]

\* Upsert that keeps the index it was given when it inserts.
UpsertStale(series, index, point) ==
    LET i == FindInsertIndex(series, point.minute)
        exists == i \in DOMAIN series /\ series[i].minute = point.minute
    IN [series |-> IF exists THEN [series EXCEPT ![i] = point] ELSE InsertAt(series, i, point),
        index |-> index]

\* upsertPoint: the indexed point of that minute if the index is right about it, or else
\* the place bisection finds, is replaced; if there is none the point is inserted.
Upsert(series, index, point) ==
    LET indexed == IF point.minute \in DOMAIN index THEN index[point.minute] ELSE 0
        valid == indexed \in DOMAIN series /\ series[indexed].minute = point.minute
        i == IF valid THEN indexed ELSE FindInsertIndex(series, point.minute)
        exists == i \in DOMAIN series /\ series[i].minute = point.minute
        next == IF exists THEN [series EXCEPT ![i] = point] ELSE InsertAt(series, i, point)
    IN [series |-> next, index |-> IF valid \/ next = series THEN index ELSE IndexOf(next)]

-----------------------------------------------------------------------------
(* Baselines: the rows of an answer, in the order of the server. *)

\* A stable sort by minute.
InOrder(rows) ==
    LET before == {p \in (DOMAIN rows) \X (DOMAIN rows) :
                      \/ rows[p[1]].minute < rows[p[2]].minute
                      \/ rows[p[1]].minute = rows[p[2]].minute /\ p[1] < p[2]}
        order == Sorted(DOMAIN rows, before)
    IN [i \in DOMAIN rows |-> rows[order[i]]]

Valued(rows) == Picked(rows, {i \in DOMAIN rows : rows[i].valued})

Points(rows, extra) ==
    [i \in DOMAIN rows |-> [minute |-> rows[i].minute, value |-> rows[i].at, extra |-> extra]]

\* One row of each minute: the last in the order of the rows.
LastOfMinute(rows) ==
    InOrder(Picked(rows, {i \in DOMAIN rows :
        \A j \in DOMAIN rows : rows[j].minute = rows[i].minute => j <= i}))

\* One row of each minute: the one of the highest timestamp, wherever it is.
LatestOfMinute(rows) ==
    InOrder(Picked(rows, {i \in DOMAIN rows :
        \A j \in DOMAIN rows : rows[j].minute = rows[i].minute => rows[j].at <= rows[i].at}))

KbarBaseline(rows) == Points(InOrder(rows), 0)
MetricBaseline(rows) == Points(LatestOfMinute(Valued(rows)), 0)
QuoteBaseline(rows) == Points(LastOfMinute(Valued(rows)), 0)

\* Yesterday's row of the minute is looked up in the same answer.
EstimatedBaseline(rows) == Points(LastOfMinute(Valued(rows)), 1)

\* Rows of one minute are all kept; changes are from the first of them.
OtcBaseline(rows) ==
    LET sorted == InOrder(Valued(rows))
    IN IF sorted = <<>> THEN <<>> ELSE Points(sorted, sorted[1].at)

\* The candle of today (day 1) out of the closed bars; <<>> when there is none.
TodayCandle(rows) ==
    IF rows = <<>> THEN <<>>
    ELSE LET asc == InOrder(rows)
         IN <<[minute |-> 1, value |-> Last(asc).at,
               extra |-> Max({asc[i].high : i \in DOMAIN asc})]>>

\* PatchedCandle that takes the running bar for the day.
PatchedCandleAlone(today, bar) == [minute |-> 1, value |-> bar.at, extra |-> bar.high]

\* The running bar joins today's candle; it is today's candle when there is none.
PatchedCandle(today, bar) ==
    [minute |-> 1, value |-> bar.at,
     extra |-> IF today = <<>> THEN bar.high ELSE Max({today[1].extra, bar.high})]

-----------------------------------------------------------------------------
(* Panels without a baseline. *)

\* useStickyLatestNumber: one number, which stays when a later payload has none.
Sticky(row) == <<[minute |-> row.minute, value |-> row.at, extra |-> 0]>>

\* A symbol of the gap panel: minute 0 is the first price its panel has seen, minute 1 its
\* candle, with the high no lower than the open and the close.  The open of the panel stands
\* in for an item that has neither open nor high; an item without a price has no candle.
\* The low is as the high.
GapCandle(series, item) ==
    LET seen == CASE series # <<>> -> <<series[1]>>
                  [] series = <<>> /\ item.price # 0 ->
                         <<[minute |-> 0, value |-> item.at, extra |-> item.price]>>
                  [] OTHER -> <<>>
        open == IF item.valued THEN item.open ELSE seen[1].extra
        tops == {open, item.price} \cup (IF item.valued THEN {item.dayHigh} ELSE {})
    IN IF item.price = 0 THEN seen
       ELSE Append(seen, [minute |-> 1, value |-> item.at, extra |-> Max(tops)])

\* The OTC chart draws every so many points of a long series, and the last unless a point
\* of its minute is there.
Drawn(series, most) ==
    LET step == (Len(series) + most - 1) \div most
        every == [i \in 1..((Len(series) - 1) \div step + 1) |-> series[(i - 1) * step + 1]]
    IN IF Len(series) <= most THEN series
       ELSE IF Last(every).minute = Last(series).minute THEN every
       ELSE Append(every, Last(series))

-----------------------------------------------------------------------------
(* Charts of two series. *)

\* Minute -> value: the Record the hooks hand on, where the last of equal minutes wins.
ValueByMinute(series) ==
    [m \in Minutes(series) |-> series[IndexOf(series)[m]].value]

At(values, m, otherwise) == IF m \in DOMAIN values THEN values[m] ELSE otherwise

\* buildOrderFlowSeriesFromTimelineMaps: a point for each minute of the price. The hook
\* rebuilds all of it whenever one of them changes; its second effect, which would patch the
\* minutes that changed, compares with what the first has just stored and finds none.
OrderFlow(prices, chips) ==
    LET minutes == Ascending(DOMAIN prices)
    IN [i \in DOMAIN minutes |->
           [minute |-> minutes[i], value |-> prices[minutes[i]], extra |-> At(chips, minutes[i], 0)]]

\* Overlay that draws a minute without a second value as zero.
OverlayGaps(ticks, secondary) ==
    [i \in DOMAIN ticks |-> [ticks[i] EXCEPT !.extra = At(secondary, ticks[i].minute, 0)]]

\* buildSecondaryOverlaySeries: the second value, carried to the next minute that has one.
Overlay(ticks, secondary) ==
    LET carried[i \in 0..Len(ticks)] ==
            IF i = 0 THEN 0 ELSE At(secondary, ticks[i].minute, carried[i - 1])
    IN [i \in DOMAIN ticks |-> [ticks[i] EXCEPT !.extra = carried[i]]]

=============================================================================
