------------------------------ MODULE Timelines ------------------------------
(***************************************************************************)
(* The hooks of the real-time dashboard.  Each keeps a series: a baseline    *)
(* fetched over REST, which react-query caches and shares, patched by the    *)
(* newest payload of the real-time store.  The baseline and the payloads     *)
(* race, and a baseline that arrives replaces what was patched before it.   *)
(*                                                                          *)
(* A step is a task of the event loop with the commit it causes: the reset   *)
(* effect of a hook runs before its patch effect.  The user is signed in,    *)
(* the trading day is one, and every payload is within its session.          *)
(***************************************************************************)
EXTENDS TimelineSeries

CONSTANTS
    Cases,      \* what a behaviour looks at: [hooks, feed], some hooks and their feed, a
                \* sequence of [minute, valued, price] in the order it is produced
    MaxPoints,  \* MAX_POINTS of the OTC chart
    MaxAsks,    \* most baselines asked for outside of a mount (a bound)
    MaxMounts   \* most visits of the dashboard (a bound)

ASSUME TimelinesAssumption ==
    /\ \A case \in Cases :
           /\ case.hooks \subseteq {"kbar", "metric", "quote", "estimated", "participant", "otc",
                                "sticky", "gap"}
           /\ case.feed \in Seq([minute : Nat, valued : BOOLEAN, price : Nat])
           /\ "otc" \in case.hooks =>       \* its first value is one of the first minute
                  \A j \in DOMAIN case.feed : case.feed[j].valued =>
                      \E i \in 1..j : /\ case.feed[i].valued
                                     /\ \A k \in DOMAIN case.feed : case.feed[k].valued =>
                                            case.feed[i].minute <= case.feed[k].minute
    /\ MaxPoints \in Nat \ {0}
    /\ MaxAsks \in Nat
    /\ MaxMounts \in Nat \ {0}

VARIABLES
    case,       \* never changes
    produced,   \* samples of the feed produced so far, at the server
    latest,     \* real-time store: channel -> the sample it holds, 0 for none
    cache,      \* query cache: part of a baseline -> samples it was made of, None before it
    fetch,      \* query -> its request
    mounted,
    charts,     \* hook -> its series and its index map
    asks, mounts

vars == <<case, produced, latest, cache, fetch, mounted, charts, asks, mounts>>

hooks == case.hooks
None == -1

-----------------------------------------------------------------------------
(* What the server holds and answers. *)

\* The payload of sample k. The high of a bar runs over the samples of its minute.
Row(k) ==
    LET sample == case.feed[k]
    IN [at |-> k, minute |-> sample.minute, valued |-> sample.valued,
        high |-> Max({case.feed[j].price :
                         j \in {j \in 1..k : case.feed[j].minute = sample.minute}})]

\* Is sample k kept? A minute's bar is once a later minute has begun; of the others every
\* sample is.
Kept(part, k, n) ==
    part = "kbarToday" =>
        /\ case.feed[k].minute < case.feed[n].minute
        /\ \A j \in (k + 1)..n : case.feed[j].minute # case.feed[k].minute

\* The answer of a route: its sorted set, in the order of the minutes.
Rows(part, n) ==
    InOrder(Picked([k \in 1..n |-> Row(k)], {k \in 1..n : Kept(part, k, n)}))

Channel(h) == IF h = "participant" THEN "kbar" ELSE h

Parts(q) ==
    CASE q = "orderFlow" -> {"kbarToday", "metricToday"} [] OTHER -> {q}

\* The part of a baseline the series of h is made of.
Part(h) ==
    CASE h \in {"kbar", "participant"} -> "kbarToday"
      [] h = "metric" -> "metricToday"
      [] OTHER -> h

Queries(h) ==
    CASE h \in {"kbar", "metric"} -> {"orderFlow"}
      [] h = "participant" -> {"orderFlow", "daily"}
      [] h \in {"sticky", "gap"} -> {}
      [] OTHER -> {h}

Asked == UNION {Queries(h) : h \in hooks}
AllParts == UNION {Parts(q) : q \in Asked}
Idle(q) == [busy |-> FALSE, tries |-> 0, served |-> [p \in Parts(q) |-> None]]

Cached(c, part) == IF c[part] = None THEN <<>> ELSE Rows(part, c[part])

-----------------------------------------------------------------------------
(* The effects of the hooks: c is the cache as the commit sees it. *)

\* The candles: a day that is over, if its query has answered, and today.
Candles(c) ==
    (IF c["daily"] = None THEN <<>> ELSE <<[minute |-> 0, value |-> 0, extra |-> 0]>>)
        \o TodayCandle(Cached(c, "kbarToday"))

Baseline(h, c) ==
    CASE h = "kbar" -> KbarBaseline(Cached(c, "kbarToday"))
      [] h = "metric" -> MetricBaseline(Cached(c, "metricToday"))
      [] h = "quote" -> QuoteBaseline(Cached(c, "quote"))
      [] h = "estimated" -> EstimatedBaseline(Cached(c, "estimated"))
      [] h = "otc" -> OtcBaseline(Cached(c, "otc"))
      [] h = "participant" -> Candles(c)
      [] OTHER -> <<>>

\* A series and its index map.
Indexed(series) == [series |-> series, index |-> IndexOf(series)]

\* Reset baseline.
Reset(h, c) == Indexed(Baseline(h, c))

\* The payload the patch effect of h takes, if it takes one: the order flow waits for its
\* baseline, the OTC index for a point to measure changes from.
Takes(h, chart, k, c) ==
    /\ k # 0
    /\ h \notin {"kbar", "participant", "gap"} => case.feed[k].valued
    /\ h = "gap" => case.feed[k].price # 0
    /\ h \in {"kbar", "metric"} => c[Part(h)] # None
    /\ h = "otc" => chart.series # <<>>

LivePoint(h, chart, k, c) ==
    CASE h = "participant" -> PatchedCandle(TodayCandle(Cached(c, "kbarToday")), Row(k))
      [] h = "estimated" ->
             [minute |-> Row(k).minute, value |-> k, extra |-> IF c["estimated"] = None THEN 0 ELSE 1]
      [] h = "otc" -> [minute |-> Row(k).minute, value |-> k, extra |-> chart.series[1].value]
      [] OTHER -> [minute |-> Row(k).minute, value |-> k, extra |-> 0]

\* The symbol's item in the list of spots; an item that is valued has the day's open and
\* high.
Item(k) ==
    [at |-> k, valued |-> case.feed[k].valued, price |-> case.feed[k].price,
     open |-> case.feed[1].price, dayHigh |-> Max({case.feed[j].price : j \in 1..k})]

\* Patch realtime.
Patch(h, chart, k, c) ==
    CASE h = "gap" /\ k # 0 -> Indexed(GapCandle(chart.series, Item(k)))
      [] h # "gap" /\ Takes(h, chart, k, c) ->
             IF h = "sticky" THEN Indexed(Sticky(Row(k)))
             ELSE Upsert(chart.series, chart.index, LivePoint(h, chart, k, c))
      [] OTHER -> chart

\* Structural sharing: rows that did not change are the same object.
Fresh(c, d, part) == d[part] # None /\ (c[part] = None \/ Rows(part, c[part]) # Rows(part, d[part]))

\* The candle of today is another object, unless there is none before and after.
FreshToday(c, d) == Fresh(c, d, "kbarToday") /\ Rows("kbarToday", d["kbarToday"]) # <<>>

\* Does the reset effect of h run when the cache goes from c to d?
Resets(h, c, d) ==
    IF h \in {"sticky", "gap"} THEN FALSE
    ELSE IF h = "participant" THEN (c["daily"] = None /\ d["daily"] # None) \/ FreshToday(c, d)
    ELSE Fresh(c, d, Part(h))

\* Reapplies that only looks at the payload.
ReappliesNever(h, c, d) == FALSE

\* And its patch effect, whose dependencies are the payload and these?
Reapplies(h, c, d) ==
    CASE h \in {"kbar", "metric"} -> c[Part(h)] = None /\ d[Part(h)] # None
      [] h = "estimated" -> Fresh(c, d, "estimated")
      [] h = "participant" -> FreshToday(c, d)
      [] OTHER -> FALSE

\* Committed that takes a baseline only once.
CommittedOnce(h, c, d) ==
    IF c[Part(h)] # None THEN charts[h] ELSE Patch(h, Reset(h, d), latest[Channel(h)], d)

\* The chart of h after the commit of an answer.
Committed(h, c, d) ==
    IF ~Resets(h, c, d) THEN charts[h]
    ELSE IF Reapplies(h, c, d) THEN Patch(h, Reset(h, d), latest[Channel(h)], d)
    ELSE Reset(h, d)

-----------------------------------------------------------------------------
(* Steps. *)

Blank == [series |-> <<>>, index |-> <<>>]

Init ==
    /\ case \in Cases
    /\ produced = 0
    /\ latest = [c \in {Channel(h) : h \in hooks} |-> 0]
    /\ cache = [p \in AllParts |-> None]
    /\ fetch = [q \in Asked |-> Idle(q)]
    /\ mounted = FALSE
    /\ charts = [h \in hooks |-> Blank]
    /\ asks = 0
    /\ mounts = 0

Produce ==
    /\ produced < Len(case.feed)
    /\ produced' = produced + 1
    /\ UNCHANGED <<case, latest, cache, fetch, mounted, charts, asks, mounts>>

\* A batch reaches the store: payloads before the last one of a channel are not seen.
Deliver(c) ==
    /\ \E k \in (latest[c] + 1)..produced :
           /\ latest' = [latest EXCEPT ![c] = k]
           /\ charts' = [h \in hooks |->
                  IF mounted /\ Channel(h) = c THEN Patch(h, charts[h], k, cache) ELSE charts[h]]
    /\ UNCHANGED <<case, produced, cache, fetch, mounted, asks, mounts>>

Begun(qs) == [q \in Asked |-> IF q \in qs /\ ~fetch[q].busy THEN [Idle(q) EXCEPT !.busy = TRUE]
                              ELSE fetch[q]]

\* A prefetch of the route, or a connection that is back; the hooks of the page share the
\* request with it. The OTC index is not a query.
Ask(q) ==
    /\ asks < MaxAsks
    /\ q # "otc"
    /\ ~fetch[q].busy
    /\ fetch' = Begun({q})
    /\ asks' = asks + 1
    /\ UNCHANGED <<case, produced, latest, cache, mounted, charts, mounts>>

\* The route answers one request of the query.
Served(q) ==
    /\ fetch[q].busy
    /\ \E p \in Parts(q) :
           /\ fetch[q].served[p] = None
           /\ fetch' = [fetch EXCEPT ![q].served[p] = IF q = "daily" THEN 0 ELSE produced]

Serve(q) == Served(q) /\ UNCHANGED <<case, produced, latest, cache, mounted, charts, asks, mounts>>

\* The query resolves once all of them are answered, and the page commits.
Resolved(q) ==
    /\ fetch[q].busy
    /\ \A p \in Parts(q) : fetch[q].served[p] # None
    /\ fetch' = [fetch EXCEPT ![q] = Idle(q)]

Answer(q) ==
    LET d == [p \in AllParts |-> IF p \in Parts(q) THEN fetch[q].served[p] ELSE cache[p]]
    IN /\ Resolved(q)
       /\ cache' = d
       /\ charts' = [h \in hooks |-> IF mounted THEN Committed(h, cache, d) ELSE charts[h]]
       /\ UNCHANGED <<case, produced, latest, mounted, asks, mounts>>

\* FailsTo that counts no failure.
FailsToFirst(q) == [Idle(q) EXCEPT !.busy = q # "otc"]

\* A query is tried once more, the OTC index is not.
FailsTo(q) ==
    IF fetch[q].tries < 1 /\ q # "otc" THEN [Idle(q) EXCEPT !.busy = TRUE, !.tries = 1]
    ELSE Idle(q)

\* A request fails. The OTC index empties its series.
Fail(q) ==
    /\ fetch[q].busy
    /\ fetch' = [fetch EXCEPT ![q] = FailsTo(q)]
    /\ charts' = IF q = "otc" THEN [charts EXCEPT !["otc"] = Blank] ELSE charts
    /\ UNCHANGED <<case, produced, latest, cache, mounted, asks, mounts>>

\* The page mounts with what the cache has; what is missing or stale is asked for.
Mount ==
    /\ ~mounted
    /\ mounts < MaxMounts
    /\ mounted' = TRUE
    /\ mounts' = mounts + 1
    /\ charts' = [h \in hooks |-> Patch(h, Reset(h, cache), latest[Channel(h)], cache)]
    /\ \E stale \in SUBSET Asked :
           /\ \A q \in Asked : (\E p \in Parts(q) : cache[p] = None) => q \in stale
           /\ fetch' = Begun(stale)
    /\ UNCHANGED <<case, produced, latest, cache, asks>>

\* The page unmounts: its requests are aborted and its series go.
Unmount ==
    /\ mounted
    /\ mounted' = FALSE
    /\ charts' = [h \in hooks |-> Blank]
    /\ fetch' = [q \in Asked |-> Idle(q)]
    /\ cache' = [p \in AllParts |-> IF p = "otc" THEN None ELSE cache[p]]
    /\ UNCHANGED <<case, produced, latest, asks, mounts>>

Next ==
    \/ Produce
    \/ \E c \in DOMAIN latest : Deliver(c)
    \/ \E q \in Asked : Ask(q) \/ Serve(q) \/ Answer(q) \/ Fail(q)
    \/ Mount
    \/ Unmount

AllQueries == UNION {UNION {Queries(h) : h \in c.hooks} : c \in Cases}

\* Requests are answered and queries resolve; nothing makes the user come or the feed go on.
Spec ==
    /\ Init
    /\ [][Next]_vars
    /\ \A q \in AllQueries : WF_fetch(q \in Asked /\ Served(q)) /\ WF_fetch(q \in Asked /\ Resolved(q))

-----------------------------------------------------------------------------
(* Properties. *)

Point == [minute : Nat, value : Nat, extra : Nat]

\* Every variable has its type; a query fails at most once before it gives up.
TypeOK ==
    /\ case \in Cases
    /\ produced \in 0..Len(case.feed)
    /\ latest \in [{Channel(h) : h \in hooks} -> 0..produced]
    /\ cache \in [AllParts -> None..produced]
    /\ \A q \in Asked : fetch[q] \in [busy : BOOLEAN, tries : 0..1,
                                       served : [Parts(q) -> None..produced]]
    /\ mounted \in BOOLEAN
    /\ \A h \in hooks : charts[h].series \in Seq(Point)
    /\ asks \in 0..MaxAsks /\ mounts \in 0..MaxMounts

\* A chart's points are in the order of their minutes, and its index knows the last point of
\* every minute: whatever order baselines, payloads and late samples come in, the index
\* never goes stale, so upsertPoint never has to fall back on an index that is wrong.  The
\* OTC series, thinned out to be drawn, still begins and ends where it does.
SeriesWellFormed ==
    \A h \in hooks :
        LET series == charts[h].series
            drawn == Drawn(series, MaxPoints)
        IN /\ \A i \in 1..(Len(series) - 1) : series[i].minute <= series[i + 1].minute
           /\ charts[h].index = IndexOf(series)
           /\ h = "otc" /\ series # <<>> =>
                  /\ Len(drawn) <= MaxPoints + 1
                  /\ drawn[1] = series[1]
                  /\ drawn[Len(drawn)].minute = series[Len(series)].minute

\* What a chart shows was produced: a sample of that very minute (of the day, for a candle),
\* with the day's high no lower than the bars of the baseline and no higher than any price,
\* the high of a symbol's candle a real price that covers its close and its open, the open
\* not seen after it, changes of the OTC index measured from the first minute, and yesterday's volume wherever
\* the baseline has it.
ShownIsReal ==
    \A h \in hooks : \A i \in DOMAIN charts[h].series :
        LET point == charts[h].series[i]
            first == charts[h].series[1]
        IN /\ point.value \in 0..produced
           /\ h = "participant" =>
                  /\ point.minute = 0 => point.value = 0
                  /\ point.minute = 1 =>
                         /\ point.value > 0
                         /\ point.extra \in {Row(k).high : k \in 1..produced}
                         /\ \A j \in DOMAIN Candles(cache) :
                                Candles(cache)[j].minute = 1 => point.extra >= Candles(cache)[j].extra
           /\ h \notin {"participant", "gap"} =>
                  /\ point.value > 0 /\ Row(point.value).minute = point.minute
                  /\ h # "kbar" => Row(point.value).valued
           /\ h = "gap" =>
                  /\ point.extra \in {case.feed[k].price : k \in 1..produced}
                  /\ first.value \in 1..point.value
                  /\ point.extra >= case.feed[point.value].price
                  /\ ~case.feed[point.value].valued => point.extra >= first.extra
           /\ h = "otc" => point.extra > 0 /\ Row(point.extra).minute = first.minute
           /\ h = "estimated" /\ cache["estimated"] # None => point.extra = 1

\* A baseline that has been fetched is on the chart, every minute of it, and no minute shows
\* a value older than the baseline's unless the real-time store still holds that old one or
\* has gone on from it.
BaselineCovered ==
    mounted => \A h \in hooks :
        LET base == ValueByMinute(Baseline(h, cache))
            shown == ValueByMinute(charts[h].series)
        IN \A m \in DOMAIN base :
               /\ m \in DOMAIN shown
               /\ shown[m] < base[m] => shown[m] <= latest[Channel(h)]

Loads(q) == q \in Asked /\ fetch[q].busy

Shown(h) ==
    LET k == latest[Channel(h)]
        m == IF h \in {"participant", "gap"} THEN 1 ELSE case.feed[k].minute
    IN At(ValueByMinute(charts[h].series), m, 0) = k

Taken(h) == mounted /\ Takes(h, charts[h], latest[Channel(h)], cache)

\* A step that brings h another baseline without running its patch effect.
Replaces(h) ==
    CASE h \in {"kbar", "metric"} -> cache[Part(h)] # None /\ cache'[Part(h)] # cache[Part(h)]
      [] h \in {"quote", "otc"} -> cache'[h] # cache[h]
      [] h = "participant" -> cache'["daily"] # cache["daily"]
      [] OTHER -> FALSE

\* The newest payload of the real-time store is on the chart that takes it: after the event
\* that brought it, after a mount that found it, after a first baseline that came behind it.
\* Only another baseline takes it off, of a hook whose patch effect does not run again; the
\* estimated volume never loses it, and the candle of today only to the closed days.
LatestShown ==
    [][\A h \in hooks : (Taken(h) /\ ~Shown(h))' =>
           \/ Replaces(h)
           \/ Taken(h) /\ ~Shown(h) /\ UNCHANGED latest[Channel(h)]]_vars

Ticks ==
    OrderFlow(ValueByMinute(charts["kbar"].series),
              IF "metric" \in hooks THEN ValueByMinute(charts["metric"].series) ELSE <<>>)

\* The volume ladder and the bid-ask pressure draw, at every minute of the price, the quote
\* of the last minute of the price, up to this one, that has a quote.
OverlayCarries ==
    {"kbar", "quote"} \subseteq hooks =>
        LET quotes == ValueByMinute(charts["quote"].series)
            prices == ValueByMinute(charts["kbar"].series)
        IN \A i \in DOMAIN Ticks :
               LET known == {m \in DOMAIN prices \cap DOMAIN quotes : m <= Ticks[i].minute}
               IN Overlay(Ticks, quotes)[i].extra = IF known = {} THEN 0 ELSE quotes[Max(known)]

\* A baseline that was asked for stops loading: it answers, gives up, or the page is left.
LoadingEnds == \A q \in AllQueries : []<>~Loads(q)

=============================================================================
