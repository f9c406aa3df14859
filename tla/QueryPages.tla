----------------------------- MODULE QueryPages -----------------------------
(***************************************************************************)
(* The pages that show what a form asks for: the event analytics, the two   *)
(* distributions and the audit log.  A page draws the entries that its form  *)
(* names in the query cache, which all pages share; an entry is fetched when *)
(* a page comes to look at it, and its request is aborted when none does.    *)
(*                                                                          *)
(* The dates of a form are told apart only by their order, and code stands  *)
(* for whatever else narrows the data: code and flat threshold, or the four   *)
(* filters of the audit log, which live in the URL.  A request that fails is  *)
(* sent again once before it counts as failed.                              *)
(***************************************************************************)
EXTENDS Shell

CONSTANTS
    Codes,      \* values of code; the first one is what a form starts with
    SamplePages,    \* pages of samples the server has for a code
    Choices,    \* ids of a registry, in its order
    AuditEvents,    \* the log at the server: [kind, result], the result may be missing
    Failures    \* statuses of failed requests

ASSUME QueryAssumption ==
    /\ Codes \in Seq(DOMAIN SamplePages) /\ Codes # <<>>
    /\ Choices \in Seq(STRING) /\ Choices # <<>>
    /\ \A code \in DOMAIN SamplePages : SamplePages[code] \in Nat
    /\ \A e \in AuditEvents : e.kind \in {"denied", "failed", "triggered", "other"}
    /\ Failures \subseteq 400..599

VARIABLES
    form,       \* state of the mounted page: choice, code, inverted dates, page, sort
    selected,   \* the audit event whose details are open
    cache,      \* query key -> what its data was asked for, its error, its request
    edits

queryVars == <<form, selected, cache, edits>>

Nothing == "nothing"
AnyCode == {Codes[i] : i \in DOMAIN Codes}
AuditResults == {"success", "accepted", "denied", "error", "unknown"}
Filters(page) == IF page = "audit" THEN AuditResults \cup {"all"} ELSE AnyCode
FirstFilter(page) == IF page = "audit" THEN "all" ELSE Codes[1]
Blank(code) == [choice |-> Nothing, code |-> code, inverted |-> FALSE, page |-> 1, sort |-> "newest"]

-----------------------------------------------------------------------------
(* The query cache. *)

\* A request: every parameter that its route is sent.
Asked(kind, choice, code, inverted, page, sort) ==
    [kind |-> kind, choice |-> choice, code |-> code, inverted |-> inverted, page |-> page, sort |-> sort]

NoAsk == Asked(Nothing, Nothing, Nothing, FALSE, 0, Nothing)
Registry(kind) == Asked(kind, Nothing, Nothing, FALSE, 0, Nothing)
Stats(f) == Asked("stats", f.choice, f.code, f.inverted, 0, Nothing)
Samples(f) == Asked("samples", f.choice, f.code, f.inverted, f.page, f.sort)
Distribution(f) == Asked("distribution", f.choice, f.code, f.inverted, 0, Nothing)
Amplitude(f) == Asked("amplitude", f.choice, f.code, FALSE, 0, Nothing)
AuditLog(f) == Asked("audit", Nothing, f.code, FALSE, 0, Nothing)

\* Key for samples without the sort.
KeyWithoutSort(asked) == [asked EXCEPT !.sort = Nothing]

\* Query keys name all of the parameters.
Key(asked) == asked

\* What a page looks at, whether or not it asks for it.
Looks(page, f) ==
    CASE page = "events" -> {Registry("events"), Registry("metrics"), Stats(f), Samples(f)}
      [] page = "distribution" -> {Registry("metrics"), Distribution(f)}
      [] page = "amplitude" -> {Registry("amplitudeMetrics"), Amplitude(f)}
      [] page = "audit" -> {AuditLog(f)}
      [] OTHER -> {}

\* enabled: something is chosen and the dates are in order.
Enabled(asked) ==
    asked.kind \in {"stats", "samples", "distribution", "amplitude"} =>
        asked.choice # Nothing /\ ~asked.inverted

Unfetched == [made |-> NoAsk, error |-> 0, request |-> NoAsk]
Entry(c, asked) == IF Key(asked) \in DOMAIN c THEN c[Key(asked)] ELSE Unfetched
HasData(entry) == entry.made # NoAsk

\* A request leaves.  While one is under way for a query without data, its error is not
\* shown; it is shown again when the request is aborted.
Fetching(entry, asked) == [entry EXCEPT !.request = asked]
ShownError(entry) == IF HasData(entry) \/ entry.request = NoAsk THEN entry.error ELSE 0

\* What an entry nobody looks at is remembered for: its data, or the error of a query that
\* is not enabled.  The error of an enabled one is never shown again: whoever comes to look
\* at it fetches it.
Remembered(k, entry) == HasData(entry) \/ (entry.error # 0 /\ ~Enabled(k))

\* The page looks at new instead of old: what it stops looking at is aborted, and forgotten
\* if there is nothing to remember; what it comes to look at is fetched unless it is fresh.
Observed(c, old, new, stale) ==
    LET keysOf(looks) == {Key(asked) : asked \in looks}
        kept == {k \in DOMAIN c : Remembered(k, c[k])} \cup keysOf(new)
        asker(k) == CHOOSE asked \in new : Key(asked) = k
        entry(k) == IF k \in DOMAIN c THEN c[k] ELSE Unfetched
    IN [k \in kept |->
           IF k \notin keysOf(new) THEN [entry(k) EXCEPT !.request = NoAsk]
           ELSE IF /\ k \notin keysOf(old) /\ Enabled(asker(k))
                   /\ ~HasData(entry(k)) \/ k \in stale
                THEN Fetching(entry(k), asker(k)) ELSE entry(k)]

\* refetch
Again(queries) ==
    cache' = [k \in DOMAIN cache |->
                 IF \E asked \in queries : Key(asked) = k
                 THEN Fetching(cache[k], CHOOSE asked \in queries : Key(asked) = k) ELSE cache[k]]

LooksNow == IF loading THEN {} ELSE Looks(location, form)

\* Every step that draws another page or another form; any data older than 10 s is stale.
Redrawn ==
    \E stale \in {{}, {k \in DOMAIN cache : HasData(cache[k])}} :
        cache' = Observed(cache, LooksNow, LooksNow', stale)

-----------------------------------------------------------------------------
(* What a page makes of it. *)

Data(asked) == HasData(Entry(cache, asked))
Fresh(asked) == Data(asked) /\ Entry(cache, asked).request = NoAsk
ErrorOf(asked) == ShownError(Entry(cache, asked))

FirstError(queries) ==
    LET failing == SelectSeq(queries, LAMBDA asked : ErrorOf(asked) # 0)
    IN IF failing = <<>> THEN 0 ELSE ErrorOf(failing[1])

\* apiStatus. The audit page has none: it shows that there is an error.
ApiStatus ==
    CASE Mounted("events") -> FirstError(<<Stats(form), Samples(form), Registry("events")>>)
      [] Mounted("distribution") -> FirstError(<<Distribution(form), Registry("metrics")>>)
      [] Mounted("amplitude") -> FirstError(<<Amplitude(form), Registry("amplitudeMetrics")>>)
      [] OTHER -> 0

SentAway == ApiStatus \in {401, 403}

\* The registry a page chooses from.
ChoicesOf ==
    CASE Mounted("events") -> Registry("events")
      [] Mounted("distribution") -> Registry("metrics")
      [] OTHER -> Registry("amplitudeMetrics")

\* A sample page is not empty, and there are samples after it.
HasSamples(asked) == Data(asked) /\ asked.page <= SamplePages[Entry(cache, asked).made.code]
CanMoveNext(asked) == Data(asked) /\ asked.page < SamplePages[Entry(cache, asked).made.code]

\* resolveAuditResult: what an event without a result of its own came to.
ResolvedResult(kind) ==
    CASE kind = "denied" -> "denied" [] kind = "failed" -> "error"
      [] kind = "triggered" -> "accepted" [] OTHER -> "success"

ResultOf(event) == IF event.result \in AuditResults THEN event.result ELSE ResolvedResult(event.kind)

\* The rows the server answers, and the page filters once more.
AuditRows(asked) ==
    {e \in AuditEvents : asked.code # "all" => e.result = asked.code}

FilteredRows ==
    IF Mounted("audit") /\ Data(AuditLog(form))
    THEN {e \in AuditRows(Entry(cache, AuditLog(form)).made) :
             form.code # "all" => ResultOf(e) = form.code}
    ELSE {}

\* The table gives way to an error, the details do not.
ShownRows == IF ErrorOf(AuditLog(form)) = 0 THEN FilteredRows ELSE {}

NoRow == [kind |-> Nothing, result |-> Nothing]
Details == IF selected \in FilteredRows THEN selected ELSE NoRow

QueryTypeOK ==
    /\ form.choice \in {Choices[i] : i \in DOMAIN Choices} \cup {Nothing}
    /\ form.code \in Filters(location)
    /\ form.inverted \in BOOLEAN /\ form.page \in Nat \ {0} /\ form.sort \in {"newest", "oldest"}
    /\ \A k \in DOMAIN cache :
           Remembered(k, cache[k]) \/ k \in {Key(asked) : asked \in LooksNow}
    /\ \A k \in DOMAIN cache : cache[k].request # NoAsk => k \in {Key(asked) : asked \in LooksNow}
    /\ \A k \in DOMAIN cache : cache[k].error \in Failures \cup {0}
    /\ edits \in 0..tour.edits

QueryInit ==
    /\ form = Blank(FirstFilter(location))
    /\ selected = NoRow
    /\ cache = Observed(<<>>, {}, Looks(location, form), {})
    /\ edits = 0

-----------------------------------------------------------------------------
\* What a step of the shell does to the page: another path has a form of its own, with the
\* filters its URL has; a page that was unmounted keeps its URL only.
PagesFollow(codes) ==
    /\ IF location' # location THEN \E code \in codes : form' = Blank(code)
       ELSE form' = IF loading' = loading \/ location = "audit" THEN form ELSE Blank(Codes[1])
    /\ selected' = IF location' = location /\ loading' = loading THEN selected ELSE NoRow
    /\ Redrawn
    /\ UNCHANGED edits

\* The answer comes, data for what the request asked: there is some if something was chosen
\* and the dates were in order.
Answered(k) ==
    /\ k \in DOMAIN cache /\ cache[k].request # NoAsk
    /\ Enabled(cache[k].request)
    /\ cache' = [cache EXCEPT ![k] = [made |-> @.request, error |-> 0, request |-> NoAsk]]
    /\ UNCHANGED <<form, selected, edits>>

\* The request and its retry failed, or the answer does not fit its schema.
Failed(k, status) ==
    /\ k \in DOMAIN cache /\ cache[k].request # NoAsk
    /\ cache' = [cache EXCEPT ![k].error = status, ![k].request = NoAsk]
    /\ UNCHANGED <<form, selected, edits>>

\* The first entry of the registry becomes the choice.
ChooseFirst ==
    /\ ~loading /\ location \in {"events", "distribution", "amplitude"}
    /\ form.choice = Nothing
    /\ Data(ChoicesOf)
    /\ form' = [form EXCEPT !.choice = Choices[1]]
    /\ Redrawn
    /\ UNCHANGED <<selected, edits>>

Edit(page) ==
    /\ Mounted(page)
    /\ ~SentAway
    /\ edits < tour.edits
    /\ edits' = edits + 1

Chosen == IF Data(ChoicesOf) THEN {Choices[i] : i \in DOMAIN Choices} ELSE {}

\* One field of the filter bar of the analytics pages.
EditedFilters ==
    {[form EXCEPT !.code = code] : code \in AnyCode}
        \cup {[form EXCEPT !.inverted = ~@]}
        \cup {[form EXCEPT !.choice = choice] : choice \in Chosen}

\* PageReset that does not look at the code.
PageResetButForCode(before, after) ==
    IF before.choice = after.choice /\ before.inverted = after.inverted THEN after.page ELSE 1

\* resetPageOnFilterChange
PageReset(before, after) ==
    IF before.code = after.code /\ before.choice = after.choice /\ before.inverted = after.inverted
    THEN after.page ELSE 1

EditEvents ==
    /\ Edit("events")
    /\ \E after \in EditedFilters : form' = [after EXCEPT !.page = PageReset(form, after)]
    /\ Redrawn
    /\ UNCHANGED selected

EditDistribution ==
    /\ Edit("distribution")
    /\ form' \in EditedFilters
    /\ Redrawn
    /\ UNCHANGED selected

\* The metrics can be chosen from while they are not being fetched.
EditAmplitude ==
    /\ Edit("amplitude")
    /\ form' \in {[form EXCEPT !.code = code] : code \in AnyCode}
                 \cup {[form EXCEPT !.choice = choice] : choice \in IF Fresh(ChoicesOf) THEN Chosen ELSE {}}
    /\ Redrawn
    /\ UNCHANGED selected

\* The sort can be changed where there are samples to sort, and keeps the page.
SortSamples ==
    /\ Edit("events")
    /\ HasSamples(Samples(form))
    /\ form' = [form EXCEPT !.sort = IF @ = "newest" THEN "oldest" ELSE "newest"]
    /\ Redrawn
    /\ UNCHANGED selected

PreviousPage ==
    /\ Edit("events")
    /\ form.page > 1
    /\ form' = [form EXCEPT !.page = @ - 1]
    /\ Redrawn
    /\ UNCHANGED selected

NextPage ==
    /\ Edit("events")
    /\ ~form.inverted
    /\ CanMoveNext(Samples(form)) \/ HasSamples(Samples(form))
    /\ form' = [form EXCEPT !.page = @ + 1]
    /\ Redrawn
    /\ UNCHANGED selected

\* Retry asks again for what the form names, be it enabled or not, and never for the registry.
RetryQueries ==
    /\ ApiStatus # 0
    /\ \/ Edit("events") /\ Again({Stats(form), Samples(form)})
       \/ Edit("distribution") /\ Again({Distribution(form)})
    /\ UNCHANGED <<form, selected>>

\* The audit log's filters are the URL's search, replaced in place.
FilterAudit ==
    /\ Edit("audit")
    /\ form' \in {[form EXCEPT !.code = code] : code \in Filters("audit")}
    /\ Redrawn
    /\ UNCHANGED selected

SelectRow ==
    /\ Edit("audit")
    /\ selected' \in ShownRows
    /\ UNCHANGED <<form, cache>>

QueryNext ==
    \/ \E k \in DOMAIN cache : Answered(k) \/ \E status \in Failures : Failed(k, status)
    \/ ChooseFirst
    \/ EditEvents \/ SortSamples \/ PreviousPage \/ NextPage
    \/ EditDistribution \/ EditAmplitude
    \/ RetryQueries
    \/ FilterAudit \/ SelectRow

-----------------------------------------------------------------------------
\* The events page is at most one page past the samples of its filters: the page before the
\* one shown always has some.
PageReachable == form.page > 1 => form.page - 1 <= SamplePages[form.code]

\* Whatever a page draws was asked for with the parameters its form has now, and the details
\* are those of an event that is listed.
ShownIsAsked ==
    /\ \A asked \in LooksNow : Data(asked) => Entry(cache, asked).made = asked
    /\ \A e \in ShownRows \cup {Details} :
           e # NoRow /\ form.code # "all" => ResultOf(e) = form.code

=============================================================================
