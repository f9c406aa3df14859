------------------------------ MODULE JobLoader ------------------------------
(***************************************************************************)
(* The historical data loader.  Its two panels create jobs at the server,   *)
(* the backfill panel one request after the other for the codes selected,    *)
(* and the page lists what a batch created once the whole batch succeeded.   *)
(*                                                                          *)
(* Leaving the page or the tab stops nothing: a batch goes on without the    *)
(* panel that shows it, or the page that lists its jobs.  A job is the       *)
(* place it has at the server.                                              *)
(***************************************************************************)
EXTENDS Shell, Functions

CONSTANTS
    MaxSelected,    \* most codes of a batch (a bound)
    MaxBatches      \* most batches (a bound)

ASSUME LoaderAssumption == MaxSelected \in Nat \ {0} /\ MaxBatches \in Nat

VARIABLES
    panel,      \* the panel of the open tab: its tab, status and createdCount
    listed,     \* unifiedJobs of the page
    batches,    \* number of a batch -> what its loop has left to do and has made
    created,    \* jobs at the server
    lost        \* history: jobs whose batch failed or had no page left to list them

loaderVars == <<panel, listed, batches, created, lost>>

Tabs == {"backfill", "crawler"}
\* How many codes are selected when the form is in order.
Selected == 1..MaxSelected

Idle(tab) == [tab |-> tab, status |-> "idle", count |-> 0]
OnLoader == Mounted("loader")
Running(n) == batches[n].todo > 0

LoaderTypeOK ==
    /\ panel \in [tab : Tabs, status : {"idle", "loading", "success", "error"}, count : 0..MaxSelected]
    /\ listed \in Seq(1..created)
    /\ batches \in Seq([todo : 0..MaxSelected, made : Seq(1..created),
                       panel : BOOLEAN, page : BOOLEAN])
    /\ \A n \in DOMAIN batches : batches[n].panel => batches[n].page
    /\ Len(batches) <= MaxBatches
    /\ created \in Nat
    /\ lost \subseteq 1..created

LoaderInit ==
    /\ panel = Idle("backfill")
    /\ listed = <<>>
    /\ batches = <<>>
    /\ created = 0
    /\ lost = {}

-----------------------------------------------------------------------------
\* Batches that are left without their panel, or without their page.
Orphaned(page) ==
    [n \in DOMAIN batches |-> [batches[n] EXCEPT !.panel = FALSE, !.page = @ /\ page]]

\* What a step of the shell does to the page: unmounted, its state is gone.
LoaderFollows ==
    IF OnLoader /\ ~OnLoader'
    THEN /\ panel' = Idle("backfill")
         /\ listed' = <<>>
         /\ batches' = Orphaned(FALSE)
         /\ lost' = lost \cup {listed[i] : i \in DOMAIN listed}
         /\ UNCHANGED created
    ELSE UNCHANGED loaderVars

\* The other tab: its panel starts anew.
SwitchTab(tab) ==
    /\ OnLoader
    /\ tab # panel.tab
    /\ panel' = Idle(tab)
    /\ batches' = Orphaned(TRUE)
    /\ UNCHANGED <<listed, created, lost>>

\* Nothing selected, a date missing or the range the wrong way round.
LoadRejected ==
    /\ OnLoader
    /\ panel.status # "loading"
    /\ panel' = [panel EXCEPT !.status = "error", !.count = 0]
    /\ UNCHANGED <<listed, batches, created, lost>>

\* The first request of a batch leaves. The button is disabled while the panel loads.
Begin(codes) ==
    /\ OnLoader
    /\ panel.status # "loading"
    /\ Len(batches) < MaxBatches
    /\ panel' = [panel EXCEPT !.status = "loading"]
    /\ batches' = Append(batches, [todo |-> codes, made |-> <<>>, panel |-> TRUE, page |-> TRUE])
    /\ UNCHANGED <<listed, created, lost>>

\* handleLoad of the backfill panel: a job for each of the codes selected.
LoadBackfill ==
    /\ panel.tab = "backfill"
    /\ \E codes \in Selected : Begin(codes)

\* handleLoad of the crawler panel: one job for the day or for the range.
LoadCrawler ==
    /\ panel.tab = "crawler"
    /\ Begin(1)

\* The reset button of either panel.
ResetPanel ==
    /\ OnLoader
    /\ panel.status \in {"success", "error"}
    /\ panel' = Idle(panel.tab)
    /\ UNCHANGED <<listed, batches, created, lost>>

\* AppendJobs on the list as it was when the page was first drawn.
AppendJobsToFirst(jobs, current) == jobs

\* appendJobs, on the list as it is when the batch ends.
AppendJobs(jobs, current) == jobs \o current

\* mutateAsync has resolved: the panel tells how many, the page lists them.
BatchDone(n, made) ==
    /\ panel' = IF batches[n].panel
                THEN [panel EXCEPT !.status = "success", !.count = Len(made)] ELSE panel
    /\ listed' = IF batches[n].page THEN AppendJobs(made, listed) ELSE listed
    /\ lost' = IF batches[n].page THEN lost ELSE lost \cup {made[i] : i \in DOMAIN made}
    /\ batches' = [batches EXCEPT ![n].todo = 0, ![n].made = <<>>]

\* The answer of the batch's request: a job, and the next request or the end.
JobCreated(n) ==
    /\ n \in DOMAIN batches /\ Running(n)
    /\ created' = created + 1
    /\ LET made == Append(batches[n].made, created + 1)
       IN IF batches[n].todo = 1 THEN BatchDone(n, made)
          ELSE /\ batches' = [batches EXCEPT ![n].todo = @ - 1, ![n].made = made]
               /\ UNCHANGED <<panel, listed, lost>>

\* The request fails, before or after the server made the job: the loop ends, and what it
\* had made is not told.
JobFails(n) ==
    /\ n \in DOMAIN batches /\ Running(n)
    /\ \E answer \in {0, 1} :
           /\ created' = created + answer
           /\ lost' = lost \cup {batches[n].made[i] : i \in DOMAIN batches[n].made}
                           \cup (created + 1)..(created + answer)
    /\ panel' = IF batches[n].panel THEN [panel EXCEPT !.status = "error", !.count = 0] ELSE panel
    /\ batches' = [batches EXCEPT ![n].todo = 0, ![n].made = <<>>]
    /\ UNCHANGED listed

LoaderNext ==
    \/ \E tab \in Tabs : SwitchTab(tab)
    \/ LoadRejected
    \/ LoadBackfill \/ LoadCrawler
    \/ ResetPanel
    \/ \E n \in 1..MaxBatches : JobCreated(n) \/ JobFails(n)

-----------------------------------------------------------------------------
\* The table of the page: the list in an order that puts the newest job first.
JobsTable ==
    LET rows == DOMAIN listed
        order == CHOOSE p \in Bijection(rows, rows) :
                     \A i, j \in rows : i < j => listed[p[i]] >= listed[p[j]]
    IN  [i \in rows |-> listed[order[i]]]

\* No job is listed twice, the newest is first; every job of the server is listed, in a batch still running, or
\* lost with a failed batch or a page that was left; a panel that loads has one batch; and
\* the jobs a panel reports are on the page.
JobsAccounted ==
    LET shown == {listed[i] : i \in DOMAIN listed}
        made(n) == {batches[n].made[i] : i \in DOMAIN batches[n].made}
        own == {n \in DOMAIN batches : Running(n) /\ batches[n].panel}
    IN /\ \A i, j \in DOMAIN JobsTable : i < j => JobsTable[i] > JobsTable[j]
       /\ shown \cup lost \cup UNION {made(n) : n \in DOMAIN batches} = 1..created
       /\ shown \cap lost = {}
       /\ Cardinality(own) = IF panel.status = "loading" THEN 1 ELSE 0
       /\ panel.status = "success" => panel.count \in 1..Len(listed)

=============================================================================
