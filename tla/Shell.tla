-------------------------------- MODULE Shell --------------------------------
(***************************************************************************)
(* The application shell: the location, and the skeleton that stands in for  *)
(* the page while a navigation is under way.  The dashboard's links fetch    *)
(* its baselines first and navigate when these have settled, whatever the    *)
(* user did meanwhile; every other link navigates at once.                  *)
(*                                                                          *)
(* "outside" is every path that is not laid out by the shell: there is no    *)
(* provider there, and coming back makes a new one.                         *)
(***************************************************************************)
EXTENDS Integers, Sequences, FiniteSets

CONSTANTS
    Tours       \* what a behaviour does: the pages it may visit besides the dashboard, and
                \* bounds, the most navigations and the most edits of a form

ASSUME ShellAssumption ==
    \A t \in Tours :
        /\ t.pages \subseteq {"loader", "events", "distribution", "amplitude", "audit"}
        /\ t.clicks \in Nat /\ t.edits \in Nat

VARIABLES
    tour,       \* never changes
    location,   \* pathname of the router
    loading,    \* routeLoading
    target,     \* targetPathname
    prefetches, \* navigations to the dashboard that wait for its baselines
    overtaken,  \* history: another navigation took the location away from target
    clicks

shellVars == <<tour, location, loading, target, prefetches, overtaken, clicks>>

NoPath == "none"
Outside == "outside"
Paths == tour.pages \cup {"dashboard", Outside}

\* The page of a path is there unless the skeleton is.
Mounted(page) == location = page /\ ~loading

ShellTypeOK ==
    /\ tour \in Tours
    /\ location \in Paths
    /\ loading \in BOOLEAN
    /\ target \in Paths \cup {NoPath}
    /\ loading <=> target # NoPath
    /\ prefetches \in 0..clicks
    /\ overtaken \in BOOLEAN
    /\ clicks \in 0..tour.clicks

ShellInit ==
    /\ tour \in Tours
    /\ location \in {"dashboard"} \cup tour.pages
    /\ loading = FALSE
    /\ target = NoPath
    /\ prefetches = 0
    /\ overtaken = FALSE
    /\ clicks = 0

\* setRouteLoading(false), setTargetPathname(null)
NoSkeleton == loading' = FALSE /\ target' = NoPath /\ overtaken' = FALSE

\* The location changes under the provider, which stays what it is between paths of the shell.
Arrive(to) ==
    /\ location' = to
    /\ IF Outside \in {location, to} THEN NoSkeleton
       ELSE /\ UNCHANGED <<loading, target>>
            /\ overtaken' = (loading /\ target # to)

-----------------------------------------------------------------------------
\* A link to where the user is only takes the skeleton away.
ClickHere(to) ==
    /\ to = location
    /\ NoSkeleton
    /\ UNCHANGED <<location, prefetches>>

\* A link without anything to wait for: the skeleton and the location in one task.
ClickPage(to) ==
    /\ to \notin {location, "dashboard"}
    /\ location' = to
    /\ IF to = Outside THEN NoSkeleton
       ELSE loading' = TRUE /\ target' = to /\ overtaken' = FALSE
    /\ UNCHANGED prefetches

\* The skeleton is up and the location stays until the baselines have settled.
ClickDashboard(to) ==
    /\ to = "dashboard" /\ to # location
    /\ loading' = TRUE
    /\ target' = to
    /\ overtaken' = FALSE
    /\ prefetches' = prefetches + 1
    /\ UNCHANGED location

Click(to) ==
    /\ location # Outside
    /\ clicks < tour.clicks
    /\ clicks' = clicks + 1
    /\ ClickHere(to) \/ ClickPage(to) \/ ClickDashboard(to)
    /\ UNCHANGED tour

\* Land that only goes where the data is.
LandIfPrefetched ==
    /\ prefetches > 0
    /\ prefetches' = prefetches - 1
    /\ \E prefetched \in BOOLEAN :
           IF prefetched THEN Arrive("dashboard") ELSE UNCHANGED <<location, loading, target, overtaken>>
    /\ UNCHANGED <<tour, clicks>>

\* prefetchDashboardRouteData has settled, with data or without: the finally navigates.
Land ==
    /\ prefetches > 0
    /\ prefetches' = prefetches - 1
    /\ Arrive("dashboard")
    /\ UNCHANGED <<tour, clicks>>

\* 260 ms after the location has become the target.
TimerFires ==
    /\ loading /\ location = target
    /\ NoSkeleton
    /\ UNCHANGED <<tour, location, prefetches, clicks>>

\* The browser's history, or a link that is not the shell's.
Leave(to) ==
    /\ clicks < tour.clicks
    /\ clicks' = clicks + 1
    /\ to # location
    /\ Arrive(to)
    /\ UNCHANGED <<tour, prefetches>>

\* A page sends the user to the login page or to the forbidden page.
SendAway ==
    /\ location # Outside
    /\ Arrive(Outside)
    /\ UNCHANGED <<tour, prefetches, clicks>>

-----------------------------------------------------------------------------
\* The skeleton goes away, unless another navigation has overtaken the one it was for
\* (a late dashboard, a step back): nothing then takes it away but another click.
SkeletonEnds == []<>(~loading \/ overtaken)

=============================================================================
