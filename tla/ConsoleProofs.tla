---------------------------- MODULE ConsoleProofs ----------------------------
(***************************************************************************)
(* Theorems of Console, for every tour, number of batches, set of codes    *)
(* and set of failures: every variable keeps its type, no job is listed    *)
(* twice and every job of the server is accounted for, the events page     *)
(* is at most one past the samples of its filters, and whatever a page     *)
(* draws is what its form asks for.                                        *)
(***************************************************************************)
EXTENDS Console, DataLemmas

----------------------------------------------------------------------------
(* The shell.                                                               *)

\* A step of the shell.
ShellStep ==
    \/ \E to \in Paths : Click(to) \/ Leave(to)
    \/ Land \/ TimerFires \/ SendAway

\* A tour is what ShellAssumption says.
LEMMA TourFacts ==
    ASSUME ShellTypeOK
    PROVE  tour.clicks \in Nat /\ tour.edits \in Nat /\ clicks \in Nat /\ prefetches \in Nat
           /\ NoPath \notin Paths
BY ShellAssumption DEF ShellTypeOK, NoPath, Paths, Outside

\* Arriving keeps the types of the location and of the skeleton.
LEMMA ArriveType ==
    ASSUME ShellTypeOK, NEW to \in Paths, Arrive(to)
    PROVE  /\ location' \in Paths /\ loading' \in BOOLEAN /\ target' \in Paths \cup {NoPath}
           /\ loading' <=> target' # NoPath
           /\ overtaken' \in BOOLEAN
<1>1. CASE Outside \in {location, to}
  BY <1>1 DEF Arrive, NoSkeleton, ShellTypeOK
<1>2. CASE Outside \notin {location, to}
  BY <1>2 DEF Arrive, ShellTypeOK
<1> QED
  BY <1>1, <1>2

\* The shell keeps its types (AppShell, NavigationLoadingProvider).
LEMMA ShellType ==
    ASSUME ShellTypeOK, ShellStep
    PROVE  ShellTypeOK' /\ tour' = tour
<1>0. "dashboard" \in Paths /\ Outside \in Paths
  BY DEF Paths
<1>1. CASE \E to \in Paths : Click(to)
  <2>1. PICK to \in Paths : Click(to)
    BY <1>1
  <2>2. /\ clicks' \in 0..tour.clicks /\ tour' = tour /\ Paths' = Paths
        /\ prefetches \in 0..clicks' /\ prefetches + 1 \in 0..clicks'
    BY <2>1, TourFacts DEF Click, ShellTypeOK, Paths
  <2>3. /\ location' \in Paths /\ loading' \in BOOLEAN /\ target' \in Paths \cup {NoPath}
        /\ loading' <=> target' # NoPath
        /\ prefetches' \in {prefetches, prefetches + 1}
        /\ overtaken' \in BOOLEAN
    <3>1. CASE ClickHere(to)
      BY <3>1 DEF ClickHere, NoSkeleton, ShellTypeOK
    <3>2. CASE ClickPage(to)
      BY <3>2, TourFacts DEF ClickPage, NoSkeleton, ShellTypeOK
    <3>3. CASE ClickDashboard(to)
      BY <1>0, <3>3, TourFacts DEF ClickDashboard, ShellTypeOK
    <3> QED
      BY <2>1, <3>1, <3>2, <3>3 DEF Click
  <2> QED
    BY <2>2, <2>3 DEF ShellTypeOK
<1>2. CASE \E to \in Paths : Leave(to)
  <2>1. PICK to \in Paths : Leave(to)
    BY <1>2
  <2>2. /\ clicks' \in 0..tour.clicks /\ clicks' = clicks + 1
        /\ UNCHANGED <<tour, prefetches>> /\ Arrive(to)
    BY <2>1, TourFacts DEF Leave, ShellTypeOK
  <2> QED
    BY <2>2, ArriveType, TourFacts DEF ShellTypeOK, Paths
<1>3. CASE Land
  <2>1. /\ Arrive("dashboard") /\ UNCHANGED <<tour, clicks>>
        /\ prefetches' \in 0..clicks
    BY <1>3, TourFacts DEF Land, ShellTypeOK
  <2> QED
    BY <1>0, <2>1, ArriveType DEF ShellTypeOK, Paths
<1>4. CASE TimerFires
  BY <1>4 DEF TimerFires, NoSkeleton, ShellTypeOK, Paths
<1>5. CASE SendAway
  <2>1. Arrive(Outside) /\ UNCHANGED <<tour, prefetches, clicks>>
    BY <1>5 DEF SendAway
  <2> QED
    BY <1>0, <2>1, ArriveType DEF ShellTypeOK, Paths
<1> QED
  BY <1>1, <1>2, <1>3, <1>4, <1>5 DEF ShellStep

----------------------------------------------------------------------------
(* The job loader.                                                          *)

\* The jobs a batch has made so far.
Made(n) == Range(batches[n].made)

\* The batch the open panel waits for.
Owns(n) == Running(n) /\ batches[n].panel

\* No job is at two places.
OnePlace ==
    /\ NoRepeat(listed)
    /\ \A n \in DOMAIN batches : NoRepeat(batches[n].made)
    /\ \A n, m \in DOMAIN batches : n # m => Made(n) \cap Made(m) = {}
    /\ \A n \in DOMAIN batches : Made(n) \cap (Range(listed) \cup lost) = {}
    /\ Range(listed) \cap lost = {}

\* Every job of the server is listed, lost or in a batch.
EveryJob == Range(listed) \cup lost \cup UNION {Made(n) : n \in DOMAIN batches} = 1..created

\* A batch makes no more jobs than codes were selected, and forgets them when it ends.
BatchBounded ==
    \A n \in DOMAIN batches :
        /\ batches[n].todo + Len(batches[n].made) <= MaxSelected
        /\ batches[n].todo = 0 => batches[n].made = <<>>

\* A panel that loads waits for one batch, one that does not for none.
OneOwner ==
    /\ \A n, m \in DOMAIN batches : Owns(n) /\ Owns(m) => n = m
    /\ (\E n \in DOMAIN batches : Owns(n)) <=> panel.status = "loading"

\* The panel's count is one of jobs that are listed.
CountListed == panel.status = "success" => panel.count \in 1..Len(listed)

\* The inductive invariant of the loader.
LoaderInv == LoaderTypeOK /\ OnePlace /\ EveryJob /\ BatchBounded /\ OneOwner /\ CountListed

\* What a batch is.
BatchSet(n) == [todo : 0..MaxSelected, made : Seq(1..n), panel : BOOLEAN, page : BOOLEAN]

\* Batches and the list as sequences.
LEMMA LoaderFacts ==
    ASSUME LoaderTypeOK
    PROVE  /\ batches \in Seq(BatchSet(created)) /\ DOMAIN batches = 1..Len(batches)
           /\ Len(batches) \in Nat /\ created \in Nat
           /\ \A n \in DOMAIN batches : batches[n] \in BatchSet(created)
           /\ listed \in Seq(1..created) /\ Len(listed) \in Nat
           /\ DOMAIN listed = 1..Len(listed)
<1>1. /\ batches \in Seq(BatchSet(created)) /\ listed \in Seq(1..created) /\ created \in Nat
  BY DEF LoaderTypeOK, BatchSet
<1> QED
  BY <1>1, LenProperties, ElementOfSeq

\* The panel with another status.
LEMMA PanelForm ==
    ASSUME LoaderTypeOK
    PROVE  [panel EXCEPT !.status = "error", !.count = 0]
               \in [tab : Tabs, status : {"error"}, count : 0..MaxSelected]
<1>1. panel.tab \in Tabs /\ 0 \in 0..MaxSelected
  BY LoaderAssumption DEF LoaderTypeOK
<1>2. [panel EXCEPT !.status = "error", !.count = 0]
          = [[panel EXCEPT !.status = "error"] EXCEPT !.count = 0]
  BY DEF LoaderTypeOK
<1>3. [panel EXCEPT !.status = "error"]
          \in [tab : Tabs, status : {"error"}, count : 0..MaxSelected]
  BY DEF LoaderTypeOK
<1> QED
  BY <1>1, <1>2, <1>3

\* A sequence of batches, from its places.
LEMMA BatchesType ==
    ASSUME NEW S, NEW s \in Seq(S), NEW T, NEW t, DOMAIN t = DOMAIN s,
           t = [n \in DOMAIN s |-> t[n]], \A n \in DOMAIN s : t[n] \in T
    PROVE  t \in Seq(T) /\ Len(t) = Len(s)
<1>1. DOMAIN s = 1..Len(s) /\ Len(s) \in Nat
  BY LenProperties
<1>2. t \in [1..Len(s) -> T]
  BY <1>1
<1>3. t \in Seq(T)
  BY <1>1, <1>2, SeqDef
<1>4. DOMAIN t = 1..Len(t) /\ Len(t) \in Nat
  BY <1>3, LenProperties
<1> QED
  BY <1>1, <1>3, <1>4

\* One batch changes, and there may be more jobs.
LEMMA BatchesChange ==
    ASSUME LoaderTypeOK, 1..created \subseteq 1..created', NEW n \in DOMAIN batches,
           DOMAIN batches' = DOMAIN batches, batches' = [m \in DOMAIN batches |-> batches'[m]],
           \A m \in DOMAIN batches : m # n => batches'[m] = batches[m],
           batches'[n] \in BatchSet(created')
    PROVE  batches' \in Seq(BatchSet(created')) /\ Len(batches') = Len(batches)
<1>1. ASSUME NEW m \in DOMAIN batches PROVE batches'[m] \in BatchSet(created')
  <2>1. CASE m = n
    BY <2>1
  <2>2. CASE m # n
    <3>1. batches'[m] = batches[m] /\ batches[m] \in BatchSet(created)
      BY <2>2, LoaderFacts
    <3>2. batches[m].made \in Seq(1..created')
      BY <3>1, SeqMonotonic DEF BatchSet
    <3> QED
      BY <3>1, <3>2 DEF BatchSet
  <2> QED
    BY <2>1, <2>2
<1> DEFINE t == batches'
           T == BatchSet(created')
<1>2. DOMAIN t = DOMAIN batches /\ t = [m \in DOMAIN batches |-> t[m]]
      /\ \A m \in DOMAIN batches : t[m] \in T
  BY <1>1
<1>3. batches \in Seq(BatchSet(created))
  BY LoaderFacts
<1> HIDE DEF t, T
<1>4. t \in Seq(T) /\ Len(t) = Len(batches)
  BY <1>2, <1>3, BatchesType
<1> QED
  BY <1>4 DEF t, T

\* A page as new has no jobs and no batches.
LEMMA LoaderInitInv == ASSUME LoaderInit PROVE LoaderInv
<1>1. /\ panel = Idle("backfill") /\ listed = <<>> /\ batches = <<>> /\ created = 0 /\ lost = {}
  BY DEF LoaderInit
<1>2. <<>> \in Seq(1..0) /\ <<>> \in Seq(BatchSet(0)) /\ Len(<<>>) = 0
  BY EmptySeq
<1>3. LoaderTypeOK
  BY <1>1, <1>2, LoaderAssumption DEF LoaderTypeOK, Idle, Tabs, BatchSet
<1>4. DOMAIN batches = {} /\ Range(listed) = {} /\ DOMAIN listed = {}
  BY <1>1 DEF Range
<1>5. OnePlace /\ BatchBounded /\ OneOwner /\ CountListed
  BY <1>1, <1>4 DEF OnePlace, BatchBounded, OneOwner, CountListed, NoRepeat, Idle
<1>6. EveryJob
  BY <1>1, <1>4 DEF EveryJob
<1> QED
  BY <1>3, <1>5, <1>6 DEF LoaderInv

\* Batches that are orphaned keep their work and have no panel.
LEMMA OrphanFacts ==
    ASSUME LoaderTypeOK, NEW page \in BOOLEAN, batches' = Orphaned(page)
    PROVE  /\ DOMAIN batches' = DOMAIN batches /\ Len(batches') = Len(batches)
           /\ batches' \in Seq(BatchSet(created))
           /\ \A n \in DOMAIN batches :
                 /\ batches'[n].todo = batches[n].todo /\ batches'[n].made = batches[n].made
                 /\ ~batches'[n].panel
<1>1. \A n \in DOMAIN batches :
         batches'[n] = [batches[n] EXCEPT !.panel = FALSE, !.page = @ /\ page]
  BY DEF Orphaned
<1>2. ASSUME NEW n \in DOMAIN batches
      PROVE  /\ batches'[n] \in BatchSet(created)
             /\ batches'[n].todo = batches[n].todo /\ batches'[n].made = batches[n].made
             /\ ~batches'[n].panel
  <2>1. batches[n] \in BatchSet(created)
    BY LoaderFacts
  <2>2. batches'[n] = [todo |-> batches[n].todo, made |-> batches[n].made,
                       panel |-> FALSE, page |-> batches[n].page /\ page]
    BY <1>1, <2>1 DEF BatchSet
  <2>3. (batches[n].page /\ page) \in BOOLEAN
    BY <2>1 DEF BatchSet
  <2> QED
    BY <2>1, <2>2, <2>3 DEF BatchSet
<1>3. DOMAIN batches' = DOMAIN batches /\ batches' = [n \in DOMAIN batches |-> batches'[n]]
  BY DEF Orphaned
<1>4. batches \in Seq(BatchSet(created))
  BY LoaderFacts
<1>5. batches' \in Seq(BatchSet(created)) /\ Len(batches') = Len(batches)
  <2> DEFINE t == batches'
             T == BatchSet(created)
  <2>1. DOMAIN t = DOMAIN batches /\ t = [n \in DOMAIN batches |-> t[n]]
        /\ \A n \in DOMAIN batches : t[n] \in T
    BY <1>2, <1>3
  <2> HIDE DEF t, T
  <2>2. batches \in Seq(T)
    BY <1>4 DEF T
  <2>3. t \in Seq(T) /\ Len(t) = Len(batches)
    BY <2>1, <2>2, BatchesType
  <2> QED
    BY <2>3 DEF t, T
<1> QED
  BY <1>2, <1>3, <1>5

\* Where the jobs are does not change with the panels.
LEMMA SamePlaces ==
    ASSUME LoaderInv, UNCHANGED created, DOMAIN batches' = DOMAIN batches,
           \A n \in DOMAIN batches : /\ batches'[n].todo = batches[n].todo
                                     /\ batches'[n].made = batches[n].made,
           \/ UNCHANGED <<listed, lost>>
           \/ listed' = <<>> /\ lost' = lost \cup Range(listed)
    PROVE  OnePlace' /\ EveryJob' /\ BatchBounded'
<1>1. \A n \in DOMAIN batches : Made(n)' = Made(n)
  BY DEF Made
<1>2. BatchBounded'
  BY DEF LoaderInv, BatchBounded
<1>3. NoRepeat(listed') /\ Range(listed') \cup lost' = Range(listed) \cup lost
      /\ Range(listed') \cap lost' = {}
  <2>1. CASE UNCHANGED <<listed, lost>>
    BY <2>1 DEF LoaderInv, OnePlace
  <2>2. CASE listed' = <<>> /\ lost' = lost \cup Range(listed)
    <3>1. DOMAIN listed' = {} /\ Range(listed') = {}
      BY <2>2 DEF Range
    <3> QED
      BY <2>2, <3>1 DEF NoRepeat
  <2> QED
    BY <2>1, <2>2
<1>4. OnePlace'
  BY <1>1, <1>3 DEF LoaderInv, OnePlace
<1>5. EveryJob'
  <2>1. UNION {Made(n)' : n \in DOMAIN batches'} = UNION {Made(n) : n \in DOMAIN batches}
    BY <1>1
  <2>2. EveryJob' <=> Range(listed') \cup lost' \cup UNION {Made(n)' : n \in DOMAIN batches'} = 1..created'
    BY DEF EveryJob
  <2> QED
    BY <1>3, <2>1, <2>2 DEF LoaderInv, EveryJob
<1> QED
  BY <1>2, <1>4, <1>5

\* The page goes away, or its other tab is opened: nothing owns a batch any more.
LEMMA OrphanStep ==
    ASSUME LoaderInv, NEW page \in BOOLEAN, batches' = Orphaned(page), UNCHANGED created,
           NEW tab \in Tabs, panel' = Idle(tab),
           \/ UNCHANGED <<listed, lost>>
           \/ listed' = <<>> /\ lost' = lost \cup Range(listed)
    PROVE  LoaderInv'
<1>0. LoaderTypeOK
  BY DEF LoaderInv
<1>1. /\ DOMAIN batches' = DOMAIN batches /\ Len(batches') = Len(batches)
      /\ batches' \in Seq(BatchSet(created))
      /\ \A n \in DOMAIN batches :
            /\ batches'[n].todo = batches[n].todo /\ batches'[n].made = batches[n].made
            /\ ~batches'[n].panel
  BY <1>0, OrphanFacts
<1>2. OnePlace' /\ EveryJob' /\ BatchBounded'
  BY <1>1, SamePlaces
<1>3. listed' \in Seq(1..created) /\ lost' \subseteq 1..created
  <2>1. listed \in Seq(1..created) /\ lost \subseteq 1..created /\ <<>> \in Seq(1..created)
    BY <1>0, EmptySeq DEF LoaderTypeOK
  <2>2. Range(listed) \subseteq 1..created
    BY DEF LoaderInv, EveryJob
  <2> QED
    BY <2>1, <2>2
<1>4. panel' \in [tab : Tabs, status : {"idle", "loading", "success", "error"}, count : 0..MaxSelected]
      /\ panel'.status = "idle"
  BY LoaderAssumption DEF Idle
<1>5. LoaderTypeOK'
  BY <1>0, <1>1, <1>3, <1>4 DEF LoaderTypeOK, BatchSet
<1>6. OneOwner' /\ CountListed'
  BY <1>1, <1>4 DEF OneOwner, Owns, CountListed
<1> QED
  BY <1>2, <1>5, <1>6 DEF LoaderInv

\* Nothing of the loader changes.
LEMMA LoaderSame == ASSUME LoaderInv, UNCHANGED loaderVars PROVE LoaderInv'
<1>1. LoaderTypeOK' /\ CountListed'
  BY DEF loaderVars, LoaderInv, LoaderTypeOK, CountListed
<1>2. OnePlace'
  BY DEF loaderVars, LoaderInv, OnePlace, Made
<1>3. EveryJob'
  BY DEF loaderVars, LoaderInv, EveryJob, Made
<1>4. BatchBounded' /\ OneOwner'
  BY DEF loaderVars, LoaderInv, BatchBounded, OneOwner, Owns, Running
<1> QED
  BY <1>1, <1>2, <1>3, <1>4 DEF LoaderInv

\* A step of the shell may take the page away (HistoricalDataLoaderPage).
LEMMA FollowStep == ASSUME LoaderInv, LoaderFollows PROVE LoaderInv'
<1>1. CASE OnLoader /\ ~OnLoader'
  <2>1. /\ panel' = Idle("backfill") /\ listed' = <<>> /\ batches' = Orphaned(FALSE)
        /\ lost' = lost \cup Range(listed) /\ UNCHANGED created
    BY <1>1 DEF LoaderFollows, Range
  <2> QED
    BY <2>1, OrphanStep DEF Tabs
<1>2. CASE ~(OnLoader /\ ~OnLoader')
  <2>1. UNCHANGED loaderVars
    BY <1>2 DEF LoaderFollows
  <2> QED
    BY <2>1, LoaderSame
<1> QED
  BY <1>1, <1>2

\* Only the panel changes, and not to or from loading.
LEMMA PanelStep ==
    ASSUME LoaderInv, UNCHANGED <<listed, batches, created, lost>>, panel.status # "loading",
           panel' \in [tab : Tabs, status : {"idle", "error"}, count : 0..MaxSelected]
    PROVE  LoaderInv'
<1>1. panel'.status \in {"idle", "error"}
      /\ panel' \in [tab : Tabs, status : {"idle", "loading", "success", "error"}, count : 0..MaxSelected]
  OBVIOUS
<1>2. LoaderTypeOK' /\ OnePlace' /\ EveryJob' /\ BatchBounded'
  <2>1. LoaderTypeOK'
    BY <1>1 DEF LoaderInv, LoaderTypeOK
  <2>2. OnePlace' /\ EveryJob'
    BY DEF LoaderInv, OnePlace, EveryJob, Made
  <2>3. BatchBounded'
    BY DEF LoaderInv, BatchBounded
  <2> QED
    BY <2>1, <2>2, <2>3
<1>3. OneOwner' /\ CountListed'
  BY <1>1 DEF LoaderInv, OneOwner, CountListed, Owns, Running
<1> QED
  BY <1>2, <1>3 DEF LoaderInv

\* A batch begins (handleLoad of either panel).
LEMMA BeginStep ==
    ASSUME LoaderInv, NEW codes \in Selected, Begin(codes)
    PROVE  LoaderInv'
<1> DEFINE b == [todo |-> codes, made |-> <<>>, panel |-> TRUE, page |-> TRUE]
<1>0. /\ LoaderTypeOK /\ panel.status # "loading" /\ Len(batches) < MaxBatches
      /\ panel' = [panel EXCEPT !.status = "loading"]
      /\ batches' = Append(batches, b)
      /\ UNCHANGED <<listed, created, lost>>
  BY DEF LoaderInv, Begin
<1>1. /\ batches \in Seq(BatchSet(created)) /\ DOMAIN batches = 1..Len(batches)
      /\ Len(batches) \in Nat
  BY <1>0, LoaderFacts
<1>2. b \in BatchSet(created) /\ codes \in 1..MaxSelected /\ b.made = <<>> /\ Len(b.made) = 0
      /\ Range(b.made) = {} /\ NoRepeat(b.made)
      /\ b.todo = codes /\ b.panel = TRUE /\ b.page = TRUE
  BY EmptySeq, LoaderAssumption DEF Selected, BatchSet, Range, NoRepeat
<1> HIDE DEF b
<1>n. PICK N : N = Len(batches) + 1
  OBVIOUS
<1>3. /\ batches' \in Seq(BatchSet(created)) /\ Len(batches') = N /\ DOMAIN batches' = 1..N
      /\ \A n \in DOMAIN batches : batches'[n] = batches[n]
      /\ batches'[N] = b
  BY <1>0, <1>1, <1>2, <1>n, AppendProperties, LenProperties
<1>4. DOMAIN batches' = DOMAIN batches \cup {N} /\ N \notin DOMAIN batches
  BY <1>1, <1>3, <1>n
<1>5. \A n \in DOMAIN batches : Made(n)' = Made(n) /\ (Owns(n)' <=> Owns(n))
  BY <1>3 DEF Made, Owns, Running
<1>6. Made(N)' = {} /\ Owns(N)'
  BY <1>2, <1>3 DEF Owns, Running, Made
<1>7. panel' \in [tab : Tabs, status : {"idle", "loading", "success", "error"}, count : 0..MaxSelected]
      /\ panel'.status = "loading"
  BY <1>0 DEF LoaderTypeOK
<1>8. LoaderTypeOK'
  <2>1. \A n \in DOMAIN batches' : batches'[n].panel => batches'[n].page
    BY <1>0, <1>2, <1>3, <1>4 DEF LoaderTypeOK
  <2>2. N <= MaxBatches
    BY <1>0, <1>1, <1>n, LoaderAssumption
  <2> QED
    BY <1>0, <1>3, <1>7, <2>1, <2>2 DEF LoaderTypeOK, BatchSet
<1>9. OnePlace'
  <2>1. OnePlace
    BY DEF LoaderInv
  <2>2. \A n \in DOMAIN batches' : NoRepeat(batches'[n].made)
    BY <1>2, <1>3, <1>4, <2>1 DEF OnePlace
  <2>3. \A n, m \in DOMAIN batches' : n # m => Made(n)' \cap Made(m)' = {}
    BY <1>4, <1>5, <1>6, <2>1 DEF OnePlace
  <2>4. \A n \in DOMAIN batches' : Made(n)' \cap (Range(listed) \cup lost) = {}
    BY <1>4, <1>5, <1>6, <2>1 DEF OnePlace
  <2> QED
    BY <1>0, <2>1, <2>2, <2>3, <2>4 DEF OnePlace
<1>10. EveryJob'
  <2>1. UNION {Made(n)' : n \in DOMAIN batches'} = UNION {Made(n) : n \in DOMAIN batches}
    <3>1. ASSUME NEW j PROVE (\E n \in DOMAIN batches' : j \in Made(n)') <=> (\E n \in DOMAIN batches : j \in Made(n))
      BY <1>4, <1>5, <1>6
    <3> QED
      BY <3>1
  <2>2. EveryJob' <=> Range(listed') \cup lost' \cup UNION {Made(n)' : n \in DOMAIN batches'} = 1..created'
    BY DEF EveryJob
  <2> QED
    BY <1>0, <2>1, <2>2 DEF LoaderInv, EveryJob
<1>11. BatchBounded'
  <2>1. b.todo + Len(b.made) <= MaxSelected /\ b.todo # 0
    BY <1>2, LoaderAssumption
  <2> QED
    BY <1>2, <1>3, <1>4, <2>1 DEF LoaderInv, BatchBounded
<1>12. OneOwner'
  <2>1. \A n \in DOMAIN batches : ~Owns(n)
    BY <1>0 DEF LoaderInv, OneOwner
  <2>2. \A n \in DOMAIN batches' : Owns(n)' => n = N
    BY <1>4, <1>5, <2>1
  <2>3. \A n, m \in DOMAIN batches' : Owns(n)' /\ Owns(m)' => n = m
    BY <2>2
  <2>4. \E n \in DOMAIN batches' : Owns(n)'
    BY <1>4, <1>6
  <2> QED
    BY <1>7, <2>3, <2>4 DEF OneOwner
<1>13. CountListed'
  BY <1>7 DEF CountListed
<1> QED
  BY <1>8, <1>9, <1>10, <1>11, <1>12, <1>13 DEF LoaderInv

\* A batch that gets its next job and goes on (the loop of handleLoad).
LEMMA GoesOn ==
    ASSUME LoaderInv, NEW n \in DOMAIN batches, Running(n), batches[n].todo # 1,
           created' = created + 1, UNCHANGED <<panel, listed, lost>>,
           batches' = [batches EXCEPT ![n].todo = @ - 1, ![n].made = Append(batches[n].made, created + 1)]
    PROVE  LoaderInv'
<1>0. LoaderTypeOK /\ OnePlace /\ EveryJob /\ BatchBounded /\ OneOwner /\ CountListed
  BY DEF LoaderInv
<1>1. /\ batches \in Seq(BatchSet(created)) /\ created \in Nat
      /\ \A m \in DOMAIN batches : batches[m] \in BatchSet(created)
      /\ listed \in Seq(1..created)
  BY <1>0, LoaderFacts
<1>2. PICK job : job = created + 1
  OBVIOUS
<1>3. /\ job \notin Range(listed) /\ job \notin lost
      /\ \A m \in DOMAIN batches : job \notin Made(m)
      /\ 1..created' = 1..created \cup {job} /\ 1..created \subseteq 1..created' /\ created' \in Nat
  <2>1. job \notin 1..created
    BY <1>1, <1>2
  <2>2. 1..created' = 1..created \cup {job} /\ created' \in Nat
    BY <1>1, <1>2
  <2> QED
    BY <1>0, <2>1, <2>2 DEF EveryJob
<1>4. /\ batches[n].made \in Seq(1..created) /\ batches[n].todo \in 2..MaxSelected
      /\ Len(batches[n].made) \in Nat /\ Len(batches[n].made) + batches[n].todo <= MaxSelected
      /\ NoRepeat(batches[n].made) /\ job \notin Range(batches[n].made)
  <2>1. /\ batches[n].made \in Seq(1..created) /\ batches[n].todo \in 0..MaxSelected
        /\ batches[n].todo > 1 /\ MaxSelected \in Nat
    BY <1>1, LoaderAssumption DEF BatchSet, Running
  <2>2. Len(batches[n].made) \in Nat
    BY <2>1, LenProperties
  <2>3. batches[n].todo + Len(batches[n].made) <= MaxSelected
    BY <1>0 DEF BatchBounded
  <2>4. NoRepeat(batches[n].made) /\ job \notin Range(batches[n].made)
    BY <1>0, <1>3 DEF OnePlace, Made
  <2> QED
    BY <2>1, <2>2, <2>3, <2>4
<1>5. PICK made : made = Append(batches[n].made, job)
  OBVIOUS
<1>6. /\ made \in Seq(1..created') /\ Len(made) = Len(batches[n].made) + 1
      /\ Range(made) = Made(n) \cup {job} /\ NoRepeat(made)
  <2> DEFINE done == batches[n].made
             S == 1..created'
  <2>1. done \in Seq(S) /\ job \in S
    BY <1>3, <1>4, SeqMonotonic
  <2>2. Range(done) = Made(n) /\ NoRepeat(done) /\ job \notin Range(done)
    BY <1>4 DEF Made
  <2> HIDE DEF done, S
  <2>3. /\ Append(done, job) \in Seq(S) /\ Len(Append(done, job)) = Len(done) + 1
        /\ Range(Append(done, job)) = Range(done) \cup {job} /\ NoRepeat(Append(done, job))
    BY <2>1, <2>2, AppendProperties, AppendMembers
  <2> QED
    BY <1>5, <2>2, <2>3 DEF done, S
<1>7. /\ DOMAIN batches' = DOMAIN batches
      /\ batches'[n] = [batches[n] EXCEPT !.todo = @ - 1, !.made = made]
      /\ \A m \in DOMAIN batches : m # n => batches'[m] = batches[m]
      /\ batches' = [m \in DOMAIN batches |-> batches'[m]]
  BY <1>2, <1>5
<1>8. /\ batches'[n].todo = batches[n].todo - 1 /\ batches'[n].made = made
      /\ batches'[n].panel = batches[n].panel /\ batches'[n].page = batches[n].page
      /\ batches'[n] \in BatchSet(created')
  <2>1. batches[n] \in BatchSet(created)
    BY <1>1
  <2>2. batches'[n] = [todo |-> batches[n].todo - 1, made |-> made,
                       panel |-> batches[n].panel, page |-> batches[n].page]
    BY <1>7, <2>1 DEF BatchSet
  <2>3. batches[n].todo - 1 \in 0..MaxSelected
    BY <1>4, LoaderAssumption
  <2> QED
    BY <1>6, <2>1, <2>2, <2>3 DEF BatchSet
<1>9. batches' \in Seq(BatchSet(created')) /\ Len(batches') = Len(batches)
  BY <1>0, <1>3, <1>7, <1>8, BatchesChange
<1>10. /\ Made(n)' = Made(n) \cup {job}
       /\ \A m \in DOMAIN batches : m # n => Made(m)' = Made(m)
       /\ \A m \in DOMAIN batches : Owns(m)' <=> Owns(m)
  <2>1. Owns(n)' <=> Owns(n)
    BY <1>4, <1>8 DEF Owns, Running
  <2> QED
    BY <1>6, <1>7, <1>8, <2>1 DEF Made, Owns, Running
<1>11. LoaderTypeOK'
  <2>1. listed \in Seq(1..created') /\ lost \subseteq 1..created'
    BY <1>0, <1>1, <1>3, SeqMonotonic DEF LoaderTypeOK
  <2>2. \A m \in DOMAIN batches' : batches'[m].panel => batches'[m].page
    BY <1>0, <1>7, <1>8 DEF LoaderTypeOK
  <2> QED
    BY <1>0, <1>3, <1>9, <2>1, <2>2 DEF LoaderTypeOK, BatchSet
<1>12. OnePlace'
  <2>1. \A m \in DOMAIN batches' : NoRepeat(batches'[m].made)
    BY <1>0, <1>6, <1>7, <1>8 DEF OnePlace
  <2>2. \A l, m \in DOMAIN batches' : l # m => Made(l)' \cap Made(m)' = {}
    BY <1>0, <1>3, <1>7, <1>10 DEF OnePlace
  <2>3. \A m \in DOMAIN batches' : Made(m)' \cap (Range(listed) \cup lost) = {}
    BY <1>0, <1>3, <1>7, <1>10 DEF OnePlace
  <2> QED
    BY <1>0, <2>1, <2>2, <2>3 DEF OnePlace
<1>13. EveryJob'
  <2>1. UNION {Made(m)' : m \in DOMAIN batches'} = {job} \cup UNION {Made(m) : m \in DOMAIN batches}
    <3>1. ASSUME NEW j
          PROVE j \in UNION {Made(m)' : m \in DOMAIN batches'}
                <=> j \in {job} \cup UNION {Made(m) : m \in DOMAIN batches}
      <4>1. (\E m \in DOMAIN batches' : j \in Made(m)')
                <=> (\E m \in DOMAIN batches : j \in Made(m)) \/ j = job
        BY <1>7, <1>10
      <4> QED
        BY <4>1
    <3> QED
      BY <3>1
  <2>2. EveryJob' <=> Range(listed') \cup lost' \cup UNION {Made(m)' : m \in DOMAIN batches'} = 1..created'
    BY DEF EveryJob
  <2> QED
    BY <1>0, <1>3, <2>1, <2>2 DEF EveryJob
<1>14. BatchBounded'
  <2>1. batches'[n].todo + Len(batches'[n].made) <= MaxSelected /\ batches'[n].todo # 0
    BY <1>4, <1>6, <1>8, LoaderAssumption
  <2> QED
    BY <1>0, <1>7, <2>1 DEF BatchBounded
<1>15. OneOwner' /\ CountListed'
  BY <1>0, <1>7, <1>10 DEF OneOwner, CountListed
<1> QED
  BY <1>11, <1>12, <1>13, <1>14, <1>15 DEF LoaderInv

\* A batch ends and everything it made is listed, or everything is lost.
LEMMA BatchEnds ==
    ASSUME LoaderInv, NEW n \in DOMAIN batches, Running(n),
           created' \in {created, created + 1},
           NEW new, new = (created + 1)..created',
           batches' = [batches EXCEPT ![n].todo = 0, ![n].made = <<>>],
           \/ listed' = listed /\ lost' = lost \cup Made(n) \cup new
           \/ /\ lost' = lost
              /\ \E made \in Seq(1..created') :
                     NoRepeat(made) /\ Range(made) = Made(n) \cup new /\ listed' = made \o listed
    PROVE  /\ DOMAIN batches' = DOMAIN batches
           /\ batches' \in Seq(BatchSet(created')) /\ Len(batches') = Len(batches)
           /\ listed' \in Seq(1..created') /\ lost' \subseteq 1..created' /\ created' \in Nat
           /\ \A m \in DOMAIN batches' : batches'[m].panel => batches'[m].page
           /\ OnePlace' /\ EveryJob' /\ BatchBounded'
           /\ \A m \in DOMAIN batches : Owns(m)' <=> Owns(m) /\ m # n
<1>0. LoaderTypeOK /\ OnePlace /\ EveryJob /\ BatchBounded
  BY DEF LoaderInv
<1>1. /\ batches \in Seq(BatchSet(created)) /\ created \in Nat /\ created' \in Nat
      /\ \A m \in DOMAIN batches : batches[m] \in BatchSet(created)
      /\ listed \in Seq(1..created)
  BY <1>0, LoaderFacts
<1>2. /\ 1..created' = 1..created \cup new /\ new \cap 1..created = {}
      /\ 1..created \subseteq 1..created'
  BY <1>1
<1>3. /\ DOMAIN batches' = DOMAIN batches
      /\ batches'[n] = [batches[n] EXCEPT !.todo = 0, !.made = <<>>]
      /\ \A m \in DOMAIN batches : m # n => batches'[m] = batches[m]
      /\ batches' = [m \in DOMAIN batches |-> batches'[m]]
  OBVIOUS
<1>4. /\ batches'[n].todo = 0 /\ batches'[n].made = <<>>
      /\ batches'[n].panel = batches[n].panel /\ batches'[n].page = batches[n].page
      /\ batches'[n] \in BatchSet(created')
  <2>1. batches[n] \in BatchSet(created)
    BY <1>1
  <2>2. batches'[n] = [todo |-> 0, made |-> <<>>, panel |-> batches[n].panel, page |-> batches[n].page]
    BY <1>3, <2>1 DEF BatchSet
  <2>3. 0 \in 0..MaxSelected /\ <<>> \in Seq(1..created')
    BY EmptySeq, LoaderAssumption
  <2> QED
    BY <2>1, <2>2, <2>3 DEF BatchSet
<1>5. batches' \in Seq(BatchSet(created')) /\ Len(batches') = Len(batches)
  BY <1>0, <1>2, <1>3, <1>4, BatchesChange
<1>6. Range(<<>>) = {} /\ NoRepeat(<<>>) /\ Len(<<>>) = 0
  BY EmptySeq DEF Range, NoRepeat
<1>7. /\ Made(n)' = {}
      /\ \A m \in DOMAIN batches : m # n => Made(m)' = Made(m)
      /\ \A m \in DOMAIN batches : Owns(m)' <=> Owns(m) /\ m # n
  <2>1. ~Owns(n)'
    BY <1>4 DEF Owns, Running
  <2> QED
    BY <1>3, <1>4, <1>6, <2>1 DEF Made, Owns, Running
<1>8. /\ Range(listed) \cup lost \subseteq 1..created
      /\ \A m \in DOMAIN batches : Made(m) \subseteq 1..created
  BY <1>0 DEF EveryJob
<1>9. /\ listed' \in Seq(1..created') /\ NoRepeat(listed')
      /\ Range(listed') \cup lost' = Range(listed) \cup lost \cup Made(n) \cup new
      /\ Range(listed') \cap lost' = {}
  <2>1. CASE listed' = listed /\ lost' = lost \cup Made(n) \cup new
    <3>1. listed \in Seq(1..created')
      BY <1>1, <1>2, SeqMonotonic
    <3>2. Range(listed) \cap (Made(n) \cup new) = {}
      BY <1>0, <1>2, <1>8 DEF OnePlace
    <3> QED
      BY <1>0, <2>1, <3>1, <3>2 DEF OnePlace
  <2>2. ASSUME lost' = lost, NEW made \in Seq(1..created'), NoRepeat(made),
               Range(made) = Made(n) \cup new, listed' = made \o listed
        PROVE  /\ listed' \in Seq(1..created') /\ NoRepeat(listed')
               /\ Range(listed') \cup lost' = Range(listed) \cup lost \cup Made(n) \cup new
               /\ Range(listed') \cap lost' = {}
      <3>1. listed \in Seq(1..created') /\ NoRepeat(listed)
      BY <1>0, <1>1, <1>2, SeqMonotonic DEF OnePlace
    <3>2. Range(made) \cap (Range(listed) \cup lost) = {}
      BY <1>0, <1>2, <1>8, <2>2 DEF OnePlace
    <3>3. /\ listed' \in Seq(1..created') /\ NoRepeat(listed')
          /\ Range(listed') = Range(made) \cup Range(listed)
      BY <2>2, <3>1, <3>2, ConcatProperties, ConcatMembers
    <3> QED
      BY <1>0, <2>2, <3>2, <3>3 DEF OnePlace
  <2> QED
    BY <2>1, <2>2
<1>10. lost' \subseteq 1..created'
  BY <1>2, <1>8, <1>9
<1>11. \A m \in DOMAIN batches' : batches'[m].panel => batches'[m].page
  BY <1>0, <1>3, <1>4 DEF LoaderTypeOK
<1>12. OnePlace'
  <2>1. \A m \in DOMAIN batches' : NoRepeat(batches'[m].made)
    BY <1>0, <1>3, <1>4, <1>6 DEF OnePlace
  <2>2. \A l, m \in DOMAIN batches' : l # m => Made(l)' \cap Made(m)' = {}
    BY <1>0, <1>3, <1>7 DEF OnePlace
  <2>3. \A m \in DOMAIN batches' : Made(m)' \cap (Range(listed') \cup lost') = {}
    <3>1. ASSUME NEW m \in DOMAIN batches, m # n
          PROVE  Made(m) \cap (Range(listed) \cup lost \cup Made(n) \cup new) = {}
      BY <1>0, <1>2, <1>8, <3>1 DEF OnePlace
    <3> QED
      BY <1>3, <1>7, <1>9, <3>1
  <2> QED
    BY <1>9, <2>1, <2>2, <2>3 DEF OnePlace
<1>13. EveryJob'
  <2>1. Made(n) \cup UNION {Made(m)' : m \in DOMAIN batches'} = UNION {Made(m) : m \in DOMAIN batches}
    <3>1. ASSUME NEW j
          PROVE (\E m \in DOMAIN batches' : j \in Made(m)') \/ j \in Made(n)
                <=> (\E m \in DOMAIN batches : j \in Made(m))
      BY <1>3, <1>7
    <3> QED
      BY <3>1
  <2>2. EveryJob' <=> Range(listed') \cup lost' \cup UNION {Made(m)' : m \in DOMAIN batches'} = 1..created'
    BY DEF EveryJob
  <2> QED
    BY <1>0, <1>2, <1>9, <2>1, <2>2 DEF EveryJob
<1>14. BatchBounded'
  BY <1>0, <1>3, <1>4, <1>6, LoaderAssumption DEF BatchBounded
<1> QED
  BY <1>1, <1>3, <1>5, <1>7, <1>9, <1>10, <1>11, <1>12, <1>13, <1>14
\* A batch that ends leaves its panel, if it had one, without a batch.
LEMMA OwnerGone ==
    ASSUME OneOwner, NEW n \in DOMAIN batches, Running(n), DOMAIN batches' = DOMAIN batches,
           \A m \in DOMAIN batches : Owns(m)' <=> Owns(m) /\ m # n,
           batches[n].panel => panel'.status # "loading",
           ~batches[n].panel => panel' = panel
    PROVE  OneOwner'
<1>1. CASE batches[n].panel
  <2>1. Owns(n)
    BY <1>1 DEF Owns
  <2>2. \A m \in DOMAIN batches' : ~Owns(m)'
    BY <2>1 DEF OneOwner
  <2> QED
    BY <1>1, <2>2 DEF OneOwner
<1>2. CASE ~batches[n].panel
  <2>1. ~Owns(n)
    BY <1>2 DEF Owns
  <2>2. \A m \in DOMAIN batches' : Owns(m)' <=> Owns(m)
    BY <2>1
  <2> QED
    BY <1>2, <2>2 DEF OneOwner
<1> QED
  BY <1>1, <1>2

\* The loop's next answer is a job (handleLoad, createBackfillJob and crawler job).
LEMMA JobCreatedStep ==
    ASSUME LoaderInv, NEW n, JobCreated(n)
    PROVE  LoaderInv'
<1>1. n \in DOMAIN batches /\ Running(n) /\ created' = created + 1
  BY DEF JobCreated
<1>2. PICK made : made = Append(batches[n].made, created + 1)
  OBVIOUS
<1>3. CASE batches[n].todo # 1
  <2>1. /\ batches' = [batches EXCEPT ![n].todo = @ - 1, ![n].made = Append(batches[n].made, created + 1)]
        /\ UNCHANGED <<panel, listed, lost>>
    BY <1>3 DEF JobCreated
  <2> QED
    BY <1>1, <1>3, <2>1, GoesOn
<1>4. CASE batches[n].todo = 1
  <2>0. LoaderTypeOK /\ OnePlace /\ EveryJob /\ BatchBounded /\ OneOwner /\ CountListed
    BY DEF LoaderInv
  <2>1. BatchDone(n, made)
    BY <1>2, <1>4 DEF JobCreated
  <2>2. /\ batches[n] \in BatchSet(created) /\ listed \in Seq(1..created) /\ created \in Nat
        /\ Len(listed) \in Nat
    BY <1>1, <2>0, LoaderFacts
  <2>3. /\ batches[n].made \in Seq(1..created') /\ created + 1 \in 1..created'
        /\ Len(batches[n].made) \in Nat
        /\ Len(batches[n].made) + 1 <= MaxSelected
        /\ NoRepeat(batches[n].made)
        /\ created + 1 \notin Made(n)
    <3>1. 1..created \subseteq 1..created' /\ created + 1 \in 1..created' /\ created + 1 \notin 1..created
      BY <1>1, <2>2
    <3>2. batches[n].made \in Seq(1..created)
      BY <2>2 DEF BatchSet
    <3>3. batches[n].made \in Seq(1..created')
      BY <3>1, <3>2, SeqMonotonic
    <3>4. Len(batches[n].made) \in Nat
      BY <3>2, LenProperties
    <3>5. Len(batches[n].made) + 1 <= MaxSelected
      BY <1>1, <1>4, <2>0, <3>4, LoaderAssumption DEF BatchBounded
    <3>6. NoRepeat(batches[n].made)
      BY <1>1, <2>0 DEF OnePlace
    <3>7. created + 1 \notin Made(n)
      BY <1>1, <2>0, <3>1 DEF EveryJob
    <3> QED
      BY <3>1, <3>3, <3>4, <3>5, <3>6, <3>7
  <2>4. PICK new : new = (created + 1)..created'
    OBVIOUS
  <2>5. new = {created + 1}
    BY <1>1, <2>2, <2>4
  <2>6. /\ made \in Seq(1..created') /\ Len(made) = Len(batches[n].made) + 1
        /\ Range(made) = Made(n) \cup new /\ NoRepeat(made)
    <3>1. PICK done, S, job : done = batches[n].made /\ S = 1..created' /\ job = created + 1
      OBVIOUS
    <3>2. done \in Seq(S) /\ job \in S /\ NoRepeat(done) /\ job \notin Range(done)
          /\ Range(done) = Made(n) /\ new = {job} /\ made = Append(done, job)
      BY <1>2, <2>3, <2>5, <3>1 DEF Made
    <3>3. /\ Append(done, job) \in Seq(S) /\ Len(Append(done, job)) = Len(done) + 1
          /\ Range(Append(done, job)) = Range(done) \cup {job} /\ NoRepeat(Append(done, job))
      BY <3>2, AppendProperties, AppendMembers
    <3> QED
      BY <3>1, <3>2, <3>3
  <2>7. \/ listed' = listed /\ lost' = lost \cup Made(n) \cup new
        \/ /\ lost' = lost
           /\ \E m \in Seq(1..created') :
                  NoRepeat(m) /\ Range(m) = Made(n) \cup new /\ listed' = m \o listed
    <3>1. CASE batches[n].page
      <4>1. listed' = made \o listed /\ lost' = lost
        BY <2>1, <3>1 DEF BatchDone, AppendJobs
      <4> QED
        BY <2>6, <4>1
    <3>2. CASE ~batches[n].page
      <4>1. listed' = listed /\ lost' = lost \cup Range(made)
        BY <2>1, <3>2 DEF BatchDone, Range
      <4> QED
        BY <2>6, <4>1
    <3> QED
      BY <3>1, <3>2
  <2>8. batches' = [batches EXCEPT ![n].todo = 0, ![n].made = <<>>]
    BY <2>1 DEF BatchDone
  <2>9. created' \in {created, created + 1}
    BY <1>1
  <2>10. /\ DOMAIN batches' = DOMAIN batches
         /\ batches' \in Seq(BatchSet(created')) /\ Len(batches') = Len(batches)
         /\ listed' \in Seq(1..created') /\ lost' \subseteq 1..created' /\ created' \in Nat
         /\ \A m \in DOMAIN batches' : batches'[m].panel => batches'[m].page
         /\ OnePlace' /\ EveryJob' /\ BatchBounded'
         /\ \A m \in DOMAIN batches : Owns(m)' <=> Owns(m) /\ m # n
    BY <1>1, <2>4, <2>7, <2>8, <2>9, BatchEnds
  <2>11. /\ panel' \in [tab : Tabs, status : {"idle", "loading", "success", "error"}, count : 0..MaxSelected]
         /\ batches[n].panel => panel'.status = "success" /\ panel'.count = Len(made)
         /\ ~batches[n].panel => panel' = panel
    <3>1. Len(made) \in 0..MaxSelected
      BY <2>3, <2>6, LoaderAssumption
    <3> QED
      BY <2>0, <2>1, <3>1 DEF BatchDone, LoaderTypeOK
  <2>12. CountListed'
    <3>1. CASE batches[n].panel
      <4>1. batches[n].page
        BY <1>1, <2>0, <3>1 DEF LoaderTypeOK
      <4>2. listed' = made \o listed
        BY <2>1, <4>1 DEF BatchDone, AppendJobs
      <4>3. listed \in Seq(Nat) /\ made \in Seq(Nat)
        <5>1. 1..created \subseteq Nat /\ 1..created' \subseteq Nat
          BY <2>2, <2>10
        <5> QED
          BY <2>2, <2>6, <5>1, SeqMonotonic
      <4>4. Len(listed') = Len(made) + Len(listed)
        BY <4>2, <4>3, ConcatProperties
      <4> QED
        BY <2>2, <2>3, <2>6, <2>11, <3>1, <4>4 DEF CountListed
    <3>2. CASE ~batches[n].panel
      <4>1. Len(listed') \in Nat /\ Len(listed') >= Len(listed)
        <5>1. CASE batches[n].page
          <6>1. listed' = made \o listed
            BY <2>1, <5>1 DEF BatchDone, AppendJobs
          <6>2. listed \in Seq(Nat) /\ made \in Seq(Nat)
            <7>1. 1..created \subseteq Nat /\ 1..created' \subseteq Nat
              BY <2>2, <2>10
            <7> QED
              BY <2>2, <2>6, <7>1, SeqMonotonic
          <6>3. Len(listed') = Len(made) + Len(listed) /\ Len(made) \in Nat
            BY <6>1, <6>2, ConcatProperties, LenProperties
          <6> QED
            BY <2>2, <6>3
        <5>2. CASE ~batches[n].page
          BY <2>1, <2>2, <5>2 DEF BatchDone
        <5> QED
          BY <5>1, <5>2
      <4>2. panel' = panel
        BY <2>11, <3>2
      <4>3. panel.status = "success" => panel.count \in 1..Len(listed)
        BY <2>0 DEF CountListed
      <4> QED
        BY <2>2, <4>1, <4>2, <4>3 DEF CountListed
    <3> QED
      BY <3>1, <3>2
  <2>13. OneOwner'
    BY <1>1, <2>0, <2>10, <2>11, OwnerGone
  <2>14. LoaderTypeOK'
    BY <2>0, <2>10, <2>11 DEF LoaderTypeOK, BatchSet
  <2> QED
    BY <2>10, <2>12, <2>13, <2>14 DEF LoaderInv
<1> QED
  BY <1>3, <1>4

\* A request fails, before or after the server made the job.
LEMMA JobFailsStep ==
    ASSUME LoaderInv, NEW n, JobFails(n)
    PROVE  LoaderInv'
<1>0. LoaderTypeOK /\ OneOwner /\ CountListed
  BY DEF LoaderInv
<1>1. PICK answer \in {0, 1} :
         /\ created' = created + answer
         /\ lost' = lost \cup Made(n) \cup (created + 1)..(created + answer)
  BY DEF JobFails, Made, Range
<1>2. /\ n \in DOMAIN batches /\ Running(n) /\ listed' = listed
      /\ panel' = IF batches[n].panel THEN [panel EXCEPT !.status = "error", !.count = 0] ELSE panel
      /\ batches' = [batches EXCEPT ![n].todo = 0, ![n].made = <<>>]
  BY DEF JobFails
<1>3. PICK new : new = (created + 1)..created'
  OBVIOUS
<1>4. created' \in {created, created + 1} /\ lost' = lost \cup Made(n) \cup new
  BY <1>0, <1>1, <1>3, LoaderFacts
<1>5. /\ DOMAIN batches' = DOMAIN batches
      /\ batches' \in Seq(BatchSet(created')) /\ Len(batches') = Len(batches)
      /\ listed' \in Seq(1..created') /\ lost' \subseteq 1..created' /\ created' \in Nat
      /\ \A m \in DOMAIN batches' : batches'[m].panel => batches'[m].page
      /\ OnePlace' /\ EveryJob' /\ BatchBounded'
      /\ \A m \in DOMAIN batches : Owns(m)' <=> Owns(m) /\ m # n
  BY <1>2, <1>3, <1>4, BatchEnds
<1>6. /\ panel' \in [tab : Tabs, status : {"idle", "loading", "success", "error"}, count : 0..MaxSelected]
      /\ batches[n].panel => panel'.status = "error"
      /\ ~batches[n].panel => panel' = panel
  BY <1>0, <1>2, PanelForm DEF LoaderTypeOK
<1>7. OneOwner'
  BY <1>0, <1>2, <1>5, <1>6, OwnerGone
<1>8. CountListed'
  BY <1>0, <1>2, <1>6 DEF CountListed
<1>9. LoaderTypeOK'
  BY <1>0, <1>5, <1>6 DEF LoaderTypeOK, BatchSet
<1> QED
  BY <1>5, <1>7, <1>8, <1>9 DEF LoaderInv

\* The steps of the page and its panels.
LEMMA LoaderStep == ASSUME LoaderInv, LoaderNext PROVE LoaderInv'
<1>0. LoaderTypeOK
  BY DEF LoaderInv
<1>1. CASE \E tab \in Tabs : SwitchTab(tab)
  <2>1. PICK tab \in Tabs : SwitchTab(tab)
    BY <1>1
  <2> QED
    BY <2>1, OrphanStep DEF SwitchTab
<1>2. CASE LoadRejected
  <2>1. /\ panel' = [panel EXCEPT !.status = "error", !.count = 0] /\ panel.status # "loading"
        /\ UNCHANGED <<listed, batches, created, lost>>
    BY <1>2 DEF LoadRejected
  <2>2. panel' \in [tab : Tabs, status : {"idle", "error"}, count : 0..MaxSelected]
    BY <1>0, <2>1, PanelForm
  <2> QED
    BY <2>1, <2>2, PanelStep
<1>3. CASE LoadBackfill
  BY <1>3, BeginStep DEF LoadBackfill
<1>4. CASE LoadCrawler
  <2>1. 1 \in Selected
    BY LoaderAssumption DEF Selected
  <2> QED
    BY <1>4, <2>1, BeginStep DEF LoadCrawler
<1>5. CASE ResetPanel
  <2>1. panel' = Idle(panel.tab) /\ panel.status # "loading"
        /\ UNCHANGED <<listed, batches, created, lost>>
    BY <1>5 DEF ResetPanel
  <2>2. panel' \in [tab : Tabs, status : {"idle", "error"}, count : 0..MaxSelected]
    BY <1>0, <2>1, LoaderAssumption DEF LoaderTypeOK, Idle
  <2> QED
    BY <2>1, <2>2, PanelStep
<1>6. CASE \E n \in 1..MaxBatches : JobCreated(n) \/ JobFails(n)
  BY <1>6, JobCreatedStep, JobFailsStep
<1> QED
  BY <1>1, <1>2, <1>3, <1>4, <1>5, <1>6 DEF LoaderNext

\* The jobs of the list can be put in an order, the newest first.
LEMMA TableOrder ==
    ASSUME LoaderInv
    PROVE  \E p \in Bijection(DOMAIN listed, DOMAIN listed) :
               \A i, j \in DOMAIN listed : i < j => listed[p[i]] > listed[p[j]]
<1> DEFINE S == Range(listed)
           N == Len(listed)
<1>1. /\ listed \in [1..N -> 1..created] /\ DOMAIN listed = 1..N /\ N \in Nat /\ created \in Nat
      /\ \A i, j \in 1..N : listed[i] = listed[j] => i = j
  <2>1. listed \in Seq(1..created) /\ N \in Nat /\ DOMAIN listed = 1..N /\ created \in Nat
    BY LoaderFacts DEF LoaderInv
  <2>2. listed \in [1..N -> 1..created]
    BY <2>1, LenProperties
  <2> QED
    BY <2>1, <2>2 DEF LoaderInv, OnePlace, NoRepeat
<1> HIDE DEF N
<1>2. /\ S = {listed[i] : i \in 1..N} /\ S \subseteq Nat /\ S \subseteq 1..created
      /\ listed \in [1..N -> S]
  BY <1>1 DEF Range
<1> HIDE DEF S
<1>3. IsFiniteSet(S)
  <2>1. IsFiniteSet(1..created)
    BY <1>1, FS_Interval
  <2> QED
    BY <1>2, <2>1, FS_Subset
<1>4. Cardinality(S) = N
  <2>1. listed \in Bijection(1..N, S)
    BY <1>1, <1>2 DEF Bijection, Injection, Surjection, IsInjective
  <2> QED
    BY <1>1, <2>1, FS_CountingElements DEF ExistsBijection
<1> DEFINE Lists(g, n) == /\ g \in [1..n -> S]
                          /\ \A x \in S : \E i \in 1..n : g[i] = x
                          /\ \A i, j \in 1..n : i < j => g[i] > g[j]
<1>13. PICK n \in Nat : \E g : Lists(g, n)
  <2>1. IsFiniteSet(S) /\ S \subseteq Nat
    BY <1>2, <1>3
  <2> QED
    BY <2>1, Descending
<1>5. PICK g : Lists(g, n)
  BY <1>13
<1>6. \A i, j \in 1..n : g[i] = g[j] => i = j
  <2>1. ASSUME NEW i \in 1..n, NEW j \in 1..n, g[i] = g[j], i # j
        PROVE  FALSE
    <3>1. g[i] \in Nat /\ g[j] \in Nat /\ (i < j \/ j < i)
      BY <1>2, <1>5, <2>1
    <3>2. g[i] > g[j] \/ g[j] > g[i]
      BY <1>5, <3>1
    <3> QED
      BY <2>1, <3>1, <3>2
  <2> QED
    BY <2>1
<1>7. n = N
  <2>1. g \in Bijection(1..n, S)
    BY <1>5, <1>6 DEF Bijection, Injection, Surjection, IsInjective
  <2>2. Cardinality(S) = n
    BY <1>5, <2>1, FS_CountingElements DEF ExistsBijection
  <2> QED
    BY <1>4, <2>2
<1>8. PICK p : p = [i \in 1..N |-> CHOOSE k \in 1..N : listed[k] = g[i]]
  OBVIOUS
<1>9. \A i \in 1..N : p[i] \in 1..N /\ listed[p[i]] = g[i]
  <2>1. ASSUME NEW i \in 1..N PROVE \E k \in 1..N : listed[k] = g[i]
    BY <1>2, <1>5, <1>7
  <2> QED
    BY <1>8, <2>1
<1>10. p \in Bijection(1..N, 1..N)
  <2>1. p \in [1..N -> 1..N]
    BY <1>8, <1>9
  <2>2. \A i, j \in 1..N : p[i] = p[j] => i = j
    BY <1>6, <1>7, <1>9
  <2>3. \A k \in 1..N : \E i \in 1..N : p[i] = k
    <3>1. ASSUME NEW k \in 1..N PROVE \E i \in 1..N : p[i] = k
      <4>1. listed[k] \in S
        BY <1>2
      <4>2. PICK i \in 1..N : g[i] = listed[k]
        BY <1>5, <1>7, <4>1
      <4>3. p[i] \in 1..N /\ listed[p[i]] = listed[k]
        BY <1>9, <4>2
      <4>4. p[i] = k
        BY <1>1, <4>3
      <4> QED
        BY <4>4
    <3> QED
      BY <3>1
  <2> QED
    BY <2>1, <2>2, <2>3 DEF Bijection, Injection, Surjection, IsInjective
<1>11. \A i, j \in 1..N : i < j => listed[p[i]] > listed[p[j]]
  BY <1>5, <1>7, <1>9
<1> QED
  BY <1>1, <1>10, <1>11

\* The table, the newest job first.
LEMMA TableNewestFirst ==
    ASSUME LoaderInv
    PROVE  \A i, j \in DOMAIN JobsTable : i < j => JobsTable[i] > JobsTable[j]
<1> DEFINE rows == DOMAIN listed
           InOrder(p) == \A i, j \in rows : i < j => listed[p[i]] >= listed[p[j]]
<1>0. /\ rows \subseteq Nat /\ \A i \in rows : listed[i] \in Nat
      /\ \A i, j \in rows : listed[i] = listed[j] => i = j
  <2>1. listed \in Seq(1..created) /\ rows = 1..Len(listed)
    BY LoaderFacts DEF LoaderInv
  <2>2. rows \subseteq Nat /\ \A i \in rows : listed[i] \in Nat
    <3>1. \A i \in rows : listed[i] \in 1..created
      BY <2>1, ElementOfSeq
    <3>2. created \in Nat
      BY LoaderFacts DEF LoaderInv
    <3> QED
      BY <2>1, <3>1, <3>2
  <2> QED
    BY <2>2 DEF LoaderInv, OnePlace, NoRepeat
<1>1. \E p \in Bijection(rows, rows) : InOrder(p)
  <2>1. PICK p \in Bijection(rows, rows) : \A i, j \in rows : i < j => listed[p[i]] > listed[p[j]]
    BY TableOrder
  <2>2. \A i \in rows : p[i] \in rows
    BY <2>1 DEF Bijection, Injection
  <2>3. InOrder(p)
    BY <1>0, <2>1, <2>2
  <2> QED
    BY <2>1, <2>3
<1>2. PICK order : order = CHOOSE p \in Bijection(rows, rows) : InOrder(p)
  OBVIOUS
<1>3. order \in Bijection(rows, rows) /\ InOrder(order)
  BY <1>1, <1>2
<1>4. JobsTable = [i \in rows |-> listed[order[i]]]
  BY <1>2 DEF JobsTable
<1>5. /\ \A i \in rows : order[i] \in rows
      /\ \A i, j \in rows : order[i] = order[j] => i = j
  BY <1>3 DEF Bijection, Injection, IsInjective
<1>6. ASSUME NEW i \in rows, NEW j \in rows, i < j
      PROVE  listed[order[i]] > listed[order[j]]
  <2>1. listed[order[i]] >= listed[order[j]]
    BY <1>3, <1>6
  <2>2. listed[order[i]] # listed[order[j]]
    BY <1>0, <1>5, <1>6
  <2> QED
    BY <1>0, <1>5, <2>1, <2>2
<1> QED
  BY <1>4, <1>6

\* Where every job is, from the invariant of the loader.
LEMMA Accounted == ASSUME LoaderInv PROVE JobsAccounted
<1> DEFINE own == {n \in DOMAIN batches : Running(n) /\ batches[n].panel}
<1>1. Cardinality(own) = IF panel.status = "loading" THEN 1 ELSE 0
  <2>0. own = {n \in DOMAIN batches : Owns(n)}
    BY DEF Owns
  <2>1. CASE panel.status = "loading"
    <3>1. PICK n \in DOMAIN batches : Owns(n)
      BY <2>1 DEF LoaderInv, OneOwner
    <3>2. own = {n}
      BY <2>0, <3>1 DEF LoaderInv, OneOwner
    <3> QED
      BY <2>1, <3>2, FS_Singleton
  <2>2. CASE panel.status # "loading"
    <3>1. own = {}
      BY <2>0, <2>2 DEF LoaderInv, OneOwner
    <3> QED
      BY <2>2, <3>1, FS_EmptySet
  <2> QED
    BY <2>1, <2>2
<1>2. /\ {listed[i] : i \in DOMAIN listed} = Range(listed)
      /\ \A n \in DOMAIN batches : {batches[n].made[i] : i \in DOMAIN batches[n].made} = Made(n)
  BY DEF Range, Made
<1>3. {listed[i] : i \in DOMAIN listed} \cup lost
          \cup UNION {{batches[n].made[i] : i \in DOMAIN batches[n].made} : n \in DOMAIN batches}
        = 1..created
  BY <1>2 DEF LoaderInv, EveryJob
<1>4. {listed[i] : i \in DOMAIN listed} \cap lost = {}
  BY <1>2 DEF LoaderInv, OnePlace
<1>5. panel.status = "success" => panel.count \in 1..Len(listed)
  BY DEF LoaderInv, CountListed
<1> QED
  BY <1>1, <1>3, <1>4, <1>5, TableNewestFirst DEF JobsAccounted
----------------------------------------------------------------------------
(* The pages that ask.                                                      *)

\* An entry of the cache has data of its own request, and its own request under way.
EntrySet(k) == [made : {NoAsk, k}, error : Failures \cup {0}, request : {NoAsk, k}]

\* The cache has what is looked at and what is remembered; only what is looked at is asked for.
CacheFaithful(c, looks) ==
    \A k \in DOMAIN c :
        /\ c[k] \in EntrySet(k)
        /\ Remembered(k, c[k]) \/ k \in looks
        /\ c[k].request # NoAsk => k \in looks

\* What a form may hold on the page of a path.
FormSet(path) ==
    [choice : {Choices[i] : i \in DOMAIN Choices} \cup {Nothing}, code : Filters(path),
     inverted : BOOLEAN, page : Nat \ {0}, sort : {"newest", "oldest"}]

\* The inductive invariant of the pages: only the events have pages of samples.
QueryInv ==
    /\ form \in FormSet(location)
    /\ form.page > 1 => location = "events"
    /\ PageReachable
    /\ CacheFaithful(cache, LooksNow)
    /\ edits \in 0..tour.edits

\* The keys of what is looked at are what is looked at.
LEMMA KeysAre == \A looks : {Key(asked) : asked \in looks} = looks
BY DEF Key

\* A request that leaves is the entry's own.
LEMMA FetchingOwn ==
    ASSUME NEW k, NEW e \in EntrySet(k)
    PROVE  Fetching(e, k) \in EntrySet(k) /\ Fetching(e, k).made = e.made
BY DEF Fetching, EntrySet

\* Looking at something else keeps the cache faithful (the observers of react-query).
LEMMA ObservedFaithful ==
    ASSUME NEW c, NEW old, NEW new, NEW stale, CacheFaithful(c, old)
    PROVE  CacheFaithful(Observed(c, old, new, stale), new)
<1> DEFINE entry(k) == IF k \in DOMAIN c THEN c[k] ELSE Unfetched
           asker(k) == CHOOSE asked \in new : Key(asked) = k
           kept == {k \in DOMAIN c : Remembered(k, c[k])} \cup new
           next(k) == IF k \notin new THEN [entry(k) EXCEPT !.request = NoAsk]
                      ELSE IF /\ k \notin old /\ Enabled(asker(k))
                              /\ ~HasData(entry(k)) \/ k \in stale
                           THEN Fetching(entry(k), asker(k)) ELSE entry(k)
<1>1. Observed(c, old, new, stale) = [k \in kept |-> next(k)]
  BY KeysAre DEF Observed
<1>2. ASSUME NEW k
      PROVE  entry(k) \in EntrySet(k)
  <2>1. Unfetched \in EntrySet(k)
    BY DEF Unfetched, EntrySet
  <2> QED
    BY <2>1 DEF CacheFaithful
<1>3. \A k \in new : asker(k) = k
  BY DEF Key
<1>4. ASSUME NEW k \in kept
      PROVE  /\ next(k) \in EntrySet(k)
             /\ Remembered(k, next(k)) \/ k \in new
             /\ next(k).request # NoAsk => k \in new
  <2>1. CASE k \notin new
    <3>1. k \in DOMAIN c /\ Remembered(k, c[k]) /\ c[k] \in EntrySet(k)
      BY <2>1 DEF CacheFaithful
    <3>2. entry(k) = c[k]
      BY <3>1
    <3> HIDE DEF entry, asker
    <3>3. next(k) = [entry(k) EXCEPT !.request = NoAsk]
      BY <2>1
    <3> HIDE DEF next
    <3> QED
      BY <2>1, <3>1, <3>2, <3>3 DEF EntrySet, Remembered, HasData
  <2>2. CASE k \in new
    <3>1. next(k) \in {entry(k), Fetching(entry(k), k)}
      BY <1>3, <2>2
    <3> HIDE DEF next, entry
    <3> QED
      BY <1>2, <2>2, <3>1, FetchingOwn
  <2> QED
    BY <2>1, <2>2
<1> HIDE DEF kept, next
<1> QED
  BY <1>1, <1>4 DEF CacheFaithful

\* Whatever is redrawn, the cache is faithful to what is looked at then.
LEMMA RedrawnFaithful ==
    ASSUME CacheFaithful(cache, LooksNow), Redrawn
    PROVE  CacheFaithful(cache', LooksNow')
<1>1. PICK stale : cache' = Observed(cache, LooksNow, LooksNow', stale)
  BY DEF Redrawn
<1>2. PICK new : new = LooksNow'
  OBVIOUS
<1>3. CacheFaithful(Observed(cache, LooksNow, new, stale), new)
  BY ObservedFaithful
<1> QED
  BY <1>1, <1>2, <1>3

\* What the cache has for a request was asked for by it.
LEMMA DataIsAsked ==
    ASSUME CacheFaithful(cache, LooksNow), NEW asked, Data(asked)
    PROVE  Entry(cache, asked).made = asked
<1>1. asked \in DOMAIN cache
  BY DEF Data, Entry, Key, HasData, Unfetched
<1>2. Entry(cache, asked) = cache[asked]
  BY <1>1 DEF Entry, Key
<1>3. cache[asked] \in EntrySet(asked) /\ cache[asked].made # NoAsk
  BY <1>1, <1>2 DEF CacheFaithful, Data, HasData
<1> QED
  BY <1>2, <1>3 DEF EntrySet

\* The codes of the forms, and the server's pages for them.
LEMMA CodeFacts ==
    /\ Codes[1] \in AnyCode /\ \A code \in AnyCode : SamplePages[code] \in Nat
    /\ \A path : FirstFilter(path) \in Filters(path)
    /\ \A path : path # "audit" => Filters(path) = AnyCode
    /\ \A path : \A code \in Filters(path) : Blank(code) \in FormSet(path) /\ Blank(code).page = 1
    /\ Choices[1] \in {Choices[i] : i \in DOMAIN Choices}
<1>1. /\ Codes \in Seq(DOMAIN SamplePages) /\ Codes # <<>>
      /\ Choices \in Seq(STRING) /\ Choices # <<>>
      /\ \A code \in DOMAIN SamplePages : SamplePages[code] \in Nat
  BY QueryAssumption
<1>2. 1 \in DOMAIN Codes /\ 1 \in DOMAIN Choices
  BY <1>1, EmptySeq, LenProperties
<1>3. \A code \in AnyCode : code \in DOMAIN SamplePages
  BY <1>1, LenProperties, ElementOfSeq DEF AnyCode
<1>4. Codes[1] \in AnyCode /\ Choices[1] \in {Choices[i] : i \in DOMAIN Choices}
  BY <1>2 DEF AnyCode
<1>5. \A path : FirstFilter(path) \in Filters(path)
  BY <1>4 DEF FirstFilter, Filters
<1>6. \A path : \A code \in Filters(path) : Blank(code) \in FormSet(path) /\ Blank(code).page = 1
  BY DEF Blank, FormSet
<1> QED
  BY <1>1, <1>3, <1>4, <1>5, <1>6 DEF Filters

\* A page that has just been opened.
LEMMA QueryInitInv == ASSUME ShellInit, QueryInit, ShellTypeOK PROVE QueryInv
<1>1. form \in FormSet(location) /\ form.page = 1
  BY CodeFacts DEF QueryInit
<1>2. CacheFaithful(<<>>, {})
  BY DEF CacheFaithful
<1>3. LooksNow = Looks(location, form)
  BY DEF ShellInit, LooksNow
<1>4. CacheFaithful(cache, LooksNow)
  BY <1>2, <1>3, ObservedFaithful DEF QueryInit
<1>5. edits \in 0..tour.edits
  BY TourFacts DEF QueryInit
<1> QED
  BY <1>1, <1>4, <1>5 DEF QueryInv, PageReachable

\* A step of the shell may bring another page, and with it another form.
LEMMA PagesFollowStep ==
    ASSUME QueryInv, NEW codes, codes \subseteq Filters(location') \/ location' = location,
           PagesFollow(codes), tour' = tour
    PROVE  QueryInv'
<1>1. CacheFaithful(cache', LooksNow')
  BY RedrawnFaithful DEF QueryInv, PagesFollow
<1>2. edits' \in 0..tour'.edits
  BY DEF QueryInv, PagesFollow
<1>3. \/ form' = form /\ location' = location
      \/ \E code \in Filters(location') : form' = Blank(code)
  <2>1. CASE location' # location
    BY <2>1 DEF PagesFollow
  <2>2. CASE location' = location /\ form' # form
    <3>1. form' = Blank(Codes[1]) /\ location # "audit"
      BY <2>2 DEF PagesFollow
    <3> QED
      BY <2>2, <3>1, CodeFacts
  <2> QED
    BY <2>1, <2>2
<1>4. form' \in FormSet(location') /\ ((form' = form /\ location' = location) \/ form'.page = 1)
  BY <1>3, CodeFacts DEF QueryInv
<1>5. (form'.page > 1 => location' = "events") /\ PageReachable'
  BY <1>4 DEF QueryInv, PageReachable
<1> QED
  BY <1>1, <1>2, <1>4, <1>5 DEF QueryInv

\* An entry changes where something is looked at, the form does not (the answers, retry).
LEMMA EntriesStep ==
    ASSUME QueryInv, UNCHANGED <<shellVars, form>>, edits' \in 0..tour.edits,
           DOMAIN cache' = DOMAIN cache,
           \A k \in DOMAIN cache :
               \/ cache'[k] = cache[k]
               \/ k \in LooksNow /\ cache'[k] \in EntrySet(k)
    PROVE  QueryInv'
<1>1. LooksNow' = LooksNow
  BY DEF LooksNow, shellVars, Looks, Registry, Stats, Samples, Distribution, Amplitude, AuditLog
<1>2. CacheFaithful(cache', LooksNow)
  BY DEF QueryInv, CacheFaithful
<1> QED
  BY <1>1, <1>2 DEF QueryInv, PageReachable, shellVars

\* Another form on the same page.
LEMMA FormStep ==
    ASSUME QueryInv, UNCHANGED shellVars, form' \in FormSet(location), Redrawn,
           edits' \in 0..tour.edits,
           form'.page > 1 => location = "events" /\ form'.page - 1 <= SamplePages[form'.code]
    PROVE  QueryInv'
<1>1. CacheFaithful(cache', LooksNow')
  BY RedrawnFaithful DEF QueryInv
<1> QED
  BY <1>1 DEF QueryInv, PageReachable, shellVars

\* One field of the filter bar.
LEMMA FiltersEdited ==
    ASSUME form \in FormSet(location), location # "audit", NEW f \in EditedFilters
    PROVE  f \in FormSet(location) /\ f.page = form.page
<1>1. Filters(location) = AnyCode
  BY CodeFacts
<1>2. CASE \E code \in AnyCode : f = [form EXCEPT !.code = code]
  BY <1>1, <1>2 DEF FormSet
<1>3. CASE f = [form EXCEPT !.inverted = ~form.inverted]
  <2>1. (~form.inverted) \in BOOLEAN
    OBVIOUS
  <2> QED
    BY <1>3, <2>1 DEF FormSet
<1>4. CASE \E choice \in Chosen : f = [form EXCEPT !.choice = choice]
  BY <1>4 DEF FormSet, Chosen
<1> QED
  BY <1>2, <1>3, <1>4 DEF EditedFilters

\* An edit counts.
LEMMA EditCounts ==
    ASSUME ShellTypeOK, QueryInv, NEW page, Edit(page)
    PROVE  edits' \in 0..tour.edits /\ location = page /\ ~loading
BY TourFacts DEF QueryInv, Edit, Mounted

\* The server answers, with data or with an error.
LEMMA AnswersStep ==
    ASSUME QueryInv, UNCHANGED shellVars, NEW k, Answered(k) \/ \E status \in Failures : Failed(k, status)
    PROVE  QueryInv'
<1>1. /\ k \in DOMAIN cache /\ cache[k].request # NoAsk /\ UNCHANGED <<form, edits>>
      /\ cache[k] \in EntrySet(k) /\ cache[k].request = k /\ k \in LooksNow
  BY DEF QueryInv, CacheFaithful, EntrySet, Answered, Failed
<1>2. /\ DOMAIN cache' = DOMAIN cache /\ cache'[k] \in EntrySet(k)
      /\ \A j \in DOMAIN cache : j # k => cache'[j] = cache[j]
  <2>1. CASE Answered(k)
    <3>1. cache' = [cache EXCEPT ![k] = [made |-> cache[k].request, error |-> 0, request |-> NoAsk]]
      BY <2>1 DEF Answered
    <3> QED
      BY <1>1, <3>1 DEF EntrySet
  <2>2. ASSUME NEW status \in Failures, Failed(k, status)
        PROVE  /\ DOMAIN cache' = DOMAIN cache /\ cache'[k] \in EntrySet(k)
               /\ \A j \in DOMAIN cache : j # k => cache'[j] = cache[j]
    <3>1. cache' = [cache EXCEPT ![k].error = status, ![k].request = NoAsk]
      BY <2>2 DEF Failed
    <3>2. cache'[k] = [[cache[k] EXCEPT !.error = status] EXCEPT !.request = NoAsk]
      BY <1>1, <3>1
    <3>3. [cache[k] EXCEPT !.error = status] \in EntrySet(k)
      BY <1>1 DEF EntrySet
    <3>4. cache'[k] \in EntrySet(k)
      BY <3>2, <3>3 DEF EntrySet
    <3> QED
      BY <3>1, <3>4
  <2> QED
    BY <2>1, <2>2
<1>3. edits' \in 0..tour.edits
  BY <1>1 DEF QueryInv
<1> QED
  BY <1>1, <1>2, <1>3, EntriesStep

\* The retry button asks for what is looked at.
LEMMA RetryStep ==
    ASSUME ShellTypeOK, QueryInv, UNCHANGED shellVars, RetryQueries
    PROVE  QueryInv'
<1>1. PICK queries : /\ Again(queries) /\ queries \subseteq LooksNow
                     /\ edits' \in 0..tour.edits /\ UNCHANGED form
  <2>1. CASE Edit("events") /\ Again({Stats(form), Samples(form)})
    <3>1. {Stats(form), Samples(form)} \subseteq LooksNow
      BY <2>1, EditCounts DEF LooksNow, Looks
    <3> QED
      BY <2>1, <3>1, EditCounts DEF RetryQueries
  <2>2. CASE Edit("distribution") /\ Again({Distribution(form)})
    <3>1. {Distribution(form)} \subseteq LooksNow
      BY <2>2, EditCounts DEF LooksNow, Looks
    <3> QED
      BY <2>2, <3>1, EditCounts DEF RetryQueries
  <2> QED
    BY <2>1, <2>2 DEF RetryQueries
<1>2. cache' = [k \in DOMAIN cache |-> IF k \in queries THEN Fetching(cache[k], k) ELSE cache[k]]
  <2>1. \A k \in DOMAIN cache : (\E asked \in queries : Key(asked) = k) <=> k \in queries
    BY DEF Key
  <2>2. \A k \in queries : (CHOOSE asked \in queries : Key(asked) = k) = k
    BY DEF Key
  <2> QED
    BY <1>1, <2>1, <2>2 DEF Again
<1>3. ASSUME NEW k \in DOMAIN cache
      PROVE  \/ cache'[k] = cache[k]
             \/ k \in LooksNow /\ cache'[k] \in EntrySet(k)
  BY <1>1, <1>2, FetchingOwn DEF QueryInv, CacheFaithful
<1>4. DOMAIN cache' = DOMAIN cache
  BY <1>2
<1> QED
  BY <1>1, <1>3, <1>4, EntriesStep

\* The pager of the samples.
LEMMA PagerStep ==
    ASSUME ShellTypeOK, QueryInv, UNCHANGED shellVars, PreviousPage \/ NextPage
    PROVE  QueryInv'
<1>1. /\ edits' \in 0..tour.edits /\ location = "events" /\ Redrawn
  BY EditCounts DEF PreviousPage, NextPage
<1>2. /\ form \in FormSet(location) /\ form.page \in Nat \ {0} /\ form.code \in AnyCode
      /\ SamplePages[form.code] \in Nat
  BY <1>1, CodeFacts DEF QueryInv, FormSet
<1>3. CASE PreviousPage
  <2>1. form' = [form EXCEPT !.page = form.page - 1] /\ form.page > 1
    BY <1>3 DEF PreviousPage
  <2>2. form.page - 1 \in Nat \ {0}
    BY <1>2, <2>1
  <2>3. form' \in FormSet(location) /\ form'.page = form.page - 1 /\ form'.code = form.code
    BY <1>2, <2>1, <2>2 DEF FormSet
  <2>4. form'.page - 1 <= SamplePages[form'.code]
    BY <1>2, <2>1, <2>3 DEF QueryInv, PageReachable
  <2> QED
    BY <1>1, <2>3, <2>4, FormStep
<1>4. CASE NextPage
  <2>1. form' = [form EXCEPT !.page = form.page + 1]
    BY <1>4 DEF NextPage
  <2>2. form' \in FormSet(location) /\ form'.page = form.page + 1 /\ form'.code = form.code
    BY <1>2, <2>1 DEF FormSet
  <2>3. form.page <= SamplePages[form.code]
    <3>1. PICK asked : asked = Samples(form)
      OBVIOUS
    <3>2. asked.page = form.page /\ asked.code = form.code
      BY <3>1 DEF Samples, Asked
    <3>3. Data(asked) /\ form.page <= SamplePages[Entry(cache, asked).made.code]
      BY <1>2, <1>4, <3>1, <3>2, DataIsAsked DEF NextPage, CanMoveNext, HasSamples, QueryInv
    <3> QED
      BY <3>2, <3>3, DataIsAsked DEF QueryInv
  <2> QED
    BY <1>1, <1>2, <2>2, <2>3, FormStep
<1> QED
  BY <1>3, <1>4

\* The steps of the pages.
LEMMA QueryStep ==
    ASSUME ShellTypeOK, QueryInv, UNCHANGED shellVars, QueryNext
    PROVE  QueryInv'
<1>0. form \in FormSet(location) /\ (form.page > 1 => location = "events" /\ form.page - 1 <= SamplePages[form.code])
      /\ form.page \in Nat \ {0} /\ edits \in 0..tour.edits
  BY DEF QueryInv, PageReachable, FormSet
<1>1. CASE \E k \in DOMAIN cache : Answered(k) \/ \E status \in Failures : Failed(k, status)
  BY <1>1, AnswersStep
<1>2. CASE ChooseFirst
  <2>1. /\ form' = [form EXCEPT !.choice = Choices[1]] /\ Redrawn /\ UNCHANGED edits
        /\ 1 \in DOMAIN Choices
    BY <1>2, QueryAssumption, EmptySeq, LenProperties DEF ChooseFirst
  <2>2. form' \in FormSet(location) /\ form'.page = form.page /\ form'.code = form.code
    BY <1>0, <2>1 DEF FormSet
  <2> QED
    BY <1>0, <2>1, <2>2, FormStep
<1>3. CASE EditEvents
  <2>1. edits' \in 0..tour.edits /\ location = "events" /\ Redrawn
    BY <1>3, EditCounts DEF EditEvents
  <2>2. PICK after \in EditedFilters : form' = [after EXCEPT !.page = PageReset(form, after)]
    BY <1>3 DEF EditEvents
  <2>3. after \in FormSet(location) /\ after.page = form.page
    BY <1>0, <2>1, <2>2, FiltersEdited
  <2>4. PageReset(form, after) \in Nat \ {0}
        /\ (PageReset(form, after) > 1 => after.page = PageReset(form, after) /\ after.code = form.code)
    BY <1>0, <2>3 DEF PageReset
  <2>5. form' \in FormSet(location) /\ form'.page = PageReset(form, after) /\ form'.code = after.code
    BY <2>2, <2>3, <2>4 DEF FormSet
  <2> QED
    BY <1>0, <2>1, <2>3, <2>4, <2>5, FormStep
<1>4. CASE SortSamples
  <2>1. PICK sort \in {"newest", "oldest"} : form' = [form EXCEPT !.sort = sort]
    BY <1>4 DEF SortSamples
  <2>2. form' \in FormSet(location) /\ form'.page = form.page /\ form'.code = form.code
    BY <1>0, <2>1 DEF FormSet
  <2>3. edits' \in 0..tour.edits /\ Redrawn
    BY <1>4, EditCounts DEF SortSamples
  <2> QED
    BY <1>0, <2>2, <2>3, FormStep
<1>5. CASE PreviousPage \/ NextPage
  BY <1>5, PagerStep
<1>6. CASE EditDistribution
  <2>1. edits' \in 0..tour.edits /\ location = "distribution" /\ Redrawn /\ form' \in EditedFilters
    BY <1>6, EditCounts DEF EditDistribution
  <2>2. PICK f \in EditedFilters : form' = f
    BY <2>1
  <2>3. form' \in FormSet(location) /\ form'.page = form.page
    BY <1>0, <2>1, <2>2, FiltersEdited
  <2> QED
    BY <1>0, <2>1, <2>3, FormStep
<1>7. CASE EditAmplitude
  <2>1. edits' \in 0..tour.edits /\ location = "amplitude" /\ Redrawn
    BY <1>7, EditCounts DEF EditAmplitude
  <2>2. PICK f \in EditedFilters : form' = f
    BY <1>7 DEF EditAmplitude, EditedFilters
  <2>3. form' \in FormSet(location) /\ form'.page = form.page
    BY <1>0, <2>1, <2>2, FiltersEdited
  <2> QED
    BY <1>0, <2>1, <2>3, FormStep
<1>8. CASE RetryQueries
  BY <1>8, RetryStep
<1>9. CASE FilterAudit
  <2>1. edits' \in 0..tour.edits /\ location = "audit" /\ Redrawn
    BY <1>9, EditCounts DEF FilterAudit
  <2>2. PICK code \in Filters(location) : form' = [form EXCEPT !.code = code]
    BY <1>9, <2>1 DEF FilterAudit
  <2>3. form' \in FormSet(location) /\ form'.page = form.page
    BY <1>0, <2>2 DEF FormSet
  <2> QED
    BY <1>0, <2>1, <2>3, FormStep
<1>10. CASE SelectRow
  <2>1. edits' \in 0..tour.edits /\ UNCHANGED <<form, cache>>
    BY <1>10, EditCounts DEF SelectRow
  <2> QED
    BY <2>1, EntriesStep
<1> QED
  BY <1>1, <1>2, <1>3, <1>4, <1>5, <1>6, <1>7, <1>8, <1>9, <1>10 DEF QueryNext

----------------------------------------------------------------------------
(* The console.                                                             *)

\* The inductive invariant.
IInv == ShellTypeOK /\ LoaderInv /\ QueryInv

\* The console starts in it.
LEMMA InitIInv == ASSUME Init PROVE IInv
<1>1. ShellTypeOK
  <2>1. /\ tour \in Tours /\ location \in Paths /\ loading = FALSE /\ target = NoPath
        /\ prefetches = 0 /\ overtaken = FALSE /\ clicks = 0 /\ tour.clicks \in Nat
    BY ShellAssumption DEF Init, ShellInit, Paths
  <2>2. prefetches \in 0..clicks /\ clicks \in 0..tour.clicks
    BY <2>1
  <2>3. loading <=> target # NoPath
    BY <2>1
  <2> QED
    BY <2>1, <2>2, <2>3 DEF ShellTypeOK
<1> QED
  BY <1>1, LoaderInitInv, QueryInitInv DEF Init, IInv

\* Every step keeps it.
LEMMA NextIInv == ASSUME IInv, [Next]_vars PROVE IInv'
<1>0. ShellTypeOK /\ LoaderInv /\ QueryInv
  BY DEF IInv
<1>1. ASSUME ShellStep, LoaderFollows, NEW codes, PagesFollow(codes),
             codes \subseteq Filters(location') \/ location' = location
      PROVE  IInv'
  BY <1>0, <1>1, ShellType, FollowStep, PagesFollowStep DEF IInv
<1>2. CASE Navigates
  <2>1. {FirstFilter(location')} \subseteq Filters(location')
    BY CodeFacts
  <2> QED
    BY <1>1, <1>2, <2>1 DEF Navigates, ShellStep
<1>3. CASE Leaves
  <2>1. Filters("audit") \subseteq Filters("audit")
        /\ (location' # "audit" => {Codes[1]} \subseteq Filters(location'))
    BY CodeFacts
  <2>2. PICK codes : codes = IF location' = "audit" THEN Filters("audit") ELSE {Codes[1]}
    OBVIOUS
  <2>3. codes \subseteq Filters(location') /\ PagesFollow(codes)
    BY <1>3, <2>1, <2>2 DEF Leaves
  <2> QED
    BY <1>1, <1>3, <2>3 DEF Leaves, ShellStep
<1>4. CASE Unauthorized
  <2>1. location' = Outside
    BY <1>4 DEF Unauthorized, SendAway, Arrive
  <2>2. {Codes[1]} \subseteq Filters(location')
    BY <2>1, CodeFacts DEF Outside
  <2> QED
    BY <1>1, <1>4, <2>2 DEF Unauthorized, ShellStep
<1>5. CASE UNCHANGED <<shellVars, queryVars>> /\ LoaderNext
  <2>1. ShellTypeOK'
    BY <1>0, <1>5 DEF shellVars, ShellTypeOK, Paths
  <2>2. QueryInv'
    <3>1. /\ UNCHANGED <<shellVars, form, cache, edits>>
      BY <1>5 DEF queryVars
    <3>2. edits' \in 0..tour.edits
      BY <1>0, <3>1 DEF QueryInv
    <3> QED
      BY <1>0, <3>1, <3>2, EntriesStep
  <2>3. LoaderInv'
    BY <1>0, <1>5, LoaderStep
  <2> QED
    BY <2>1, <2>2, <2>3 DEF IInv
<1>6. CASE (UNCHANGED <<shellVars, loaderVars>> /\ QueryNext) \/ UNCHANGED vars
  <2>1. UNCHANGED <<shellVars, loaderVars>>
    BY <1>6 DEF vars
  <2>2. ShellTypeOK' /\ LoaderInv'
    <3>1. ShellTypeOK'
      BY <1>0, <2>1 DEF shellVars, ShellTypeOK, Paths
    <3>2. LoaderInv'
      BY <1>0, <2>1, LoaderSame
    <3> QED
      BY <3>1, <3>2
  <2>3. CASE QueryNext
    BY <1>0, <2>1, <2>2, <2>3, QueryStep DEF IInv
  <2>4. CASE UNCHANGED queryVars
    <3>1. /\ UNCHANGED <<shellVars, form, cache, edits>>
      BY <2>1, <2>4 DEF queryVars
    <3>2. edits' \in 0..tour.edits
      BY <1>0, <3>1 DEF QueryInv
    <3> QED
      BY <1>0, <2>2, <3>1, <3>2, EntriesStep DEF IInv
  <2> QED
    BY <1>6, <2>3, <2>4 DEF vars
<1> QED
  BY <1>2, <1>3, <1>4, <1>5, <1>6 DEF Next

\* It always holds.
LEMMA SpecIInv == Spec => []IInv
<1>1. Init => IInv
  BY InitIInv
<1>2. IInv /\ [Next]_vars => IInv'
  BY NextIInv
<1> QED
  BY <1>1, <1>2, PTL DEF Spec

\* Every variable keeps its type: nothing waits for baselines that no navigation asked for,
\* a batch has a panel only on the page it is listed on, and only what is looked at is asked
\* for (AppShell, HistoricalDataLoaderPage, the query hooks).
THEOREM TypeCorrect == Spec => []TypeOK
<1>1. IInv => TypeOK
  <2>1. ASSUME QueryInv PROVE QueryTypeOK
    BY <2>1, KeysAre DEF QueryInv, QueryTypeOK, CacheFaithful, FormSet, EntrySet
  <2> QED
    BY <2>1 DEF IInv, LoaderInv, TypeOK
<1> QED
  BY <1>1, SpecIInv, PTL

\* However many batches run, are left by their page or fail, every job the server has is
\* listed once, in a running batch, or lost, and the panel tells of jobs that are listed
\* (HistoricalDataLoaderPage, BackfillPanel, CrawlerPanel).
THEOREM JobsCorrect == Spec => []JobsAccounted
<1>1. IInv => JobsAccounted
  BY Accounted DEF IInv
<1> QED
  BY <1>1, SpecIInv, PTL

\* The pager never leaves the samples of the filters by more than a page, whichever answer it
\* looked at when it went on (EventAnalyticsPage, resetPageOnFilterChange).
THEOREM PagerCorrect == Spec => []PageReachable
<1>1. IInv => PageReachable
  BY DEF IInv, QueryInv
<1> QED
  BY <1>1, SpecIInv, PTL

\* Whatever a page draws was asked for with the parameters its form has now, and the details
\* shown are of an event that is listed (the query keys, AuditLogPage).
THEOREM ShownCorrect == Spec => []ShownIsAsked
<1>1. ASSUME IInv PROVE ShownIsAsked
  <2>1. \A asked \in LooksNow : Data(asked) => Entry(cache, asked).made = asked
    BY <1>1, DataIsAsked DEF IInv, QueryInv
  <2>2. /\ ShownRows \subseteq FilteredRows
        /\ \A e \in FilteredRows : form.code # "all" => ResultOf(e) = form.code
    BY DEF ShownRows, FilteredRows
  <2>3. Details \in FilteredRows \/ Details = NoRow
    BY DEF Details
  <2> QED
    BY <2>1, <2>2, <2>3 DEF ShownIsAsked
<1> QED
  BY <1>1, SpecIInv, PTL

=============================================================================
