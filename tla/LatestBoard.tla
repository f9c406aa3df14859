---------------------------- MODULE LatestBoard ----------------------------
(***************************************************************************)
(* What a live display promises, whatever batching and threads stand        *)
(* between the feed and the screen: what is learned is never older than     *)
(* what it replaces, what is shown is only ever brought up to what is       *)
(* known, and the two can be given up together when the feed is left.       *)
(***************************************************************************)
EXTENDS Integers

VARIABLES
    known,    \* slot -> the newest value received and not given up; field "n" orders them
    shown     \* slot -> the value displayed

boardVars == <<known, shown>>

Init == DOMAIN known = {} /\ DOMAIN shown = {}

\* Values arrive; none is older than the one it replaces.  They wait, or are shown at
\* once when nothing waits.
Learn ==
    /\ DOMAIN known \subseteq DOMAIN known'
    /\ \A s \in DOMAIN known : known'[s].n >= known[s].n
    /\ shown' = shown \/ (known = shown /\ known' = shown')

\* The display catches up, in full or in part, and never goes back.
Show ==
    /\ known' = known
    /\ DOMAIN shown \subseteq DOMAIN shown'
    /\ DOMAIN shown' \subseteq DOMAIN known
    /\ \A s \in DOMAIN shown' : shown'[s].n <= known[s].n
    /\ \A s \in DOMAIN shown : shown[s].n <= shown'[s].n

\* The feed is left: what was not shown yet never will be.
GiveUp == shown' = shown /\ known' = shown

\* The display is cleared.
Clear == DOMAIN known' = {} /\ DOMAIN shown' = {}

Next == Learn \/ Show \/ GiveUp \/ Clear

Spec == Init /\ [][Next]_boardVars
=============================================================================
