------------------------------ MODULE Console ------------------------------
(* The pages of the console in the shell: a navigation mounts and unmounts pages, and an
   answer without authorisation sends its page away. *)
EXTENDS JobLoader, QueryPages

vars == <<shellVars, loaderVars, queryVars>>

TypeOK == ShellTypeOK /\ LoaderTypeOK /\ QueryTypeOK

Init == ShellInit /\ LoaderInit /\ QueryInit

Navigates ==
    /\ \/ \E to \in Paths : Click(to)
       \/ Land
       \/ TimerFires
    /\ LoaderFollows
    /\ PagesFollow({FirstFilter(location')})

\* A step of the browser's history restores a URL with its filters.
Leaves ==
    /\ \E to \in Paths : Leave(to)
    /\ LoaderFollows
    /\ PagesFollow(IF location' = "audit" THEN Filters("audit") ELSE {Codes[1]})

Unauthorized ==
    /\ SentAway
    /\ SendAway
    /\ LoaderFollows
    /\ PagesFollow({Codes[1]})

Next ==
    \/ Navigates \/ Leaves \/ Unauthorized
    \/ UNCHANGED <<shellVars, queryVars>> /\ LoaderNext
    \/ UNCHANGED <<shellVars, loaderVars>> /\ QueryNext

\* Requests settle and timers fire; the user need not do anything.
Fairness ==
    /\ WF_vars(Land /\ LoaderFollows /\ PagesFollow({FirstFilter(location')}))
    /\ WF_vars(TimerFires /\ LoaderFollows /\ PagesFollow({FirstFilter(location')}))

Spec == Init /\ [][Next]_vars /\ Fairness

=============================================================================
