---------------------------- MODULE WriteBehind ----------------------------
(***************************************************************************)
(* What a write-behind database sink promises, whatever its queues, batches *)
(* retries and threads look like.                                           *)
(*                                                                          *)
(* An item is accepted, is then the process's own responsibility, and is    *)
(* released only once the table has a row for its key, or once the item has *)
(* been given up: put on the dead-letter stream, or written off in an error *)
(* log.  The one excuse is the end of the process, which forgets what it    *)
(* holds.  A row, once there, is never replaced and never removed.          *)
(***************************************************************************)
EXTENDS Integers

VARIABLES
    inflight,     \* items accepted and not released; field "at" is the key
    rows,         \* the rows of the table
    given         \* items given up

wbVars == <<inflight, rows, given>>

\* The keys of a set of items.
Keys(S) == {x.at : x \in S}

Init ==
    /\ inflight = {}
    /\ rows = {}
    /\ given = {}

\* The consume loop hands an item over.
Accept ==
    /\ \E x \in inflight' : inflight' = inflight \cup {x}
    /\ UNCHANGED <<rows, given>>

\* Rows are added, items are given up, items are released.
Settle ==
    /\ rows \subseteq rows'
    /\ rows' \ rows \subseteq inflight
    /\ \A x, y \in rows' : x.at = y.at => x = y
    /\ given \subseteq given'
    /\ given' \ given \subseteq inflight
    /\ inflight' \subseteq inflight
    /\ \A x \in inflight \ inflight' : x.at \in Keys(rows') \/ x \in given'

\* The process ends with whatever it still holds.
Forget ==
    /\ inflight' = {}
    /\ UNCHANGED <<rows, given>>

Next == Accept \/ Settle \/ Forget

Spec == Init /\ [][Next]_wbVars
=============================================================================
