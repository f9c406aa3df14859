----------------------------- MODULE MCConsole -----------------------------
(* Pairs of pages that share something: the session of an administrator, the registry of
   metrics, or nothing but the shell. *)
EXTENDS Console

Tour(pages, c, e) == [pages |-> pages, clicks |-> c, edits |-> e]

MCTours == {Tour({"loader"}, 3, 0), Tour({"events"}, 0, 3), Tour({"events", "distribution"}, 1, 1),
            Tour({"amplitude", "audit"}, 2, 3)}
MCFailures == {401, 500}
MCCodes == <<"first", "other">>
MCSamplePages == [code \in {"first", "other"} |-> IF code = "first" THEN 2 ELSE 0]
MCChoices == <<"a", "b">>
Event(kind, result) == [kind |-> kind, result |-> result]
MCAuditEvents == {Event("denied", "denied"), Event("failed", "none"), Event("other", "success")}

=============================================================================
