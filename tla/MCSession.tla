----------------------------- MODULE MCSession -----------------------------
(* A small instance of Session for TLC: a member and an administrator. *)
EXTENDS Session

CONSTANTS ann, bob

MCRoleOf == [u \in {ann, bob} |-> IF u = bob THEN "admin" ELSE "member"]
=============================================================================
