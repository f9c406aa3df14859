------------------------------ MODULE MCBilling ------------------------------
(* Small instances of Billing for TLC.                                      *)
EXTENDS Billing, TLC

CONSTANTS u1, u2, s1, s2, c1, c2

OneUser == {u1}
TwoUsers == {u1, u2}
OneSub == {s1}
TwoSubs == {s1, s2}
OneCheckout == {c1}
TwoCheckouts == {c1, c2}

\* Subscriptions are interchangeable, and so are checkout requests.
Symmetry == Permutations(TwoUsers) \cup Permutations(TwoSubs) \cup Permutations(TwoCheckouts)
=============================================================================
