----------------------------- MODULE MCSessions -----------------------------
(* Sessions on small instances. *)
EXTENDS Sessions, TLC

CONSTANTS u1, u2, q1, q2, b1, b2

MCUsers == {u1, u2}
MCBrowsers == {b1, b2}
MCRequests == {q1, q2}

\* Addresses are alike, browsers are, and so are the slots of requests.
MCSymmetry ==
    Permutations(MCUsers) \cup Permutations(MCBrowsers) \cup Permutations(MCRequests)
=============================================================================
