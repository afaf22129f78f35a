----------------------------- MODULE MCReviewLoop -----------------------------
\* Instances of ReviewLoop for TLC.
EXTENDS ReviewLoop

CONSTANTS k1, k2, o1, o2, s1, s2, e1, c1, a1, a2, p1, p2

\* Every request is about k1 ...
OneSession == [r \in Calls \union Polls |-> k1]

\* ... or the requests are shared between two sessions.
TwoSessions == [r \in Calls \union Polls |-> IF r \in {o2, s2, a2, p2} THEN k2 ELSE k1]
==============================================================================
