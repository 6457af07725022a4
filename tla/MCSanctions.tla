---------------------------- MODULE MCSanctions -----------------------------
(* Instances of Sanctions for TLC.                                          *)
EXTENDS Sanctions, TLC

CONSTANTS s1, s2, s3, u1, r1, r2

\* No ladder, and one of three steps, all indefinite: which step a sanction takes
\* does not depend on how long the steps are.
NoLadder     == [k \in Kind |-> <<>>]
ThreeStrikes == [k \in Kind |-> <<"never", "never", "never">>]

\* Rows and requests are interchangeable.
RowsAndRequests == Permutations(Sanction) \cup Permutations(Request)

=============================================================================
