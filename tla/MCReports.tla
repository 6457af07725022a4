------------------------------ MODULE MCReports -----------------------------
(* Instances of Reports for TLC.                                            *)
EXTENDS Reports, TLC

CONSTANTS c1, c2, k1, g, u, v, q1, q2, w1, w2

OneTarget == [c \in Case |-> k1]

\* A guest signs in to an account, which is merged on and then deleted.
MergedThenDeleted ==
    <<[kind |-> "merged", who |-> g, into |-> u], [kind |-> "merged", who |-> u, into |-> v],
      [kind |-> "deleted", who |-> v, into |-> None]>>

Slots == Permutations(Report) \cup Permutations(Delivery)

=============================================================================
