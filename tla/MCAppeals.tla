------------------------------ MODULE MCAppeals -----------------------------
(* Instances of Appeals for TLC.                                            *)
EXTENDS Appeals, TLC

CONSTANTS c1, c2, m1, m2, r1, r2

\* c2 is the target's newer row, still undecided.
OneDecided == [c \in Case |-> IF c = c1 THEN 3 ELSE 0]

Alike == Permutations({m1, m2}) \cup Permutations(Request)

=============================================================================
