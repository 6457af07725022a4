------------------------ MODULE MCSanctionReadModel -------------------------
(* Instances of SanctionReadModel for TLC.                                  *)
EXTENDS SanctionReadModel, TLC

CONSTANTS s1, s2, w1, w2

Alike == Permutations(Sanction) \cup Permutations(Writer)

=============================================================================
