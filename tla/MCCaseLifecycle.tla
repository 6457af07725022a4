-------------------------- MODULE MCCaseLifecycle ---------------------------
(* Instances of CaseLifecycle for TLC.                                      *)
EXTENDS CaseLifecycle, TLC

CONSTANTS c1, c2, d1, k1, kd, m1, m2, t1, t2

\* The rows and the target of each: one row, two rows of one target, a draft.
OneCase  == c1 :> k1
Twins    == c1 :> k1 @@ c2 :> k1
OneDraft == d1 :> kd

\* Moderators, task slots and twin rows are interchangeable.
Staff        == Permutations({m1, m2})
RowsAndSlots == Permutations({c1, c2}) \cup Permutations({t1, t2})

\* A bound: no owner edits, since the marks of an edit steer nothing but the
\* re-screening job, which does not run beside the twins.
NoEdits == \A c \in Case : ~resubmitted[c]

=============================================================================
