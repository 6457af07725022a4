--------------------------- MODULE CaseVocabulary ---------------------------
(***************************************************************************)
(* The closed vocabularies of models.py: the states of a moderation case,  *)
(* the one transition table every service moves a case along, and the      *)
(* decisions and sources of a verdict.  Pure definitions, no state.        *)
(***************************************************************************)

\* A state the row of a case can hold ("absent" below is not one of them).
CaseState == {"open", "screening", "queued", "claimed", "dlq", "resolved"}

\* The states in which a case is the live case of its target: the condition of
\* the partial unique constraint uniq_open_case_per_target.
OPEN_STATES == {"open", "screening", "queued", "claimed", "dlq"}

\* The states a moderator's console shows.
HUMAN_QUEUE_STATES == {"queued", "claimed"}

\* What the orphan sweep and the re-screen sweep look at: the two undecided
\* states that nobody holds.
Sweepable == {"queued", "dlq"}

\* The value of a row that has not been inserted yet.
RowState == CaseState \cup {"absent"}

\* Every edge a service may take; "resolved -> queued" is the only one backward.
CASE_TRANSITIONS ==
    [s \in CaseState |->
        CASE s = "open"      -> {"screening", "queued", "resolved"}
          [] s = "screening" -> {"queued", "resolved", "open", "dlq"}
          [] s = "queued"    -> {"claimed", "resolved", "screening", "dlq"}
          [] s = "claimed"   -> {"queued", "resolved"}
          [] s = "dlq"       -> {"screening", "queued", "resolved"}
          [] s = "resolved"  -> {"queued"}]

\* transition(): staying put is a no-op, an undeclared edge raises.
Allowed(from, to) == to = from \/ to \in CASE_TRANSITIONS[from]

VerdictDecision == {"approved", "rejected", "dismissed", "needs_review"}

\* The decisions that close a case; "needs_review" is the automation abstaining.
TERMINAL_DECISIONS == {"approved", "rejected", "dismissed"}

VerdictSource == {"llm", "rule", "human", "policy_default", "appeal"}

Verdict == [decision : VerdictDecision, source : VerdictSource]

NoVerdict == [decision |-> "none", source |-> "none"]

=============================================================================
