---------------------------- MODULE CaseDecision ----------------------------
(***************************************************************************)
(* What a case is to everybody outside the module: nothing yet, undecided, *)
(* or decided, and the verdict on record.  Leases, screenings, sweeps and  *)
(* the dead-letter park are not visible here; CaseLifecycle implements     *)
(* this specification, so none of them decides anything.                   *)
(***************************************************************************)
EXTENDS CaseVocabulary

CONSTANT Case

VARIABLES status, verdict

Status == {"none", "undecided", "decided"}

Init ==
    /\ status = [c \in Case |-> "none"]
    /\ verdict = [c \in Case |-> NoVerdict]

\* A complaint, a submission or a sanction opens the case.
File(c) ==
    /\ status[c] = "none"
    /\ status' = [status EXCEPT ![c] = "undecided"]
    /\ UNCHANGED verdict

\* A verdict that closes decides the case in the same step.
Decide(c, v) ==
    /\ v.decision \in TERMINAL_DECISIONS
    /\ status' = [status EXCEPT ![c] = "decided"]
    /\ verdict' = [verdict EXCEPT ![c] = v]

\* An abstention decides nothing.  On a decided case, where only a handler with
\* an old copy can still record one, it may or may not reopen it.
Abstain(c, v) ==
    /\ v.decision \notin TERMINAL_DECISIONS
    /\ \E s \in {"undecided", status[c]} \ {"none"} :
          status' = [status EXCEPT ![c] = s]
    /\ verdict' = [verdict EXCEPT ![c] = v]

\* A decided case is opened again, its verdict still on record.
Reopen(c) ==
    /\ status[c] = "decided"
    /\ status' = [status EXCEPT ![c] = "undecided"]
    /\ UNCHANGED verdict

Next == \E c \in Case :
    \/ File(c) \/ Reopen(c)
    \/ \E v \in Verdict : Decide(c, v) \/ Abstain(c, v)

Spec == Init /\ [][Next]_<<status, verdict>>

=============================================================================
