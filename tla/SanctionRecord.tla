--------------------------- MODULE SanctionRecord ---------------------------
(***************************************************************************)
(* What a sanction is to everybody: nothing yet, in force, or over, and    *)
(* whose it is.  It comes into force once and never again, it is not       *)
(* unissued, and it follows its person when the account is merged, all of  *)
(* that person's record at once.  Sanctions, SanctionReadModel and Appeals *)
(* see the same rows from three sides, and each implements this.           *)
(***************************************************************************)
CONSTANTS Sanction, User, None

VARIABLES status, subject

Init ==
    /\ status = [s \in Sanction |-> "none"]
    /\ subject = [s \in Sanction |-> None]

\* A sanction is issued, and in force from then on.
Issue(s, u) ==
    /\ status[s] = "none"
    /\ status' = [status EXCEPT ![s] = "in_force"]
    /\ subject' = [subject EXCEPT ![s] = u]

\* It runs out, is lifted or is overturned; only the first of these shows.
End(s) ==
    /\ status[s] = "in_force"
    /\ status' = [status EXCEPT ![s] = "over"]
    /\ UNCHANGED subject

\* What g has been given, ended or not, is u's.
Carry(g, u) ==
    /\ subject' = [s \in Sanction |-> IF subject[s] = g THEN u ELSE subject[s]]
    /\ UNCHANGED status

Next ==
    \/ \E s \in Sanction : End(s) \/ \E u \in User : Issue(s, u)
    \/ \E g, u \in User : Carry(g, u)

Spec == Init /\ [][Next]_<<status, subject>>

=============================================================================
