------------------------- MODULE CaseDecisionProofs -------------------------
(***************************************************************************)
(* More proofs about CaseLifecycle, from the same two halves: a target has *)
(* one live case, the escalation stamp means a spent cap, the park decides *)
(* nothing, and the whole life of a case implements CaseDecision.          *)
(***************************************************************************)
EXTENDS CaseLifecycleProofs

\* What a step writes into the state column of c, of which only c's entry moves.
Writes(c, s) == s \in RowState /\ state' = [state EXCEPT ![c] = s]

\* The state a step leaves in row c, and that a row becomes live only while no
\* other row of its target is.
LEMMA RowStepState ==
    ASSUME TypeOK, NEW c \in Case, RowStep(c)
    PROVE  /\ Writes(c, state'[c])
           /\ state'[c] \in OPEN_STATES => state[c] \in OPEN_STATES \/ FreeForTarget(c)
           /\ state'[c] = "absent" => state[c] = "absent"
<1>0. RowsOK
  BY DEF TypeOK, RowsOK
<1> USE DEF RowsOK, RowState, CaseState, OPEN_STATES, Writes
<1>1. CASE Inserted(c) \/ Started(c)
  BY <1>0, <1>1 DEF Inserted, Started, Moves
<1>2. CASE Queued(c) \/ Rescanned(c)
  BY <1>0, <1>2 DEF Queued, Rescanned, Moves, Storable
<1>3. CASE InsertedDraft(c)
  BY <1>0, <1>3 DEF InsertedDraft
<1>4. CASE Marked(c) \/ Expired(c)
  BY <1>0, <1>4 DEF Marked, Expired
<1>5. CASE Claimed(c) \/ Released(c)
  BY <1>0, <1>5 DEF Claimed, Released, ReleaseRow
<1>6. CASE Parked(c)
  BY <1>0, <1>6 DEF Parked, CanPark, Park
<1>7. CASE Resolved(c)
  <2>1. PICK v \in Verdict, s \in RowState : VerdictEffect(c, v, s)
    BY <1>0, <1>7, ResolvedMeans
  <2>2. s # "absent" \/ state[c] = "absent"
    BY <2>1 DEF VerdictEffect
  <2> QED BY <1>0, <2>1, <2>2 DEF VerdictEffect, Storable
<1> QED BY <1>1, <1>2, <1>3, <1>4, <1>5, <1>6, <1>7 DEF RowStep

\* A target never has two live cases, for any number of rows per target.
THEOREM OneLiveCasePerTarget == Spec => []OneLiveCase
<1>1. Init => OneLiveCase
  BY DEF Init, OneLiveCase, OPEN_STATES
<1>2. TypeOK /\ InHand /\ OneLiveCase /\ [Next]_vars => OneLiveCase'
  <2> SUFFICES ASSUME TypeOK, InHand, OneLiveCase, [Next]_vars PROVE OneLiveCase'
    OBVIOUS
  <2>1. CASE UNCHANGED rows
    BY <2>1 DEF rows, OneLiveCase
  <2>2. ASSUME NEW c \in Case, RowStep(c) PROVE OneLiveCase'
    <3>1. /\ Writes(c, state'[c])
          /\ state'[c] \in OPEN_STATES => state[c] \in OPEN_STATES \/ FreeForTarget(c)
      BY <2>2, RowStepState
    <3>2. \A d \in Case \ {c} : state'[d] = state[d]
      BY <3>1 DEF Writes, TypeOK
    <3>3. \A d \in Case \ {c} : TargetOf[d] = TargetOf[c] =>
             ~(state'[c] \in OPEN_STATES /\ state'[d] \in OPEN_STATES)
      BY <3>1, <3>2 DEF OneLiveCase, FreeForTarget
    <3> QED BY <3>2, <3>3 DEF OneLiveCase
  <2> QED BY <2>1, <2>2, WritesOneRow
<1> QED BY <1>1, <1>2, TypeCorrect, PTL DEF Spec

\* The escalation and the counter on one row.
LEMMA RowStepCap ==
    ASSUME TypeOK, EscalatedAtCap, NEW c \in Case, RowStep(c)
    PROVE  EscalatedAtCap'
<1>0. RowsOK
  BY DEF TypeOK, RowsOK
<1>1. CASE Marked(c)
  <2>1. CASE UNCHANGED <<escalated, rescreens>>
    BY <2>1 DEF EscalatedAtCap
  <2>2. CASE CapSpent(c) /\ escalated' = [escalated EXCEPT ![c] = TRUE] /\ UNCHANGED rescreens
    <3>1. rescreens[c] = RescreenCap
      BY <1>0, <2>2, SettingsAssumption DEF RowsOK, CapSpent
    <3> QED BY <1>0, <2>2, <3>1 DEF RowsOK, EscalatedAtCap
  <2>3. CASE /\ ~CapSpent(c) /\ ~escalated[c]
             /\ rescreens' = [rescreens EXCEPT ![c] = @ + 1] /\ UNCHANGED escalated
    <3>1. rescreens[c] + 1 <= RescreenCap
      BY <1>0, <2>3, SettingsAssumption DEF RowsOK, CapSpent
    <3> QED BY <1>0, <2>3, <3>1 DEF RowsOK, EscalatedAtCap
  <2> QED BY <1>1, <2>1, <2>2, <2>3 DEF Marked
<1>2. CASE Resolved(c)
  <2>1. PICK v \in Verdict, s \in RowState : VerdictEffect(c, v, s)
    BY <1>0, <1>2, ResolvedMeans
  <2> QED BY <2>1 DEF VerdictEffect, marks, EscalatedAtCap
<1>3. CASE ~Marked(c) /\ ~Resolved(c)
  BY <1>3 DEF RowStep, Inserted, InsertedDraft, Started, Queued, Claimed, Released, ReleaseRow,
              Expired, Parked, Park, Rescanned, Moves, marks, EscalatedAtCap
<1> QED BY <1>1, <1>2, <1>3

\* The machine gives up at the cap, not before and not after one re-screen too
\* many, whatever the cap is.
THEOREM EscalatedOnlyAtCap == Spec => []EscalatedAtCap
<1>1. Init => EscalatedAtCap
  BY SettingsAssumption DEF Init, EscalatedAtCap
<1>2. TypeOK /\ InHand /\ EscalatedAtCap /\ [Next]_vars => EscalatedAtCap'
  <2> SUFFICES ASSUME TypeOK, InHand, EscalatedAtCap, [Next]_vars PROVE EscalatedAtCap'
    OBVIOUS
  <2>1. CASE UNCHANGED rows
    BY <2>1 DEF rows, marks, EscalatedAtCap
  <2> QED BY <2>1, WritesOneRow, RowStepCap
<1> QED BY <1>1, <1>2, TypeCorrect, PTL DEF Spec

\* Only a park moves a row into the park.
LEMMA RowStepPark ==
    ASSUME TypeOK, NEW c \in Case, RowStep(c), NEW d \in Case, state[d] # "dlq", state'[d] = "dlq"
    PROVE  d = c /\ Parked(c)
<1>0. RowsOK
  BY DEF TypeOK, RowsOK
<1>1. d = c
  BY <1>0, RowStepState DEF Writes, RowsOK
<1> USE DEF RowsOK
<1>2. ~Inserted(c) /\ ~InsertedDraft(c) /\ ~Started(c) /\ ~Queued(c)
  BY <1>0, <1>1 DEF Inserted, InsertedDraft, Started, Queued, Moves
<1>3. ~Marked(c) /\ ~Expired(c)
  BY <1>1 DEF Marked, Expired
<1>4. ~Claimed(c) /\ ~Released(c) /\ ~Rescanned(c)
  BY <1>0, <1>1 DEF Claimed, Released, ReleaseRow, Rescanned
<1>5. ~Resolved(c)
  <2> SUFFICES ASSUME Resolved(c) PROVE FALSE
    OBVIOUS
  <2>1. PICK v \in Verdict, s \in RowState : VerdictEffect(c, v, s)
    BY <1>0, ResolvedMeans
  <2> QED BY <1>0, <1>1, <2>1 DEF VerdictEffect
<1> QED BY <1>1, <1>2, <1>3, <1>4, <1>5 DEF RowStep

\* A failed screening parks and decides nothing.
THEOREM ParkNeverDecides == Spec => ParkDecidesNothing
<1> DEFINE P == \A c \in Case : state[c] # "dlq" /\ state'[c] = "dlq" =>
                    /\ state[c] \in {"screening", "queued"}
                    /\ lastVerdict'[c] = lastVerdict[c]
                    /\ claimedBy'[c] = NoOne
<1>1. TypeOK /\ InHand /\ [Next]_vars => [P]_vars
  <2> SUFFICES ASSUME TypeOK, InHand, [Next]_vars, NEW d \in Case, state[d] # "dlq", state'[d] = "dlq"
               PROVE  /\ state[d] \in {"screening", "queued"}
                      /\ lastVerdict'[d] = lastVerdict[d]
                      /\ claimedBy'[d] = NoOne
    OBVIOUS
  <2>1. CASE UNCHANGED rows
    BY <2>1 DEF rows
  <2>2. ASSUME NEW c \in Case, RowStep(c)
        PROVE  /\ state[d] \in {"screening", "queued"}
               /\ lastVerdict'[d] = lastVerdict[d]
               /\ claimedBy'[d] = NoOne
    <3>1. d = c /\ Parked(c)
      BY <2>2, RowStepPark
    <3>2. CanPark(d, "dlq") /\ Park(d, "dlq")
      BY <3>1 DEF Parked, CanPark, Park, TypeOK
    <3>3. state[d] \in CaseState
      BY <3>1 DEF Parked, TypeOK, RowState
    <3>4. state[d] \in {"screening", "queued"}
      BY <3>2, <3>3, Edges DEF CanPark
    <3> QED BY <3>2, <3>4 DEF Park, ClearClaim, TypeOK
  <2> QED BY <2>1, <2>2, WritesOneRow
<1> QED BY <1>1, TypeCorrect, PTL DEF Spec, ParkDecidesNothing

-----------------------------------------------------------------------------
(* The refinement.                                                         *)

status == [c \in Case |-> Status(state[c])]

\* The abstract actions, written with the concrete variables.
LEMMA AbstractStep ==
    ASSUME NEW c \in Case,
           \/ /\ status[c] = "none" /\ status' = [status EXCEPT ![c] = "undecided"]
              /\ UNCHANGED lastVerdict
           \/ /\ status[c] = "decided" /\ status' = [status EXCEPT ![c] = "undecided"]
              /\ UNCHANGED lastVerdict
           \/ \E v \in Verdict :
                /\ lastVerdict' = [lastVerdict EXCEPT ![c] = v]
                /\ \/ v.decision \in TERMINAL_DECISIONS /\ status' = [status EXCEPT ![c] = "decided"]
                   \/ /\ v.decision \notin TERMINAL_DECISIONS
                      /\ \E s \in {"undecided", status[c]} \ {"none"} : status' = [status EXCEPT ![c] = s]
    PROVE  Decision!Next
<1>1. Decision!Verdict = Verdict /\ Decision!TERMINAL_DECISIONS = TERMINAL_DECISIONS
  BY DEF Decision!Verdict, Verdict, Decision!TERMINAL_DECISIONS, TERMINAL_DECISIONS,
         Decision!VerdictDecision, VerdictDecision, Decision!VerdictSource, VerdictSource
<1>2. CASE /\ status[c] = "none" /\ status' = [status EXCEPT ![c] = "undecided"]
           /\ UNCHANGED lastVerdict
  <2>1. Decision!File(c)
    BY <1>2 DEF Decision!File, status
  <2> QED BY <2>1 DEF Decision!Next
<1>3. CASE /\ status[c] = "decided" /\ status' = [status EXCEPT ![c] = "undecided"]
           /\ UNCHANGED lastVerdict
  <2>1. Decision!Reopen(c)
    BY <1>3 DEF Decision!Reopen, status
  <2> QED BY <2>1 DEF Decision!Next
<1>4. ASSUME NEW v \in Verdict, v.decision \in TERMINAL_DECISIONS,
             lastVerdict' = [lastVerdict EXCEPT ![c] = v], status' = [status EXCEPT ![c] = "decided"]
      PROVE  Decision!Next
  <2>1. Decision!Decide(c, v)
    BY <1>1, <1>4 DEF Decision!Decide, status
  <2> QED BY <1>1, <2>1 DEF Decision!Next
<1>5. ASSUME NEW v \in Verdict, v.decision \notin TERMINAL_DECISIONS,
             lastVerdict' = [lastVerdict EXCEPT ![c] = v],
             NEW s \in {"undecided", status[c]} \ {"none"}, status' = [status EXCEPT ![c] = s]
      PROVE  Decision!Next
  <2>1. Decision!Abstain(c, v)
    BY <1>1, <1>5 DEF Decision!Abstain, status
  <2> QED BY <1>1, <2>1 DEF Decision!Next
<1> QED BY <1>2, <1>3, <1>4, <1>5

\* A step on one row is one step of CaseDecision on it, or none.
LEMMA RowStepDecision ==
    ASSUME TypeOK, NEW c \in Case, RowStep(c)
    PROVE  Decision!Next \/ UNCHANGED <<status, lastVerdict>>
<1>0. RowsOK
  BY DEF TypeOK, RowsOK
<1>1. /\ Writes(c, state'[c])
      /\ state'[c] = "absent" => state[c] = "absent"
  BY RowStepState
<1>2. /\ status' = [status EXCEPT ![c] = Status(state'[c])]
      /\ status[c] = Status(state[c])
  BY <1>0, <1>1 DEF status, Writes, RowsOK
<1>3. CASE InsertedDraft(c)
  <2>1. PICK v \in Verdict :
           /\ state' = [state EXCEPT ![c] = IF v.decision \in TERMINAL_DECISIONS THEN "resolved" ELSE "queued"]
           /\ lastVerdict' = [lastVerdict EXCEPT ![c] = v]
    BY <1>3 DEF InsertedDraft
  <2>2. Status(state'[c]) = IF v.decision \in TERMINAL_DECISIONS THEN "decided" ELSE "undecided"
    BY <1>0, <2>1 DEF Status, RowsOK
  <2> QED BY <1>2, <2>1, <2>2, AbstractStep
<1>4. CASE Resolved(c)
  <2>1. PICK v \in Verdict, s \in RowState : VerdictEffect(c, v, s)
    BY <1>0, <1>4, ResolvedMeans
  <2>2. /\ state'[c] = s /\ state[c] # "absent"
        /\ lastVerdict' = [lastVerdict EXCEPT ![c] = v]
        /\ v.decision \in TERMINAL_DECISIONS => s = "resolved"
        /\ v.decision \notin TERMINAL_DECISIONS => s \in {"queued", state[c]}
    BY <1>0, <2>1 DEF VerdictEffect, RowsOK
  <2>3. /\ v.decision \in TERMINAL_DECISIONS => Status(s) = "decided"
        /\ v.decision \notin TERMINAL_DECISIONS => Status(s) \in {"undecided", status[c]} \ {"none"}
    BY <1>2, <2>2 DEF Status
  <2> QED BY <1>2, <2>2, <2>3, AbstractStep
<1>5. CASE ~InsertedDraft(c) /\ ~Resolved(c)
  <2>1. UNCHANGED lastVerdict
    BY <1>5 DEF RowStep, Inserted, Started, Queued, Marked, Claimed, Released, ReleaseRow,
                Expired, Parked, Park, Rescanned, Moves
  <2>2. state'[c] # state[c] => state'[c] \notin {"resolved", "absent"}
    <3> USE <1>0 DEF RowsOK
    <3>1. CASE Inserted(c) \/ Started(c) \/ Queued(c)
      BY <3>1 DEF Inserted, Started, Queued, Moves
    <3>2. CASE Marked(c) \/ Expired(c)
      BY <3>2 DEF Marked, Expired
    <3>3. CASE Claimed(c) \/ Released(c)
      BY <3>3 DEF Claimed, Released, ReleaseRow
    <3>4. CASE Parked(c) \/ Rescanned(c)
      BY <3>4 DEF Parked, Park, Rescanned
    <3> QED BY <1>5, <3>1, <3>2, <3>3, <3>4 DEF RowStep
  <2>3. CASE Status(state'[c]) = Status(state[c])
    BY <1>2, <2>1, <2>3 DEF status
  <2>4. CASE Status(state'[c]) # Status(state[c])
    <3>1. Status(state'[c]) = "undecided" /\ status[c] \in {"none", "decided"}
      BY <1>2, <2>2, <2>4 DEF Status
    <3> QED BY <1>2, <2>1, <3>1, AbstractStep
  <2> QED BY <2>3, <2>4
<1> QED BY <1>3, <1>4, <1>5

\* Whatever happens to a case inside the module, the world outside sees it
\* filed, decided by a closing verdict, abstained on or reopened, and no more.
THEOREM LifecycleImplementsDecision == Spec => ImplementsDecision
<1>1. Init => Decision!Init
  BY DEF Init, Decision!Init, Status, NoVerdict, Decision!NoVerdict
<1>2. TypeOK /\ InHand /\ [Next]_vars => [Decision!Next]_<<status, lastVerdict>>
  <2> SUFFICES ASSUME TypeOK, InHand, [Next]_vars
               PROVE  Decision!Next \/ UNCHANGED <<status, lastVerdict>>
    OBVIOUS
  <2>1. CASE UNCHANGED rows
    BY <2>1 DEF rows, status
  <2> QED BY <2>1, WritesOneRow, RowStepDecision
<1> QED BY <1>1, <1>2, TypeCorrect, PTL DEF Spec, ImplementsDecision, Decision!Spec, status

=============================================================================
