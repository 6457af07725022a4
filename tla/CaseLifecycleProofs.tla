------------------------ MODULE CaseLifecycleProofs -------------------------
(***************************************************************************)
(* Proofs about CaseLifecycle, for any sets of cases, moderators and tasks *)
(* and any settings.                                                       *)
(*                                                                         *)
(* The argument has two halves.  RowStep lists the few ways a row is ever  *)
(* written, one per service, and WritesOneRow shows that every step of the *)
(* specification writes at most one row, in one of these ways, whatever    *)
(* old copy its handler holds.  InHand says which rows the processes have  *)
(* in hand: only rows that exist.  Everything else is a property of        *)
(* RowStep.                                                                *)
(***************************************************************************)
EXTENDS CaseLifecycle, TLAPS

\* The conjuncts of TypeOK about the rows, and about the rest.
RowsOK ==
    /\ state \in [Case -> RowState]
    /\ claimedBy \in [Case -> Moderator \cup {NoOne}]
    /\ leaseLive \in [Case -> BOOLEAN]
    /\ dlqAt \in [Case -> BOOLEAN]
    /\ escalated \in [Case -> BOOLEAN]
    /\ rescreens \in [Case -> 0..RescreenCap]
    /\ resubmitted \in [Case -> BOOLEAN]
    /\ lastVerdict \in [Case -> Verdict \cup {NoVerdict}]

ProcsOK ==
    /\ gone \subseteq Target
    /\ task \in [Task -> TaskRecord]
    /\ view \in [Moderator -> ViewRecord]
    /\ sweep \in [JobKind -> SweepRecord]

\* A process that works on a case works on a row that exists; a job closes
\* drafts only, and approves only when the deployment asked for it.
InHand ==
    /\ \A t \in Task : task[t].phase # "free" =>
          task[t].case \in Case /\ state[task[t].case] # "absent"
    /\ \A m \in Moderator : view[m] # IdleView =>
          view[m].case \in Case /\ state[view[m].case] # "absent"
    /\ \A j \in JobKind : sweep[j].item # "idle" =>
          /\ sweep[j].case \in Case /\ state[sweep[j].case] # "absent"
          /\ sweep[j].item = "close" => sweep[j].case \in Draft
          /\ sweep[j].item = "auto" => AutoResolveStale

-----------------------------------------------------------------------------
(* The ways a row is written.                                              *)

\* A default verdict on c is declared by a setting, or its subject is gone.
Justified(c, v) ==
    v.source = "policy_default" =>
        \/ v.decision = "dismissed" /\ SubjectGone(c)
        \/ v.decision = "approved" /\ (AutoResolveStale \/ OnScreeningFailure = "approve")
        \/ v.decision = "rejected" /\ "reject" \in {OnScreeningFailure, OnScreeningUnavailable}

Moves(c, s) ==
    /\ state' = [state EXCEPT ![c] = s]
    /\ UNCHANGED <<claim, dlqAt, marks, lastVerdict>>

Inserted(c) ==
    /\ state[c] = "absent" /\ FreeForTarget(c)
    /\ \E s \in {"open", "screening", "queued"} : Moves(c, s)

InsertedDraft(c) ==
    /\ state[c] = "absent" /\ FreeForTarget(c)
    /\ \E v \in Verdict :
          /\ Justified(c, v)
          /\ state' = [state EXCEPT ![c] = IF v.decision \in TERMINAL_DECISIONS THEN "resolved" ELSE "queued"]
          /\ lastVerdict' = [lastVerdict EXCEPT ![c] = v]
    /\ UNCHANGED <<claim, dlqAt, marks>>

Started(c) ==
    /\ state[c] \in {"open", "screening"}
    /\ \E s \in {"screening", "queued"} : Moves(c, s)

Queued(c) == state[c] # "absent" /\ Storable(c, "queued") /\ Moves(c, "queued")

Marked(c) ==
    /\ UNCHANGED <<state, claim, dlqAt, lastVerdict>>
    /\ \/ \E b \in BOOLEAN : resubmitted' = [resubmitted EXCEPT ![c] = b] /\ UNCHANGED <<escalated, rescreens>>
       \/ CapSpent(c) /\ escalated' = [escalated EXCEPT ![c] = TRUE] /\ UNCHANGED <<rescreens, resubmitted>>
       \/ /\ ~CapSpent(c) /\ ~escalated[c]
          /\ rescreens' = [rescreens EXCEPT ![c] = @ + 1]
          /\ resubmitted' = [resubmitted EXCEPT ![c] = FALSE]
          /\ UNCHANGED escalated

Claimed(c) ==
    \E m \in Moderator :
        /\ state[c] \in {"queued", "claimed"} /\ ~HeldByAnother(c, m)
        /\ state' = [state EXCEPT ![c] = "claimed"]
        /\ claimedBy' = [claimedBy EXCEPT ![c] = m]
        /\ leaseLive' = [leaseLive EXCEPT ![c] = TRUE]
        /\ UNCHANGED <<dlqAt, marks, lastVerdict>>

Released(c) == state[c] = "claimed" /\ ReleaseRow(c)

Expired(c) ==
    /\ leaseLive[c]
    /\ leaseLive' = [leaseLive EXCEPT ![c] = FALSE]
    /\ UNCHANGED <<state, claimedBy, dlqAt, marks, lastVerdict>>

Resolved(c) ==
    \E mem \in RowState, v \in Verdict :
        state[c] # "absent" /\ CanResolve(c, mem, v.decision) /\ Justified(c, v) /\ Resolve(c, mem, v)

Parked(c) ==
    \E to \in {"queued", "dlq"} : state[c] # "absent" /\ CanPark(c, to) /\ Park(c, to)

Rescanned(c) ==
    /\ state[c] # "absent" /\ Storable(c, "queued")
    /\ \E s \in {"screening", "queued"} : state' = [state EXCEPT ![c] = s]
    /\ dlqAt' = [dlqAt EXCEPT ![c] = @ /\ state[c] # "dlq"]
    /\ ClearClaim(c)
    /\ UNCHANGED <<marks, lastVerdict>>

RowStep(c) ==
    \/ Inserted(c) \/ InsertedDraft(c) \/ Started(c) \/ Queued(c) \/ Marked(c)
    \/ Claimed(c) \/ Released(c) \/ Expired(c) \/ Resolved(c) \/ Parked(c) \/ Rescanned(c)

-----------------------------------------------------------------------------

\* TryResolve, with a justified verdict, is a way to write a row or writes none.
LEMMA TryResolveWrites ==
    ASSUME NEW c \in Case, NEW mem \in RowState, NEW v \in Verdict,
           state[c] # "absent", Justified(c, v), TryResolve(c, mem, v)
    PROVE  UNCHANGED rows \/ RowStep(c)
BY DEF TryResolve, RowStep, Resolved

\* The rescan of a row, without the task it starts.
LEMMA RescanWrites ==
    ASSUME NEW c \in Case, state[c] # "absent", RescanRow(c)
    PROVE  RowStep(c)
BY DEF RescanRow, StartScreening, RowStep, Rescanned

\* The intake steps write one row at most.
LEMMA IntakeWrites ==
    ASSUME TypeOK, IntakeStep
    PROVE  UNCHANGED rows \/ \E c \in Case : RowStep(c)
<1>1. ASSUME NEW c \in Case, Submit(c) PROVE RowStep(c)
  BY <1>1 DEF Submit, StartScreening, RowStep, Inserted, Moves
<1>2. ASSUME NEW c \in Case, SubmitOpened(c) PROVE RowStep(c)
  BY <1>2 DEF SubmitOpened, StartScreening, RowStep, Started, Moves
<1>3. ASSUME NEW c \in Case, Resubmit(c) PROVE RowStep(c)
  BY <1>3 DEF Resubmit, RowStep, Marked
<1>4. ASSUME NEW c \in Case, OpenManual(c) PROVE RowStep(c)
  BY <1>4 DEF OpenManual, RowStep, Inserted, Moves
<1>5. ASSUME NEW c \in Case, NEW v \in DraftVerdict, OpenDraft(c, v) PROVE RowStep(c)
  <2>1. v \in Verdict /\ Justified(c, v)
    <3>1. CASE v.source = "llm"
      <4>1. v \in [decision : ScreenerDecision, source : {"llm"}]
        BY <3>1 DEF DraftVerdict, Refusal
      <4> QED BY <4>1, DecisionAssumption DEF Verdict, VerdictSource, Justified
    <3>2. CASE v.source # "llm"
      <4>1. /\ v = [decision |-> "rejected", source |-> "policy_default"]
            /\ "reject" \in {OnScreeningFailure, OnScreeningUnavailable}
        BY <3>2 DEF DraftVerdict, Refusal
      <4> QED BY <4>1 DEF Verdict, VerdictDecision, VerdictSource, Justified
    <3> QED BY <3>1, <3>2
  <2>2. AfterVerdict("open", "open", v.decision) =
          IF v.decision \in TERMINAL_DECISIONS THEN "resolved" ELSE "queued"
    BY DEF AfterVerdict, Moved
  <2>3. InsertedDraft(c)
    BY <1>5, <2>1, <2>2 DEF OpenDraft, InsertedDraft
  <2> QED BY <2>3 DEF RowStep
<1>6. ASSUME NEW k \in Target, DeleteSubject(k) PROVE UNCHANGED rows
  BY <1>6 DEF DeleteSubject
<1> QED BY <1>1, <1>2, <1>3, <1>4, <1>5, <1>6 DEF IntakeStep

\* The moderators' steps write one row at most.
LEMMA ModeratorWrites ==
    ASSUME TypeOK, InHand, ModeratorStep
    PROVE  UNCHANGED rows \/ \E c \in Case : RowStep(c)
<1>1. ASSUME NEW m \in Moderator, NEW c \in Case, Claim(m, c) PROVE RowStep(c)
  BY <1>1 DEF Claim, RowStep, Claimed
<1>2. ASSUME NEW m \in Moderator, NEW c \in Case, Release(m, c) PROVE RowStep(c)
  BY <1>2 DEF Release, RowStep, Released
<1>3. ASSUME NEW m \in Moderator, NEW c \in Case, OpenVerdict(m, c) PROVE UNCHANGED rows
  BY <1>3 DEF OpenVerdict
<1>4. ASSUME NEW m \in Moderator, NEW d \in HumanDecision, GiveVerdict(m, d)
      PROVE  UNCHANGED rows \/ \E c \in Case : RowStep(c)
  <2> DEFINE c == view[m].case
             v == [decision |-> d, source |-> "human"]
  <2>1. c \in Case /\ state[c] # "absent"
    BY <1>4 DEF GiveVerdict, InHand
  <2>2. view[m].mem \in RowState
    BY DEF TypeOK, ViewRecord
  <2>3. v \in Verdict /\ Justified(c, v)
    BY DecisionAssumption DEF Verdict, VerdictSource, Justified
  <2>4. TryResolve(c, view[m].mem, v)
    BY <1>4 DEF GiveVerdict
  <2> QED BY <2>1, <2>2, <2>3, <2>4, TryResolveWrites
<1>5. ASSUME NEW c \in Case, Rescan(c) PROVE RowStep(c)
  BY <1>5, RescanWrites DEF Rescan
<1>6. ASSUME NEW c \in Case, LeaseExpires(c) PROVE RowStep(c)
  BY <1>6 DEF LeaseExpires, RowStep, Expired
<1> QED BY <1>1, <1>2, <1>3, <1>4, <1>5, <1>6 DEF ModeratorStep

\* So do the steps of one screening task and of its failure.
LEMMA TaskWrites ==
    ASSUME TypeOK, InHand, TaskStep
    PROVE  UNCHANGED rows \/ \E c \in Case : RowStep(c)
<1> SUFFICES ASSUME NEW t \in Task,
        \/ SkipScreening(t) \/ BeginScreening(t) \/ ScreenSubjectGone(t) \/ ReadContent(t)
        \/ ScreeningRaises(t) \/ TaskLost(t) \/ DeadlinePasses(t)
        \/ ScreenMediaUnavailable(t) \/ StampScreened(t)
        \/ \E d \in ScreenerDecision : ScreenerVerdict(t, d)
        \/ FailureReads(t) \/ FailureHolds(t) \/ FailureDecides(t)
        PROVE UNCHANGED rows \/ \E c \in Case : RowStep(c)
  BY DEF TaskStep
<1> DEFINE c == task[t].case
<1>0. task[t].phase # "free" => c \in Case /\ state[c] # "absent"
  BY DEF InHand
<1>m. task[t].mem \in RowState
  BY DEF TypeOK, TaskRecord
<1> HIDE DEF c
<1>1. CASE SkipScreening(t) \/ ReadContent(t) \/ ScreeningRaises(t) \/ TaskLost(t)
           \/ DeadlinePasses(t) \/ FailureReads(t)
  BY <1>1 DEF SkipScreening, ReadContent, ScreeningRaises, TaskLost, DeadlinePasses, FailureReads
<1>2. CASE BeginScreening(t)
  BY <1>0, <1>2 DEF BeginScreening, RowStep, Started, Moves, c
<1>3. CASE ScreenSubjectGone(t)
  <2> DEFINE v == [decision |-> "dismissed", source |-> "policy_default"]
  <2>1. v \in Verdict /\ Justified(c, v)
    BY <1>3 DEF Verdict, VerdictSource, VerdictDecision, Justified, ScreenSubjectGone, c
  <2>2. TryResolve(c, task[t].mem, v) /\ c \in Case /\ state[c] # "absent"
    BY <1>0, <1>3 DEF ScreenSubjectGone, c
  <2> QED BY <1>m, <2>1, <2>2, TryResolveWrites
<1>4. CASE ScreenMediaUnavailable(t)
  <2>1. c \in Case /\ state[c] # "absent"
    BY <1>0, <1>4 DEF ScreenMediaUnavailable
  <2> QED BY <2>1, <1>4 DEF ScreenMediaUnavailable, RowStep, Parked, c
<1>5. CASE StampScreened(t)
  <2>1. c \in Case /\ Marked(c)
    BY <1>0, <1>5 DEF StampScreened, Marked, c
  <2> QED BY <2>1 DEF RowStep
<1>6. ASSUME NEW d \in ScreenerDecision, ScreenerVerdict(t, d)
      PROVE  UNCHANGED rows \/ \E cc \in Case : RowStep(cc)
  <2> DEFINE v == [decision |-> d, source |-> "llm"]
  <2>1. v \in Verdict /\ Justified(c, v)
    BY DecisionAssumption DEF Verdict, VerdictSource, Justified
  <2>2. TryResolve(c, task[t].mem, v) /\ c \in Case /\ state[c] # "absent"
    BY <1>0, <1>6 DEF ScreenerVerdict, c
  <2> QED BY <1>m, <2>1, <2>2, TryResolveWrites
<1>7. CASE FailureHolds(t)
  <2>1. c \in Case /\ state[c] # "absent"
    BY <1>0, <1>7 DEF FailureHolds
  <2> QED BY <2>1, <1>7 DEF FailureHolds, RowStep, Parked, c
<1>8. CASE FailureDecides(t)
  <2> DEFINE v == [decision |-> FailureDecision, source |-> "policy_default"]
  <2>1. v \in Verdict /\ Justified(c, v)
    BY <1>8, SettingsAssumption
    DEF Verdict, VerdictSource, VerdictDecision, Justified, FailureDecides, FailureDecision
  <2>2. TryResolve(c, task[t].mem, v) /\ c \in Case /\ state[c] # "absent"
    BY <1>0, <1>8 DEF FailureDecides, c
  <2> QED BY <1>m, <2>1, <2>2, TryResolveWrites
<1> QED BY <1>1, <1>2, <1>3, <1>4, <1>5, <1>6, <1>7, <1>8

\* And the steps of the background jobs.
LEMMA JobWrites ==
    ASSUME TypeOK, InHand, JobStep
    PROVE  UNCHANGED rows \/ \E c \in Case : RowStep(c)
<1>1. ASSUME NEW c \in Case,
             \/ ListExpiredClaim(c) \/ ListRevokedClaim(c) \/ ListStalled(c) \/ ListAbandoned(c)
             \/ ProbeOrphan(c) \/ PickUnaddressable(c) \/ CommandReads(c)
      PROVE  UNCHANGED rows
  BY <1>1 DEF ListExpiredClaim, ListRevokedClaim, ListStalled, ListAbandoned, ProbeOrphan,
              PickUnaddressable, CommandReads
<1>2. ASSUME NEW c \in Case, Escalate(c) \/ SpendAttempt(c) PROVE RowStep(c)
  BY <1>2 DEF Escalate, SpendAttempt, Stuck, RowStep, Marked
<1>3. ASSUME NEW j \in Job, SweepRelease(j)
      PROVE  UNCHANGED rows \/ \E c \in Case : RowStep(c)
  <2> DEFINE c == sweep[j].case
  <2>1. c \in Case
    BY <1>3, NamesAssumption DEF SweepRelease, InHand
  <2> QED BY <1>3, <2>1 DEF SweepRelease, RowStep, Released
<1>4. ASSUME NEW j \in Job, SweepClose(j)
      PROVE  UNCHANGED rows \/ \E c \in Case : RowStep(c)
  <2> DEFINE c == sweep[j].case
             v == [decision |-> "dismissed", source |-> "policy_default"]
  <2>0. j \in JobKind
    BY NamesAssumption
  <2>1. c \in Draft /\ c \in Case /\ state[c] # "absent"
    BY <1>4, <2>0 DEF SweepClose, InHand
  <2>2. sweep[j].mem \in RowState
    BY <2>0 DEF TypeOK, SweepRecord
  <2>3. v \in Verdict /\ Justified(c, v)
    BY <2>1 DEF Verdict, VerdictSource, VerdictDecision, Justified, SubjectGone
  <2>4. TryResolve(c, sweep[j].mem, v)
    BY <1>4 DEF SweepClose
  <2> QED BY <2>1, <2>2, <2>3, <2>4, TryResolveWrites
<1>5. ASSUME SweepQueue PROVE UNCHANGED rows \/ \E c \in Case : RowStep(c)
  <2> DEFINE c == sweep["stale"].case
  <2>1. c \in Case /\ state[c] # "absent"
    BY <1>5 DEF SweepQueue, InHand, JobKind
  <2> QED BY <1>5, <2>1 DEF SweepQueue, RowStep, Queued, Moves
<1>6. ASSUME SweepApprove PROVE UNCHANGED rows \/ \E c \in Case : RowStep(c)
  <2> DEFINE c == sweep["stale"].case
             v == [decision |-> "approved", source |-> "policy_default"]
  <2>1. c \in Case /\ state[c] # "absent" /\ AutoResolveStale
    BY <1>6 DEF SweepApprove, InHand, JobKind
  <2>2. sweep["stale"].mem \in RowState
    BY DEF TypeOK, SweepRecord, JobKind
  <2>3. v \in Verdict /\ Justified(c, v)
    BY <2>1 DEF Verdict, VerdictSource, VerdictDecision, Justified
  <2>4. TryResolve(c, sweep["stale"].mem, v)
    BY <1>6 DEF SweepApprove
  <2> QED BY <2>1, <2>2, <2>3, <2>4, TryResolveWrites
<1>7. ASSUME OrphanAnswered PROVE UNCHANGED rows \/ \E c \in Case : RowStep(c)
  <2> DEFINE c == sweep["orphan"].case
             v == [decision |-> "dismissed", source |-> "policy_default"]
  <2>1. c \in Case /\ state[c] # "absent"
    BY <1>7 DEF OrphanAnswered, InHand, JobKind
  <2>2. sweep["orphan"].mem \in RowState
    BY DEF TypeOK, SweepRecord, JobKind
  <2>3. CASE SubjectGone(c) /\ TryResolve(c, sweep["orphan"].mem, v)
    <3>1. v \in Verdict /\ Justified(c, v)
      BY <2>3 DEF Verdict, VerdictSource, VerdictDecision, Justified
    <3> QED BY <2>1, <2>2, <2>3, <3>1, TryResolveWrites
  <2> QED BY <1>7, <2>3 DEF OrphanAnswered
<1>8. ASSUME SweepRescan PROVE UNCHANGED rows \/ \E c \in Case : RowStep(c)
  <2>1. sweep["rescreen"].case \in Case /\ state[sweep["rescreen"].case] # "absent"
    BY <1>8 DEF SweepRescan, InHand, JobKind
  <2> QED BY <1>8, <2>1, RescanWrites DEF SweepRescan
<1> QED BY <1>1, <1>2, <1>3, <1>4, <1>5, <1>6, <1>7, <1>8 DEF JobStep

\* Every step writes one row at most, through one of the services.
LEMMA WritesOneRow ==
    ASSUME TypeOK, InHand, [Next]_vars
    PROVE  UNCHANGED rows \/ \E c \in Case : RowStep(c)
BY IntakeWrites, ModeratorWrites, TaskWrites, JobWrites DEF Next, vars

-----------------------------------------------------------------------------
(* Types, and what the processes have in hand.                             *)

LEMMA InitOK == Init => TypeOK /\ InHand
BY SettingsAssumption, NamesAssumption
DEF Init, TypeOK, InHand, RowState, TaskRecord, FreeTask, TaskPhase, ViewRecord, IdleView,
    SweepRecord, SweepItem, IdleSweep

\* What a verdict does to its row, without the memory it was computed from: a
\* closing one resolves it and clears the claim; an abstention queues it or
\* leaves it where it is, and leaves the claim.
VerdictEffect(c, v, s) ==
    /\ state[c] # "absent" /\ Storable(c, s) /\ Justified(c, v)
    /\ state' = [state EXCEPT ![c] = s]
    /\ lastVerdict' = [lastVerdict EXCEPT ![c] = v]
    /\ v.decision \in TERMINAL_DECISIONS => s = "resolved" /\ ClearClaim(c)
    /\ v.decision \notin TERMINAL_DECISIONS => s \in {"queued", state[c]} /\ UNCHANGED claim
    /\ UNCHANGED <<dlqAt, marks>>

LEMMA ResolvedMeans ==
    ASSUME RowsOK, NEW c \in Case, Resolved(c)
    PROVE  \E v \in Verdict, s \in RowState : VerdictEffect(c, v, s)
<1>1. PICK mem \in RowState, v \in Verdict :
          state[c] # "absent" /\ CanResolve(c, mem, v.decision) /\ Justified(c, v) /\ Resolve(c, mem, v)
  BY DEF Resolved
<1> DEFINE s == AfterVerdict(mem, state[c], v.decision)
<1>2. s \in RowState
  BY DEF AfterVerdict, Moved, RowsOK, RowState, CaseState
<1>3. v.decision \in TERMINAL_DECISIONS => s = "resolved"
  BY DEF AfterVerdict
<1>4. v.decision \notin TERMINAL_DECISIONS => s \in {"queued", state[c]}
  BY DEF AfterVerdict, Moved
<1>5. /\ state' = [state EXCEPT ![c] = s]
      /\ Storable(c, s)
  BY <1>1 DEF Resolve, CanResolve
<1> HIDE DEF s
<1>6. VerdictEffect(c, v, s)
  BY <1>1, <1>3, <1>4, <1>5 DEF Resolve, VerdictEffect
<1> QED BY <1>2, <1>6

\* A row that is written keeps its types, and no row ever disappears.
LEMMA RowStepOK ==
    ASSUME RowsOK, NEW c \in Case, RowStep(c)
    PROVE  RowsOK' /\ \A d \in Case : state[d] # "absent" => state'[d] # "absent"
<1> USE DEF RowsOK, RowState, CaseState
<1>1. CASE Inserted(c)
  BY <1>1 DEF Inserted, Moves, claim, marks
<1>2. CASE InsertedDraft(c)
  BY <1>2 DEF InsertedDraft, claim, marks
<1>3. CASE Started(c)
  BY <1>3 DEF Started, Moves, claim, marks
<1>4. CASE Queued(c)
  BY <1>4 DEF Queued, Moves, claim, marks
<1>5. CASE Marked(c)
  <2>1. UNCHANGED <<state, claimedBy, leaseLive, dlqAt, lastVerdict>>
    BY <1>5 DEF Marked, claim
  <2>2. resubmitted' \in [Case -> BOOLEAN] /\ escalated' \in [Case -> BOOLEAN]
    BY <1>5 DEF Marked
  <2>3. rescreens' \in [Case -> 0..RescreenCap]
    <3>1. CASE UNCHANGED rescreens
      BY <3>1
    <3>2. CASE ~CapSpent(c) /\ rescreens' = [rescreens EXCEPT ![c] = @ + 1]
      <4>1. rescreens[c] + 1 \in 0..RescreenCap
        BY <3>2, SettingsAssumption DEF CapSpent
      <4> QED BY <3>2, <4>1
    <3> QED BY <1>5, <3>1, <3>2 DEF Marked
  <2> QED BY <2>1, <2>2, <2>3
<1>6. CASE Claimed(c)
  BY <1>6 DEF Claimed, marks
<1>7. CASE Released(c)
  BY <1>7 DEF Released, ReleaseRow, ClearClaim, marks
<1>8. CASE Expired(c)
  BY <1>8 DEF Expired, marks
<1>9. CASE Resolved(c)
  <2>1. PICK v \in Verdict, s \in RowState : VerdictEffect(c, v, s)
    BY <1>9, ResolvedMeans
  <2>2. s # "absent"
    BY <2>1 DEF VerdictEffect, TERMINAL_DECISIONS
  <2>3. /\ claimedBy' \in [Case -> Moderator \cup {NoOne}]
        /\ leaseLive' \in [Case -> BOOLEAN]
    BY <2>1 DEF VerdictEffect, ClearClaim, claim
  <2> QED BY <2>1, <2>2, <2>3 DEF VerdictEffect, marks
<1>10. CASE Parked(c)
  BY <1>10 DEF Parked, Park, ClearClaim, marks
<1>11. CASE Rescanned(c)
  BY <1>11 DEF Rescanned, ClearClaim, marks
<1> QED BY <1>1, <1>2, <1>3, <1>4, <1>5, <1>6, <1>7, <1>8, <1>9, <1>10, <1>11 DEF RowStep

\* The same of any step.
LEMMA RowsStepOK ==
    ASSUME TypeOK, InHand, [Next]_vars
    PROVE  RowsOK' /\ \A d \in Case : state[d] # "absent" => state'[d] # "absent"
<1>1. RowsOK
  BY DEF TypeOK, RowsOK
<1>2. CASE UNCHANGED rows
  BY <1>1, <1>2 DEF RowsOK, rows, claim, marks
<1> QED BY <1>1, <1>2, WritesOneRow, RowStepOK

\* What a step may put into a process: its record has the type, and if it works
\* on a case, on one whose row exists before or after the step.
Kept(c) == c \in Case /\ (state[c] # "absent" \/ state'[c] # "absent")

GoodTasks ==
    /\ task' \in [Task -> TaskRecord]
    /\ \A t \in Task : task'[t].phase # "free" => Kept(task'[t].case)

GoodViews ==
    /\ view' \in [Moderator -> ViewRecord]
    /\ \A m \in Moderator : view'[m] # IdleView => Kept(view'[m].case)

GoodSweeps ==
    /\ sweep' \in [JobKind -> SweepRecord]
    /\ \A j \in JobKind : sweep'[j].item # "idle" =>
          /\ Kept(sweep'[j].case)
          /\ sweep'[j].item = "close" => sweep'[j].case \in Draft
          /\ sweep'[j].item = "auto" => AutoResolveStale

LEMMA SameTasks == ASSUME TypeOK, InHand, UNCHANGED task PROVE GoodTasks
BY DEF TypeOK, InHand, GoodTasks, Kept

LEMMA SameViews == ASSUME TypeOK, InHand, UNCHANGED view PROVE GoodViews
BY DEF TypeOK, InHand, GoodViews, Kept

LEMMA SameSweeps == ASSUME TypeOK, InHand, UNCHANGED sweep PROVE GoodSweeps
BY DEF TypeOK, InHand, GoodSweeps, Kept

\* Replacing the record of one task, freed or still on its case.
LEMMA SetTaskGood ==
    ASSUME TypeOK, InHand, NEW t \in Task, NEW r \in TaskRecord, SetTask(t, r),
           r.phase # "free" => Kept(r.case)
    PROVE  GoodTasks
BY DEF TypeOK, InHand, GoodTasks, Kept, SetTask

\* A job takes a row that exists, or puts down the one it had.
LEMMA TakeGood ==
    ASSUME TypeOK, InHand, NEW j, NEW kind \in SweepItem, NEW c \in Case, NEW mem \in RowState,
           Take(j, kind, c, mem), state[c] # "absent",
           kind = "close" => c \in Draft, kind = "auto" => AutoResolveStale
    PROVE  GoodSweeps
<1>1. [item |-> kind, case |-> c, mem |-> mem] \in SweepRecord
  BY DEF SweepRecord
<1> QED BY <1>1 DEF Take, SetSweep, TypeOK, InHand, GoodSweeps, Kept

LEMMA FinishGood ==
    ASSUME TypeOK, InHand, NEW j, Finish(j)
    PROVE  GoodSweeps
<1>1. IdleSweep \in SweepRecord /\ IdleSweep.item = "idle"
  BY DEF IdleSweep, SweepRecord, SweepItem, RowState
<1> QED BY <1>1 DEF Finish, SetSweep, TypeOK, InHand, GoodSweeps, Kept

\* The screening that a start requests works on the case it was started for.
LEMMA StartGood ==
    ASSUME TypeOK, InHand, NEW c \in Case, StartScreening(c)
    PROVE  GoodTasks
<1>1. CASE UNCHANGED task
  BY <1>1, SameTasks
<1>2. ASSUME NEW t \in Task, ScreenEnabled, task' = [task EXCEPT ![t] = Requested(c, 1)]
      PROVE  GoodTasks
  <2>1. Requested(c, 1) \in TaskRecord
    <3>1. FreeTask \in TaskRecord
      BY SettingsAssumption DEF FreeTask, TaskRecord, TaskPhase, RowState
    <3>2. 1 \in 0..MaxAttempts /\ "requested" \in TaskPhase
      BY SettingsAssumption DEF TaskPhase
    <3> QED BY <3>1, <3>2 DEF Requested, TaskRecord
  <2>2. Kept(c)
    BY <1>2 DEF StartScreening, TypeOK, Kept, RowState, CaseState
  <2>3. Requested(c, 1).case = c
    BY DEF Requested, FreeTask
  <2> QED BY <1>2, <2>1, <2>2, <2>3, SetTaskGood DEF SetTask
<1> QED BY <1>1, <1>2 DEF StartScreening

LEMMA IntakeGood == ASSUME TypeOK, InHand, IntakeStep PROVE GoodTasks /\ GoodViews /\ GoodSweeps
<1>1. ASSUME NEW c \in Case, Submit(c) \/ SubmitOpened(c) PROVE GoodTasks /\ GoodViews /\ GoodSweeps
  BY <1>1, StartGood, SameViews, SameSweeps DEF Submit, SubmitOpened
<1>2. ASSUME NEW c \in Case, Resubmit(c) PROVE GoodTasks /\ GoodViews /\ GoodSweeps
  <2>1. \A r \in TaskRecord : [r EXCEPT !.late = TRUE] \in TaskRecord
    BY DEF TaskRecord
  <2>2. \A t \in Task : /\ task'[t] \in TaskRecord
                         /\ task'[t].phase = task[t].phase /\ task'[t].case = task[t].case
    BY <1>2, <2>1 DEF Resubmit, TypeOK, TaskRecord
  <2>3. GoodTasks
    BY <1>2, <2>2 DEF Resubmit, GoodTasks, InHand, Kept
  <2> QED BY <1>2, <2>3, SameViews, SameSweeps DEF Resubmit
<1>3. ASSUME NEW c \in Case, OpenManual(c) \/ \E v \in DraftVerdict : OpenDraft(c, v)
      PROVE  GoodTasks /\ GoodViews /\ GoodSweeps
  BY <1>3, SameTasks, SameViews, SameSweeps DEF OpenManual, OpenDraft, procs
<1>4. ASSUME NEW k \in Target, DeleteSubject(k) PROVE GoodTasks /\ GoodViews /\ GoodSweeps
  BY <1>4, SameTasks, SameViews, SameSweeps DEF DeleteSubject, procs
<1> QED BY <1>1, <1>2, <1>3, <1>4 DEF IntakeStep

LEMMA ModeratorGood == ASSUME TypeOK, InHand, ModeratorStep PROVE GoodTasks /\ GoodViews /\ GoodSweeps
<1>1. ASSUME NEW m \in Moderator, NEW c \in Case, Claim(m, c) \/ Release(m, c) \/ LeaseExpires(c)
      PROVE  GoodTasks /\ GoodViews /\ GoodSweeps
  BY <1>1, SameTasks, SameViews, SameSweeps DEF Claim, Release, LeaseExpires, procs
<1>2. ASSUME NEW m \in Moderator, NEW c \in Case, OpenVerdict(m, c)
      PROVE  GoodTasks /\ GoodViews /\ GoodSweeps
  <2>1. [case |-> c, mem |-> state[c]] \in ViewRecord
    BY DEF TypeOK, ViewRecord
  <2>2. GoodViews
    BY <1>2, <2>1 DEF OpenVerdict, TypeOK, InHand, GoodViews, Kept
  <2> QED BY <1>2, <2>2, SameTasks, SameSweeps DEF OpenVerdict
<1>3. ASSUME NEW m \in Moderator, NEW d \in HumanDecision, GiveVerdict(m, d)
      PROVE  GoodTasks /\ GoodViews /\ GoodSweeps
  <2>1. IdleView \in ViewRecord
    BY DEF IdleView, ViewRecord, RowState
  <2>2. GoodViews
    BY <1>3, <2>1 DEF GiveVerdict, TypeOK, InHand, GoodViews, Kept
  <2> QED BY <1>3, <2>2, SameTasks, SameSweeps DEF GiveVerdict
<1>4. ASSUME NEW c \in Case, Rescan(c) PROVE GoodTasks /\ GoodViews /\ GoodSweeps
  BY <1>4, StartGood, SameViews, SameSweeps DEF Rescan, RescanRow
<1>5. ASSUME NEW c \in Case, LeaseExpires(c) PROVE GoodTasks /\ GoodViews /\ GoodSweeps
  BY <1>5, SameTasks, SameViews, SameSweeps DEF LeaseExpires, procs
<1> QED BY <1>1, <1>2, <1>3, <1>4, <1>5 DEF ModeratorStep

\* The records a task goes through.
LEMMA TaskRecords ==
    ASSUME TypeOK, InHand, NEW t \in Task, task[t].phase # "free"
    PROVE  /\ Kept(task[t].case)
           /\ FreeTask \in TaskRecord /\ FreeTask.phase = "free"
           /\ ParkedTask(t) \in TaskRecord /\ ParkedTask(t).case = task[t].case
           /\ task[t].attempts < MaxAttempts =>
                 /\ Requested(task[t].case, task[t].attempts + 1) \in TaskRecord
                 /\ Requested(task[t].case, task[t].attempts + 1).case = task[t].case
           /\ \A p \in TaskPhase, mem \in RowState :
                 /\ [task[t] EXCEPT !.phase = p] \in TaskRecord
                 /\ [task[t] EXCEPT !.phase = p].case = task[t].case
                 /\ [task[t] EXCEPT !.phase = p, !.mem = mem] \in TaskRecord
                 /\ [task[t] EXCEPT !.phase = p, !.mem = mem].case = task[t].case
<1>1. task[t] \in TaskRecord
  BY DEF TypeOK
<1>2. Kept(task[t].case)
  BY DEF InHand, Kept
<1>3. FreeTask \in TaskRecord /\ FreeTask.phase = "free"
  BY SettingsAssumption DEF FreeTask, TaskRecord, TaskPhase, RowState
<1>4. ParkedTask(t) \in TaskRecord /\ ParkedTask(t).case = task[t].case
  BY <1>1 DEF ParkedTask, Requested, FreeTask, TaskRecord, TaskPhase, RowState
<1>5. ASSUME task[t].attempts < MaxAttempts
      PROVE  /\ Requested(task[t].case, task[t].attempts + 1) \in TaskRecord
             /\ Requested(task[t].case, task[t].attempts + 1).case = task[t].case
  <2>1. task[t].attempts + 1 \in 0..MaxAttempts
    BY <1>1, <1>5, SettingsAssumption DEF TaskRecord
  <2> QED BY <1>1, <2>1 DEF Requested, FreeTask, TaskRecord, TaskPhase, RowState
<1>6. ASSUME NEW p \in TaskPhase, NEW mem \in RowState
      PROVE  /\ [task[t] EXCEPT !.phase = p] \in TaskRecord
             /\ [task[t] EXCEPT !.phase = p].case = task[t].case
             /\ [task[t] EXCEPT !.phase = p, !.mem = mem] \in TaskRecord
             /\ [task[t] EXCEPT !.phase = p, !.mem = mem].case = task[t].case
  BY <1>1 DEF TaskRecord
<1> QED BY <1>2, <1>3, <1>4, <1>5, <1>6

\* Ending a task, or failing an attempt of it.
LEMMA DoneOrRaisedGood ==
    ASSUME TypeOK, InHand, NEW t \in Task, task[t].phase # "free", Done(t) \/ Raised(t)
    PROVE  GoodTasks
<1>1. CASE Done(t)
  BY <1>1, TaskRecords, SetTaskGood DEF Done
<1>2. CASE Raised(t)
  <2>1. PICK r \in TaskRecord : SetTask(t, r) /\ r.case = task[t].case
    BY <1>2, TaskRecords DEF Raised
  <2> QED BY <2>1, TaskRecords, SetTaskGood
<1> QED BY <1>1, <1>2

LEMMA TaskGood == ASSUME TypeOK, InHand, TaskStep PROVE GoodTasks /\ GoodViews /\ GoodSweeps
<1>1. ASSUME NEW t \in Task,
        \/ SkipScreening(t) \/ ScreenSubjectGone(t) \/ ScreeningRaises(t) \/ TaskLost(t)
        \/ ScreenMediaUnavailable(t) \/ (\E d \in ScreenerDecision : ScreenerVerdict(t, d))
        \/ FailureDecides(t)
      PROVE GoodTasks /\ GoodViews /\ GoodSweeps
  <2>1. task[t].phase # "free" /\ (Done(t) \/ Raised(t))
    BY <1>1 DEF SkipScreening, ScreenSubjectGone, ScreeningRaises, TaskLost,
                ScreenMediaUnavailable, ScreenerVerdict, FailureDecides
  <2>2. UNCHANGED <<view, sweep>>
    BY <1>1 DEF SkipScreening, ScreenSubjectGone, ScreeningRaises, TaskLost,
                ScreenMediaUnavailable, ScreenerVerdict, FailureDecides
  <2> QED BY <2>1, <2>2, DoneOrRaisedGood, SameViews, SameSweeps
<1>2. ASSUME NEW t \in Task,
        \/ BeginScreening(t) \/ ReadContent(t) \/ DeadlinePasses(t) \/ StampScreened(t)
        \/ FailureReads(t) \/ FailureHolds(t)
      PROVE GoodTasks /\ GoodViews /\ GoodSweeps
  <2>1. task[t].phase # "free" /\ UNCHANGED <<view, sweep>>
    BY <1>2 DEF BeginScreening, ReadContent, DeadlinePasses, StampScreened, FailureReads, FailureHolds
  <2>2. Done(t) \/ \E r \in TaskRecord : SetTask(t, r) /\ r.case = task[t].case
    <3>0. {"begun", "read", "screened", "failing"} \subseteq TaskPhase /\ "screening" \in RowState
      BY DEF TaskPhase, RowState, CaseState
    <3>1. CASE BeginScreening(t)
      BY <3>0, <3>1, <2>1, TaskRecords DEF BeginScreening
    <3>2. CASE ReadContent(t)
      BY <3>0, <3>2, <2>1, TaskRecords DEF ReadContent
    <3>3. CASE DeadlinePasses(t)
      BY <3>3, <2>1, TaskRecords DEF DeadlinePasses
    <3>4. CASE StampScreened(t) \/ FailureReads(t)
      <4> DEFINE mem == state[task[t].case]
      <4>1. mem \in RowState
        BY <2>1 DEF TypeOK, InHand
      <4>2. \A p \in TaskPhase : LET r == [task[t] EXCEPT !.phase = p, !.mem = mem]
                                IN  r \in TaskRecord /\ r.case = task[t].case
        BY <2>1, <4>1, TaskRecords
      <4>3. CASE StampScreened(t)
        BY <3>0, <4>2, <4>3 DEF StampScreened
      <4>4. CASE FailureReads(t)
        BY <3>0, <4>2, <4>4 DEF FailureReads
      <4> QED BY <3>4, <4>3, <4>4
    <3>5. CASE FailureHolds(t)
      BY <3>5, <2>1, TaskRecords DEF FailureHolds
    <3> QED BY <1>2, <3>1, <3>2, <3>3, <3>4, <3>5
  <2>3. GoodTasks
    BY <2>1, <2>2, TaskRecords, DoneOrRaisedGood, SetTaskGood
  <2> QED BY <2>1, <2>3, SameViews, SameSweeps
<1> QED BY <1>1, <1>2 DEF TaskStep

LEMMA JobGood == ASSUME TypeOK, InHand, JobStep PROVE GoodTasks /\ GoodViews /\ GoodSweeps
<1>1. ASSUME NEW c \in Case,
             \/ ListExpiredClaim(c) \/ ListRevokedClaim(c) \/ ListStalled(c) \/ ListAbandoned(c)
             \/ ProbeOrphan(c) \/ PickUnaddressable(c) \/ SpendAttempt(c) \/ CommandReads(c)
      PROVE  GoodTasks /\ GoodViews /\ GoodSweeps
  <2>1. UNCHANGED <<task, view>> /\ state[c] # "absent"
    BY <1>1 DEF ListExpiredClaim, ListRevokedClaim, ListStalled, ListAbandoned, ProbeOrphan,
                PickUnaddressable, SpendAttempt, CommandReads, Stuck, Sweepable
  <2>2. \E j \in JobKind, kind \in SweepItem :
            /\ Take(j, kind, c, state[c])
            /\ kind = "close" => c \in Draft
            /\ kind = "auto" => AutoResolveStale
    BY <1>1 DEF ListExpiredClaim, ListRevokedClaim, ListStalled, ListAbandoned, ProbeOrphan,
                PickUnaddressable, SpendAttempt, CommandReads, JobKind, SweepItem
  <2>3. state[c] \in RowState
    BY DEF TypeOK
  <2> QED BY <2>1, <2>2, <2>3, TakeGood, SameTasks, SameViews
<1>2. ASSUME NEW c \in Case, Escalate(c) PROVE GoodTasks /\ GoodViews /\ GoodSweeps
  BY <1>2, SameTasks, SameViews, SameSweeps DEF Escalate, procs
<1>3. ASSUME NEW j \in Job, SweepRelease(j) \/ SweepClose(j) PROVE GoodTasks /\ GoodViews /\ GoodSweeps
  BY <1>3, FinishGood, SameTasks, SameViews DEF SweepRelease, SweepClose
<1>4. ASSUME SweepQueue \/ SweepApprove \/ OrphanAnswered PROVE GoodTasks /\ GoodViews /\ GoodSweeps
  BY <1>4, FinishGood, SameTasks, SameViews DEF SweepQueue, SweepApprove, OrphanAnswered
<1>5. ASSUME SweepRescan PROVE GoodTasks /\ GoodViews /\ GoodSweeps
  <2>1. sweep["rescreen"].case \in Case
    BY <1>5 DEF SweepRescan, InHand, JobKind
  <2>2. GoodTasks
    BY <1>5, <2>1, StartGood, SameTasks DEF SweepRescan, RescanRow
  <2> QED BY <1>5, <2>2, FinishGood, SameViews DEF SweepRescan
<1> QED BY <1>1, <1>2, <1>3, <1>4, <1>5 DEF JobStep

-----------------------------------------------------------------------------
(* Theorems.                                                               *)

\* TypeOK and InHand are inductive together.
LEMMA HandStep ==
    ASSUME TypeOK, InHand, [Next]_vars
    PROVE  TypeOK' /\ InHand' /\ gone \subseteq gone'
<1>1. RowsOK' /\ \A d \in Case : state[d] # "absent" => state'[d] # "absent"
  BY RowsStepOK
<1>2. GoodTasks /\ GoodViews /\ GoodSweeps
  <2>1. CASE UNCHANGED vars
    BY <2>1, SameTasks, SameViews, SameSweeps DEF vars, procs
  <2> QED BY <2>1, IntakeGood, ModeratorGood, TaskGood, JobGood DEF Next
<1>3. gone \subseteq gone' /\ gone' \subseteq Target
  <2>1. gone \subseteq Target
    BY DEF TypeOK
  <2>2. CASE UNCHANGED gone
    BY <2>1, <2>2
  <2>3. ASSUME NEW k \in Target, DeleteSubject(k) PROVE gone \subseteq gone' /\ gone' \subseteq Target
    BY <2>1, <2>3 DEF DeleteSubject
  <2>4. IntakeStep => UNCHANGED gone \/ \E k \in Target : DeleteSubject(k)
    BY DEF IntakeStep, Submit, SubmitOpened, Resubmit, OpenManual, OpenDraft
  <2>5. ModeratorStep => UNCHANGED gone
    BY DEF ModeratorStep, Claim, Release, OpenVerdict, GiveVerdict, Rescan, LeaseExpires
  <2>6. TaskStep => UNCHANGED gone
    BY DEF TaskStep, SkipScreening, BeginScreening, ScreenSubjectGone, ReadContent, ScreeningRaises,
           TaskLost, DeadlinePasses, ScreenMediaUnavailable, StampScreened, ScreenerVerdict,
           FailureReads, FailureHolds, FailureDecides
  <2>7. JobStep => UNCHANGED gone
    BY DEF JobStep, ListExpiredClaim, ListRevokedClaim, ListStalled, ListAbandoned, ProbeOrphan,
           PickUnaddressable, Escalate, SpendAttempt, CommandReads, SweepRelease, SweepClose,
           SweepQueue, SweepApprove, OrphanAnswered, SweepRescan
  <2> QED BY <2>2, <2>3, <2>4, <2>5, <2>6, <2>7 DEF Next, vars
<1>4. TypeOK'
  BY <1>1, <1>2, <1>3 DEF TypeOK, RowsOK, GoodTasks, GoodViews, GoodSweeps
<1>5. InHand'
  BY <1>1, <1>2 DEF InHand, GoodTasks, GoodViews, GoodSweeps, Kept
<1> QED BY <1>3, <1>4, <1>5

\* Every variable keeps its type, and no process works on a row that does not
\* exist, whatever the sets and settings are.
THEOREM TypeCorrect == Spec => [](TypeOK /\ InHand)
<1>1. TypeOK /\ InHand /\ [Next]_vars => (TypeOK /\ InHand)'
  BY HandStep
<1> QED BY <1>1, InitOK, PTL DEF Spec

\* The transition table, as far as RowStep uses it.
LEMMA Edges ==
    /\ \A s \in CaseState : Allowed(s, "resolved") /\ Allowed(s, "queued")
    /\ Allowed("open", "screening") /\ Allowed("queued", "screening")
    /\ Allowed("queued", "claimed")
    /\ \A s \in CaseState : Allowed(s, "dlq") => s \in {"screening", "queued", "dlq"}
    /\ \A s \in RowState : Allowed(s, s)
BY DEF Allowed, CaseState, CASE_TRANSITIONS

\* One row, one edge.
LEMMA RowStepEdge ==
    ASSUME TypeOK, NEW c \in Case, RowStep(c)
    PROVE  \A d \in Case : DeclaredEdge(state[d], state'[d])
<1>1. RowsOK /\ state \in [Case -> RowState]
  BY DEF TypeOK, RowsOK
<1>2. SUFFICES /\ \E s : state' = [state EXCEPT ![c] = s]
               /\ DeclaredEdge(state[c], state'[c])
  BY <1>1, Edges DEF DeclaredEdge
<1> USE DEF RowState
<1>3. CASE Inserted(c) \/ InsertedDraft(c)
  BY <1>1, <1>3 DEF Inserted, InsertedDraft, Moves, DeclaredEdge
<1>4. CASE Started(c) \/ Queued(c) \/ Rescanned(c)
  BY <1>1, <1>4, Edges DEF Started, Queued, Rescanned, Moves, DeclaredEdge, CaseState
<1>5. CASE Marked(c) \/ Expired(c)
  BY <1>1, <1>5, Edges DEF Marked, Expired, DeclaredEdge
<1>6. CASE Claimed(c) \/ Released(c)
  BY <1>1, <1>6, Edges DEF Claimed, Released, ReleaseRow, DeclaredEdge, CaseState
<1>7. CASE Resolved(c)
  <2>1. PICK v \in Verdict, s \in RowState : VerdictEffect(c, v, s)
    BY <1>1, <1>7, ResolvedMeans
  <2>2. s \in {"resolved", "queued", state[c]}
    BY <2>1 DEF VerdictEffect
  <2> QED BY <1>1, <2>1, <2>2, Edges DEF VerdictEffect, DeclaredEdge
<1>8. CASE Parked(c)
  BY <1>1, <1>8 DEF Parked, CanPark, Park, DeclaredEdge
<1> QED BY <1>3, <1>4, <1>5, <1>6, <1>7, <1>8 DEF RowStep

\* No committed step takes an edge the transition table does not have.
THEOREM EdgesAreDeclared == Spec => DeclaredEdges
<1>1. TypeOK /\ InHand /\ [Next]_vars => [\A c \in Case : DeclaredEdge(state[c], state'[c])]_vars
  <2> SUFFICES ASSUME TypeOK, InHand, [Next]_vars
               PROVE  \A c \in Case : DeclaredEdge(state[c], state'[c])
    OBVIOUS
  <2>1. CASE UNCHANGED rows
    BY <2>1, Edges DEF rows, DeclaredEdge, TypeOK
  <2> QED BY <2>1, WritesOneRow, RowStepEdge
<1> QED BY <1>1, TypeCorrect, PTL DEF Spec, DeclaredEdges

\* Only row c changes, and how its claim does.
LEMMA RowStepLease ==
    ASSUME TypeOK, LeaseMatchesState, NEW c \in Case, RowStep(c)
    PROVE  /\ LeaseMatchesState'
           /\ \A d \in Case : leaseLive[d] /\ claimedBy'[d] # claimedBy[d] => claimedBy'[d] = NoOne
<1> DEFINE LeaseOK(s, m, l) == /\ s = "claimed" => m # NoOne
                               /\ l => m # NoOne
                               /\ m # NoOne => s \in HUMAN_QUEUE_STATES
<1>0. /\ RowsOK
      /\ \A d \in Case : LeaseOK(state[d], claimedBy[d], leaseLive[d])
  BY DEF TypeOK, RowsOK, LeaseMatchesState
<1> SUFFICES /\ \A d \in Case \ {c} : /\ state'[d] = state[d] /\ claimedBy'[d] = claimedBy[d]
                                      /\ leaseLive'[d] = leaseLive[d]
             /\ LeaseOK(state'[c], claimedBy'[c], leaseLive'[c])
             /\ leaseLive[c] /\ claimedBy'[c] # claimedBy[c] => claimedBy'[c] = NoOne
  BY <1>0 DEF LeaseMatchesState
<1> USE DEF RowsOK, HUMAN_QUEUE_STATES
<1>1. CASE Inserted(c) \/ InsertedDraft(c)
  BY <1>0, <1>1 DEF Inserted, InsertedDraft, Moves, claim
<1>2. CASE Started(c) \/ Queued(c)
  BY <1>0, <1>2 DEF Started, Queued, Moves, claim
<1>3. CASE Marked(c) \/ Expired(c)
  BY <1>0, <1>3 DEF Marked, Expired, claim
<1>4. CASE Claimed(c)
  BY <1>0, <1>4, NamesAssumption DEF Claimed, HeldByAnother
<1>5. CASE Released(c) \/ Parked(c) \/ Rescanned(c)
  BY <1>0, <1>5 DEF Released, ReleaseRow, Parked, Park, Rescanned, ClearClaim
<1>6. CASE Resolved(c)
  <2>1. PICK v \in Verdict, s \in RowState : VerdictEffect(c, v, s)
    BY <1>0, <1>6, ResolvedMeans
  <2>2. CASE v.decision \in TERMINAL_DECISIONS
    BY <1>0, <2>1, <2>2 DEF VerdictEffect, ClearClaim
  <2>3. CASE v.decision \notin TERMINAL_DECISIONS
    BY <1>0, <2>1, <2>3 DEF VerdictEffect, claim
  <2> QED BY <2>2, <2>3
<1> QED BY <1>1, <1>2, <1>3, <1>4, <1>5, <1>6 DEF RowStep

\* A lease and the state of its case agree, however stale the copies handlers
\* write back.
THEOREM LeaseAlwaysMatches == Spec => []LeaseMatchesState
<1>1. Init => LeaseMatchesState
  BY DEF Init, LeaseMatchesState
<1>2. TypeOK /\ InHand /\ LeaseMatchesState /\ [Next]_vars => LeaseMatchesState'
  <2> SUFFICES ASSUME TypeOK, InHand, LeaseMatchesState, [Next]_vars PROVE LeaseMatchesState'
    OBVIOUS
  <2>1. CASE UNCHANGED rows
    BY <2>1 DEF rows, claim, LeaseMatchesState
  <2> QED BY <2>1, WritesOneRow, RowStepLease
<1> QED BY <1>1, <1>2, TypeCorrect, PTL DEF Spec

\* A live lease never passes from one moderator to another.
THEOREM LeaseNeverStolen == Spec => LeaseIsNeverStolen
<1>1. TypeOK /\ InHand /\ LeaseMatchesState /\ [Next]_vars =>
        [\A c \in Case : leaseLive[c] /\ claimedBy'[c] # claimedBy[c] => claimedBy'[c] = NoOne]_vars
  <2> SUFFICES ASSUME TypeOK, InHand, LeaseMatchesState, [Next]_vars
               PROVE  \A c \in Case : leaseLive[c] /\ claimedBy'[c] # claimedBy[c] => claimedBy'[c] = NoOne
    OBVIOUS
  <2>1. CASE UNCHANGED rows
    BY <2>1 DEF rows, claim
  <2> QED BY <2>1, WritesOneRow, RowStepLease
<1> QED BY <1>1, TypeCorrect, LeaseAlwaysMatches, PTL DEF Spec, LeaseIsNeverStolen

\* Stamps, verdicts and states on one row.
LEMMA RowStepRecord ==
    ASSUME TypeOK, StateIsOnRecord, NEW c \in Case, RowStep(c)
    PROVE  StateIsOnRecord'
<1> DEFINE OnRecord(s, p, v) == (s = "dlq" => p) /\ (s = "resolved" => v # NoVerdict)
<1>0. /\ RowsOK
      /\ \A d \in Case : OnRecord(state[d], dlqAt[d], lastVerdict[d])
  BY DEF TypeOK, RowsOK, StateIsOnRecord
<1> SUFFICES /\ \A d \in Case \ {c} : /\ state'[d] = state[d] /\ dlqAt'[d] = dlqAt[d]
                                      /\ lastVerdict'[d] = lastVerdict[d]
             /\ OnRecord(state'[c], dlqAt'[c], lastVerdict'[c])
  BY <1>0 DEF StateIsOnRecord
<1> USE DEF RowsOK
<1>1. CASE Inserted(c) \/ Started(c) \/ Queued(c)
  BY <1>0, <1>1 DEF Inserted, Started, Queued, Moves
<1>2. CASE InsertedDraft(c)
  <2>1. PICK v \in Verdict :
           /\ state' = [state EXCEPT ![c] = IF v.decision \in TERMINAL_DECISIONS THEN "resolved" ELSE "queued"]
           /\ lastVerdict' = [lastVerdict EXCEPT ![c] = v]
    BY <1>2 DEF InsertedDraft
  <2>2. v # NoVerdict
    BY DEF Verdict, NoVerdict, VerdictDecision
  <2> QED BY <1>0, <1>2, <2>1, <2>2 DEF InsertedDraft
<1>3. CASE Marked(c) \/ Expired(c)
  BY <1>0, <1>3 DEF Marked, Expired
<1>4. CASE Claimed(c) \/ Released(c) \/ Rescanned(c)
  BY <1>0, <1>4 DEF Claimed, Released, ReleaseRow, Rescanned
<1>5. CASE Parked(c)
  BY <1>0, <1>5 DEF Parked, Park
<1>6. CASE Resolved(c)
  <2>1. PICK v \in Verdict, s \in RowState : VerdictEffect(c, v, s)
    BY <1>0, <1>6, ResolvedMeans
  <2>2. v # NoVerdict
    BY DEF Verdict, NoVerdict, VerdictDecision
  <2>3. s # "dlq" \/ s = state[c]
    BY <2>1 DEF VerdictEffect
  <2> QED BY <1>0, <2>1, <2>2, <2>3 DEF VerdictEffect
<1> QED BY <1>1, <1>2, <1>3, <1>4, <1>5, <1>6 DEF RowStep

\* No case is parked without its stamp or resolved without a verdict.
THEOREM StateAlwaysOnRecord == Spec => []StateIsOnRecord
<1>1. Init => StateIsOnRecord
  BY DEF Init, StateIsOnRecord
<1>2. TypeOK /\ InHand /\ StateIsOnRecord /\ [Next]_vars => StateIsOnRecord'
  <2> SUFFICES ASSUME TypeOK, InHand, StateIsOnRecord, [Next]_vars PROVE StateIsOnRecord'
    OBVIOUS
  <2>1. CASE UNCHANGED rows
    BY <2>1 DEF rows, StateIsOnRecord
  <2> QED BY <2>1, WritesOneRow, RowStepRecord
<1> QED BY <1>1, <1>2, TypeCorrect, PTL DEF Spec

\* The columns of a row agree in every reachable state.
THEOREM RowsAgree == Spec => []RowAgrees
BY LeaseAlwaysMatches, StateAlwaysOnRecord, PTL DEF RowAgrees

\* The verdict a row carries after a step is the one before, or a justified one.
LEMMA RowStepVerdict ==
    ASSUME TypeOK, NEW c \in Case, RowStep(c), NEW d \in Case
    PROVE  lastVerdict'[d] = lastVerdict[d] \/ Justified(d, lastVerdict'[d])
<1>0. RowsOK
  BY DEF TypeOK, RowsOK
<1>1. CASE UNCHANGED lastVerdict
  BY <1>1
<1>2. CASE InsertedDraft(c)
  BY <1>0, <1>2 DEF InsertedDraft, RowsOK, Justified
<1>3. CASE Resolved(c)
  <2>1. PICK v \in Verdict, s \in RowState : VerdictEffect(c, v, s)
    BY <1>0, <1>3, ResolvedMeans
  <2>2. lastVerdict' = [lastVerdict EXCEPT ![c] = v] /\ Justified(c, v)
    BY <2>1 DEF VerdictEffect
  <2>3. CASE d = c
    BY <1>0, <2>2, <2>3 DEF RowsOK
  <2>4. CASE d # c
    BY <1>0, <2>2, <2>4 DEF RowsOK
  <2> QED BY <2>3, <2>4
<1>4. CASE ~InsertedDraft(c) /\ ~Resolved(c)
  BY <1>1, <1>4 DEF RowStep, Inserted, Started, Queued, Marked, Claimed, Released, ReleaseRow,
                    Expired, Parked, Park, Rescanned, Moves
<1> QED BY <1>2, <1>3, <1>4

\* Unavailability is never permission, for every setting of the deployment.
THEOREM DefaultsAreDeclared == Spec => []DefaultVerdictsAreDeclared
<1>1. Init => DefaultVerdictsAreDeclared
  BY DEF Init, DefaultVerdictsAreDeclared, NoVerdict
<1>2. TypeOK /\ InHand /\ DefaultVerdictsAreDeclared /\ [Next]_vars => DefaultVerdictsAreDeclared'
  <2> SUFFICES ASSUME TypeOK, InHand, DefaultVerdictsAreDeclared, [Next]_vars, NEW d \in Case
               PROVE  Justified(d, lastVerdict[d])'
    BY DEF DefaultVerdictsAreDeclared, Justified
  <2>1. gone \subseteq gone'
    BY HandStep
  <2>2. lastVerdict'[d] = lastVerdict[d] \/ Justified(d, lastVerdict'[d])
    <3>1. CASE UNCHANGED rows
      BY <3>1 DEF rows
    <3> QED BY <3>1, WritesOneRow, RowStepVerdict
  <2>3. Justified(d, lastVerdict[d])
    BY DEF DefaultVerdictsAreDeclared, Justified
  <2> QED BY <2>1, <2>2, <2>3 DEF Justified, SubjectGone
<1> QED BY <1>1, <1>2, TypeCorrect, PTL DEF Spec

=============================================================================
