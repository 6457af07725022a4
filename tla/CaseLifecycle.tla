--------------------------- MODULE CaseLifecycle ----------------------------
(***************************************************************************)
(* The life of a moderation case: the rows of models.Case, the services    *)
(* that write them (services.py), the screening task and its failure       *)
(* handler (tasks.py, actions.py), the verdict endpoint (views.py) and the *)
(* beat jobs (tasks.py).                                                   *)
(*                                                                         *)
(* A database transaction that locks the row is one step.  A handler that  *)
(* reads a case and acts on that copy later is two: the first keeps the    *)
(* state it read in the field "mem" of its process, the second writes what *)
(* services.transition computes from that memory onto whatever the row     *)
(* holds by then.  Time is not counted: a lease is live until LeaseExpires *)
(* says it is not, and an age condition of a beat job may come true at any *)
(* moment.                                                                 *)
(***************************************************************************)
EXTENDS CaseVocabulary, Naturals

CONSTANTS
    Case,               \* primary keys of case rows
    NoCase,             \* what an idle process works on
    Target,             \* (target_type, target_key) pairs
    TargetOf,           \* the target of each row
    Draft,              \* rows whose key is a synthetic draft key
    Moderator,          \* staff who claim and decide
    NoOne,              \* claimed_by is null
    Task,               \* slots for screening tasks in flight
    Job,                \* the background jobs that run
    ScreenEnabled,      \* settings SCREEN_ENABLED and the policy's "screen"
    OnScreeningFailure, \* settings ON_SCREENING_FAILURE
    OnScreeningUnavailable, \* settings ON_SCREENING_UNAVAILABLE
    OnMediaUnavailable, \* settings ON_MEDIA_UNAVAILABLE
    AutoResolveStale,   \* settings AUTO_RESOLVE_STALE_QUEUE is not None
    MaxAttempts,        \* settings SCREEN_MAX_ATTEMPTS
    RescreenCap,        \* settings RESCREEN_MAX_ATTEMPTS
    HumanDecision,      \* decisions a moderator enters
    ScreenerDecision    \* decisions the screener answers

JobKind == {"stale", "orphan", "rescreen", "command", "roles"}

ASSUME TargetAssumption == TargetOf \in [Case -> Target]

ASSUME NamesAssumption ==
    /\ NoCase \notin Case
    /\ NoOne \notin Moderator
    /\ Draft \subseteq Case
    /\ Job \subseteq JobKind

ASSUME SettingsAssumption ==
    /\ ScreenEnabled \in BOOLEAN
    /\ AutoResolveStale \in BOOLEAN
    /\ {OnScreeningFailure, OnScreeningUnavailable} \subseteq {"hold", "approve", "reject"}
    /\ OnMediaUnavailable \in {"dlq", "review"}
    /\ MaxAttempts \in Nat \ {0}
    /\ RescreenCap \in Nat \ {0}

ASSUME DecisionAssumption ==
    /\ HumanDecision \subseteq VerdictDecision
    /\ ScreenerDecision \subseteq VerdictDecision

VARIABLES
    \* columns of models.Case
    state,          \* state, or "absent" before the insert
    claimedBy,      \* claimed_by
    leaseLive,      \* claimed_until is set and in the future
    dlqAt,          \* dlq_at is not null
    escalated,      \* escalated_at is not null
    rescreens,      \* rescreen_attempts
    resubmitted,    \* resubmitted_at is set and later than last_screened_at
    lastVerdict,    \* last_verdict
    \* the world and the processes
    gone,           \* targets their owner has deleted
    task,           \* screening tasks: requested, running, parked
    view,           \* the verdict endpoint, per moderator
    sweep           \* the row a background job is working on

claim == <<claimedBy, leaseLive>>
marks == <<escalated, rescreens, resubmitted>>
rows  == <<state, claim, dlqAt, marks, lastVerdict>>
procs == <<task, view, sweep>>
vars  == <<rows, gone, procs>>

-----------------------------------------------------------------------------
(* Processes.                                                              *)

TaskPhase == {"free", "requested", "begun", "read", "screened", "parked", "failing"}

\* "late": the owner has edited since the task read the content.
TaskRecord == [phase : TaskPhase, case : Case \cup {NoCase}, mem : RowState,
               attempts : 0..MaxAttempts, late : BOOLEAN]

FreeTask == [phase |-> "free", case |-> NoCase, mem |-> "absent", attempts |-> 0, late |-> FALSE]

Requested(c, n) == [FreeTask EXCEPT !.phase = "requested", !.case = c, !.attempts = n]

ViewRecord == [case : Case \cup {NoCase}, mem : RowState]

IdleView == [case |-> NoCase, mem |-> "absent"]

SweepItem == {"idle", "release", "stall", "auto", "orphan", "close", "rescan"}

SweepRecord == [item : SweepItem, case : Case \cup {NoCase}, mem : RowState]

IdleSweep == [item |-> "idle", case |-> NoCase, mem |-> "absent"]

Init ==
    /\ state = [c \in Case |-> "absent"]
    /\ claimedBy = [c \in Case |-> NoOne]
    /\ leaseLive = [c \in Case |-> FALSE]
    /\ dlqAt = [c \in Case |-> FALSE]
    /\ escalated = [c \in Case |-> FALSE]
    /\ rescreens = [c \in Case |-> 0]
    /\ resubmitted = [c \in Case |-> FALSE]
    /\ lastVerdict = [c \in Case |-> NoVerdict]
    /\ gone = {}
    /\ task = [t \in Task |-> FreeTask]
    /\ view = [m \in Moderator |-> IdleView]
    /\ sweep = [j \in JobKind |-> IdleSweep]

-----------------------------------------------------------------------------
(* The services, as the parts actions are made of.                         *)

\* No other row is the live case of c's target.
FreeForTarget(c) ==
    \A d \in Case \ {c} : TargetOf[d] = TargetOf[c] => state[d] \notin OPEN_STATES

\* MUTANT: no unique constraint behind a reopening.
Storable_unconstrained(c, s) == TRUE

\* The database accepts state s in row c (uniq_open_case_per_target).
Storable(c, s) == s \in OPEN_STATES => FreeForTarget(c)

\* The state column after transition(case, to) by a handler that remembers
\* "mem" of a row now holding "now": nothing is written when memory is there.
Moved(mem, now, to) == IF mem = to THEN now ELSE to

ClearClaim(c) ==
    /\ claimedBy' = [claimedBy EXCEPT ![c] = NoOne]
    /\ leaseLive' = [leaseLive EXCEPT ![c] = FALSE]

\* start_screening: hand the case to a free task, or to a person when the
\* automation is off.
StartScreening(c) ==
    IF ScreenEnabled
    THEN /\ state' = [state EXCEPT ![c] = "screening"]
         /\ \E t \in Task : /\ task[t] = FreeTask
                            /\ task' = [task EXCEPT ![t] = Requested(c, 1)]
    ELSE /\ state' = [state EXCEPT ![c] = "queued"]
         /\ UNCHANGED task

\* MUTANT: an abstention closes the case too.
AfterVerdict_abstention_closes(mem, now, decision) ==
    IF decision \in TERMINAL_DECISIONS \cup {"needs_review"}
    THEN "resolved" ELSE Moved(mem, now, "queued")

\* resolve_case: where the state column goes.
AfterVerdict(mem, now, decision) ==
    IF decision \in TERMINAL_DECISIONS THEN "resolved" ELSE Moved(mem, now, "queued")

\* resolve_case commits: the remembered case is not resolved, the remembered
\* edge is declared, and the row satisfies the unique constraint.
CanResolve(c, mem, decision) ==
    /\ mem # "resolved"
    /\ Allowed(mem, IF decision \in TERMINAL_DECISIONS THEN "resolved" ELSE "queued")
    /\ Storable(c, AfterVerdict(mem, state[c], decision))

Resolve(c, mem, verdict) ==
    /\ state' = [state EXCEPT ![c] = AfterVerdict(mem, @, verdict.decision)]
    /\ lastVerdict' = [lastVerdict EXCEPT ![c] = verdict]
    /\ IF verdict.decision \in TERMINAL_DECISIONS THEN ClearClaim(c) ELSE UNCHANGED claim
    /\ UNCHANGED <<dlqAt, marks>>

\* resolve_case, or the error that rolls it back and that the caller reports.
TryResolve(c, mem, verdict) ==
    IF CanResolve(c, mem, verdict.decision)
    THEN Resolve(c, mem, verdict)
    ELSE UNCHANGED rows

\* MUTANT: the park does not ask the transition table.
CanPark_any_state(c, to) == state[c] # "resolved"

\* park_unscreened on a row locked in the same transaction.
CanPark(c, to) == state[c] # "resolved" /\ Allowed(state[c], to)

\* MUTANT: the claim columns of a stale lease are left behind.
Park_keeps_claim(c, to) ==
    /\ state' = [state EXCEPT ![c] = to]
    /\ dlqAt' = [dlqAt EXCEPT ![c] = TRUE]
    /\ UNCHANGED <<claim, marks, lastVerdict>>

\* MUTANT: a screening failure is written down as a machine verdict.
Park_with_verdict(c, to) ==
    /\ state' = [state EXCEPT ![c] = to]
    /\ dlqAt' = [dlqAt EXCEPT ![c] = TRUE]
    /\ lastVerdict' = [lastVerdict EXCEPT ![c] =
          [decision |-> "needs_review", source |-> "policy_default"]]
    /\ ClearClaim(c)
    /\ UNCHANGED marks

Park(c, to) ==
    /\ state' = [state EXCEPT ![c] = to]
    /\ dlqAt' = [dlqAt EXCEPT ![c] = TRUE]
    /\ ClearClaim(c)
    /\ UNCHANGED <<marks, lastVerdict>>

\* rescan_case: a resolved row is reopened, a parked one revived, a claimed one
\* taken back, and whatever it was it goes to the screener.
RescanRow(c) ==
    /\ Storable(c, "queued")
    /\ StartScreening(c)
    /\ dlqAt' = [dlqAt EXCEPT ![c] = @ /\ state[c] # "dlq"]
    /\ ClearClaim(c)
    /\ UNCHANGED <<marks, lastVerdict>>

-----------------------------------------------------------------------------
(* Intake.                                                                 *)

\* A submission or a report about a target without a live case: the row and
\* the screening task commit together.
Submit(c) ==
    /\ c \notin Draft
    /\ state[c] = "absent"
    /\ FreeForTarget(c)
    /\ StartScreening(c)
    /\ UNCHANGED <<claim, dlqAt, marks, lastVerdict, gone, view, sweep>>

\* A submission or a report that finds the live case still unscreened.
SubmitOpened(c) ==
    /\ state[c] = "open"
    /\ StartScreening(c)
    /\ UNCHANGED <<claim, dlqAt, marks, lastVerdict, gone, view, sweep>>

\* A submission (first, repeated or after an edit) that finds the live case
\* under way: it leaves a mark, and a screening that has read the content by
\* now goes on with what was there before.
Resubmit(c) ==
    /\ c \notin Draft
    /\ state[c] \in OPEN_STATES \ {"open"}
    /\ resubmitted' = [resubmitted EXCEPT ![c] = TRUE]
    /\ task' = [t \in Task |->
          IF task[t].case = c /\ task[t].phase \in {"read", "screened"}
          THEN [task[t] EXCEPT !.late = TRUE] ELSE task[t]]
    /\ UNCHANGED <<state, claim, dlqAt, escalated, rescreens, lastVerdict, gone, view, sweep>>

\* A sanction issued outside a verdict opens a case and starts no screening.
OpenManual(c) ==
    /\ c \notin Draft
    /\ state[c] = "absent"
    /\ FreeForTarget(c)
    /\ state' = [state EXCEPT ![c] = "open"]
    /\ UNCHANGED <<claim, dlqAt, marks, lastVerdict, gone, procs>>

\* A draft refused without a screener's answer.
Refusal(setting) ==
    IF setting = "reject" THEN {[decision |-> "rejected", source |-> "policy_default"]} ELSE {}

\* The verdicts screen_draft writes down: it persists nothing it allows, and no
\* failure that the deployment merely holds.
DraftVerdict ==
    IF ScreenEnabled
    THEN [decision : ScreenerDecision \ {"approved"}, source : {"llm"}] \cup Refusal(OnScreeningFailure)
    ELSE Refusal(OnScreeningUnavailable)

\* screen_draft: open_case and resolve_case in one transaction, from "open".
OpenDraft(c, v) ==
    /\ c \in Draft
    /\ state[c] = "absent"
    /\ FreeForTarget(c)
    /\ state' = [state EXCEPT ![c] = AfterVerdict("open", "open", v.decision)]
    /\ lastVerdict' = [lastVerdict EXCEPT ![c] = v]
    /\ UNCHANGED <<claim, dlqAt, marks, gone, procs>>

\* The owner deletes the target; no fact reaches this module.
DeleteSubject(k) ==
    /\ k \notin gone
    /\ gone' = gone \cup {k}
    /\ UNCHANGED <<rows, procs>>

\* The content function answers "not found" for the case.
SubjectGone(c) == c \in Draft \/ TargetOf[c] \in gone

-----------------------------------------------------------------------------
(* Moderators.                                                             *)

\* MUTANT: only the lease of a case in state "claimed" counts.
HeldByAnother_when_claimed(c, m) ==
    state[c] = "claimed" /\ claimedBy[c] \notin {NoOne, m} /\ leaseLive[c]

\* Another moderator's lease has not run out.
HeldByAnother(c, m) == claimedBy[c] \notin {NoOne, m} /\ leaseLive[c]

\* claim_case; from any state but "queued" (or "claimed", a renewal or the
\* taking of a dead lease) the transition raises and the lease rolls back.
Claim(m, c) ==
    /\ state[c] \in {"queued", "claimed"}
    /\ ~HeldByAnother(c, m)
    /\ state' = [state EXCEPT ![c] = "claimed"]
    /\ claimedBy' = [claimedBy EXCEPT ![c] = m]
    /\ leaseLive' = [leaseLive EXCEPT ![c] = TRUE]
    /\ UNCHANGED <<dlqAt, marks, lastVerdict, gone, procs>>

\* The part of release_case behind its checks.
ReleaseRow(c) ==
    /\ state' = [state EXCEPT ![c] = "queued"]
    /\ ClearClaim(c)
    /\ UNCHANGED <<dlqAt, marks, lastVerdict>>

Release(m, c) ==
    /\ state[c] = "claimed"
    /\ ~HeldByAnother(c, m)
    /\ ReleaseRow(c)
    /\ UNCHANGED <<gone, procs>>

\* claimed_until passes.
LeaseExpires(c) ==
    /\ leaseLive[c]
    /\ leaseLive' = [leaseLive EXCEPT ![c] = FALSE]
    /\ UNCHANGED <<state, claimedBy, dlqAt, marks, lastVerdict, gone, procs>>

\* The verdict endpoint reads the case, without a lock ...
OpenVerdict(m, c) ==
    /\ HumanDecision # {}      \* the request carries one
    /\ view[m] = IdleView
    /\ state[c] # "absent"
    /\ view' = [view EXCEPT ![m] = [case |-> c, mem |-> state[c]]]
    /\ UNCHANGED <<rows, gone, task, sweep>>

\* ... and resolves what it read; nothing asks who holds the lease.
GiveVerdict(m, d) ==
    /\ view[m] # IdleView
    /\ TryResolve(view[m].case, view[m].mem, [decision |-> d, source |-> "human"])
    /\ view' = [view EXCEPT ![m] = IdleView]
    /\ UNCHANGED <<gone, task, sweep>>

\* The rescan endpoint and the rescan of one row by the operator's command.
Rescan(c) ==
    /\ state[c] # "absent"
    /\ RescanRow(c)
    /\ UNCHANGED <<gone, view, sweep>>

-----------------------------------------------------------------------------
(* The screening task: screen_case, and the comm ladder around it.         *)

SetTask(t, record) == task' = [task EXCEPT ![t] = record]

Done(t) == SetTask(t, FreeTask)

\* FAILED: the fact task.failed is on its way.
ParkedTask(t) == [Requested(task[t].case, task[t].attempts) EXCEPT !.phase = "parked"]

\* The handler raised: another attempt, or the FAILED park after the last one.
Raised(t) ==
    SetTask(t, IF task[t].attempts < MaxAttempts
               THEN Requested(task[t].case, task[t].attempts + 1)
               ELSE ParkedTask(t))

\* A delivery that finds the case neither open nor screening is a no-op.
SkipScreening(t) ==
    /\ task[t].phase = "requested"
    /\ state[task[t].case] \notin {"open", "screening"}
    /\ Done(t)
    /\ UNCHANGED <<rows, gone, view, sweep>>

\* The first, locked step: the handler goes on with a case it saw "screening".
BeginScreening(t) ==
    /\ task[t].phase = "requested"
    /\ state[task[t].case] \in {"open", "screening"}
    /\ state' = [state EXCEPT ![task[t].case] = "screening"]
    /\ SetTask(t, [task[t] EXCEPT !.phase = "begun", !.mem = "screening"])
    /\ UNCHANGED <<claim, dlqAt, marks, lastVerdict, gone, view, sweep>>

\* fetch_content says the subject does not exist (or a draft key names nothing):
\* the case is closed on the strength of the first step's copy.
ScreenSubjectGone(t) ==
    LET c == task[t].case
        v == [decision |-> "dismissed", source |-> "policy_default"]
    IN  /\ task[t].phase = "begun"
        /\ SubjectGone(c)
        /\ TryResolve(c, task[t].mem, v)
        /\ IF CanResolve(c, task[t].mem, "dismissed") THEN Done(t) ELSE Raised(t)
        /\ UNCHANGED <<gone, view, sweep>>

ReadContent(t) ==
    /\ task[t].phase = "begun"
    /\ ~SubjectGone(task[t].case)
    /\ SetTask(t, [task[t] EXCEPT !.phase = "read"])
    /\ UNCHANGED <<rows, gone, view, sweep>>

\* ContentUnavailable, ScreeningUnavailable, or the worker dies and the comm
\* machinery gives the attempt up.
ScreeningRaises(t) ==
    /\ task[t].phase \in {"begun", "read", "screened"}
    /\ Raised(t)
    /\ UNCHANGED <<rows, gone, view, sweep>>

\* The task is gone and nobody will say so: what the stall sweep is for.
TaskLost(t) ==
    /\ task[t].phase \in {"requested", "begun", "read", "screened"}
    /\ Done(t)
    /\ UNCHANGED <<rows, gone, view, sweep>>

\* The deadline of the whole task passes before it is done.
DeadlinePasses(t) ==
    /\ task[t].phase \in {"requested", "begun", "read", "screened"}
    /\ SetTask(t, ParkedTask(t))
    /\ UNCHANGED <<rows, gone, view, sweep>>

\* Not one declared photo resolves: the case is parked (for an engineer, or
\* surfaced to moderators) under its lock.
ScreenMediaUnavailable(t) ==
    LET c  == task[t].case
        to == IF OnMediaUnavailable = "review" THEN "queued" ELSE "dlq"
    IN  /\ task[t].phase = "read"
        /\ \/ state[c] = "resolved" /\ UNCHANGED rows /\ Done(t)
           \/ CanPark(c, to) /\ Park(c, to) /\ Done(t)
           \/ state[c] # "resolved" /\ ~CanPark(c, to) /\ UNCHANGED rows /\ Raised(t)
        /\ UNCHANGED <<gone, view, sweep>>

\* The screener has answered: last_screened_at is stamped and the case read
\* again, without a lock ...
StampScreened(t) ==
    LET c == task[t].case
    IN  /\ task[t].phase = "read"
        /\ resubmitted' = [resubmitted EXCEPT ![c] = FALSE]
        /\ SetTask(t, [task[t] EXCEPT !.phase = "screened", !.mem = state[c]])
        /\ UNCHANGED <<state, claim, dlqAt, escalated, rescreens, lastVerdict, gone, view, sweep>>

\* ... and that copy is resolved with the screener's decision.
ScreenerVerdict(t, d) ==
    LET c == task[t].case
    IN  /\ task[t].phase = "screened"
        /\ TryResolve(c, task[t].mem, [decision |-> d, source |-> "llm"])
        /\ IF CanResolve(c, task[t].mem, d) THEN Done(t) ELSE Raised(t)
        /\ UNCHANGED <<gone, view, sweep>>

\* task.failed: the subscriber reads the case named by the correlation id ...
FailureReads(t) ==
    LET c == task[t].case
    IN  /\ task[t].phase = "parked"
        /\ IF state[c] = "resolved"
           THEN Done(t)
           ELSE SetTask(t, [task[t] EXCEPT !.phase = "failing", !.mem = state[c]])
        /\ UNCHANGED <<rows, gone, view, sweep>>

\* ... and applies ON_SCREENING_FAILURE: "hold" parks the case under its lock
\* and writes no verdict; a park no edge allows raises, and the fact is
\* delivered again or given up.
FailureHolds(t) ==
    LET c == task[t].case
    IN  /\ task[t].phase = "failing"
        /\ OnScreeningFailure = "hold"
        /\ \/ state[c] = "resolved" /\ UNCHANGED rows /\ Done(t)
           \/ CanPark(c, "dlq") /\ Park(c, "dlq") /\ Done(t)
           \/ /\ state[c] # "resolved" /\ ~CanPark(c, "dlq")
              /\ UNCHANGED rows
              /\ \/ Done(t)
                 \/ SetTask(t, ParkedTask(t))
        /\ UNCHANGED <<gone, view, sweep>>

\* "approve" and "reject" are decisions the owner made in advance ...
FailureDecision == IF OnScreeningFailure = "approve" THEN "approved" ELSE "rejected"

\* ... written onto the copy the subscriber read.
FailureDecides(t) ==
    LET d == FailureDecision
    IN  /\ task[t].phase = "failing"
        /\ OnScreeningFailure # "hold"
        /\ TryResolve(task[t].case, task[t].mem, [decision |-> d, source |-> "policy_default"])
        /\ Done(t)
        /\ UNCHANGED <<gone, view, sweep>>

-----------------------------------------------------------------------------
(* The beat jobs, the operator's command and the role-revoked subscriber:  *)
(* each works through a list it read earlier, one row at a time.           *)

SetSweep(j, record) == sweep' = [sweep EXCEPT ![j] = record]

Take(j, kind, c, mem) ==
    /\ j \in Job
    /\ sweep[j] = IdleSweep
    /\ SetSweep(j, [item |-> kind, case |-> c, mem |-> mem])

Finish(j) == SetSweep(j, IdleSweep)

\* MUTANT: the job lists the leases that still run.
ListExpiredClaim_live(c) ==
    /\ state[c] = "claimed" /\ leaseLive[c]
    /\ Take("stale", "release", c, state[c])
    /\ UNCHANGED <<rows, gone, task, view>>

\* sweep_stale_cases lists the claims whose lease has expired ...
ListExpiredClaim(c) ==
    /\ state[c] = "claimed" /\ ~leaseLive[c]
    /\ Take("stale", "release", c, state[c])
    /\ UNCHANGED <<rows, gone, task, view>>

\* ... staff.role.revoked the claims of one moderator ...
ListRevokedClaim(c) ==
    /\ state[c] = "claimed"
    /\ Take("roles", "release", c, state[c])
    /\ UNCHANGED <<rows, gone, task, view>>

\* ... and release_case, called without an actor, asks only for the state.
SweepRelease(j) ==
    LET c == sweep[j].case
    IN  /\ sweep[j].item = "release"
        /\ IF state[c] = "claimed" THEN ReleaseRow(c) ELSE UNCHANGED rows
        /\ Finish(j)
        /\ UNCHANGED <<gone, task, view>>

\* MUTANT: the job lists cases that never reached the screener.
ListStalled_open(c) ==
    /\ state[c] = "open"
    /\ Take("stale", "stall", c, state[c])
    /\ UNCHANGED <<rows, gone, task, view>>

\* The same job lists screenings older than a lease ...
ListStalled(c) ==
    /\ state[c] = "screening"
    /\ Take("stale", "stall", c, state[c])
    /\ UNCHANGED <<rows, gone, task, view>>

\* ... and queue_case moves the row to the human queue from whatever state it
\* finds under its lock.
SweepQueue ==
    LET c == sweep["stale"].case
    IN  /\ sweep["stale"].item = "stall"
        /\ IF Allowed(state[c], "queued") /\ Storable(c, "queued")
           THEN /\ state' = [state EXCEPT ![c] = "queued"]
                /\ UNCHANGED <<claim, dlqAt, marks, lastVerdict>>
           ELSE UNCHANGED rows
        /\ Finish("stale")
        /\ UNCHANGED <<gone, task, view>>

\* MUTANT: the job approves without being asked to.
ListAbandoned_always(c) ==
    /\ state[c] = "queued"
    /\ Take("stale", "auto", c, state[c])
    /\ UNCHANGED <<rows, gone, task, view>>

\* With AUTO_RESOLVE_STALE_QUEUE it also approves what waited too long.
ListAbandoned(c) ==
    /\ AutoResolveStale
    /\ state[c] = "queued"
    /\ Take("stale", "auto", c, state[c])
    /\ UNCHANGED <<rows, gone, task, view>>

SweepApprove ==
    /\ sweep["stale"].item = "auto"
    /\ TryResolve(sweep["stale"].case, sweep["stale"].mem,
                  [decision |-> "approved", source |-> "policy_default"])
    /\ Finish("stale")
    /\ UNCHANGED <<gone, task, view>>

\* sweep_orphaned_cases reads an undecided case without a lock and asks its
\* owner for the content ...
ProbeOrphan(c) ==
    /\ state[c] \in Sweepable
    /\ c \notin Draft
    /\ Take("orphan", "orphan", c, state[c])
    /\ UNCHANGED <<rows, gone, task, view>>

\* MUTANT: an owner who cannot answer is taken for "not found".
OrphanAnswered_unavailable ==
    LET c == sweep["orphan"].case
        v == [decision |-> "dismissed", source |-> "policy_default"]
    IN  /\ sweep["orphan"].item = "orphan"
        /\ TryResolve(c, sweep["orphan"].mem, v)
        /\ Finish("orphan")
        /\ UNCHANGED <<gone, task, view>>

\* ... "not found" closes the case, on the strength of that read; an answer, or
\* an owner who cannot answer, leaves it.
OrphanAnswered ==
    LET c == sweep["orphan"].case
        v == [decision |-> "dismissed", source |-> "policy_default"]
    IN  /\ sweep["orphan"].item = "orphan"
        /\ \/ SubjectGone(c) /\ TryResolve(c, sweep["orphan"].mem, v)
           \/ UNCHANGED rows
        /\ Finish("orphan")
        /\ UNCHANGED <<gone, task, view>>

\* MUTANT: dead letters are left to engineers.
Stuck_queue_only(c) == state[c] = "queued" /\ ~escalated[c]

\* rescreen_stuck_cases looks at one row under its lock.
Stuck(c) == state[c] \in Sweepable /\ ~escalated[c]

\* MUTANT: given up one attempt early.
CapSpent_early(c) == rescreens[c] + 1 >= RescreenCap

CapSpent(c) == rescreens[c] >= RescreenCap

\* A draft case has nothing to screen again: close it, outside the lock.
PickUnaddressable(c) ==
    /\ Stuck(c)
    /\ c \in Draft
    /\ Take("rescreen", "close", c, state[c])
    /\ UNCHANGED <<rows, gone, task, view>>

\* MUTANT: an edited case is spared the escalation, and the cap still holds.
Escalate_spares_edits(c) ==
    /\ "rescreen" \in Job
    /\ sweep["rescreen"] = IdleSweep
    /\ Stuck(c)
    /\ c \notin Draft
    /\ CapSpent(c)
    /\ ~resubmitted[c]
    /\ escalated' = [escalated EXCEPT ![c] = TRUE]
    /\ UNCHANGED <<state, claim, dlqAt, rescreens, resubmitted, lastVerdict, gone, procs>>

\* The cap is spent: escalate, and leave the case where it is.
Escalate(c) ==
    /\ "rescreen" \in Job
    /\ sweep["rescreen"] = IdleSweep
    /\ Stuck(c)
    /\ c \notin Draft
    /\ CapSpent(c)
    /\ escalated' = [escalated EXCEPT ![c] = TRUE]
    /\ UNCHANGED <<state, claim, dlqAt, rescreens, resubmitted, lastVerdict, gone, procs>>

\* The wait is over or the owner has edited: spend an attempt and consume the
\* mark under the lock; the re-screen itself comes after it.
SpendAttempt(c) ==
    /\ Stuck(c)
    /\ c \notin Draft
    /\ ~CapSpent(c)
    /\ rescreens' = [rescreens EXCEPT ![c] = @ + 1]
    /\ resubmitted' = [resubmitted EXCEPT ![c] = FALSE]
    /\ Take("rescreen", "rescan", c, state[c])
    /\ UNCHANGED <<state, claim, dlqAt, escalated, lastVerdict, gone, task, view>>

\* rescan_case on the row as it is by now, whoever has moved it meanwhile; a
\* live twin of a resolved row makes it raise.
SweepRescan ==
    LET c == sweep["rescreen"].case
    IN  /\ sweep["rescreen"].item = "rescan"
        /\ \/ RescanRow(c)
           \/ ~Storable(c, "queued") /\ UNCHANGED <<rows, task>>
        /\ Finish("rescreen")
        /\ UNCHANGED <<gone, view>>

\* moderation_rescreen --state s: rows of any state, read without a lock; the
\* drafts among them are closed (its other rows are Rescan above).
CommandReads(c) ==
    /\ state[c] # "absent"
    /\ c \in Draft
    /\ Take("command", "close", c, state[c])
    /\ UNCHANGED <<rows, gone, task, view>>

\* close_subject_gone on the copy the job holds.
SweepClose(j) ==
    /\ sweep[j].item = "close"
    /\ TryResolve(sweep[j].case, sweep[j].mem,
                  [decision |-> "dismissed", source |-> "policy_default"])
    /\ Finish(j)
    /\ UNCHANGED <<gone, task, view>>

-----------------------------------------------------------------------------

IntakeStep ==
    \/ \E c \in Case : \/ Submit(c) \/ SubmitOpened(c) \/ Resubmit(c) \/ OpenManual(c)
                       \/ \E v \in DraftVerdict : OpenDraft(c, v)
    \/ \E k \in Target : DeleteSubject(k)

ModeratorStep ==
    \/ \E m \in Moderator, c \in Case : Claim(m, c) \/ Release(m, c) \/ OpenVerdict(m, c)
    \/ \E m \in Moderator, d \in HumanDecision : GiveVerdict(m, d)
    \/ \E c \in Case : Rescan(c) \/ LeaseExpires(c)

TaskStep == \E t \in Task :
    \/ SkipScreening(t) \/ BeginScreening(t) \/ ScreenSubjectGone(t) \/ ReadContent(t)
    \/ ScreeningRaises(t) \/ TaskLost(t) \/ DeadlinePasses(t)
    \/ ScreenMediaUnavailable(t) \/ StampScreened(t)
    \/ \E d \in ScreenerDecision : ScreenerVerdict(t, d)
    \/ FailureReads(t) \/ FailureHolds(t) \/ FailureDecides(t)

JobStep ==
    \/ \E c \in Case : \/ ListExpiredClaim(c) \/ ListRevokedClaim(c) \/ ListStalled(c)
                       \/ ListAbandoned(c) \/ ProbeOrphan(c) \/ PickUnaddressable(c)
                       \/ Escalate(c) \/ SpendAttempt(c) \/ CommandReads(c)
    \/ \E j \in Job : SweepRelease(j) \/ SweepClose(j)
    \/ SweepQueue \/ SweepApprove \/ OrphanAnswered \/ SweepRescan

Next == IntakeStep \/ ModeratorStep \/ TaskStep \/ JobStep

Spec == Init /\ [][Next]_vars

-----------------------------------------------------------------------------
(* What a case promises.                                                   *)

\* Every variable keeps its type.
TypeOK ==
    /\ state \in [Case -> RowState]
    /\ claimedBy \in [Case -> Moderator \cup {NoOne}]
    /\ leaseLive \in [Case -> BOOLEAN]
    /\ dlqAt \in [Case -> BOOLEAN]
    /\ escalated \in [Case -> BOOLEAN]
    /\ rescreens \in [Case -> 0..RescreenCap]
    /\ resubmitted \in [Case -> BOOLEAN]
    /\ lastVerdict \in [Case -> Verdict \cup {NoVerdict}]
    /\ gone \subseteq Target
    /\ task \in [Task -> TaskRecord]
    /\ view \in [Moderator -> ViewRecord]
    /\ sweep \in [JobKind -> SweepRecord]

\* A lease and the state agree whatever stale copy was written last: a claimed
\* case has a holder, a live lease has one too, and no lease outlives the human
\* queue into a screening, the dead-letter park or a resolution.
LeaseMatchesState ==
    \A c \in Case :
        /\ state[c] = "claimed" => claimedBy[c] # NoOne
        /\ leaseLive[c] => claimedBy[c] # NoOne
        /\ claimedBy[c] # NoOne => state[c] \in HUMAN_QUEUE_STATES

\* A target has one live case at most, through intake, reopening by a rescan,
\* and every job that moves a row it saw some time ago.
OneLiveCase ==
    \A c, d \in Case :
        c # d /\ TargetOf[c] = TargetOf[d]
            => ~(state[c] \in OPEN_STATES /\ state[d] \in OPEN_STATES)

\* Unavailability is never permission: a verdict nobody reached on content is a
\* decision the deployment made in advance, or says that the subject is gone,
\* and then it is.
DefaultVerdictsAreDeclared ==
    \A c \in Case : lastVerdict[c].source = "policy_default" =>
        \/ lastVerdict[c].decision = "dismissed" /\ SubjectGone(c)
        \/ lastVerdict[c].decision = "approved" /\ (AutoResolveStale \/ OnScreeningFailure = "approve")
        \/ /\ lastVerdict[c].decision = "rejected"
           /\ "reject" \in {OnScreeningFailure, OnScreeningUnavailable}

\* A case is parked with its stamp, and resolved only with a verdict on record.
StateIsOnRecord ==
    \A c \in Case :
        /\ state[c] = "dlq" => dlqAt[c]
        /\ state[c] = "resolved" => lastVerdict[c] # NoVerdict

\* The columns of a row agree, although transition saves the state alone, the
\* claim, the stamp and the verdict are written beside it, and any of them may
\* follow a copy read long before.
RowAgrees == LeaseMatchesState /\ StateIsOnRecord

\* The machine spends no more re-screens on a case than the cap, and gives it up
\* only after the last of them, whatever resubmissions, verdicts, rescans by hand
\* and reopenings come between two runs of the job.
EscalatedAtCap ==
    \A c \in Case :
        /\ rescreens[c] <= RescreenCap
        /\ escalated[c] => rescreens[c] = RescreenCap

\* Committed transactions move a case along declared edges only, however old
\* the copy their handler computed the edge from; rescan_case walks two edges
\* (through "queued") in one transaction.
DeclaredEdge(from, to) ==
    \/ from = "absent"
    \/ Allowed(from, to)
    \/ to = "screening" /\ Allowed(from, "queued") /\ Allowed("queued", to)

DeclaredEdges == [][\A c \in Case : DeclaredEdge(state[c], state'[c])]_vars

\* A moderator's live lease may end, but never in another moderator's hands.
LeaseIsNeverStolen ==
    [][\A c \in Case : leaseLive[c] /\ claimedBy'[c] # claimedBy[c] => claimedBy'[c] = NoOne]_vars

\* A failed screening parks a case and decides nothing: whoever enters the park
\* comes from the ladder or the unclaimed queue, keeps the verdict it had, and
\* carries no lease.
ParkDecidesNothing ==
    [][\A c \in Case : state[c] # "dlq" /\ state'[c] = "dlq" =>
          /\ state[c] \in {"screening", "queued"}
          /\ lastVerdict'[c] = lastVerdict[c]
          /\ claimedBy'[c] = NoOne]_vars

\* The case as everybody else sees it.
Status(s) == IF s = "absent" THEN "none" ELSE IF s = "resolved" THEN "decided" ELSE "undecided"

Decision == INSTANCE CaseDecision
    WITH status <- [c \in Case |-> Status(state[c])], verdict <- lastVerdict

\* Only a closing verdict decides a case, in the transaction that records it, and
\* only a rescan undoes that.  Leases, screenings, stalls, escalations and the park
\* show nothing from outside; a job shows what a person could have done, the
\* verdict it closes with or the reopening of a case decided behind its back.
ImplementsDecision == Decision!Spec

-----------------------------------------------------------------------------
(* Progress.  The beat jobs run on their schedule (beat.py) and a run works *)
(* through every row it lists, one after the other, so a row that matches  *)
(* again and again is taken sooner or later (strong fairness), and a row   *)
(* once taken is dealt with (weak; strong where a re-screen needs a slot   *)
(* of Task, which is a bound of the model and not of the code).  Leases    *)
(* run out with the clock, and the comm machinery brings every task to     *)
(* some end.  Nothing is assumed of owners, moderators, screeners or       *)
(* content functions.                                                      *)

BeatFairness ==
    /\ \A c \in Case : /\ SF_vars(ListExpiredClaim(c))
                       /\ SF_vars(ListStalled(c))
                       /\ SF_vars(PickUnaddressable(c))
                       /\ SF_vars(Escalate(c))
                       /\ SF_vars(SpendAttempt(c))
    /\ \A j \in Job : WF_vars(SweepRelease(j)) /\ WF_vars(SweepClose(j))
    /\ WF_vars(SweepQueue) /\ WF_vars(SweepApprove)
    /\ SF_vars(SweepRescan)

FairSpec ==
    /\ Spec
    /\ BeatFairness
    /\ \A c \in Case : WF_vars(LeaseExpires(c))
    /\ WF_vars(TaskStep)

\* A screening nobody answers for does not hold its case: the stall sweep
\* queues it, whatever became of the task.
StalledScreeningLeaves ==
    \A c \in Case : state[c] = "screening" ~> state[c] # "screening"

\* A moderator who walks away gives the case back: an expired claim is renewed,
\* taken over or released.
DeadLeaseReturns ==
    \A c \in Case : (state[c] = "claimed" /\ ~leaseLive[c])
                        ~> (state[c] # "claimed" \/ leaseLive[c])

\* No case rests in the queue or in the park unseen: one that stays there was
\* given up on by the machine, by name.
StuckIsEscalated ==
    \A c \in Case : <>[](state[c] \in Sweepable) => <>[](escalated[c])

\* A screening has an answer about the content as it is after every edit so far.
LookedAt(c) ==
    \E t \in Task : task[t].case = c /\ task[t].phase = "screened" /\ ~task[t].late

\* An edit of a live case is looked at by a screening that read the content after
\* it, even if the answer to the text before it has cleared the mark, if the sweep
\* consumed the mark and its re-screen was lost, or if both happened; or else the
\* case is escalated, taken by a moderator, or decided first.  (Decided may mean
\* on the text before the edit: EditIsSeen is about that.)
EditIsNotForgotten ==
    \A c \in Case : resubmitted[c]
        ~> (LookedAt(c) \/ escalated[c] \/ state[c] \in {"claimed", "resolved"})

\* What models.Case says of last_screened_at and resubmitted_at, that comparing
\* them makes an edit re-trigger moderation: the mark of an edit is not cleared
\* before the sweep takes the case for it or a screening has read the new text.
EditIsSeen ==
    [][\A c \in Case : resubmitted[c] /\ ~resubmitted'[c] =>
          \/ rescreens'[c] = rescreens[c] + 1
          \/ \E t \in Task : task[t].phase = "read" /\ ~task[t].late /\ task'[t].phase = "screened"]_vars

=============================================================================
