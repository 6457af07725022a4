# stapel-moderation in TLA+

This directory models the moderation module of the fleet: one queue of cases
over whatever can be complained about, an automatic screener in front of it,
people behind it, sanctions that follow from it, appeals against it, and the
complaints that start it. TLC checks small instances
of the modules, TLAPS proves the central properties for every value of the
constants.

    tlasany M.tla                               parse a module
    tlc -workers 2 -config Run.cfg Module       one run (PROJECT.json pairs them)
    tlapm CaseLifecycleProofs.tla               check the proofs of a module

Line numbers below and in the comments refer to the sources beside this
directory: `services.py`, `tasks.py`, `models.py`, `actions.py`, `screening.py`, ...

## 1. The system

### Components

| component | state it keeps | operations | what makes it correct |
|---|---|---|---|
| case vocabulary (`models.py`) | none | `CASE_TRANSITIONS`, the closed vocabularies | cases move along declared edges only |
| case lifecycle services (`services.py`) | `Case`, `Verdict`, `CaseEvent` rows | open, start screening, queue, park, dead-letter, close as gone, resolve, claim, release, rescan | one live case per target; a closing verdict decides, nothing else does; lease and state agree |
| screening task (`tasks.screen_case`) | a comm task per screening | locked first step, content read, screener, stamp, resolve | absence and unavailability are never permission; a stale answer never corrupts a case |
| failure handler (`actions.handle_task_failed`, `tasks.apply_screening_failure`) | none | hold, approve or reject by setting | failure is not a verdict unless the deployment said so in advance |
| beat jobs (`tasks.py`, `beat.py`) | their list, while they run | stale sweep, orphan sweep, re-screen sweep | nothing stays stuck; nobody's lease is stolen; the cap holds |
| operator command (`moderation_rescreen`) | its list | rescan or close the selected rows | as the services it calls |
| role-revoked subscriber (`actions.py`) | its list | release the claims of one person | as above |
| intake (`actions.handle_intake`, `functions.submit`, `submit_report`) | none | open or re-mark a case | one live case; an edit is not forgotten |
| draft screening (`services.screen_draft`) | a case under a synthetic key, unless allowed | screen content that does not exist yet | as the lifecycle; a draft key names nothing |
| sanctions and blacklist (`services.py`, `tasks.py`) | `Sanction` rows, a cache key per user | count the ladder, issue, lift, expire, re-arm, clear | the row is the truth and the key agrees with it; overlaps are respected; the ladder forgets no more than is destroyed |
| appeals (`services.py`, `views.py`) | `Appeal` rows | open, resolve (reopens and re-decides a case, lifts a sanction) | an independent decider; an overturn is a reversal on record and owes its lift; nothing else lifts |
| reports (`services.py`) | `Report` rows, `Case.report_count` | submit, announce as reviewed, drop duplicates on merge | the count never claims more than the rows; nobody is decided about untold |
| account merge and erasure (`actions.py`, `gdpr.py`) | none | re-point or blank user ids, delete what the survivor has too | facts late, twice and out of order leave no name that is gone; a merge can be written |
| retention purge (`tasks.py`) | its list, while it runs | delete the sanctions that ended `SANCTION_RETENTION_DAYS` ago, then old cases without one | a case with a surviving sanction stays |
| content seam (`services.fetch_content`) | none | ask the owner for content: found, not found, not available | an error is not "not found", and the reverse |
| screener (`screening.py`, `prompts.py`) | none | rules, photos one by one, model, confidence floor | no photo is judged unseen; doubt is a person's |
| registries (`registry.py`, `conf.py`) | process-wide dictionaries | merge of built-in, settings and runtime entries | the form, the gate and the screener agree on a reason and a type |
| facts and projection (`events.py`, `projections.py`) | outbox rows, `UserSanctionState` | emit, apply by sequence number, rebuild from the paged export | the read-model comes to what the tables say; a rebuild misses nobody |
| start-up checks (`checks.py`) | none | compare settings with each other | what W007 does not warn of does not happen |
| notifications, authorisation, reads, metrics, wiring, migrations | none of their own | | not the subject of a state machine |

### How they interact

Cases are the shared state. Eight kinds of process write them: HTTP requests of
moderators, screening tasks, the `task.failed` subscriber, intake subscribers,
the role-revoked subscriber, three beat jobs and an operator's command. Some
lock the row (`select_for_update`) for the whole of what they do; most read it,
do something slow, and hand the copy to a service. `services.transition`
computes the edge from that copy and saves the one column `state` onto whatever
the row holds by then; `resolve_case` asks the copy whether the case is already
resolved. The database adds one thing no copy can get around: the partial unique
constraint `uniq_open_case_per_target`.

Appeals and reports hang on cases. `resolve_appeal` re-decides a case inside one
transaction and lifts a sanction in a second; a report joins the live case of its
target under the row lock, and a verdict announces every report it closes. Facts
of the account service rewrite the names on both, and the purge deletes what
nobody needs any more.

In front of a case stands the ladder of the screener: whether anything is asked
at all is decided by registries that every process merges for itself from three
layers, and a draft, whose author waits for the answer, takes the same stages
through another door.

Sanctions touch a second store, the blacklist cache, which takes part in no
transaction and forgets by age. Three writers (issuing, clearing, re-arming)
meet there without a lock. They are also told to a third, a read-model in other
services, by facts numbered with a stamp that is taken before the commit.

### What is hard

* stale copies: every call of `resolve_case`, `transition`, `lift_sanction`
  and the expiry job acts on a row read earlier;
* check under a lock, act after it: the re-screen sweep;
* a slow call between read and write: the orphan sweep asks another service;
* tasks are retried, lost, overtaken by newer ones for the same case, and their
  failure arrives as a separate fact that names the case and not the task;
* progress rests on the beat jobs alone: nothing else moves a case whose task
  was lost, whose moderator went home, or that nobody ever takes;
* a cache that cannot be rolled back, written inside and outside transactions;
* a ladder that is counted before the transaction that climbs it, over rows a purge
  deletes;
* two transactions for one decision, with a request that may die between them;
* facts of two services, late, twice and out of order, against rows that move;
* exceptions of other people's code, read for what they mean;
* an export of many pages, read in several queries while its rows change.

PROJECT.json lists each of these at its line, with the properties that cover it.

## 2. The modules

| module | what it is | lines of code it stands for |
|---|---|---|
| `CaseVocabulary` | states, decisions, sources, the transition table | `models.py` enumerations, `transition`'s check |
| `CaseDecision` | the abstract specification: what a case is to everybody else | (none: a promise) |
| `SanctionRecord` | the abstract specification: what a sanction is to everybody, and whose | (none: a promise) |
| `CaseLifecycle` | cases and every process that moves them; properties; fairness | the services, tasks, subscribers and endpoints above |
| `MCCaseLifecycle` | instances for TLC | |
| `CaseLifecycleProofs`, `CaseDecisionProofs` | theorems about `CaseLifecycle` | |
| `Sanctions`, `MCSanctions` | sanction rows, the blacklist, the jobs that keep them in step | `issue_sanction` to `active_sanctions`, `rearm_active_sanctions`, `expire_sanctions` |
| `SanctionsProofs` | theorems about `Sanctions` | |
| `RearmCadence`, `RearmCadenceProofs` | the arithmetic of lifetime and cadence of a blacklist key | `rearm_active_sanctions`, `beat.py`, `conf.py` |
| `Appeals`, `MCAppeals` | appeals over the cases of one target; implements `CaseDecision` too | `open_appeal`, `resolve_appeal`, their endpoints |
| `AppealsProofs` | theorems about `Appeals` | |
| `Reports`, `MCReports` | complaints, account merges and erasures, the purge | `submit_report`, `handle_user_merged`, `_drop_duplicate_reports`, `handle_user_deleted`, `gdpr.py`, `purge_expired_cases` |
| `ReportsProofs` | theorems about `Reports` | |
| `Registry` | what a process takes a type, its reasons and its rules to be; pure definitions | `registry.py` |
| `ScreeningLadder`, `MCScreeningLadder` | one content from its door to its answer | `screen_draft`, `submit_report`'s gates, `fetch_content`, `screening.py`, `screen_case`'s ladder, `checks.py` |
| `ScreeningLadderProofs` | theorems about `ScreeningLadder` and `Registry` | |
| `SanctionReadModel`, `MCSanctionReadModel` | the projection of sanctions, its facts and its rebuild | `events.py`, `projections.py`, `sanctions_export`, the sanctions of `handle_user_merged` |
| `SanctionReadModelProofs` | theorems about `SanctionReadModel` | |

`CaseDecision` is one joint: `CaseLifecycle`, `Appeals` and `ScreeningLadder`
implement it, and `Appeals` uses it as its picture of everything that happens to a
case without an appeal. `ScreeningLadder` says how the answer comes about that
`CaseLifecycle` takes from a set, and its own case is decided no other way than
theirs.

`SanctionRecord` is the other. A sanction comes into force once and ends once, and
stays its person's unless the account is merged, when the whole record of the
person moves in one step. `Sanctions` (cache and ladder), `SanctionReadModel` (bus)
and `Appeals` (lift) see the same rows from three sides, with different stale copies
in hand, and each implements it.

### CaseLifecycle and the code

A row is one element of `Case`; its columns are the functions `state`,
`claimedBy`, `leaseLive`, `dlqAt`, `escalated`, `rescreens`, `resubmitted` and
`lastVerdict`. Timestamps are kept as what the code asks of them: is the lease
live, is the park stamp set, is the resubmission newer than the last screening.
`"absent"` is the row before its insert. `gone` is the world: targets their owner
deleted.

A step is a transaction, or the part of a handler up to where another process
can get in. A handler that acts on a copy keeps the state it read in the field
`mem` of its process:

* `task[t]` walks through `screen_case`: `requested`, `begun` (the first step,
  under its lock), `read` (content fetched), `screened` (answer stamped, the
  case read again), then `parked` and `failing` for the failure subscriber;
* `view[m]` is the verdict endpoint between its read and `resolve_case`;
* `sweep[j]` is a background job between the read of a row and its write.

`Moved(mem, now, to)` is `services.transition` as a stale copy sees it:
nothing is written when memory is already where it wants to go, whatever the row
holds now. `CanResolve` is everything that makes `resolve_case` commit; `TryResolve`
is the call with its rollback. Where a handler ends with a trailing effect
(clearing the claim, stamping, releasing the task), it is part of the action.

The comm machinery that runs tasks is outside this repository. It is modelled
from how `screen_case` and `handle_task_failed` use it: a handler that raises is
retried `MaxAttempts` times and then parked, a deadline parks a task wherever it
is, a task can vanish. A `task.failed` that cannot be applied is redelivered or
given up.

An edit sets `resubmitted`; the sweep consumes the mark (`SpendAttempt`), and so does
the stamp of an answer (`StampScreened`). `late` marks a task whose content was read
before the last edit: it is history, for the two properties about edits.

### Sanctions and the code

`row[s]` is `models.Sanction` with its clock reduced to ahead, past or never;
`"pending"` is a row written by a transaction that has not committed, `"purged"` one
that the retention purge has destroyed. `key[u]` is the blacklist entry. `work[p]` is a
request, or the expiry job, between two of its steps: `issue` (the ladder counted, the
row, in `draft`, not inserted: `ladder_duration` runs outside the transaction and locks
nothing), `enforce` (committed, not yet blacklisted), `verdict` (blacklisted, not
yet committed: `resolve_case` issues inside its own transaction), `end`
(a copy read as active), `check` and `drop` (`_clear_enforcement`). `seen` is what was
on record when the process counted or asked. `EndsNothing` is the save of a copy whose
row the purge has deleted: it raises. `rearming` is
what `rearm_active_sanctions` has listed and not set yet. Any process can die at
any step; an open transaction then rolls back, a cache write stays.

`SanctionReadModel` says what other services are told of those rows; there a
sanction may also change its subject, by a merge. `Reports` has the third side of the
purge: whether a case has a sanction left.

`RearmCadence` follows one key in ticks: how long it lives, how often beat starts
the job, how late in a period a run reaches the row, how many periods in a row
it may miss.

### Appeals and the code

`trail[c]` is the list of verdicts of a case, `appeal[c]` its appeal and
`sanction[c]` the sanction one of its verdicts came with; `contests` need not be
the sanction of the same case, because `open_appeal` takes any sanction its subject
ever had. `request[r]` is a request between two of its database steps: `file`
(case read, appeal not inserted), `decide` (appeal read and checked, nothing
written), `lift` and `lifting` (the overturn committed; the contested sanction
read, or still to be). A request can die in each. `Overturns` is the whole of the
transaction: the appeal's row, the lock on the case, the reopening if it is
resolved, the verdict. `RollsBack` is the same transaction against the unique
constraint. `filed` and `orphaned` are history: how many verdicts there were at
filing, and whose lift died with its request.

### Reports and the code

`submit_report` and `resolve_case` lock the row of the case before they look at its
reports, so each is one step. A merge is two: `handle_user_merged` reads the
survivor's targets and the guest's rows (`ReadsMerge`) and writes from that
(`WritesMerge`), with nothing locked, so other deliveries, erasures and the purge get
in between. `Story` is what the account service announces; the bus delivers any fact
announced so far, any number of times, in any order. `muddled` marks histories in
which the first delivery of a fact overtook an older one, or somebody used a session of
a closed account. `miscounted` names the cases of which a delivery counted down a report
that another had deleted. A deleted row keeps its columns: they are what a stale copy says.
`Forgets` and `ListsOld` are one run of the purge: first the sanctions, then the list of
cases, so no sanction is deleted between the list and `Purges`.

### Registry, ScreeningLadder and the code

A deployment is three stacks of layers, for types, reasons and rules, seen from one
target type. `Top` is the merge: the last layer that names a code wins, and an entry
of `None` removes it. `ScreeningLadder` follows one request. Through the report door
it passes the gates of `submit_report` in their order (the last, a second report of the
same person, is the unique constraint inside the transaction), becomes a task, reads its
content, and climbs (`Retries`, `GivesUp`) when a handler raises; through the draft
door it passes the gates of `screen_draft` and is answered there and then. Both run
`RunsRules`, `LooksAt` once per photo, `LinesUp` and `AsksModel`. What somebody else
says is chosen when it is asked: the owner's content or exception, in process or over
a wire (`OwnerAnswer`; the two lose different things, which is what `_is_not_found`
is about), what the CDN knows of a photo (`Photo`), the model's answer. `Redeploys`
restarts the workers with other registries while a task waits.

### SanctionReadModel and the code

A change of a sanction takes its stamp (`Issues`, `Ends`, `Merges`) and commits later
(`Commits`), so two changes of one user can commit against the order of their stamps.
The fact commits with the row; `Delivers` applies it by `UserSanctions.apply`, which
recomputes the user's row from the owner's tables and does not read the fact.
`stapel_core`'s runner, which compares the numbers, is outside this repository: it
drops older ones, and what it does with equal ones is left open. A rebuild empties
the table and pages through the export; each row of it is read in two queries
(`ReadsSnapshot`, `ReadsSeq`). `Purges` deletes an ended row and tells nobody.
`excused` and `steady` are history, explained with the properties below.

## 3. The runs

Passing runs finish without error; a violation run shows how one documented
sentence fails.

| run | asks | instance |
|---|---|---|
| `Screening` | is there one live case per target, do the columns of a row agree (state, lease, park stamp, verdict), is every edge declared, does a park decide nothing | two rows of one target, two tasks in flight, a moderator who sends cases back to the queue and rescans, the stale sweep; failures are held, media parks go to moderators |
| `Drafts` | are default verdicts declared for a case whose key names nothing, without automation; does a live lease never change hands | one draft, two moderators who decide from old copies, the command and every job that can meet a draft; drafts are refused |
| `Progress` | does everything stuck come loose or get escalated, does escalation mean the cap, are default verdicts declared, does the case implement `CaseDecision` | one case, a screener that never decides, a moderator who claims and never decides, all sweeps with auto-resolution, owner editing and deleting; failures approve |
| `EditUnseen` | `models.py:297`, an edit re-triggers moderation | fails |
| `Sanctions` | does lifting one sanction respect the other, does a lost key come back and a wrong one die, is what lapsed closed, does a sanction come into force and end once | two sanctions of one user, a biting kind and a mild one, one request, the expiry and re-arm jobs, the purge |
| `Strikes` | does the ladder forget no more than the purge destroys | three sanctions of one user, a ladder of three steps, two requests side by side, the expiry job, the purge |
| `Cadence` | does a key survive missed and late runs under the shipped settings | lifetime 24, period 6, any delay, two misses, in ticks of five minutes |
| `Appeals` | is the decider independent, is an overturn a remedy, is its lift owed and justified, is an appeal invisible to `CaseDecision` | a decided case with up to three verdicts and a newer row of its target, two moderators, two requests |
| `Reports` | is the count true, is everybody told, can a merge be written, does history settle, does a sanction keep its case | two complaints of three accounts on two rows of a target; a guest merged into an account that is merged on and then deleted; two workers on the merges |
| `ReadModel` | does the read-model converge, is a rebuild complete, does a merge take the whole record along | two sanctions, two users, two transactions, pages of one user, three stamps, the purge |
| `Ladder` | does an outage permit anything, is a photo judged unseen, is a refusal on record, what is retried, does W007 say it, does the gate honour the form, is the case decided as `CaseDecision` lets it | six deployments, the settings in the combinations that matter, up to three photos and three inline images, a cap of two, two attempts |
| `DraftAnswered` | `services.py:1181`, every failure of a draft's screener is answered | fails |

Every property of a passing run has a mutant in its module (`MUTANT` comments):
the definition as a plausible bug would leave it, under which TLC finds the
property violated.

### Bounds, and why they are enough

* One case, or two rows of one target. Rows of different targets share nothing
  but the processes: each process works on one row at a time, and every
  property but `OneLiveCase` is about one row.
* Two tasks in `Screening`: two is what a rescan beside a running screening
  gives, and what one case can tell apart (an old one and a new one). `Task` is
  a number of slots, so a start of screening waits for a free one; the code has
  no such limit, and the model only loses behaviours with a third task.
  In `Screening` owners do not edit (`NoEdits`): the mark of an edit steers only the
  re-screen job, which runs in `Progress`.
* Two moderators in `Drafts`: a holder and another.
* A background job works on one row at a time, between the read of the list
  and the write; the rows of its list it has not reached yet are rows it
  has not listed yet, because every job asks each row again, or acts on a copy
  that `mem` keeps.
* `MaxAttempts` and `RescreenCap` are one in `Screening` and `Progress`: at the limit
  and before it. A second attempt repeats the first with its counter raised; `Ladder`
  climbs twice, `EditUnseen` has two of each, and the proofs have every value.
* Two sanctions, one user, one request beside the two jobs in `Sanctions`, because its
  properties include liveness: an overlap and who ends it. Keys of different users are
  independent; the safety of any number of requests is proved.
* `Strikes`: three sanctions and two requests are a count that runs beside an insert and
  a third step that comes after both, with the purge in between.
* A verdict keeps its decision and its source. The source `"llm"` stands for
  the screener's deterministic rules too.
* `Appeals`: the newer row stays undecided (`MaxVerdicts` 0 there), which is what
  makes a reopening fail; three verdicts on the older one are the one appealed, one
  after the filing, and the reversal. The proofs have no bound.
* `Reports`: two reports are a duplicate pair, two workers a redelivery beside its first
  delivery.
* `ReadModel`: three stamps are an issue, an end, and a merge or a second issue; with
  pages of one user both users are on pages of their own.
* `Ladder`: a photo is one of thirty-two, a deployment one of six that differ in
  every registry; up to three photos under a cap of two is more than fits.

`Appeals`, `Reports`, `ReadModel`, `Ladder` and `DraftAnswered` say `CHECK_DEADLOCK
FALSE`: requests end there, and what the account service announces, the verdicts and
the stamps run out. In the other runs deadlock is checked.

### What a property excuses

* `ReadModelConverges` leaves out a user, until a later fact puts the row right, for
  three reasons: a change that commits behind a higher number of the same user, a
  row of the export whose two queries saw different tables, and an account merged
  away (its last fact names the survivor). The first two are races of the code;
  a user whose facts all come in stamp order is never excused by the first.
* `SettledHistory` speaks of histories that are not `muddled`, and of stories in which
  nobody is merged into an account that was closed before (`ClosedForGood`). That is
  assumed of the account service, which is outside this repository: nothing in
  `handle_user_merged` asks whether the survivor still exists, and with such a story
  a complaint would come back to a name that is gone.
* `CountIsTruthful` is exact but for `miscounted` cases: two workers had read the same
  duplicate and both counted it down, whoever deleted it. Nothing in the code keeps a fact
  from being handled twice at once. For those cases it says that the count is too low
  and never too high.
* `LadderEscalates` compares with what the request saw when it counted: two requests side
  by side take the same step, and each row destroyed before it was counted costs one. Both
  are the code's, and both are in section 5.
* `EditIsNotForgotten` accepts a decision on the text before the edit; that this happens
  is what `EditUnseen` shows.
* `OverlapIsRespected` speaks of what was on record at the check.
* `LiftIsOwed` names the request that died; nothing takes such a lift up again.
* `OnlyOutagesClimb` names the one exception whose meaning is lost in process.

### Fairness

`FairSpec` of `CaseLifecycle` assumes, for `Progress`: the beat jobs run on their
schedule (`beat.py`) and work through all they list, so a row that matches again
and again is taken (strong fairness per row: another row may be in hand at any
one time) and a row in hand is dealt with (weak). Age conditions (`a lease old`,
`the backoff`) are not counted, so "matches" means the condition comes true with
time, as it does when `RESCREEN_AFTER_SECONDS` and the cap are positive. Leases
run out because clocks do. `TaskStep` is weakly fair: the comm machinery brings
every task to some end, a loss included. `SweepRescan` is strongly fair only
because a re-screen needs a free slot of `Task`, which is a bound of the model.
Nothing is assumed of moderators, owners, screeners or content functions.

`FairSpec` of `Sanctions` assumes that the expiry and the re-arm job run, that the
expiry job is not killed at the same row every time (strong on `End`; a row that has been
purged it leaves, `EndsNothing`), and that
the cache does not refuse one user's key for ever (strong on `Rearm`). `KeyAges`
is weakly fair because keys have a TTL (`BLACKLIST_TTL`): a key that nobody is about
to set again goes. It says nothing of a key that is being renewed.

## 4. The proofs

`CaseLifecycleProofs` and `CaseDecisionProofs` prove, for any sets of cases,
targets, moderators and task slots, any jobs and any settings that satisfy the
named assumptions of `CaseLifecycle`:

* `TypeCorrect`: `Spec => []TypeOK`;
* `EdgesAreDeclared`, `RowsAgree` (from `LeaseAlwaysMatches` and
  `StateAlwaysOnRecord`), `LeaseNeverStolen`, `DefaultsAreDeclared`,
  `OneLiveCasePerTarget`, `EscalatedOnlyAtCap`, `ParkNeverDecides`: the safety
  properties the runs check;
* `LifecycleImplementsDecision`: `CaseLifecycle` implements `CaseDecision` under
  `status <- Status(state)`, `verdict <- lastVerdict`.

The argument has one shape. The types alone are not inductive: an action that
acts on `task[t].case` needs to know that there is a case in the slot, and one
that writes from memory needs to know that the memory is a state a row can have.
`InHand` says so, and `TypeOK /\ InHand` is the inductive invariant. Every action
writes at most one row: `RowStep(c)` describes what may happen to the columns
of that row, in a dozen alternatives (insert, resolve, park, requeue, claim, ...),
and `WritesOneRow` shows that each of the thirty-odd actions is one of them.
Each property is then proved against the alternatives and not against the
actions. What makes stale memory harmless for `DeclaredEdges` is in one lemma:
whatever the copy said, what is written is an edge from what the row holds, because
the table lets every state but one lead to `resolved` and to `queued`.

`RearmCadenceProofs` proves `KeyLives`: if

    Lifetime > (Misses + 1) * Period + Delay

then a key never lapses under a sanction in force. The invariant bounds the age of
a key by the missed periods and the ticks of this one. For the shipped settings
(7200 s, every 1800 s) it gives two missed runs with any delay inside the period.
With three the margin is zero: `tasks.py:648` promises three, which holds only if
the fourth run reaches the row no later in its period than the first one did.

`SanctionsProofs` proves `SanctionTypes`, `OverlapAlwaysRespected` and
`LadderAlwaysEscalates`, for any sanctions, users, kinds and ladders and any number of
requests. The invariant says who holds which row: the row of an open transaction is
pending and has one writer (`OpenTransactions`). Hence `RecordGrows`: what has been issued
stays issued, though the purge may take it off the record, and what went out of force
never comes back. That is what makes a check from before still good when the key is
dropped (`SeenIsFree`). For the ladder, `StepsAreCounted`: nobody stands higher than
sanctions were ever issued (`Ever`), themselves included, however many requests took their
step from one count. So a step counted from what is left falls short of those seen by no
more than what is lost (`LostIsCounted`), and stays so while the request waits
(`DraftsAreSound`): the sanctions it saw keep their steps, and what is purged meanwhile can
only be among them or make the allowance larger. A sanction committed after the question
is outside the overlap theorem, and the code does lose its key until the next re-arm.
`SanctionsKeepRecord` refines `SanctionRecord`: a row counts from its commit, and a purged
one as over. What the types and `RecordGrows` do not say is that a row which is only
pending has a clock that is not past and a subject (`PendingIsFresh`); without it a commit
could bring a sanction on record that is over already.

`AppealsProofs` proves the types, `DecidersAreIndependent`, `OverturnsAreRemedies`,
`LiftsAreOwed`, `LiftsAreJustified` and `AppealsImplementDecision`, for any number of
rows, moderators, requests and verdicts. A request acts on a copy, so the proof rests
on what only grows (`History`): verdicts are appended, an appeal once filed keeps its
number and what it contests, a sanction once issued is never unissued. What a request
checked when it read (`Knows`) is said in terms of those, and so is still true when it
writes. `TypeOK`, `InHand` and `OnRecord` together are inductive. `AppealsKeepRecord`
rests on `WritesOneSanction`: a step changes the sanction of one case, from none to
active or from active to an end, and a lift computed from a copy that was active
finds the row active or leaves it.

`ReportsProofs` proves the types, `SanctionsKeepTheirCase`, `EveryoneIsAlwaysTold`,
`MergesAreWritable` and `CountsAreTruthful`, for any accounts, targets, story and workers.
Each step is an insert, a change of reports in place, or none of their business
(`Steps`), and a case moves in few ways (`CaseMoves`). `OneEach` is the unique
constraint, kept by every merge because a merge drops exactly the survivor's targets.
`CountsAreTruthful` goes step by step (`CountsStep`): whoever deletes a report counts it
down in the same transaction, so that a count can only become too small (`TakingAway`),
and that happens to a case only when a duplicate that is being counted was deleted already,
which is what `miscounted` records and nothing takes back (`MiscountsStay`). What a purge
deletes goes with its case, and erasures change no row's case. There is no hypothesis about
workers.

`HistoriesSettle` is about names. The invariant, `Settling`, says of every history
that is not muddled that what has been handled is a beginning of the story (`InOrder`)
and that nobody it has dealt with is named by a complaint (`Cleared`); of every history
that a row without a name has lost its text too (`Blank`). A redelivered merge is the
interesting step: it could write the name of its survivor, who may be closed by
now, onto rows it read before. It reads rows of the guest, and in an orderly
history there are none left once the merge has been handled; on a first delivery
the survivor is not among those dealt with, which is what `ClosedForGood` is for.

`ScreeningLadderProofs` proves the types and the properties of `Ladder` for any
registries, settings and bounds that `Registry` and `ScreeningLadder` assume. The
invariant says where a request can be (`Underway`), that its type is registered while
a screener works (`Known`), what the photos amount to (`Shown`: inline images and
nothing else, or as many as were looked at and not more than the refs), what a result rests
on (`Grounded`) and what raised (`Troubled`). A retry starts from nothing and
`Redeploys` happens only before a task has read anything, which is why an answer's
grounds are those of the deployment that gave it. `LadderImplementsDecision` goes
through `CaseMoves`: a step is unseen, opens the case, closes it with a terminal
verdict or leaves it to people with an abstention, and each of the four is a step or
a stutter of `CaseDecision`.

`SanctionReadModelProofs` proves the types, `RebuildsAreComplete` and
`ReadModelAlwaysConverges`, for any users, rows, transactions and page size. That no
page loses anybody between its last subject and the cursor is a fact about finite sets
of numbers (`PageLosesNobody`), proved first. `Accounted` follows the users who are
under sanction throughout: each has a number already or is `Waiting` (on this page, in a
row read but not written, or beyond the cursor). `AllSettled` is the other invariant:
a user's row is right but for what lapsed unannounced (`Agrees`), or a fact with a
higher number has still to arrive (`Late`), or the rebuild has emptied it and not come
by yet. It needs to know that no number outruns what is committed (`Backed`), because
that is what makes the next fact win, and that writing a row of the export that was
read whole does no harm (`Fresh`). `OwnerKeepsRecord` needs one thing more: a row that
is being issued is still blank and has one writer (`Reserved`), so that no other
commit, a merge least of all, finds it half there.

Only model-checked: the liveness properties (`Progress`, and `LostKeyReturns`,
`WrongKeyDies` and `LapsedIsClosed` of `Sanctions`), because fairness is beyond the
prover. Every invariant and action property of a passing run and every refinement has its
theorem. The other way round, two kinds of results are proved and not run: the type
invariants, which say little by themselves, and that `Appeals`
keeps to `SanctionRecord`. No module with a theorem uses a RECURSIVE operator; there is
none in the project.

## 5. Where the code and its documents part

Two have runs of their own. `DraftAnswered`: `screen_draft` catches `ScreeningUnavailable` and
nothing else, and `run_llm` raises `MediaUnresolvable` when a draft names photos and
none can be shown. Its author gets an exception where `services.py:1181` promises
that a screener that raised comes out through `ON_SCREENING_FAILURE`. The report door
catches both (`screen_case`).

`EditUnseen`: `models.py:297` says that comparing `last_screened_at` with `resubmitted_at`
makes an edit re-trigger moderation. `last_screened_at` is the time of the answer and not
of the content read (`tasks.py:203`): an edit in between is older than the stamp, so its
mark is cleared though nothing has looked at it, and the case may close on the text before
it.

The models contain these as well, and the properties leave room for them:

* `tasks.py:511`, "CLAIMED cases are never touched": the re-screen sweep checks the
  state under its lock and calls `rescan_case` after releasing it. A case claimed in
  between is taken from its moderator. The orphan sweep has the same gap around its
  call to the owner.
* `services.py:93`, "A second verdict was attempted on a resolved case": "already
  resolved" is asked of the caller's copy. Two verdicts computed from copies of one
  undecided case both commit, and the second replaces the first. Two decisions on one
  appeal do the same (`ReadsToDecide`), and the appeal's row names the later one.
* `services.py:1542`, no cache write before the commit: in `resolve_case` the
  enforcement of a sanction runs inside the transaction. If the rest of it fails, a
  user is kept out, until the key dies of age, by a sanction that does not exist.
  `WrongKeyDies` is what remains true.
* `services.py:1594`, nobody walks free because another sanction was lifted: between
  the question and the removal of the key a new suspension can be issued and
  enforced; its key goes too and returns at the next re-arm (`LostKeyReturns`).
* `actions.py:232`, keep `report_count` truthful: `_drop_duplicate_reports` counts down for
  every duplicate it read. Two workers on one redelivery both do, and the count is then
  below the number of reports (`miscounted` in the run `Reports`).
* `services.py:1419`, the n-th sanction takes the n-th entry: the count (`services.py:1463`)
  is read before the transaction of the insert opens and locks nothing, so two requests
  take the same entry; and `tasks.py:717` deletes what it counts, so after three years a
  step can come again. The second is deliberate: `tasks.py:695` keeps sanctions that long
  because the ladder is memory.

## 6. Not modelled

* notifications: requests to another service under a cooldown, best effort by their
  docstring; they change no state of this module;
* authorisation: a pure decision per request from mandates held elsewhere;
* the read endpoints, presenters and serializers: they change nothing;
* start-up checks but W007: each compares a setting with a constant;
* what a merge does to the columns that only name somebody (leases, verdict and event
  actors): one statement re-points them all; and to appeals, of which it deletes the guest's
  where the survivor has appealed the same case (`actions.py:267`) and re-points the
  others. `Reports` and `SanctionReadModel` have the two kinds of rows where more is at
  stake;
* two changes of a sanction within one millisecond: `_seq` (`events.py:222`) gives them
  the same number, and `SanctionReadModel` stamps each change with a number of its own. What
  the runner does with equal numbers is left open all the same, because facts are
  delivered again;
* the GDPR export, and the scopes of a sanction, which only narrow a read;
* registration by name, subscription bookkeeping, event topics and payload fields;
* the filters, `--dry-run` and the report of the operator's command;
* wording, prompts, severity scores, audit rows and metrics, which decide nothing;
  HTTP, admin, migrations, generated metadata, application wiring, the e2e rig.

`OnScreeningUnavailable` matters in `CaseLifecycle` only to drafts and to deployments
without automation: `Drafts` sets it to `"reject"`, the proofs cover every value.
