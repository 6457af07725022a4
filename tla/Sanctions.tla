------------------------------ MODULE Sanctions -----------------------------
(***************************************************************************)
(* Sanctions and their teeth: the rows of models.Sanction, the services    *)
(* that issue and end them (services.py), the jobs that re-arm and expire  *)
(* them (tasks.py), and core's user blacklist, a cache outside every       *)
(* transaction.                                                            *)
(*                                                                         *)
(* A request or job that counts, writes a row, then asks whether anything  *)
(* else keeps the user out, then touches the cache, takes a step for each. *)
(* Time is not counted: a sanction lapses, a blacklist key dies of age and *)
(* a sanction that has ended passes its retention at any moment.           *)
(***************************************************************************)
EXTENDS Naturals, Sequences, FiniteSets

CONSTANTS
    Sanction,       \* primary keys of sanction rows
    User,           \* the people sanctioned
    Kind,           \* sanction kinds
    BlacklistKinds, \* settings BLACKLIST_KINDS
    Ladder,         \* settings SANCTION_LADDER, <<>> for a kind without one
    Request,        \* HTTP requests in flight
    Expiry,         \* the expiry job
    None            \* null

ASSUME KindsAssumption == BlacklistKinds \subseteq Kind

\* How long a sanction runs: an expiry ahead, in the past, or none.
Clock == {"ahead", "past", "never"}

ASSUME LadderAssumption == Ladder \in [Kind -> Seq({"ahead", "never"})]

ASSUME ProcessAssumption == Expiry \notin Request

VARIABLES
    row,        \* models.Sanction
    key,        \* the user has a blacklist key
    work,       \* what a request or the expiry job is in the middle of
    rearming    \* users the re-arm job has listed and not keyed yet

vars == <<row, key, work, rearming>>

Process == Request \cup {Expiry}

EndState == {"expired", "lifted", "overturned"}

\* "pending": written by a transaction that has not committed; "purged": the row
\* was destroyed, and its other columns say what was in it.
SanctionRow ==
    [state : {"absent", "pending", "active", "purged"} \cup EndState, subject : User \cup {None},
     kind : Kind \cup {None}, clock : Clock, step : Nat]

NoRow == [state |-> "absent", subject |-> None, kind |-> None, clock |-> "never", step |-> 0]

\* "draft": the row a process is about to insert; "seen": the rows on record it
\* saw when it last looked.
Work ==
    [op : {"idle", "issue", "enforce", "verdict", "end", "check", "drop"},
     row : Sanction \cup {None}, user : User \cup {None}, to : EndState,
     draft : SanctionRow, seen : SUBSET Sanction]

Idle == [op |-> "idle", row |-> None, user |-> None, to |-> "expired", draft |-> NoRow, seen |-> {}]

Busy(op, s, u) == [Idle EXCEPT !.op = op, !.row = s, !.user = u]

Init ==
    /\ row = [s \in Sanction |-> NoRow]
    /\ key = [u \in User |-> FALSE]
    /\ work = [p \in Process |-> Idle]
    /\ rearming = {}

SetWork(p, w) == work' = [work EXCEPT ![p] = w]

-----------------------------------------------------------------------------
(* What the rows say.                                                      *)

Committed == {s \in Sanction : row[s].state \notin {"absent", "pending", "purged"}}

\* active_sanctions: expiry is evaluated in the query.
InForce(s) == row[s].state = "active" /\ row[s].clock # "past"

Bites(s) == row[s].kind \in BlacklistKinds

\* The sanctions that keep u out.
Warrants(u) == {s \in Sanction : InForce(s) /\ Bites(s) /\ row[s].subject = u}

\* MUTANT: the ladder forgets what has ended.
Strikes_in_force(u, k) ==
    {s \in Committed : InForce(s) /\ row[s].subject = u /\ row[s].kind = k}

\* The sanctions of one kind on record for a user, ended or not.
Strikes(u, k) == {s \in Committed : row[s].subject = u /\ row[s].kind = k}

\* ladder_duration: the n-th sanction takes the n-th entry, the last repeats.
LadderStep(u, k) ==
    LET seen == Cardinality(Strikes(u, k))
    IN  IF seen < Len(Ladder[k]) THEN seen + 1 ELSE Len(Ladder[k])

\* The rows issue_sanction may write: a duration is given or read off the
\* ladder, and a kind without one is indefinite.
NewRow(u, k) ==
    LET n == LadderStep(u, k)
        base == [NoRow EXCEPT !.subject = u, !.kind = k]
    IN  {[base EXCEPT !.clock = "ahead"],
         IF Ladder[k] = <<>> THEN base
         ELSE [base EXCEPT !.clock = Ladder[k][n], !.step = n]}

-----------------------------------------------------------------------------
(* Issuing.                                                                *)

\* The cache took the key, or refused it.
Stored(u) == \/ key' = [key EXCEPT ![u] = TRUE]
             \/ UNCHANGED key

\* issue_sanction, by itself or within the transaction of a verdict, settles the
\* duration first: it counts what is on record, and locks nothing ...
ReadsLadder(p, u, k) ==
    /\ work[p] = Idle
    /\ \E r \in NewRow(u, k) :
          SetWork(p, [Busy("issue", None, u) EXCEPT
                         !.draft = r, !.seen = IF r.step = 0 THEN {} ELSE Committed])
    /\ UNCHANGED <<row, key, rearming>>

\* MUTANT: a sanction of the same kind that has ended is put back in force.
Issue_revives(p, s) ==
    LET r == work[p].draft
    IN  /\ work[p].op = "issue"
        /\ row[s] = NoRow \/ (row[s].state \in EndState /\ row[s].subject = r.subject /\ row[s].kind = r.kind)
        /\ row' = [row EXCEPT ![s] = [r EXCEPT !.state = "active"]]
        /\ SetWork(p, IF r.kind \in BlacklistKinds THEN Busy("enforce", s, r.subject) ELSE Idle)
        /\ UNCHANGED <<key, rearming>>

\* ... issue_standalone_sanction commits the row ...
Issue(p, s) ==
    LET r == work[p].draft
    IN  /\ work[p].op = "issue"
        /\ row[s] = NoRow
        /\ row' = [row EXCEPT ![s] = [r EXCEPT !.state = "active"]]
        /\ SetWork(p, IF r.kind \in BlacklistKinds THEN Busy("enforce", s, r.subject) ELSE Idle)
        /\ UNCHANGED <<key, rearming>>

\* ... and makes it bite.
Enforce(p) ==
    /\ work[p].op = "enforce"
    /\ Stored(work[p].user)
    /\ SetWork(p, Idle)
    /\ UNCHANGED <<row, rearming>>

\* resolve_case issues inside its own transaction: the cache is written first ...
IssueWithVerdict(p, s) ==
    LET r == work[p].draft
    IN  /\ work[p].op = "issue"
        /\ row[s] = NoRow
        /\ row' = [row EXCEPT ![s] = [r EXCEPT !.state = "pending"]]
        /\ IF r.kind \in BlacklistKinds THEN Stored(r.subject) ELSE UNCHANGED key
        /\ SetWork(p, Busy("verdict", s, r.subject))
        /\ UNCHANGED rearming

\* ... and the row commits with the verdict.
VerdictCommits(p) ==
    /\ work[p].op = "verdict"
    /\ row' = [row EXCEPT ![work[p].row].state = "active"]
    /\ SetWork(p, Idle)
    /\ UNCHANGED <<key, rearming>>

\* The process fails or is killed where it stands: an open transaction rolls
\* back, what has been committed or cached stays.
Fails(p) ==
    /\ work[p] # Idle
    /\ row' = IF work[p].op = "verdict" THEN [row EXCEPT ![work[p].row] = NoRow] ELSE row
    /\ SetWork(p, Idle)
    /\ UNCHANGED <<key, rearming>>

-----------------------------------------------------------------------------
(* Ending.                                                                 *)

\* expires_at passes.
Lapses(s) ==
    /\ s \in Committed
    /\ row[s].clock = "ahead"
    /\ row' = [row EXCEPT ![s].clock = "past"]
    /\ UNCHANGED <<key, work, rearming>>

ReadsToEnd(p, s, to) ==
    /\ work[p] = Idle
    /\ row[s].state = "active"
    /\ SetWork(p, [Busy("end", s, row[s].subject) EXCEPT !.to = to])
    /\ UNCHANGED <<row, key, rearming>>

\* lift_sanction, from the lift endpoint or an appeal, checks the copy it was
\* given ...
Lift(p, s) == p \in Request /\ \E to \in {"lifted", "overturned"} : ReadsToEnd(p, s, to)

\* MUTANT: the filter of the re-arm job, copied.
ListLapsed_biting(s) ==
    /\ row[s].clock = "past"
    /\ Bites(s)
    /\ ReadsToEnd(Expiry, s, "expired")

\* ... expire_sanctions the rows it listed as lapsed ...
ListLapsed(s) ==
    /\ row[s].clock = "past"
    /\ ReadsToEnd(Expiry, s, "expired")

\* ... and both write the state over whatever the row holds by then ...
End(p) ==
    /\ work[p].op = "end"
    /\ work[p].row \in Committed
    /\ row' = [row EXCEPT ![work[p].row].state = work[p].to]
    /\ SetWork(p, Busy("check", None, work[p].user))
    /\ UNCHANGED <<key, rearming>>

\* ... or find it purged, and raise.
EndsNothing(p) ==
    /\ work[p].op = "end"
    /\ work[p].row \notin Committed
    /\ SetWork(p, Idle)
    /\ UNCHANGED <<row, key, rearming>>

\* MUTANT: unblacklist_user, bare.
CheckWarrant_bare(p) ==
    /\ work[p].op = "check"
    /\ SetWork(p, [work[p] EXCEPT !.op = "drop", !.seen = Committed])
    /\ UNCHANGED <<row, key, rearming>>

\* _clear_enforcement: does anything still keep the user out? ...
CheckWarrant(p) ==
    /\ work[p].op = "check"
    /\ SetWork(p, IF Warrants(work[p].user) = {}
                  THEN [work[p] EXCEPT !.op = "drop", !.seen = Committed] ELSE Idle)
    /\ UNCHANGED <<row, key, rearming>>

\* ... and if nothing did, the key goes.
DropKey(p) ==
    /\ work[p].op = "drop"
    /\ key' = [key EXCEPT ![work[p].user] = FALSE]
    /\ SetWork(p, Idle)
    /\ UNCHANGED <<row, rearming>>

\* purge_expired_cases destroys what ended SANCTION_RETENTION_DAYS ago.
Purge(s) ==
    /\ row[s].state \in EndState
    /\ row' = [row EXCEPT ![s].state = "purged"]
    /\ UNCHANGED <<key, work, rearming>>

-----------------------------------------------------------------------------
(* The cache and its keeper.                                               *)

\* BLACKLIST_TTL_SECONDS pass, or the cache evicts the key.
KeyExpires(u) ==
    /\ key[u]
    /\ key' = [key EXCEPT ![u] = FALSE]
    /\ UNCHANGED <<row, work, rearming>>

\* MUTANT: an indefinite sanction has no expires_at to compare.
ListToRearm_timed ==
    /\ rearming = {}
    /\ rearming' = {u \in User : \E s \in Warrants(u) : row[s].clock = "ahead"}
    /\ UNCHANGED <<row, key, work>>

\* MUTANT: the filter on the state is lost; a lifted sanction still has its clock.
ListToRearm_ended ==
    /\ rearming = {}
    /\ rearming' = {u \in User : \E s \in Committed :
                       Bites(s) /\ row[s].clock # "past" /\ row[s].subject = u}
    /\ UNCHANGED <<row, key, work>>

\* rearm_active_sanctions lists the sanctions in force ...
ListToRearm ==
    /\ rearming = {}
    /\ rearming' = {u \in User : Warrants(u) # {}}
    /\ UNCHANGED <<row, key, work>>

\* ... and sets the key of each user again ...
Rearm(u) ==
    /\ u \in rearming
    /\ key' = [key EXCEPT ![u] = TRUE]
    /\ rearming' = rearming \ {u}
    /\ UNCHANGED <<row, work>>

\* ... unless the cache refuses it or the job dies.
RearmFails(u) ==
    /\ u \in rearming
    /\ rearming' = rearming \ {u}
    /\ UNCHANGED <<row, key, work>>

-----------------------------------------------------------------------------

IssueStep == \E p \in Request :
    \/ \E u \in User, k \in Kind : ReadsLadder(p, u, k)
    \/ \E s \in Sanction : Issue(p, s) \/ IssueWithVerdict(p, s)
    \/ Enforce(p) \/ VerdictCommits(p)

EndStep ==
    \/ \E p \in Process : End(p) \/ EndsNothing(p) \/ CheckWarrant(p) \/ DropKey(p) \/ Fails(p)
    \/ \E s \in Sanction : \/ Lapses(s) \/ ListLapsed(s) \/ Purge(s)
                           \/ \E p \in Request : Lift(p, s)

CacheStep ==
    \/ ListToRearm
    \/ \E u \in User : KeyExpires(u) \/ Rearm(u) \/ RearmFails(u)

Next == IssueStep \/ EndStep \/ CacheStep

Spec == Init /\ [][Next]_vars

-----------------------------------------------------------------------------

TypeOK ==
    /\ row \in [Sanction -> SanctionRow]
    /\ key \in [User -> BOOLEAN]
    /\ work \in [Process -> Work]
    /\ rearming \subseteq User

\* What the purge has destroyed of a user's sanctions of one kind.
Purged(u, k) ==
    {s \in Sanction : row[s].state = "purged" /\ row[s].subject = u /\ row[s].kind = k}

\* The ladder is memory, and forgets no more than the purge destroys: a new
\* sanction on a ladder stands above every one of its user and kind that was on
\* record when its request counted, ended by then or since, or on the last step;
\* each row of theirs destroyed before it could be counted costs one step.  Two
\* requests that count side by side take the same step: neither saw the other.
LadderEscalates ==
    [][\A p \in Request, s \in Sanction :
          /\ row[s] = NoRow /\ row'[s] # NoRow /\ row'[s].step > 0
          /\ work[p].op = "issue" /\ work'[p] # work[p]
          => LET u == row'[s].subject
                 k == row'[s].kind
                 lost == Cardinality(Purged(u, k) \ work[p].seen)
             IN  \/ row'[s].step = Len(Ladder[k])
                 \/ \A r \in work[p].seen : row[r].subject = u /\ row[r].kind = k
                                              => row'[s].step + lost > row[r].step]_vars

\* A user under two overlapping suspensions does not walk free because one of
\* them was lifted or ran out: whoever drops the key leaves no sanction in force
\* that was on record when it looked.
OverlapIsRespected ==
    [][\A p \in Process : work[p].op = "drop" /\ work'[p] = Idle
          => \A u \in User : key[u] /\ ~key'[u] => Warrants(u) \cap work[p].seen = {}]_vars

\* A sanction of u is being issued.
Issuing(u) == \E p \in Request : work[p].user = u /\ work[p].op \in {"enforce", "verdict"}

\* A key that nobody is about to set again ages.
KeyAges(u) == ~Issuing(u) /\ u \notin rearming /\ KeyExpires(u)

\* A run of a job reaches every row it lists, a cache that refuses keys does not
\* refuse them for ever, and keys have a TTL.
FairSpec ==
    /\ Spec
    /\ \A s \in Sanction : SF_vars(ListLapsed(s))
    /\ SF_vars(End(Expiry)) /\ WF_vars(EndsNothing(Expiry))
    /\ WF_vars(CheckWarrant(Expiry)) /\ WF_vars(DropKey(Expiry))
    /\ WF_vars(ListToRearm)
    /\ \A u \in User : SF_vars(Rearm(u)) /\ WF_vars(Rearm(u) \/ RearmFails(u)) /\ WF_vars(KeyAges(u))

\* The row is the truth and the re-arm job makes the cache agree with it: a user
\* who lost the key, by age, by a refused write, a crash or a race, while a
\* sanction keeps them out, gets it back.
LostKeyReturns ==
    \A u \in User : (Warrants(u) # {} /\ ~key[u]) ~> (key[u] \/ Warrants(u) = {})

\* No key outlives its sanctions for good: whoever left one behind, a verdict that
\* rolled back after writing the cache, a request that died before it cleared the
\* key, a re-arm from a row read before the lift, a user whom nothing keeps out
\* any more ends up without one, and the re-arm job does not keep it alive.
WrongKeyDies ==
    \A u \in User : <>[](Warrants(u) = {} /\ ~Issuing(u)) => <>[](~key[u])

\* A sanction of any kind that has run out is closed by the expiry job.
LapsedIsClosed ==
    \A s \in Sanction : (row[s].state = "active" /\ row[s].clock = "past")
                            ~> row[s].state # "active"

\* A row counts from its commit, and as over from the moment it runs out, whoever
\* writes that down and whenever; that it is destroyed later does not undo it.
Issued == {s \in Sanction : row[s].state \notin {"absent", "pending"}}

Status ==
    [s \in Sanction |-> IF s \notin Issued THEN "none"
                        ELSE IF InForce(s) THEN "in_force" ELSE "over"]

Subject == [s \in Sanction |-> IF s \in Issued THEN row[s].subject ELSE None]

Record == INSTANCE SanctionRecord WITH status <- Status, subject <- Subject

\* No handler acting on an old copy brings a sanction back into force, and no
\* rollback unissues one that has committed: each is issued once and ends once.
ImplementsRecord == Record!Spec

=============================================================================
