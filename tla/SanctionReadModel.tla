-------------------------- MODULE SanctionReadModel -------------------------
(***************************************************************************)
(* The projection moderation.user_sanctions (projections.py): a read-model *)
(* of who is under sanction, fed by the facts that commit with each change *)
(* of a sanction row (events.py) and rebuilt from the paged export         *)
(* (services.sanctions_export).                                            *)
(*                                                                         *)
(* A change is stamped inside its transaction and commits later.  Facts    *)
(* arrive late, twice and in any order.  The runner is stapel_core's: it   *)
(* drops what is older than the row it has; which way it takes equal       *)
(* numbers is left open.                                                   *)
(***************************************************************************)
EXTENDS Naturals, FiniteSets, FiniteSetsExt

CONSTANTS
    Sanction,   \* primary keys of sanction rows
    User,       \* subject ids, in the order of the keyset
    Writer,     \* transactions in flight
    None,       \* null
    Limit,      \* settings EXPORT_PAGE_SIZE
    MaxClock    \* bound: milliseconds

ASSUME UserAssumption ==
    User \subseteq Nat \ {0} /\ IsFiniteSet(User) /\ None \notin User \cup Sanction
ASSUME LimitAssumption == Limit \in Nat \ {0} /\ MaxClock \in Nat

VARIABLES
    row,        \* models.Sanction
    clock,      \* unix milliseconds
    writing,    \* the change a transaction has stamped
    facts,      \* moderation.sanction.* on the bus
    seen,       \* facts delivered at least once
    model,      \* models.UserSanctionState
    rebuild,    \* core's rebuild, paging through the export
    steady,     \* history: users under sanction ever since the rebuild began
    excused     \* history: users whose row need not be right until a fact heals it

vars == <<row, clock, writing, facts, seen, model, rebuild, steady, excused>>

Stamp == 0..MaxClock

\* "purged": the row is deleted; what it held is history, and follows its person.
SanctionRow ==
    [state : {"absent", "active", "ended", "purged"}, subject : User \cup {None}, updated_at : Stamp,
     lapsed : BOOLEAN]

NoSanction == [state |-> "absent", subject |-> None, updated_at |-> 0, lapsed |-> FALSE]

Change ==
    [kind : {"idle", "issue", "end", "merge"}, row : Sanction \cup {None},
     user : User \cup {None}, from : User \cup {None}, seq : Stamp]

Idle == [kind |-> "idle", row |-> None, user |-> None, from |-> None, seq |-> 0]

Fact == [user : User, seq : Stamp]

ModelRow == [sanctions : SUBSET Sanction, seq : Stamp]

NoRow == [sanctions |-> {}, seq |-> 0]

ExportRow == [user : User, sanctions : SUBSET Sanction, seq : Stamp, torn : BOOLEAN]

\* "todo": subjects of the page not read yet.  "half": the row being read.
RebuildRecord ==
    [step : {"idle", "page", "rows", "seq", "upsert"}, cursor : User \cup {0},
     more : BOOLEAN, todo : SUBSET User, half : SUBSET Sanction, rows : SUBSET ExportRow]

NoRebuild ==
    [step |-> "idle", cursor |-> 0, more |-> FALSE, todo |-> {}, half |-> {}, rows |-> {}]

Init ==
    /\ row = [s \in Sanction |-> NoSanction]
    /\ clock = 0
    /\ writing = [w \in Writer |-> Idle]
    /\ facts = {} /\ seen = {}
    /\ model = [u \in User |-> NoRow]
    /\ rebuild = NoRebuild
    /\ steady = {} /\ excused = {}

-----------------------------------------------------------------------------
(* The owner's tables.                                                     *)

Of(u) == {s \in Sanction : row[s].subject = u}

\* active_sanctions: expiry is evaluated in the query.
InForce(s) == row[s].state = "active" /\ ~row[s].lapsed

\* sanction_snapshot.
Snapshot(u) == {s \in Of(u) : InForce(s)}

\* The newest updated_at of active_sanctions.
Newest(u) == Max({row[s].updated_at : s \in Snapshot(u)} \cup {0})

\* The users in force stay counted as long as each of their changes leaves some.
StillSteady == steady' = {u \in steady : Snapshot(u)' # {}}

\* MUTANT: a merge takes along what the read-model would show.
Carry_in_force(r, u, seq) ==
    IF r.state = "active" /\ ~r.lapsed THEN [r EXCEPT !.subject = u, !.updated_at = seq] ELSE r

\* A merge re-points a row and advances its updated_at.
Carry(r, u, seq) == [r EXCEPT !.subject = u, !.updated_at = seq]

\* A transaction reads the clock, which moves from stamp to stamp: two changes
\* within one millisecond, which _seq cannot tell apart, are left out.
Stamps(w) ==
    /\ writing[w] = Idle
    /\ clock < MaxClock
    /\ clock' = clock + 1

\* A transaction stamps its change: issue_sanction's insert ...
Issues(w, s, u) ==
    /\ Stamps(w)
    /\ row[s] = NoSanction
    /\ \A x \in Writer : writing[x].row # s
    /\ writing' = [writing EXCEPT ![w] =
           [kind |-> "issue", row |-> s, user |-> u, from |-> None, seq |-> clock']]
    /\ UNCHANGED <<row, facts, seen, model, rebuild, steady, excused>>

\* ... lift_sanction's or the expiry job's update, from a copy of the row ...
Ends(w, s) ==
    /\ Stamps(w)
    /\ row[s].state = "active"
    /\ writing' = [writing EXCEPT ![w] =
           [kind |-> "end", row |-> s, user |-> row[s].subject, from |-> None, seq |-> clock']]
    /\ UNCHANGED <<row, facts, seen, model, rebuild, steady, excused>>

\* ... or handle_user_merged's, of all rows of the guest.
Merges(w, g, u) ==
    /\ Stamps(w)
    /\ g # u
    /\ Of(g) # {}
    /\ writing' = [writing EXCEPT ![w] =
           [kind |-> "merge", row |-> None, user |-> u, from |-> g, seq |-> clock']]
    /\ UNCHANGED <<row, facts, seen, model, rebuild, steady, excused>>

\* The rows the change of w leaves.
Written(w) ==
    LET x == writing[w] IN
    CASE x.kind = "issue" ->
            [row EXCEPT ![x.row] = [NoSanction EXCEPT !.state = "active", !.subject = x.user,
                                                      !.updated_at = x.seq]]
      [] x.kind = "end" -> [row EXCEPT ![x.row].state = "ended", ![x.row].updated_at = x.seq]
      [] x.kind = "merge" ->
            [s \in Sanction |-> IF row[s].subject = x.from THEN Carry(row[s], x.user, x.seq)
                                ELSE row[s]]

\* The rows a change announces: its own, or each active one a merge carries over.
Announced(w) ==
    IF writing[w].kind = "merge" THEN {s \in Of(writing[w].from) : row[s].state = "active"}
    ELSE {writing[w].row}

\* The numbers of a fact, and of everything committed about a user so far.
Numbers(u) == {row[s].updated_at : s \in Of(u)} \cup {f.seq : f \in {f \in facts : f.user = u}}

\* Users the fact of this change does not put right: one that committed out of
\* order, one whose row moved after the copy was read, one that was merged away.
Unhealed(w) ==
    LET x == writing[w] IN
    {u \in {x.user} : \E n \in Numbers(u) : n >= x.seq}
    \cup ({x.from} \ {None})
    \cup {u \in User : x.row # None /\ row[x.row].subject = u /\ u # x.user}

\* The transaction commits, its fact with it; to save a row that the purge has
\* deleted raises.
Commits(w) ==
    /\ writing[w] # Idle
    /\ writing[w].kind = "end" => row[writing[w].row].state # "purged"
    /\ row' = Written(w)
    /\ facts' = facts \cup
           {[user |-> writing[w].user, seq |-> Written(w)[s].updated_at] : s \in Announced(w)}
    /\ excused' = excused \cup Unhealed(w)
    /\ writing' = [writing EXCEPT ![w] = Idle]
    /\ StillSteady
    /\ UNCHANGED <<clock, seen, model, rebuild>>

\* The transaction rolls back, and its fact with it.
RollsBack(w) ==
    /\ writing[w] # Idle
    /\ writing' = [writing EXCEPT ![w] = Idle]
    /\ UNCHANGED <<row, clock, facts, seen, model, rebuild, steady, excused>>

\* expires_at passes, and nobody is told until the expiry job runs.
Lapses(s) ==
    /\ InForce(s)
    /\ row' = [row EXCEPT ![s].lapsed = TRUE]
    /\ StillSteady
    /\ UNCHANGED <<clock, writing, facts, seen, model, rebuild, excused>>

\* purge_expired_cases deletes an ended row that has not changed for a long
\* time, without a fact.
Purges(s) ==
    /\ row[s].state = "ended"
    /\ row' = [row EXCEPT ![s].state = "purged"]
    /\ StillSteady
    /\ UNCHANGED <<clock, writing, facts, seen, model, rebuild, excused>>

-----------------------------------------------------------------------------
(* The runner.                                                             *)

\* UserSanctions.apply recomputes the user's whole row.
Apply(f) == Snapshot(f.user)

\* A fact is delivered, first or again.
Delivers(f) ==
    /\ seen' = seen \cup {f}
    /\ \/ /\ f.seq >= model[f.user].seq
          /\ model' = [model EXCEPT ![f.user] = [sanctions |-> Apply(f), seq |-> f.seq]]
          /\ excused' = IF rebuild.step = "idle" THEN excused \ {f.user} ELSE excused
       \/ /\ f.seq <= model[f.user].seq
          /\ UNCHANGED <<model, excused>>
    /\ UNCHANGED <<row, clock, writing, facts, rebuild, steady>>

\* A rebuild empties the table ...
Rebuilds ==
    /\ rebuild.step = "idle"
    /\ model' = [u \in User |-> NoRow]
    /\ rebuild' = [NoRebuild EXCEPT !.step = "page"]
    /\ steady' = {u \in User : Snapshot(u) # {}}
    /\ UNCHANGED <<row, clock, writing, facts, seen, excused>>

\* MUTANT: a page asks for no more than it returns.
Page_exact(after) ==
    LET subjects == {u \in User : u > after /\ Snapshot(u) # {}}
    IN  {u \in subjects : Cardinality({v \in subjects : v < u}) < Limit}

\* The first subjects after the cursor, one more than fits.
Page(after) ==
    LET subjects == {u \in User : u > after /\ Snapshot(u) # {}}
    IN  {u \in subjects : Cardinality({v \in subjects : v < u}) <= Limit}

\* ... asks sanctions_export for the subjects of a page ...
ListsPage ==
    LET page == Page(rebuild.cursor)
        more == Cardinality(page) > Limit
        kept == IF more THEN page \ {Max(page)} ELSE page
    IN  /\ rebuild.step = "page"
        /\ rebuild' = IF kept = {} THEN NoRebuild
                      ELSE [NoRebuild EXCEPT !.step = "rows", !.todo = kept, !.more = more,
                                             !.cursor = Max(kept)]
        /\ UNCHANGED <<row, clock, writing, facts, seen, model, steady, excused>>

\* ... which reads the snapshot of each ...
ReadsSnapshot ==
    /\ rebuild.step = "rows"
    /\ rebuild' = [rebuild EXCEPT !.step = "seq", !.half = Snapshot(Min(rebuild.todo))]
    /\ UNCHANGED <<row, clock, writing, facts, seen, model, steady, excused>>

\* ... and then, in another query, the number to go with it ...
ReadsSeq ==
    LET u == Min(rebuild.todo)
        new == [user |-> u, sanctions |-> rebuild.half, seq |-> Newest(u),
                torn |-> Snapshot(u) # rebuild.half]
    IN  /\ rebuild.step = "seq"
        /\ rebuild' = [rebuild EXCEPT !.step = IF rebuild.todo = {u} THEN "upsert" ELSE "rows",
                                      !.todo = @ \ {u}, !.half = {}, !.rows = @ \cup {new}]
        /\ UNCHANGED <<row, clock, writing, facts, seen, model, steady, excused>>

\* MUTANT: a snapshot row always wins.
Outdated_never(e) == FALSE

\* A snapshot row is dropped for what a fact has written meanwhile.
Outdated(e) == e.seq < model[e.user].seq

\* ... and puts the rows into the table, page after page.
Upserts(e) ==
    LET rest == rebuild.rows \ {e} IN
    /\ rebuild.step = "upsert"
    /\ e \in rebuild.rows
    /\ \/ /\ ~Outdated(e)
          /\ model' = [model EXCEPT ![e.user] = [sanctions |-> e.sanctions, seq |-> e.seq]]
          /\ excused' = IF e.torn THEN excused \cup {e.user} ELSE excused
       \/ /\ e.seq <= model[e.user].seq
          /\ UNCHANGED <<model, excused>>
    /\ rebuild' = IF rest # {} THEN [rebuild EXCEPT !.rows = rest]
                  ELSE IF rebuild.more THEN [NoRebuild EXCEPT !.step = "page", !.cursor = rebuild.cursor]
                  ELSE NoRebuild
    /\ UNCHANGED <<row, clock, writing, facts, seen, steady>>

-----------------------------------------------------------------------------

OwnerStep ==
    \/ \E w \in Writer :
          \/ Commits(w) \/ RollsBack(w)
          \/ \E s \in Sanction : Ends(w, s) \/ \E u \in User : Issues(w, s, u)
          \/ \E g, u \in User : Merges(w, g, u)
    \/ \E s \in Sanction : Lapses(s) \/ Purges(s)

RunnerStep ==
    \/ \E f \in facts : Delivers(f)
    \/ Rebuilds \/ ListsPage \/ ReadsSnapshot \/ ReadsSeq
    \/ \E e \in rebuild.rows : Upserts(e)

Next == OwnerStep \/ RunnerStep

Spec == Init /\ [][Next]_vars

-----------------------------------------------------------------------------

TypeOK ==
    /\ row \in [Sanction -> SanctionRow]
    /\ clock \in Stamp
    /\ writing \in [Writer -> Change]
    /\ facts \subseteq Fact /\ seen \subseteq facts
    /\ model \in [User -> ModelRow]
    /\ rebuild \in RebuildRecord
    /\ steady \subseteq User /\ excused \subseteq User

\* Every fact about u has arrived, and nothing has lapsed unannounced.
Quiet(u) ==
    /\ \A f \in facts : f.user = u => f \in seen
    /\ rebuild.step = "idle"
    /\ \A s \in Of(u) : row[s].state = "active" => ~row[s].lapsed

\* Whatever order its facts came in, the row answers what the owner's tables
\* answer, unless two changes of one user committed against the order of their
\* stamps, a rebuild read a row of the export in two halves, or the user moved.
ReadModelConverges == \A u \in User \ excused : Quiet(u) => model[u].sanctions = Snapshot(u)

\* A rebuild running while sanctions are issued, ended and carried over gives a
\* row to every user who was under sanction from its beginning to its end,
\* whatever page they are on.
RebuildIsComplete ==
    [][rebuild.step # "idle" /\ rebuild'.step = "idle"
          => \A u \in steady : model'[u].sanctions # {}]_vars

Status ==
    [s \in Sanction |-> IF row[s].state = "absent" THEN "none"
                        ELSE IF InForce(s) THEN "in_force" ELSE "over"]

Subject == [s \in Sanction |-> row[s].subject]

Record == INSTANCE SanctionRecord WITH status <- Status, subject <- Subject

\* A ban is not shed by signing in to another account: a merge takes along all
\* that is on a person's record when it commits, in one step and ended sanctions
\* too, whatever is being lifted, expired or purged beside it, and no change
\* from an old copy revives one.  What commits for the guest after the merge
\* stays the guest's (handle_user_merged).
ImplementsRecord == Record!Spec

=============================================================================
