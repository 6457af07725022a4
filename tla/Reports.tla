------------------------------- MODULE Reports ------------------------------
(***************************************************************************)
(* Complaints and the people behind them: submit_report (services.py), the *)
(* subscribers that carry a merged account's reports to the survivor and   *)
(* erase a deleted one (actions.py, gdpr.py), and the retention purge      *)
(* (tasks.py), over the rows of Report and Case.                           *)
(*                                                                         *)
(* submit_report works under the row lock of its case, so it is one step;  *)
(* resolve_case waits for that lock and reads the reports after it.  The   *)
(* bus delivers the facts of the account service at least once, late and   *)
(* in any order.                                                           *)
(***************************************************************************)
EXTENDS Naturals, Sequences, FiniteSets

CONSTANTS
    Report,     \* primary keys of report rows
    Case,       \* primary keys of case rows
    Target,
    TargetOf,   \* the target of a case
    Account,
    Story,      \* bound: the merges and deletions the account service announces
    Delivery,   \* workers that handle merges
    None        \* null

ASSUME TargetAssumption == TargetOf \in [Case -> Target]

Fact == [kind : {"merged", "deleted"}, who : Account, into : Account \cup {None}]

ASSUME StoryAssumption ==
    /\ Story \in Seq(Fact)
    /\ \A i \in DOMAIN Story :
          Story[i].kind = "merged" => Story[i].into \in Account \ {Story[i].who}

\* The account service closes an account for good: nobody is merged into it later.
ASSUME ClosedForGood ==
    \A i, j \in DOMAIN Story :
        i < j /\ Story[j].kind = "merged" => Story[j].into # Story[i].who

ASSUME NoneAssumption == None \notin Account /\ None \notin Case

VARIABLES
    case,       \* models.Case, as far as reports go
    report,     \* models.Report
    announced,  \* facts of Story on the bus
    handled,    \* facts some delivery has dealt with
    merging,    \* what a delivery of a merge has read
    purging,    \* cases the purge has listed
    muddled,    \* history: a fact overtook an older one, or a closed account was used
    miscounted  \* history: cases a delivery counted down for a report another had deleted

vars == <<case, report, announced, handled, merging, purging, muddled, miscounted>>

CaseRow ==
    [state : {"absent", "live", "resolved", "purged"}, count : Nat, old : BOOLEAN, held : BOOLEAN]

NoCase == [state |-> "absent", count |-> 0, old |-> FALSE, held |-> FALSE]

\* "text": description and contact.  "told": a report.reviewed fact names the
\* row.  A deleted row keeps what a copy of it would say.
ReportRow ==
    [row : {"absent", "filed", "deleted"}, case : Case \cup {None}, by : Account \cup {None},
     text : BOOLEAN, told : BOOLEAN]

NoReport == [row |-> "absent", case |-> None, by |-> None, text |-> FALSE, told |-> FALSE]

MergeRecord == [fact : 0..Len(Story), already : SUBSET Target, rows : SUBSET Report]

Idle == [fact |-> 0, already |-> {}, rows |-> {}]

Init ==
    /\ case = [c \in Case |-> NoCase]
    /\ report = [r \in Report |-> NoReport]
    /\ announced = 0
    /\ handled = {}
    /\ merging = [w \in Delivery |-> Idle]
    /\ purging = {}
    /\ muddled = FALSE
    /\ miscounted = {}

-----------------------------------------------------------------------------
(* The tables.                                                             *)

Filed == {r \in Report : report[r].row = "filed"}

On(c) == {r \in Filed : report[r].case = c}

About(r) == TargetOf[report[r].case]

FiledBy(u) == {r \in Filed : report[r].by = u}

\* The targets u has complained about, of any case, resolved ones included.
Reported(u) == {About(r) : r \in FiledBy(u)}

\* The live case of a target.
LiveCase(k) == {c \in Case : TargetOf[c] = k /\ case[c].state = "live"}

\* Accounts the account service has closed.
Closed == {Story[i].who : i \in 1..announced}

-----------------------------------------------------------------------------
(* Complaints and decisions.                                               *)

\* open_case: the live case of the target, or a new row where there is none.
Joins(k) ==
    IF LiveCase(k) # {} THEN LiveCase(k)
    ELSE {c \in Case : TargetOf[c] = k /\ case[c].state = "absent"}

\* submit_report joins or opens the case, inserts the row unless
\* uniq_report_per_user refuses it, and counts it.  A session of a closed account
\* may still be in use.
Submits(u, r, c) ==
    /\ report[r] = NoReport
    /\ c \in Joins(TargetOf[c])
    /\ TargetOf[c] \notin Reported(u)
    /\ report' = [report EXCEPT ![r] =
           [row |-> "filed", case |-> c, by |-> u, text |-> TRUE, told |-> FALSE]]
    /\ case' = [case EXCEPT ![c].state = IF @ = "absent" THEN "live" ELSE @, ![c].count = @ + 1]
    /\ muddled' = (muddled \/ u \in Closed)
    /\ UNCHANGED <<announced, handled, merging, purging, miscounted>>

\* MUTANT: the reports are read before the row is locked.
Resolves_early(c) ==
    /\ case[c].state = "live"
    /\ \E h \in {case[c].held, TRUE}, told \in SUBSET On(c) :
          /\ case' = [case EXCEPT ![c].state = "resolved", ![c].old = FALSE, ![c].held = h]
          /\ report' = [r \in Report |-> IF r \in told THEN [report[r] EXCEPT !.told = TRUE]
                                         ELSE report[r]]
    /\ UNCHANGED <<announced, handled, merging, purging, muddled, miscounted>>

\* resolve_case, with a sanction or without, announces report.reviewed once per
\* report.
Resolves(c) ==
    /\ case[c].state = "live"
    /\ \E h \in {case[c].held, TRUE} :
          case' = [case EXCEPT ![c].state = "resolved", ![c].old = FALSE, ![c].held = h]
    /\ report' = [r \in Report |-> IF r \in On(c) THEN [report[r] EXCEPT !.told = TRUE]
                                   ELSE report[r]]
    /\ UNCHANGED <<announced, handled, merging, purging, muddled, miscounted>>

\* rescan_case, under uniq_open_case_per_target; resolved_at keeps its value.
Reopens(c) ==
    /\ case[c].state = "resolved"
    /\ LiveCase(TargetOf[c]) = {}
    /\ case' = [case EXCEPT ![c].state = "live"]
    /\ UNCHANGED <<report, announced, handled, merging, purging, muddled, miscounted>>

-----------------------------------------------------------------------------
(* Facts about accounts.                                                   *)

\* The account service merges or deletes the next account.
Announces ==
    /\ announced < Len(Story)
    /\ announced' = announced + 1
    /\ UNCHANGED <<case, report, handled, merging, purging, muddled, miscounted>>

\* Fact i has been dealt with; muddled if an older one has not.
Handles(i) ==
    /\ handled' = handled \cup {i}
    /\ muddled' = (muddled \/ (i \notin handled /\ ~(1..(i - 1) \subseteq handled)))

\* handle_user_merged is delivered, first or again, and reads the survivor's
\* targets and the guest's rows ...
ReadsMerge(w, i) ==
    /\ merging[w] = Idle
    /\ i \in 1..announced
    /\ Story[i].kind = "merged"
    /\ merging' = [merging EXCEPT ![w] =
           [fact |-> i, already |-> Reported(Story[i].into), rows |-> FiledBy(Story[i].who)]]
    /\ UNCHANGED <<case, report, announced, handled, purging, muddled, miscounted>>

\* MUTANT: the survivor's own complaints are not looked up.
Duplicates_none(w) == {}

\* _drop_duplicate_reports: of the rows it read, those on a target the survivor
\* had reported.
Duplicates(w) == {r \in merging[w].rows : About(r) \in merging[w].already}

\* The rows the merge re-points: whatever names the guest when it writes.
Carried(w) == FiledBy(Story[merging[w].fact].who) \ Duplicates(w)

\* uniq_report_per_user lets the merge be written.
Writable(w) ==
    \A r, s \in (FiledBy(Story[merging[w].fact].into) \ Duplicates(w)) \cup Carried(w) :
        About(r) = About(s) => r = s

\* MUTANT: the duplicates go, the count stays.
Decremented_never(w, c) == case[c].count

\* One decrement per duplicate it read, down to zero, whoever deleted the row.
Decremented(w, c) ==
    LET n == Cardinality({r \in Duplicates(w) : report[r].case = c})
    IN  IF n < case[c].count THEN case[c].count - n ELSE 0

\* ... and drops the duplicates, corrects the count and re-points the rest.
WritesMerge(w) ==
    LET into == Story[merging[w].fact].into IN
    /\ merging[w] # Idle
    /\ Writable(w)
    /\ report' = [r \in Report |->
           IF r \in Duplicates(w) THEN [report[r] EXCEPT !.row = "deleted"]
           ELSE IF r \in Carried(w) THEN [report[r] EXCEPT !.by = into] ELSE report[r]]
    /\ case' = [c \in Case |-> [case[c] EXCEPT !.count = Decremented(w, c)]]
    /\ Handles(merging[w].fact)
    /\ merging' = [merging EXCEPT ![w] = Idle]
    /\ miscounted' = miscounted \cup {report[r].case : r \in Duplicates(w) \ Filed}
    /\ UNCHANGED <<announced, purging>>

\* The worker dies, or the unique constraint takes the transaction back: the fact
\* will be delivered again.
DropsMerge(w) ==
    /\ merging[w] # Idle
    /\ merging' = [merging EXCEPT ![w] = Idle]
    /\ UNCHANGED <<case, report, announced, handled, purging, muddled, miscounted>>

\* MUTANT: only complaints still under review are detached.
Detached_live(u) == {r \in FiledBy(u) : case[report[r].case].state = "live"}

Detached(u) == FiledBy(u)

\* handle_user_deleted is delivered, first or again: erase_user_reports detaches
\* the person, and the rows stay.
Erases(i) ==
    LET gone == Detached(Story[i].who) IN
    /\ i \in 1..announced
    /\ Story[i].kind = "deleted"
    /\ report' = [r \in Report |->
           IF r \in gone THEN [report[r] EXCEPT !.by = None, !.text = FALSE] ELSE report[r]]
    /\ Handles(i)
    /\ UNCHANGED <<case, announced, merging, purging, miscounted>>

-----------------------------------------------------------------------------
(* Retention.                                                              *)

\* RETENTION_DAYS pass after resolved_at.
Ages(c) ==
    /\ case[c].state = "resolved"
    /\ ~case[c].old
    /\ case' = [case EXCEPT ![c].old = TRUE]
    /\ UNCHANGED <<report, announced, handled, merging, purging, muddled, miscounted>>

\* The last sanction of the case ended SANCTION_RETENTION_DAYS ago: the job deletes
\* it before it lists the cases.
Forgets(c) ==
    /\ purging = {}
    /\ case[c].held
    /\ case' = [case EXCEPT ![c].held = FALSE]
    /\ UNCHANGED <<report, announced, handled, merging, purging, muddled, miscounted>>

\* purge_expired_cases collects what it is about to delete ...
ListsOld ==
    /\ purging = {}
    /\ purging' = {c \in Case : case[c].state = "resolved" /\ case[c].old /\ ~case[c].held}
    /\ UNCHANGED <<case, report, announced, handled, merging, muddled, miscounted>>

\* MUTANT: the sanctions are trusted to be as they were listed.
Unprotected_as_listed == purging

\* A foreign key protects a case with a sanction, one issued meanwhile included.
Unprotected == {c \in purging : ~case[c].held}

\* ... and deletes it by primary key with its reports, all or nothing, whatever
\* has been reopened meanwhile.
Purges ==
    /\ purging # {}
    /\ purging' = {}
    /\ IF Unprotected = purging
       THEN /\ case' = [c \in Case |-> IF c \in purging
                           THEN [case[c] EXCEPT !.state = "purged", !.count = 0] ELSE case[c]]
            /\ report' = [r \in Report |-> IF r \in Filed /\ report[r].case \in purging
                             THEN [report[r] EXCEPT !.row = "deleted"] ELSE report[r]]
       ELSE UNCHANGED <<case, report>>
    /\ UNCHANGED <<announced, handled, merging, muddled, miscounted>>

-----------------------------------------------------------------------------

CaseStep == \E c \in Case :
    \/ Resolves(c) \/ Reopens(c) \/ Ages(c) \/ Forgets(c)
    \/ \E u \in Account, r \in Report : Submits(u, r, c)

AccountStep ==
    \/ Announces
    \/ \E i \in DOMAIN Story : Erases(i) \/ \E w \in Delivery : ReadsMerge(w, i)
    \/ \E w \in Delivery : WritesMerge(w) \/ DropsMerge(w)

PurgeStep == ListsOld \/ Purges

Next == CaseStep \/ AccountStep \/ PurgeStep

Spec == Init /\ [][Next]_vars

-----------------------------------------------------------------------------

TypeOK ==
    /\ case \in [Case -> CaseRow]
    /\ report \in [Report -> ReportRow]
    /\ announced \in 0..Len(Story)
    /\ handled \subseteq 1..announced
    /\ merging \in [Delivery -> MergeRecord]
    /\ purging \subseteq Case
    /\ muddled \in BOOLEAN
    /\ miscounted \subseteq Case

\* report_count is the number of report rows of the case, through joins, merges,
\* erasures and redeliveries, whatever other workers do meanwhile: it never claims
\* a complaint there is not, and falls short only where two deliveries of a merge
\* had read the same duplicate and both counted it down.
CountIsTruthful ==
    \A c \in Case : case[c].state # "purged" =>
        /\ case[c].count <= Cardinality(On(c))
        /\ c \notin miscounted => case[c].count = Cardinality(On(c))

\* Nobody's complaint is decided behind their back: on a resolved case every
\* report has been announced as reviewed, however late it joined.
EveryoneIsTold ==
    \A c \in Case : case[c].state = "resolved" => \A r \in On(c) : report[r].told

\* A merge is not a poison pill: unless complaints arrived or went after it read
\* them, the unique constraint lets it be written.
MergeIsWritable ==
    \A w \in Delivery :
        /\ merging[w] # Idle
        /\ merging[w].already = Reported(Story[merging[w].fact].into)
        /\ merging[w].rows = FiledBy(Story[merging[w].fact].who)
        => Writable(w)

\* Once every fact has been dealt with, each first delivery in the order of
\* announcement, no complaint names an account that is gone, and what a deleted
\* person wrote is gone with the name.
SettledHistory ==
    handled = DOMAIN Story /\ ~muddled =>
        \A r \in Filed :
            \/ report[r].by \in Account \ Closed
            \/ (report[r].by = None /\ ~report[r].text)

\* The trail behind a consequence in force is not purged from under it, not even
\* where the sanction was issued after the case was listed.
SanctionKeepsItsCase ==
    \A c \in Case : case[c].held => case[c].state # "purged"

=============================================================================
