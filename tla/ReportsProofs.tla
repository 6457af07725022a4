---------------------------- MODULE ReportsProofs ---------------------------
(***************************************************************************)
(* The safety of Reports for any rows, accounts, story and number of        *)
(* workers.  What a delivery of a merge has read may be old when it writes, *)
(* so the count is proved from what can have happened to those rows         *)
(* meanwhile: erased names and purged cases, which change no count, and a   *)
(* second delivery, which is remembered as a miscount.                      *)
(***************************************************************************)
EXTENDS Reports, FiniteSetTheorems, TLAPS

\* The rows there are or have been.
Used == {r \in Report : report[r].row # "absent"}

\* What a delivery has read is about a merge, and of rows there were.
Reading ==
    \A w \in Delivery : merging[w] # Idle =>
        /\ merging[w].fact \in DOMAIN Story /\ merging[w].fact <= announced
        /\ Story[merging[w].fact].kind = "merged"
        /\ merging[w].rows \subseteq Used

\* A report row belongs to a case, an unused one is blank.
Rooted ==
    \A r \in Report : IF report[r].row = "absent" THEN report[r] = NoReport
                      ELSE report[r].case \in Case

IInv == TypeOK /\ Reading /\ Rooted /\ IsFiniteSet(Used)

-----------------------------------------------------------------------------
(* Rows.                                                                   *)

LEMMA RowTypes ==
    /\ NoReport \in ReportRow
    /\ \A x \in ReportRow :
          /\ [x EXCEPT !.told = TRUE] \in ReportRow
          /\ [x EXCEPT !.row = "deleted"] \in ReportRow
          /\ [x EXCEPT !.by = None, !.text = FALSE] \in ReportRow
          /\ \A u \in Account : [x EXCEPT !.by = u] \in ReportRow
BY DEF NoReport, ReportRow

LEMMA CaseTypes ==
    /\ NoCase \in CaseRow
    /\ \A x \in CaseRow :
          /\ \A n \in Nat : [x EXCEPT !.count = n] \in CaseRow
          /\ [x EXCEPT !.state = "live"] \in CaseRow
          /\ \A h \in BOOLEAN : [x EXCEPT !.state = "resolved", !.old = FALSE, !.held = h] \in CaseRow
          /\ \A b \in BOOLEAN : [x EXCEPT !.old = b] \in CaseRow /\ [x EXCEPT !.held = b] \in CaseRow
          /\ [x EXCEPT !.state = "purged", !.count = 0] \in CaseRow
BY DEF NoCase, CaseRow

\* What a delivery is about to delete is a finite set of used rows.
LEMMA DuplicatesAreFinite ==
    ASSUME IInv, NEW w \in Delivery, merging[w] # Idle, NEW c
    PROVE  /\ Duplicates(w) \subseteq Used
           /\ IsFiniteSet({r \in Duplicates(w) : report[r].case = c})
           /\ Cardinality({r \in Duplicates(w) : report[r].case = c}) \in Nat
<1>1. Duplicates(w) \subseteq Used
    BY DEF IInv, Reading, Duplicates
<1>2. {r \in Duplicates(w) : report[r].case = c} \subseteq Used
    BY <1>1
<1>3. IsFiniteSet({r \in Duplicates(w) : report[r].case = c})
    BY <1>2, FS_Subset DEF IInv
<1> QED BY <1>1, <1>3, FS_CardinalityType

LEMMA DecrementedType ==
    ASSUME IInv, NEW w \in Delivery, merging[w] # Idle, NEW c \in Case
    PROVE  Decremented(w, c) \in Nat
<1>1. Cardinality({r \in Duplicates(w) : report[r].case = c}) \in Nat
    BY DuplicatesAreFinite
<1>2. case[c].count \in Nat
    BY DEF IInv, TypeOK, CaseRow
<1> QED BY <1>1, <1>2 DEF Decremented

-----------------------------------------------------------------------------
(* What a step does to a row of a report, and to a row of a case.          *)

\* A row is inserted, or keeps its case and does not come back.
ReportMove(r) ==
    \/ report'[r] = report[r]
    \/ /\ report[r] = NoReport
       /\ report'[r].row = "filed" /\ report'[r].case \in Case
    \/ /\ report[r].row # "absent"
       /\ report'[r].row \in {report[r].row, "deleted"}
       /\ report'[r].case = report[r].case
       /\ report[r].told => report'[r].told

\* Only a submission inserts, one row at a time.
Inserts == \E u \in Account, r \in Report, c \in Case : Submits(u, r, c)

OtherReports ==
    \/ \E c \in Case : Resolves(c)
    \/ \E w \in Delivery : WritesMerge(w)
    \/ \E i \in DOMAIN Story : Erases(i)
    \/ Purges

SameReports ==
    \/ \E c \in Case : Reopens(c) \/ Ages(c) \/ Forgets(c)
    \/ Announces \/ ListsOld \/ UNCHANGED vars
    \/ \E w \in Delivery : DropsMerge(w) \/ \E i \in DOMAIN Story : ReadsMerge(w, i)

LEMMA Steps == [Next]_vars => Inserts \/ OtherReports \/ SameReports
BY DEF Next, CaseStep, AccountStep, PurgeStep, Inserts, OtherReports, SameReports

LEMMA SameReportsMeans == SameReports => report' = report
<1>1. (\E c \in Case : Reopens(c) \/ Ages(c) \/ Forgets(c)) => report' = report
    BY DEF Reopens, Ages, Forgets
<1>2. Announces \/ ListsOld \/ UNCHANGED vars => report' = report
    BY DEF Announces, ListsOld, vars
<1>3. (\E w \in Delivery : DropsMerge(w) \/ \E i \in DOMAIN Story : ReadsMerge(w, i)) => report' = report
    BY DEF DropsMerge, ReadsMerge
<1> QED BY <1>1, <1>2, <1>3 DEF SameReports

\* The reports another step than a submission leaves, row by row.
LEMMA OtherReportsMeans ==
    ASSUME IInv, OtherReports
    PROVE  /\ report' \in [Report -> ReportRow]
           /\ \A r \in Report :
                 \/ report'[r] = report[r]
                 \/ /\ report[r].row # "absent"
                    /\ report'[r].row \in {report[r].row, "deleted"}
                    /\ report'[r].case = report[r].case
                    /\ report[r].told => report'[r].told
<1> DEFINE Good(r, x) ==
        /\ x \in ReportRow
        /\ \/ x = report[r]
           \/ /\ report[r].row # "absent"
              /\ x.row \in {report[r].row, "deleted"}
              /\ x.case = report[r].case
              /\ report[r].told => x.told
<1>0. report \in [Report -> ReportRow]
    BY DEF IInv, TypeOK
<1>1. ASSUME NEW r \in Report, report[r].row # "absent"
      PROVE  /\ Good(r, [report[r] EXCEPT !.told = TRUE])
             /\ Good(r, [report[r] EXCEPT !.row = "deleted"])
             /\ Good(r, [report[r] EXCEPT !.by = None, !.text = FALSE])
             /\ \A u \in Account : Good(r, [report[r] EXCEPT !.by = u])
    <2>1. report[r] \in ReportRow
        BY <1>0
    <2> QED BY <1>1, <2>1, RowTypes DEF ReportRow
<1>2. \A r \in Report : Good(r, report[r])
    BY <1>0
<1> SUFFICES \E f : report' = [r \in Report |-> f[r]] /\ \A r \in Report : Good(r, f[r])
    OBVIOUS
<1>3. ASSUME NEW c \in Case, Resolves(c)
      PROVE  \E f : report' = [r \in Report |-> f[r]] /\ \A r \in Report : Good(r, f[r])
    <2> DEFINE f == [r \in Report |-> IF r \in On(c) THEN [report[r] EXCEPT !.told = TRUE] ELSE report[r]]
    <2>1. report' = [r \in Report |-> f[r]]
        BY <1>3 DEF Resolves
    <2>2. \A r \in On(c) : r \in Report /\ report[r].row # "absent"
        BY DEF On, Filed
    <2>3. ASSUME NEW r \in Report PROVE Good(r, f[r])
        <3> HIDE DEF Good
        <3> QED BY <1>1, <1>2, <2>2
    <2> HIDE DEF f, Good
    <2> QED BY <2>1, <2>3
<1>4. ASSUME NEW w \in Delivery, WritesMerge(w)
      PROVE  \E f : report' = [r \in Report |-> f[r]] /\ \A r \in Report : Good(r, f[r])
    <2> DEFINE into == Story[merging[w].fact].into
               f == [r \in Report |->
                       IF r \in Duplicates(w) THEN [report[r] EXCEPT !.row = "deleted"]
                       ELSE IF r \in Carried(w) THEN [report[r] EXCEPT !.by = into] ELSE report[r]]
    <2>1. report' = [r \in Report |-> f[r]]
        BY <1>4 DEF WritesMerge
    <2>2. into \in Account
        BY <1>4, StoryAssumption DEF WritesMerge, IInv, Reading
    <2>3. \A r \in Duplicates(w) \cup Carried(w) : r \in Report /\ report[r].row # "absent"
        BY <1>4 DEF WritesMerge, IInv, Reading, Duplicates, Carried, FiledBy, Filed, Used
    <2>4. ASSUME NEW r \in Report PROVE Good(r, f[r])
        <3> HIDE DEF Good, into
        <3> QED BY <1>1, <1>2, <2>2, <2>3
    <2> HIDE DEF f, Good
    <2> QED BY <2>1, <2>4
<1>5. ASSUME NEW i \in DOMAIN Story, Erases(i)
      PROVE  \E f : report' = [r \in Report |-> f[r]] /\ \A r \in Report : Good(r, f[r])
    <2> DEFINE gone == Detached(Story[i].who)
               f == [r \in Report |-> IF r \in gone THEN [report[r] EXCEPT !.by = None, !.text = FALSE]
                                      ELSE report[r]]
    <2>1. report' = [r \in Report |-> f[r]]
        BY <1>5 DEF Erases
    <2>2. \A r \in gone : r \in Report /\ report[r].row # "absent"
        BY DEF Detached, FiledBy, Filed
    <2>3. ASSUME NEW r \in Report PROVE Good(r, f[r])
        <3> HIDE DEF Good, gone
        <3> QED BY <1>1, <1>2, <2>2
    <2> HIDE DEF f, Good
    <2> QED BY <2>1, <2>3
<1>6. CASE Purges
    <2> DEFINE f == [r \in Report |-> IF r \in Filed /\ report[r].case \in purging
                                      THEN [report[r] EXCEPT !.row = "deleted"] ELSE report[r]]
    <2>1. report' = [r \in Report |-> f[r]] \/ report' = [r \in Report |-> report[r]]
        BY <1>0, <1>6 DEF Purges
    <2>2. \A r \in Filed : report[r].row # "absent"
        BY DEF Filed
    <2>3. ASSUME NEW r \in Report PROVE Good(r, f[r])
        <3> HIDE DEF Good
        <3> QED BY <1>1, <1>2, <2>2
    <2> HIDE DEF f, Good
    <2> QED BY <1>2, <2>1, <2>3
<1> QED BY <1>3, <1>4, <1>5, <1>6 DEF OtherReports

\* The rows of cases a step leaves: a state moves by an opening, a verdict, a
\* reopening or the purge, and only a verdict brings a sanction.
LEMMA CaseMoves ==
    ASSUME IInv, [Next]_vars
    PROVE  /\ case' \in [Case -> CaseRow]
           /\ \A c \in Case :
                 \/ case'[c].state = case[c].state /\ (case'[c].held => case[c].held)
                 \/ case'[c].state = "live" /\ (case'[c].held => case[c].held)
                       /\ case[c].state \in {"absent", "resolved"}
                 \/ Resolves(c) /\ case'[c].state = "resolved"
                 \/ Purges /\ case'[c].state = "purged" /\ ~case'[c].held
<1> DEFINE Good(c, x) ==
        /\ x \in CaseRow
        /\ \/ x.state = case[c].state /\ (x.held => case[c].held)
           \/ x.state = "live" /\ (x.held => case[c].held) /\ case[c].state \in {"absent", "resolved"}
           \/ Resolves(c) /\ x.state = "resolved"
           \/ Purges /\ x.state = "purged" /\ ~x.held
<1>0. case \in [Case -> CaseRow]
    BY DEF IInv, TypeOK
<1>1. \A c \in Case : Good(c, case[c])
    BY <1>0
<1>2. ASSUME NEW c \in Case PROVE case[c] \in CaseRow /\ case[c].count \in Nat /\ case[c].held \in BOOLEAN
    BY <1>0 DEF CaseRow
<1> SUFFICES case' \in [Case -> CaseRow] /\ \A c \in Case : Good(c, case'[c])
    OBVIOUS
<1>3. ASSUME NEW c \in Case, NEW x, Good(c, x), case' = [case EXCEPT ![c] = x]
      PROVE  case' \in [Case -> CaseRow] /\ \A d \in Case : Good(d, case'[d])
    <2>1. case'[c] = x /\ \A d \in Case \ {c} : case'[d] = case[d]
        BY <1>0, <1>3
    <2>2. case' \in [Case -> CaseRow]
        BY <1>0, <1>3
    <2> HIDE DEF Good
    <2> QED BY <1>1, <1>3, <2>1, <2>2
<1>4. ASSUME NEW f, case' = [c \in Case |-> f[c]], \A c \in Case : Good(c, f[c])
      PROVE  case' \in [Case -> CaseRow] /\ \A d \in Case : Good(d, case'[d])
    BY <1>4
<1>5. ASSUME case' = case
      PROVE  case' \in [Case -> CaseRow] /\ \A d \in Case : Good(d, case'[d])
    <2> HIDE DEF Good
    <2> QED BY <1>0, <1>1, <1>5
<1>6. ASSUME NEW u \in Account, NEW r \in Report, NEW c \in Case, Submits(u, r, c)
      PROVE  case' \in [Case -> CaseRow] /\ \A d \in Case : Good(d, case'[d])
    <2> DEFINE x == [case[c] EXCEPT !.state = IF case[c].state = "absent" THEN "live" ELSE case[c].state,
                                    !.count = case[c].count + 1]
    <2>1. case' = [case EXCEPT ![c] = x]
        BY <1>0, <1>6 DEF Submits
    <2>2. x \in CaseRow
        <3>1. case[c].count + 1 \in Nat
            BY <1>2
        <3> QED BY <1>2, <3>1 DEF CaseRow
    <2>3. x.held = case[c].held /\ x.state = IF case[c].state = "absent" THEN "live" ELSE case[c].state
        BY <1>2 DEF CaseRow
    <2>4. Good(c, x)
        <3> HIDE DEF x
        <3> QED BY <2>2, <2>3
    <2> HIDE DEF x, Good
    <2> QED BY <1>3, <2>1, <2>4
<1>7. ASSUME NEW c \in Case, Resolves(c)
      PROVE  case' \in [Case -> CaseRow] /\ \A d \in Case : Good(d, case'[d])
    <2>1. PICK h \in {case[c].held, TRUE} :
             case' = [case EXCEPT ![c] = [case[c] EXCEPT !.state = "resolved", !.old = FALSE, !.held = h]]
        BY <1>0, <1>7 DEF Resolves
    <2> DEFINE x == [case[c] EXCEPT !.state = "resolved", !.old = FALSE, !.held = h]
    <2>2. Good(c, x)
        BY <1>2, <1>7 DEF CaseRow
    <2> HIDE DEF Good
    <2> QED BY <1>3, <2>1, <2>2
<1>8. ASSUME NEW c \in Case, Reopens(c)
      PROVE  case' \in [Case -> CaseRow] /\ \A d \in Case : Good(d, case'[d])
    <2> DEFINE x == [case[c] EXCEPT !.state = "live"]
    <2>1. case' = [case EXCEPT ![c] = x] /\ Good(c, x)
        BY <1>0, <1>2, <1>8 DEF Reopens, CaseRow
    <2> HIDE DEF x, Good
    <2> QED BY <1>3, <2>1
<1>9. ASSUME NEW c \in Case, Ages(c)
      PROVE  case' \in [Case -> CaseRow] /\ \A d \in Case : Good(d, case'[d])
    <2> DEFINE x == [case[c] EXCEPT !.old = TRUE]
    <2>1. case' = [case EXCEPT ![c] = x] /\ Good(c, x)
        BY <1>0, <1>2, <1>9 DEF Ages, CaseRow
    <2> HIDE DEF x, Good
    <2> QED BY <1>3, <2>1
<1>10. ASSUME NEW c \in Case, Forgets(c)
      PROVE  case' \in [Case -> CaseRow] /\ \A d \in Case : Good(d, case'[d])
    <2> DEFINE x == [case[c] EXCEPT !.held = FALSE]
    <2>1. case' = [case EXCEPT ![c] = x] /\ Good(c, x)
        BY <1>0, <1>2, <1>10 DEF Forgets, CaseRow
    <2> HIDE DEF x, Good
    <2> QED BY <1>3, <2>1
<1>11. ASSUME NEW w \in Delivery, WritesMerge(w)
      PROVE  case' \in [Case -> CaseRow] /\ \A d \in Case : Good(d, case'[d])
    <2> DEFINE f == [c \in Case |-> [case[c] EXCEPT !.count = Decremented(w, c)]]
    <2>1. case' = [c \in Case |-> f[c]]
        BY <1>11 DEF WritesMerge
    <2>2. ASSUME NEW c \in Case PROVE Good(c, f[c])
        <3>1. Decremented(w, c) \in Nat
            BY <1>11, DecrementedType DEF WritesMerge
        <3> QED BY <1>2, <3>1 DEF CaseRow
    <2> HIDE DEF f, Good
    <2> QED BY <1>4, <2>1, <2>2
<1>12. CASE Purges
    <2> DEFINE f == [c \in Case |-> IF c \in purging THEN [case[c] EXCEPT !.state = "purged", !.count = 0]
                                    ELSE case[c]]
    <2>1. CASE Unprotected = purging
        <3>1. case' = [c \in Case |-> f[c]]
            BY <1>12, <2>1 DEF Purges
        <3>2. ASSUME NEW c \in Case PROVE Good(c, f[c])
            <4>1. c \in purging => ~case[c].held
                BY <2>1 DEF Unprotected
            <4> QED BY <1>2, <1>12, <4>1 DEF CaseRow
        <3> HIDE DEF f, Good
        <3> QED BY <1>4, <3>1, <3>2
    <2>2. CASE Unprotected # purging
        BY <1>5, <1>12, <2>2 DEF Purges
    <2> QED BY <2>1, <2>2
<1>13. CASE Announces \/ ListsOld \/ UNCHANGED vars
    BY <1>5, <1>13 DEF Announces, ListsOld, vars
<1>14. ASSUME NEW w \in Delivery, DropsMerge(w) \/ \E i \in DOMAIN Story : ReadsMerge(w, i)
      PROVE  case' \in [Case -> CaseRow] /\ \A d \in Case : Good(d, case'[d])
    BY <1>5, <1>14 DEF DropsMerge, ReadsMerge
<1>15. ASSUME NEW i \in DOMAIN Story, Erases(i)
      PROVE  case' \in [Case -> CaseRow] /\ \A d \in Case : Good(d, case'[d])
    BY <1>5, <1>15 DEF Erases
<1> HIDE DEF Good
<1> QED BY <1>6, <1>7, <1>8, <1>9, <1>10, <1>11, <1>12, <1>13, <1>14, <1>15
        DEF Next, CaseStep, AccountStep, PurgeStep

\* A submission adds one row.
LEMMA InsertsMeans ==
    ASSUME IInv, NEW u \in Account, NEW q \in Report, NEW c \in Case, Submits(u, q, c)
    PROVE  /\ report' \in [Report -> ReportRow]
           /\ \A r \in Report \ {q} : report'[r] = report[r]
           /\ report[q] = NoReport
           /\ report'[q] = [row |-> "filed", case |-> c, by |-> u, text |-> TRUE, told |-> FALSE]
<1>1. [row |-> "filed", case |-> c, by |-> u, text |-> TRUE, told |-> FALSE] \in ReportRow
    BY DEF ReportRow
<1> QED BY <1>1 DEF Submits, IInv, TypeOK

\* A row never leaves its case and never comes back.
LEMMA ReportMoves ==
    ASSUME IInv, [Next]_vars
    PROVE  report' \in [Report -> ReportRow] /\ \A r \in Report : ReportMove(r)
<1>1. CASE Inserts
    <2>1. PICK u \in Account, q \in Report, c \in Case : Submits(u, q, c)
        BY <1>1 DEF Inserts
    <2>2. /\ \A r \in Report \ {q} : report'[r] = report[r]
          /\ report[q] = NoReport
          /\ report'[q] = [row |-> "filed", case |-> c, by |-> u, text |-> TRUE, told |-> FALSE]
          /\ report' \in [Report -> ReportRow]
        BY <2>1, InsertsMeans
    <2>3. report'[q].row = "filed" /\ report'[q].case = c
        BY <2>2
    <2> QED BY <2>2, <2>3 DEF ReportMove
<1>2. CASE OtherReports
    BY <1>2, OtherReportsMeans DEF ReportMove
<1>3. CASE SameReports
    BY <1>3, SameReportsMeans DEF ReportMove, IInv, TypeOK
<1> QED BY <1>1, <1>2, <1>3, Steps

-----------------------------------------------------------------------------
(* The invariant.                                                          *)

LEMMA RootedStep == IInv /\ [Next]_vars => Rooted' /\ IsFiniteSet(Used')
<1> SUFFICES ASSUME IInv, [Next]_vars PROVE Rooted' /\ IsFiniteSet(Used')
    OBVIOUS
<1>1. Rooted'
    <2> SUFFICES ASSUME NEW r \in Report
                 PROVE  IF report'[r].row = "absent" THEN report'[r] = NoReport
                        ELSE report'[r].case \in Case
        BY DEF Rooted
    <2> QED BY ReportMoves DEF ReportMove, IInv, Rooted, NoReport
<1>2. \E q \in Report \cup {None} : Used' \subseteq Used \cup {q}
    <2>1. CASE Inserts
        <3>1. PICK u \in Account, q \in Report, c \in Case : Submits(u, q, c)
            BY <2>1 DEF Inserts
        <3>2. \A r \in Report \ {q} : report'[r] = report[r]
            BY <3>1, InsertsMeans
        <3> QED BY <3>2 DEF Used
    <2>2. CASE OtherReports
        BY <2>2, OtherReportsMeans DEF Used
    <2>3. CASE SameReports
        BY <2>3, SameReportsMeans DEF Used
    <2> QED BY <2>1, <2>2, <2>3, Steps
<1>3. ASSUME NEW q, Used' \subseteq Used \cup {q} PROVE IsFiniteSet(Used')
    <2>1. IsFiniteSet(Used \cup {q})
        BY FS_AddElement DEF IInv
    <2> QED BY <1>3, <2>1, FS_Subset
<1> QED BY <1>1, <1>2, <1>3

LEMMA ReadingStep == IInv /\ [Next]_vars => Reading' /\ merging' \in [Delivery -> MergeRecord]
<1> SUFFICES ASSUME IInv, [Next]_vars
             PROVE  Reading' /\ merging' \in [Delivery -> MergeRecord]
    OBVIOUS
<1>0. Idle \in MergeRecord
    BY StoryAssumption DEF Idle, MergeRecord
<1>1. Used \subseteq Used'
    BY ReportMoves DEF ReportMove, Used, NoReport
<1>a. announced' = announced \/ (announced' = announced + 1 /\ merging' = merging)
    <2>1. ASSUME NEW c \in Case,
                 \/ Resolves(c) \/ Reopens(c) \/ Ages(c) \/ Forgets(c)
                 \/ \E u \in Account, r \in Report : Submits(u, r, c)
          PROVE  announced' = announced
        BY <2>1 DEF Resolves, Reopens, Ages, Forgets, Submits
    <2>2. ASSUME NEW w \in Delivery,
                 WritesMerge(w) \/ DropsMerge(w) \/ \E i \in DOMAIN Story : ReadsMerge(w, i)
          PROVE  announced' = announced
        BY <2>2 DEF WritesMerge, DropsMerge, ReadsMerge
    <2>3. ASSUME NEW i \in DOMAIN Story, Erases(i) PROVE announced' = announced
        BY <2>3 DEF Erases
    <2>4. CASE Announces \/ ListsOld \/ Purges \/ UNCHANGED vars
        BY <2>4 DEF Announces, ListsOld, Purges, vars
    <2> QED BY <2>1, <2>2, <2>3, <2>4 DEF Next, CaseStep, AccountStep, PurgeStep
<1>b. announced \in Nat /\ \A w \in Delivery : merging[w] # Idle => merging[w].fact \in Int
    BY StoryAssumption DEF IInv, TypeOK, Reading
<1>2. ASSUME NEW w \in Delivery, merging' = [merging EXCEPT ![w] = Idle]
      PROVE  Reading' /\ merging' \in [Delivery -> MergeRecord]
    BY <1>0, <1>1, <1>a, <1>b, <1>2 DEF IInv, TypeOK, Reading
<1>3. ASSUME merging' = merging PROVE Reading' /\ merging' \in [Delivery -> MergeRecord]
    BY <1>1, <1>a, <1>b, <1>3 DEF IInv, TypeOK, Reading
<1>4. ASSUME NEW w \in Delivery, NEW i \in DOMAIN Story, ReadsMerge(w, i)
      PROVE  Reading' /\ merging' \in [Delivery -> MergeRecord]
    <2> DEFINE x == [fact |-> i, already |-> Reported(Story[i].into), rows |-> FiledBy(Story[i].who)]
    <2>1. merging' = [merging EXCEPT ![w] = x] /\ Story[i].kind = "merged"
        BY <1>4 DEF ReadsMerge
    <2>0. i <= announced /\ announced' = announced
        BY <1>4, <1>b DEF ReadsMerge
    <2>2. Reported(Story[i].into) \subseteq Target
        <3>1. \A r \in Filed : report[r].case \in Case
            BY DEF Filed, IInv, Rooted
        <3> QED BY <3>1, TargetAssumption DEF Reported, FiledBy, About
    <2>3. FiledBy(Story[i].who) \subseteq Used
        BY DEF FiledBy, Filed, Used
    <2>4. x \in MergeRecord
        <3>1. i \in 0..Len(Story)
            BY StoryAssumption
        <3> QED BY <2>2, <2>3, <3>1 DEF MergeRecord, Used
    <2>5. x.fact = i /\ x.rows \subseteq Used
        BY <2>3
    <2> HIDE DEF x
    <2>6. merging' \in [Delivery -> MergeRecord]
        BY <2>1, <2>4 DEF IInv, TypeOK
    <2>7. merging'[w] = x /\ \A v \in Delivery \ {w} : merging'[v] = merging[v]
        BY <2>1 DEF IInv, TypeOK
    <2>8. Reading'
        BY <1>1, <2>0, <2>1, <2>5, <2>7 DEF IInv, Reading
    <2> QED BY <2>6, <2>8
<1>5. ASSUME NEW w \in Delivery, WritesMerge(w) \/ DropsMerge(w)
      PROVE  Reading' /\ merging' \in [Delivery -> MergeRecord]
    BY <1>2, <1>5 DEF WritesMerge, DropsMerge
<1>6. ASSUME NEW c \in Case,
             \/ Resolves(c) \/ Reopens(c) \/ Ages(c) \/ Forgets(c)
             \/ \E u \in Account, r \in Report : Submits(u, r, c)
      PROVE  merging' = merging
    BY <1>6 DEF Resolves, Reopens, Ages, Forgets, Submits
<1>7. CASE Announces \/ ListsOld \/ Purges \/ UNCHANGED vars
    BY <1>3, <1>7 DEF Announces, ListsOld, Purges, vars
<1>8. ASSUME NEW i \in DOMAIN Story, Erases(i) PROVE merging' = merging
    BY <1>8 DEF Erases
<1> QED BY <1>3, <1>4, <1>5, <1>6, <1>7, <1>8 DEF Next, CaseStep, AccountStep, PurgeStep

\* The facts, the list of the purge and the history keep their types.
LEMMA RestStep ==
    IInv /\ [Next]_vars =>
        /\ announced' \in 0..Len(Story)
        /\ handled' \subseteq 1..announced'
        /\ purging' \subseteq Case
        /\ muddled' \in BOOLEAN
        /\ miscounted' \subseteq Case
<1> SUFFICES ASSUME IInv, [Next]_vars
             PROVE  /\ announced' \in 0..Len(Story)
                    /\ handled' \subseteq 1..announced'
                    /\ purging' \subseteq Case
                    /\ muddled' \in BOOLEAN
                    /\ miscounted' \subseteq Case
    OBVIOUS
<1> USE DEF IInv, TypeOK
<1>0. Len(Story) \in Nat
    BY StoryAssumption
<1>1. ASSUME NEW c \in Case, Resolves(c) \/ Reopens(c) \/ Ages(c) \/ Forgets(c)
      PROVE  UNCHANGED <<announced, handled, purging, muddled, miscounted>>
    BY <1>1 DEF Resolves, Reopens, Ages, Forgets
<1>2. ASSUME NEW u \in Account, NEW r \in Report, NEW c \in Case, Submits(u, r, c)
      PROVE  UNCHANGED <<announced, handled, purging, miscounted>> /\ muddled' \in BOOLEAN
    BY <1>2 DEF Submits
<1>3. CASE Announces
    <2>1. /\ announced' = announced + 1 /\ announced < Len(Story)
          /\ UNCHANGED <<handled, purging, muddled, miscounted>>
        BY <1>3 DEF Announces
    <2>2. announced' \in 0..Len(Story) /\ 1..announced \subseteq 1..announced'
        BY <1>0, <2>1
    <2> QED BY <2>1, <2>2
<1>4. ASSUME NEW w \in Delivery, WritesMerge(w)
      PROVE  /\ announced' = announced /\ purging' = purging
             /\ handled' \subseteq 1..announced /\ muddled' \in BOOLEAN
             /\ miscounted' \subseteq Case
    <2>1. merging[w] # Idle /\ Handles(merging[w].fact) /\ UNCHANGED <<announced, purging>>
        BY <1>4 DEF WritesMerge
    <2>2. merging[w].fact \in DOMAIN Story /\ merging[w].fact <= announced
        BY <2>1 DEF Reading
    <2>3. merging[w].fact \in 1..announced
        BY <1>0, <2>2, StoryAssumption
    <2>4. \A r \in Duplicates(w) : report[r].case \in Case
        BY <2>1, DuplicatesAreFinite DEF Used, Rooted
    <2>5. miscounted' \subseteq Case
        BY <1>4, <2>4 DEF WritesMerge
    <2> QED BY <2>1, <2>3, <2>5 DEF Handles
<1>5. ASSUME NEW w \in Delivery, DropsMerge(w) \/ \E i \in DOMAIN Story : ReadsMerge(w, i)
      PROVE  UNCHANGED <<announced, handled, purging, muddled, miscounted>>
    BY <1>5 DEF DropsMerge, ReadsMerge
<1>6. ASSUME NEW i \in DOMAIN Story, Erases(i)
      PROVE  /\ announced' = announced /\ purging' = purging
             /\ handled' \subseteq 1..announced /\ muddled' \in BOOLEAN
             /\ miscounted' = miscounted
    BY <1>6 DEF Erases, Handles
<1>7. CASE ListsOld \/ Purges
    BY <1>7 DEF ListsOld, Purges
<1>8. CASE UNCHANGED vars
    BY <1>8 DEF vars
<1> QED BY <1>1, <1>2, <1>3, <1>4, <1>5, <1>6, <1>7, <1>8 DEF Next, CaseStep, AccountStep, PurgeStep

LEMMA Inductive == (Init => IInv) /\ (IInv /\ [Next]_vars => IInv')
<1>1. Init => IInv
    <2> SUFFICES ASSUME Init PROVE IInv
        OBVIOUS
    <2>1. Len(Story) \in Nat /\ Idle \in MergeRecord
        BY StoryAssumption DEF Idle, MergeRecord
    <2>2. \A r \in Report : report[r].row = "absent"
        BY DEF Init, NoReport
    <2>3. IsFiniteSet(Used)
        BY <2>2, FS_EmptySet DEF Used
    <2>4. TypeOK
        <3>1. case \in [Case -> CaseRow] /\ report \in [Report -> ReportRow]
            BY RowTypes, CaseTypes DEF Init
        <3>2. merging \in [Delivery -> MergeRecord]
            BY <2>1 DEF Init
        <3>3. announced = 0 /\ handled = {} /\ purging = {} /\ muddled = FALSE /\ miscounted = {}
            BY DEF Init
        <3>4. announced \in 0..Len(Story)
            BY <2>1, <3>3
        <3> QED BY <3>1, <3>2, <3>3, <3>4 DEF TypeOK
    <2>5. Reading /\ Rooted
        BY <2>2 DEF Init, Reading, Rooted
    <2> QED BY <2>3, <2>4, <2>5 DEF IInv
<1>2. IInv /\ [Next]_vars => IInv'
    <2> SUFFICES ASSUME IInv, [Next]_vars PROVE IInv'
        OBVIOUS
    <2>1. Rooted' /\ IsFiniteSet(Used') /\ Reading'
        BY RootedStep, ReadingStep
    <2>2. TypeOK'
        BY CaseMoves, ReportMoves, ReadingStep, RestStep DEF TypeOK
    <2> QED BY <2>1, <2>2 DEF IInv
<1> QED BY <1>1, <1>2

LEMMA Invariant == Spec => []IInv
BY Inductive, PTL DEF Spec

\* Every variable of complaints, merges and the purge keeps its type.
THEOREM ReportTypes == Spec => []TypeOK
<1>1. IInv => TypeOK
    BY DEF IInv
<1> QED BY <1>1, Invariant, PTL

-----------------------------------------------------------------------------
(* Cases.                                                                  *)

\* Whatever the purge has listed, the case of a sanction in force is there.
THEOREM SanctionsKeepTheirCase == Spec => []SanctionKeepsItsCase
<1>1. Init => SanctionKeepsItsCase
    BY DEF Init, NoCase, SanctionKeepsItsCase
<1>2. IInv /\ SanctionKeepsItsCase /\ [Next]_vars => SanctionKeepsItsCase'
    BY CaseMoves DEF SanctionKeepsItsCase
<1> QED BY <1>1, <1>2, Invariant, PTL DEF Spec

\* A complaint joins a case that is live when it is there.
LEMMA JoinsLive ==
    ASSUME IInv, NEW u \in Account, NEW q \in Report, NEW c \in Case, Submits(u, q, c)
    PROVE  case'[c].state # "resolved" /\ \A d \in Case \ {c} : case'[d] = case[d]
<1>1. case[c].state \in {"live", "absent"}
    BY DEF Submits, Joins, LiveCase
<1>2. case \in [Case -> CaseRow] /\ case[c] \in CaseRow
    BY DEF IInv, TypeOK
<1> DEFINE x == [case[c] EXCEPT !.state = IF case[c].state = "absent" THEN "live" ELSE case[c].state,
                                !.count = case[c].count + 1]
<1>3. case' = [case EXCEPT ![c] = x]
    BY <1>2 DEF Submits
<1>4. x.state = "live"
    BY <1>1, <1>2 DEF CaseRow
<1> HIDE DEF x
<1> QED BY <1>2, <1>3, <1>4

\* A verdict tells every report the case has, and the case has no other after.
LEMMA VerdictTells ==
    ASSUME IInv, NEW c \in Case, Resolves(c)
    PROVE  /\ \A d \in Case \ {c} : case'[d] = case[d]
           /\ \A r \in Filed : report[r].case = c => report'[r].told
<1>1. \A d \in Case \ {c} : case'[d] = case[d]
    BY DEF Resolves, IInv, TypeOK
<1>2. ASSUME NEW r \in Filed, report[r].case = c PROVE report'[r].told
    <2>1. r \in On(c) /\ r \in Report /\ report[r] \in ReportRow
        BY <1>2 DEF On, Filed, IInv, TypeOK
    <2>2. report'[r] = [report[r] EXCEPT !.told = TRUE]
        BY <2>1 DEF Resolves
    <2> QED BY <2>1, <2>2 DEF ReportRow
<1> QED BY <1>1, <1>2

\* A resolved case has no complaint whose author was not told of the verdict.
THEOREM EveryoneIsAlwaysTold == Spec => []EveryoneIsTold
<1>1. Init => EveryoneIsTold
    BY DEF Init, NoCase, EveryoneIsTold
<1>2. IInv /\ EveryoneIsTold /\ [Next]_vars => EveryoneIsTold'
    <2> SUFFICES ASSUME IInv, EveryoneIsTold, [Next]_vars,
                        NEW r \in Report, report'[r].row = "filed", report'[r].case \in Case,
                        case'[report'[r].case].state = "resolved"
                 PROVE  report'[r].told
        BY DEF EveryoneIsTold, On, Filed
    <2> DEFINE c == report'[r].case
    <2>1. CASE Inserts
        <3>1. PICK u \in Account, q \in Report, d \in Case : Submits(u, q, d)
            BY <2>1 DEF Inserts
        <3>2. /\ \A s \in Report \ {q} : report'[s] = report[s]
              /\ report'[q] = [row |-> "filed", case |-> d, by |-> u, text |-> TRUE, told |-> FALSE]
            BY <3>1, InsertsMeans
        <3>3. case'[d].state # "resolved" /\ \A e \in Case \ {d} : case'[e] = case[e]
            BY <3>1, JoinsLive
        <3>4. report'[q].case = d
            BY <3>2
        <3>5. r # q /\ c # d
            BY <3>3, <3>4
        <3>6. report'[r] = report[r] /\ case'[c] = case[c]
            BY <3>2, <3>3, <3>5
        <3> QED BY <3>6 DEF EveryoneIsTold, On, Filed
    <2>2. CASE ~Inserts
        <3>1. /\ report[r].row = "filed" /\ report[r].case = c
              /\ report[r].told => report'[r].told
            <4>1. CASE OtherReports
                <5>1. report[r].row \in {"absent", "filed", "deleted"}
                    BY DEF IInv, TypeOK, ReportRow
                <5> QED BY <4>1, <5>1, OtherReportsMeans
            <4>2. CASE SameReports
                BY <4>2, SameReportsMeans
            <4> QED BY <2>2, <4>1, <4>2, Steps
        <3>2. CASE case[c].state = "resolved"
            BY <3>1, <3>2 DEF EveryoneIsTold, On, Filed
        <3>3. CASE case[c].state # "resolved"
            <4>1. Resolves(c)
                BY <3>3, CaseMoves
            <4> QED BY <3>1, <4>1, VerdictTells DEF Filed
        <3> QED BY <3>2, <3>3
    <2> QED BY <2>1, <2>2
<1> QED BY <1>1, <1>2, Invariant, PTL DEF Spec

-----------------------------------------------------------------------------
(* The unique constraint.                                                  *)

\* uniq_report_per_user, as far as rows that name an account go.
OneEach ==
    \A r, s \in Filed :
        report[r].by # None /\ report[r].by = report[s].by /\ About(r) = About(s) => r = s

\* The rows a merge writes.
LEMMA MergeWrites ==
    ASSUME IInv, NEW w \in Delivery, WritesMerge(w), NEW r \in Report, report'[r].row = "filed"
    PROVE  /\ r \in Filed \ Duplicates(w)
           /\ report'[r].case = report[r].case
           /\ report'[r].by = IF r \in Carried(w) THEN Story[merging[w].fact].into ELSE report[r].by
<1> DEFINE into == Story[merging[w].fact].into
<1>1. report[r] \in ReportRow
    BY DEF IInv, TypeOK
<1>2. report'[r] = IF r \in Duplicates(w) THEN [report[r] EXCEPT !.row = "deleted"]
                   ELSE IF r \in Carried(w) THEN [report[r] EXCEPT !.by = into] ELSE report[r]
    BY DEF WritesMerge
<1>3. r \notin Duplicates(w)
    BY <1>1, <1>2 DEF ReportRow
<1> QED BY <1>1, <1>2, <1>3 DEF ReportRow, Filed

\* What else happens to the rows that stay.
LEMMA NamesStay ==
    ASSUME IInv, [Next]_vars, ~Inserts, \A w \in Delivery : ~WritesMerge(w),
           NEW r \in Report, report'[r].row = "filed"
    PROVE  r \in Filed /\ report'[r].case = report[r].case /\ report'[r].by \in {report[r].by, None}
<1>1. report[r] \in ReportRow
    BY DEF IInv, TypeOK
<1>2. CASE SameReports
    BY <1>2, SameReportsMeans DEF Filed
<1>3. ASSUME NEW c \in Case, Resolves(c)
      PROVE  r \in Filed /\ report'[r].case = report[r].case /\ report'[r].by \in {report[r].by, None}
    <2>1. report'[r] = IF r \in On(c) THEN [report[r] EXCEPT !.told = TRUE] ELSE report[r]
        BY <1>3 DEF Resolves
    <2> QED BY <1>1, <2>1 DEF ReportRow, Filed
<1>4. ASSUME NEW i \in DOMAIN Story, Erases(i)
      PROVE  r \in Filed /\ report'[r].case = report[r].case /\ report'[r].by \in {report[r].by, None}
    <2>1. report'[r] = IF r \in Detached(Story[i].who) THEN [report[r] EXCEPT !.by = None, !.text = FALSE]
                       ELSE report[r]
        BY <1>4 DEF Erases
    <2> QED BY <1>1, <2>1 DEF ReportRow, Filed
<1>5. CASE Purges
    <2>1. \/ report'[r] = report[r]
          \/ report'[r] = [report[r] EXCEPT !.row = "deleted"]
        BY <1>5 DEF Purges
    <2> QED BY <1>1, <2>1 DEF ReportRow, Filed
<1> QED BY <1>2, <1>3, <1>4, <1>5, Steps DEF OtherReports

LEMMA OneEachStep ==
    ASSUME IInv, OneEach, [Next]_vars
    PROVE  OneEach'
<1> DEFINE Holds == \A r, s \in Report :
              /\ report'[r].row = "filed" /\ report'[s].row = "filed" /\ report'[r].by # None
              /\ report'[r].by = report'[s].by
              /\ TargetOf[report'[r].case] = TargetOf[report'[s].case]
              => r = s
<1> SUFFICES Holds
    BY DEF OneEach, Filed, About
<1>1. CASE Inserts
    <2>1. PICK u \in Account, q \in Report, c \in Case : Submits(u, q, c)
        BY <1>1 DEF Inserts
    <2>2. /\ \A r \in Report \ {q} : report'[r] = report[r]
          /\ report'[q] = [row |-> "filed", case |-> c, by |-> u, text |-> TRUE, told |-> FALSE]
        BY <2>1, InsertsMeans
    <2>3. report'[q].by = u /\ report'[q].case = c
        BY <2>2
    <2>4. \A r \in Filed : report[r].by = u => TargetOf[report[r].case] # TargetOf[c]
        BY <2>1 DEF Submits, Reported, FiledBy, About
    <2> QED BY <2>2, <2>3, <2>4 DEF OneEach, Filed, About
<1>2. ASSUME NEW w \in Delivery, WritesMerge(w) PROVE Holds
    <2> DEFINE into == Story[merging[w].fact].into
               them == (FiledBy(into) \ Duplicates(w)) \cup Carried(w)
    <2>1. \A r, s \in them : About(r) = About(s) => r = s
        BY <1>2 DEF WritesMerge, Writable
    <2>2. ASSUME NEW r \in Report, NEW s \in Report,
                 report'[r].row = "filed", report'[s].row = "filed", report'[r].by # None,
                 report'[r].by = report'[s].by,
                 TargetOf[report'[r].case] = TargetOf[report'[s].case]
          PROVE  r = s
        <3>1. /\ r \in Filed \ Duplicates(w) /\ report'[r].case = report[r].case
              /\ report'[r].by = IF r \in Carried(w) THEN into ELSE report[r].by
            BY <1>2, <2>2, MergeWrites
        <3>2. /\ s \in Filed \ Duplicates(w) /\ report'[s].case = report[s].case
              /\ report'[s].by = IF s \in Carried(w) THEN into ELSE report[s].by
            BY <1>2, <2>2, MergeWrites
        <3>3. About(r) = About(s)
            BY <2>2, <3>1, <3>2 DEF About
        <3>4. CASE r \in Carried(w) \/ s \in Carried(w)
            <4>1. r \in them /\ s \in them
                BY <2>2, <3>1, <3>2, <3>4 DEF FiledBy
            <4> HIDE DEF them
            <4> QED BY <2>1, <3>3, <4>1
        <3>5. CASE r \notin Carried(w) /\ s \notin Carried(w)
            BY <2>2, <3>1, <3>2, <3>3, <3>5 DEF OneEach
        <3> QED BY <3>4, <3>5
    <2> QED BY <2>2
<1>3. CASE ~Inserts /\ \A w \in Delivery : ~WritesMerge(w)
    <2>1. \A r \in Report : report'[r].row = "filed" =>
              r \in Filed /\ report'[r].case = report[r].case /\ report'[r].by \in {report[r].by, None}
        BY <1>3, NamesStay
    <2> QED BY <2>1 DEF OneEach, About
<1> QED BY <1>1, <1>2, <1>3

\* A merge written from what is still so meets no unique constraint: of two rows
\* about one target, one the survivor's and one the guest's, the latter goes.
THEOREM MergesAreWritable == Spec => []MergeIsWritable
<1>1. Init => OneEach
    BY DEF Init, NoReport, OneEach, Filed
<1>2. IInv /\ OneEach /\ [Next]_vars => OneEach'
    BY OneEachStep
<1>3. IInv /\ OneEach => MergeIsWritable
    <2> SUFFICES ASSUME IInv, OneEach, NEW w \in Delivery, merging[w] # Idle,
                        merging[w].already = Reported(Story[merging[w].fact].into),
                        merging[w].rows = FiledBy(Story[merging[w].fact].who)
                 PROVE  Writable(w)
        BY DEF MergeIsWritable
    <2> DEFINE into == Story[merging[w].fact].into
               who == Story[merging[w].fact].who
    <2>1. into # None /\ who # None
        <3>1. merging[w].fact \in DOMAIN Story /\ Story[merging[w].fact].kind = "merged"
            BY DEF IInv, Reading
        <3>2. Story[merging[w].fact] \in Fact
            BY <3>1, StoryAssumption
        <3> QED BY <3>1, <3>2, StoryAssumption, NoneAssumption DEF Fact
    <2> SUFFICES ASSUME NEW r \in (FiledBy(into) \ Duplicates(w)) \cup Carried(w),
                        NEW s \in (FiledBy(into) \ Duplicates(w)) \cup Carried(w),
                        About(r) = About(s)
                 PROVE  r = s
        BY DEF Writable
    <2>2. \A x \in FiledBy(who) : About(x) \in Reported(into) => x \in Duplicates(w)
        BY DEF Duplicates
    <2>3. \A x \in FiledBy(into) : About(x) \in Reported(into)
        BY DEF Reported
    <2> HIDE DEF into, who
    <2>4. r \in FiledBy(into) \/ r \in FiledBy(who) \ Duplicates(w)
        BY DEF Carried, into, who
    <2>5. s \in FiledBy(into) \/ s \in FiledBy(who) \ Duplicates(w)
        BY DEF Carried, into, who
    <2>6. \/ r \in FiledBy(into) /\ s \in FiledBy(into)
          \/ r \in FiledBy(who) /\ s \in FiledBy(who)
        BY <2>2, <2>3, <2>4, <2>5
    <2> QED BY <2>1, <2>6 DEF OneEach, FiledBy
<1> QED BY <1>1, <1>2, <1>3, Invariant, PTL DEF Spec

-----------------------------------------------------------------------------
(* The count.                                                              *)

LEMMA OnIsFinite == ASSUME IInv, NEW c PROVE IsFiniteSet(On(c)) /\ Cardinality(On(c)) \in Nat
<1>1. On(c) \subseteq Used
    BY DEF On, Filed, Used
<1> QED BY <1>1, FS_Subset, FS_CardinalityType DEF IInv

\* Steps that leave the count of a case alone leave its reports alone.
LEMMA OnStays ==
    ASSUME IInv, [Next]_vars, ~Inserts, \A w \in Delivery : ~WritesMerge(w),
           NEW c \in Case, case'[c].state # "purged"
    PROVE  case'[c].count = case[c].count /\ On(c)' = On(c) /\ case[c].state # "purged"
<1>1. case[c] \in CaseRow
    BY DEF IInv, TypeOK
<1>2. CASE SameReports
    <2>1. report' = report
        BY <1>2, SameReportsMeans
    <2>4. On(c)' = On(c)
        BY <2>1 DEF On, Filed
    <2>2. ASSUME NEW d \in Case, Reopens(d) \/ Ages(d) \/ Forgets(d)
          PROVE  case'[c].count = case[c].count /\ case[c].state # "purged"
        <3>1. /\ case' = [case EXCEPT ![d] = case'[d]]
              /\ case'[d].count = case[d].count
              /\ case'[d].state # "purged" => case[d].state # "purged"
            <4>1. case[d] \in CaseRow /\ case \in [Case -> CaseRow]
                BY DEF IInv, TypeOK
            <4>2. CASE Reopens(d)
                BY <4>1, <4>2 DEF Reopens, CaseRow
            <4>3. CASE Ages(d)
                BY <4>1, <4>3 DEF Ages, CaseRow
            <4>4. CASE Forgets(d)
                BY <4>1, <4>4 DEF Forgets, CaseRow
            <4> QED BY <2>2, <4>2, <4>3, <4>4
        <3>2. c # d => case'[c] = case[c]
            BY <3>1 DEF IInv, TypeOK
        <3> QED BY <3>1, <3>2
    <2>3. CASE \/ Announces \/ ListsOld \/ UNCHANGED vars
               \/ \E w \in Delivery : DropsMerge(w) \/ \E i \in DOMAIN Story : ReadsMerge(w, i)
        <3>1. case' = case
            BY <2>3 DEF Announces, ListsOld, vars, DropsMerge, ReadsMerge
        <3> QED BY <3>1, <2>4
    <2> QED BY <1>2, <2>2, <2>3, <2>4 DEF SameReports
<1>3. ASSUME NEW d \in Case, Resolves(d)
      PROVE  case'[c].count = case[c].count /\ On(c)' = On(c) /\ case[c].state # "purged"
    <2>1. case'[c].count = case[c].count /\ case[c].state # "purged"
        BY <1>1, <1>3 DEF Resolves, CaseRow, IInv, TypeOK
    <2>2. \A r \in Report : report'[r].row = report[r].row /\ report'[r].case = report[r].case
        BY <1>3 DEF Resolves, IInv, TypeOK, ReportRow
    <2>3. On(c)' = On(c)
        BY <2>2 DEF On, Filed
    <2> QED BY <2>1, <2>3
<1>4. ASSUME NEW i \in DOMAIN Story, Erases(i)
      PROVE  case'[c].count = case[c].count /\ On(c)' = On(c) /\ case[c].state # "purged"
    <2>1. \A r \in Report : report'[r].row = report[r].row /\ report'[r].case = report[r].case
        BY <1>4 DEF Erases, IInv, TypeOK, ReportRow
    <2>2. On(c)' = On(c)
        BY <2>1 DEF On, Filed
    <2> QED BY <1>4, <2>2 DEF Erases
<1>5. CASE Purges
    <2>1. CASE Unprotected = purging
        <3>1. case'[c] = IF c \in purging THEN [case[c] EXCEPT !.state = "purged", !.count = 0] ELSE case[c]
            BY <1>5, <2>1 DEF Purges
        <3>2. c \notin purging /\ case'[c] = case[c]
            BY <1>1, <3>1 DEF CaseRow
        <3>3. \A r \in Report : report'[r] = IF r \in Filed /\ report[r].case \in purging
                                             THEN [report[r] EXCEPT !.row = "deleted"] ELSE report[r]
            BY <1>5, <2>1 DEF Purges
        <3>4. \A r \in Report : report'[r].case = report[r].case
            BY <3>3 DEF IInv, TypeOK, ReportRow
        <3>5. \A r \in Report : report[r].case = c => report'[r] = report[r]
            BY <3>2, <3>3
        <3>6. On(c)' = On(c)
            BY <3>4, <3>5 DEF On, Filed
        <3> QED BY <3>2, <3>6
    <2>2. CASE Unprotected # purging
        <3>1. case' = case /\ report' = report
            BY <1>5, <2>2 DEF Purges
        <3> QED BY <3>1 DEF On, Filed
    <2> QED BY <2>1, <2>2
<1> QED BY <1>2, <1>3, <1>4, <1>5, Steps DEF OtherReports

\* A finite set less another: what is taken is no more than the other has.
LEMMA TakingAway ==
    ASSUME NEW S, NEW T, IsFiniteSet(S), IsFiniteSet(T)
    PROVE  /\ Cardinality(S \ T) \in Nat
           /\ Cardinality(S) - Cardinality(T) <= Cardinality(S \ T)
<1>1. IsFiniteSet(S \ T) /\ Cardinality(S \ T) = Cardinality(S) - Cardinality(S \cap T)
    BY FS_Difference
<1>2. IsFiniteSet(S \cap T) /\ Cardinality(S \cap T) <= Cardinality(T)
    BY FS_Subset
<1>3. /\ Cardinality(S) \in Nat /\ Cardinality(T) \in Nat
      /\ Cardinality(S \cap T) \in Nat /\ Cardinality(S \ T) \in Nat
    BY <1>1, <1>2, FS_CardinalityType
<1> QED BY <1>1, <1>2, <1>3

\* Only a merge that is written miscounts, and history is not taken back.
LEMMA MiscountsStay ==
    ASSUME [Next]_vars
    PROVE  /\ miscounted \subseteq miscounted'
           /\ (\A w \in Delivery : ~WritesMerge(w)) => miscounted' = miscounted
<1>1. ASSUME NEW c \in Case,
             \/ Resolves(c) \/ Reopens(c) \/ Ages(c) \/ Forgets(c)
             \/ \E u \in Account, r \in Report : Submits(u, r, c)
      PROVE  miscounted' = miscounted
    BY <1>1 DEF Resolves, Reopens, Ages, Forgets, Submits
<1>2. CASE Announces \/ PurgeStep \/ UNCHANGED vars
    BY <1>2 DEF Announces, PurgeStep, ListsOld, Purges, vars
<1>3. ASSUME NEW i \in DOMAIN Story, Erases(i) \/ \E w \in Delivery : ReadsMerge(w, i)
      PROVE  miscounted' = miscounted
    BY <1>3 DEF Erases, ReadsMerge
<1>4. ASSUME NEW w \in Delivery, DropsMerge(w) PROVE miscounted' = miscounted
    BY <1>4 DEF DropsMerge
<1>5. ASSUME NEW w \in Delivery, WritesMerge(w) PROVE miscounted \subseteq miscounted'
    BY <1>5 DEF WritesMerge
<1> QED BY <1>1, <1>2, <1>3, <1>4, <1>5 DEF Next, CaseStep, AccountStep

LEMMA CountsStep ==
    ASSUME IInv, CountIsTruthful, [Next]_vars
    PROVE  CountIsTruthful'
<1> DEFINE Goal(c) == /\ case'[c].count <= Cardinality(On(c)')
                      /\ c \notin miscounted' => case'[c].count = Cardinality(On(c)')
<1> SUFFICES ASSUME NEW c \in Case, case'[c].state # "purged"
             PROVE  Goal(c)
    BY DEF CountIsTruthful
<1>0. case[c] \in CaseRow /\ case[c].count \in Nat
    BY DEF IInv, TypeOK, CaseRow
<1>1. CASE Inserts
    <2>1. PICK u \in Account, q \in Report, d \in Case : Submits(u, q, d)
        BY <1>1 DEF Inserts
    <2>2. /\ \A r \in Report \ {q} : report'[r] = report[r]
          /\ report[q] = NoReport
          /\ report'[q] = [row |-> "filed", case |-> d, by |-> u, text |-> TRUE, told |-> FALSE]
        BY <2>1, InsertsMeans
    <2>3. /\ report'[q].row = "filed" /\ report'[q].case = d
          /\ report[q].row = "absent"
        BY <2>2 DEF NoReport
    <2>4. CASE c = d
        <3>1. case[c].state # "purged"
            BY <2>1, <2>4 DEF Submits, Joins, LiveCase
        <3>2. case' = [case EXCEPT ![c].state = IF @ = "absent" THEN "live" ELSE @, ![c].count = @ + 1]
            BY <2>1, <2>4 DEF Submits
        <3>3. case'[c].count = case[c].count + 1
            BY <1>0, <3>2 DEF IInv, TypeOK, CaseRow
        <3>4. On(c)' = On(c) \cup {q} /\ q \notin On(c)
            BY <2>2, <2>3, <2>4 DEF On, Filed
        <3>5. Cardinality(On(c) \cup {q}) = Cardinality(On(c)) + 1 /\ Cardinality(On(c)) \in Nat
            BY <3>4, OnIsFinite, FS_AddElement
        <3>6. /\ case[c].count <= Cardinality(On(c))
              /\ c \notin miscounted' => case[c].count = Cardinality(On(c))
            BY <3>1, MiscountsStay DEF CountIsTruthful
        <3> QED BY <1>0, <3>3, <3>4, <3>5, <3>6
    <2>5. CASE c # d
        <3>1. case'[c] = case[c]
            BY <2>1, <2>5, JoinsLive
        <3>2. On(c)' = On(c)
            BY <2>2, <2>3, <2>5 DEF On, Filed
        <3> QED BY <3>1, <3>2, MiscountsStay DEF CountIsTruthful
    <2> QED BY <2>4, <2>5
<1>2. ASSUME NEW w \in Delivery, WritesMerge(w) PROVE Goal(c)
    <2> DEFINE gone == {r \in Duplicates(w) : report[r].case = c}
    <2>0. merging[w] # Idle
        BY <1>2 DEF WritesMerge
    <2>1. case'[c] = [case[c] EXCEPT !.count = Decremented(w, c)]
        BY <1>2 DEF WritesMerge
    <2>2. case'[c].count = Decremented(w, c) /\ case[c].state # "purged"
        BY <1>0, <2>1 DEF CaseRow
    <2>3. On(c)' = On(c) \ gone
        <3>1. \A r \in Report : report'[r] =
                 IF r \in Duplicates(w) THEN [report[r] EXCEPT !.row = "deleted"]
                 ELSE IF r \in Carried(w) THEN [report[r] EXCEPT !.by = Story[merging[w].fact].into]
                 ELSE report[r]
            BY <1>2 DEF WritesMerge
        <3>2. \A r \in Report :
                 /\ report'[r].case = report[r].case
                 /\ report'[r].row = IF r \in Duplicates(w) THEN "deleted" ELSE report[r].row
            BY <3>1 DEF IInv, TypeOK, ReportRow
        <3> QED BY <3>2 DEF On, Filed
    <2>4. IsFiniteSet(gone) /\ Cardinality(gone) \in Nat
        BY <2>0, DuplicatesAreFinite
    <2>5. case[c].count <= Cardinality(On(c)) /\ Cardinality(On(c)) \in Nat /\ IsFiniteSet(On(c))
        BY <2>2, OnIsFinite DEF CountIsTruthful
    <2>6. Decremented(w, c) = IF Cardinality(gone) < case[c].count THEN case[c].count - Cardinality(gone) ELSE 0
        BY DEF Decremented
    <2> HIDE DEF gone
    <2>7. /\ Cardinality(On(c) \ gone) \in Nat
          /\ Cardinality(On(c)) - Cardinality(gone) <= Cardinality(On(c) \ gone)
        BY <2>4, <2>5, TakingAway
    <2>8. case'[c].count <= Cardinality(On(c)')
        BY <1>0, <2>2, <2>3, <2>4, <2>5, <2>6, <2>7
    <2>9. ASSUME c \notin miscounted' PROVE case'[c].count = Cardinality(On(c)')
        <3>1. c \notin miscounted /\ case[c].count = Cardinality(On(c))
            BY <2>2, <2>9, MiscountsStay DEF CountIsTruthful
        <3>2. gone \subseteq On(c)
            BY <1>2, <2>0, <2>9, DuplicatesAreFinite DEF gone, WritesMerge, On, Used
        <3>3. On(c) \cap gone = gone
            BY <3>2
        <3>4. Cardinality(On(c) \ gone) = Cardinality(On(c)) - Cardinality(gone)
            BY <2>5, <3>3, FS_Difference
        <3> QED BY <1>0, <2>2, <2>3, <2>4, <2>5, <2>6, <2>7, <3>1, <3>4
    <2> QED BY <2>8, <2>9
<1>3. CASE ~Inserts /\ \A w \in Delivery : ~WritesMerge(w)
    BY <1>3, OnStays, MiscountsStay DEF CountIsTruthful
<1> QED BY <1>1, <1>2, <1>3

\* For any number of workers, and any interleaving of their deliveries,
\* report_count is the number of reports, through every join, merge, redelivery,
\* erasure and purge, but for the cases two deliveries have counted down for one
\* report; and there it errs to one side only.
THEOREM CountsAreTruthful == Spec => []CountIsTruthful
<1>1. Init => CountIsTruthful
    <2> SUFFICES ASSUME Init PROVE CountIsTruthful
        OBVIOUS
    <2>1. \A c \in Case : On(c) = {}
        BY DEF Init, NoReport, On, Filed
    <2>2. \A c \in Case : case[c].count = 0
        BY DEF Init, NoCase
    <2> QED BY <2>1, <2>2, FS_EmptySet DEF CountIsTruthful
<1>2. IInv /\ CountIsTruthful /\ [Next]_vars => CountIsTruthful'
    BY CountsStep
<1> QED BY <1>1, <1>2, Invariant, PTL DEF Spec

-----------------------------------------------------------------------------
(* Names that are gone.                                                    *)

\* First deliveries have come in the order of the story so far.
InOrder == \A i \in handled : 1..(i - 1) \subseteq handled

\* What has been dealt with has left nothing behind, and nothing came back.
Cleared == \A i \in handled : FiledBy(Story[i].who) = {}

\* A row without a name is one an erasure has been through.
Blank == \A r \in Filed : report[r].by = None => ~report[r].text

Settling == Blank /\ (~muddled => InOrder /\ Cleared)

\* What a fact of the story says.
LEMMA FactMeans ==
    ASSUME NEW i \in DOMAIN Story
    PROVE  /\ i \in Nat \ {0} /\ Story[i].who \in Account /\ Story[i].who # None
           /\ Story[i].kind = "merged" => /\ Story[i].into \in Account
                                          /\ Story[i].into # None
                                          /\ Story[i].into # Story[i].who
<1>1. Story[i] \in Fact
    BY StoryAssumption
<1> QED BY <1>1, StoryAssumption, NoneAssumption DEF Fact

\* A fact is dealt with in its turn, or the history is muddled.
LEMMA TurnMeans ==
    ASSUME IInv, Settling, NEW i \in DOMAIN Story, Handles(i), ~muddled'
    PROVE  /\ ~muddled /\ InOrder' /\ handled' = handled \cup {i}
           /\ i \in handled \/ 1..(i - 1) \subseteq handled
<1>1. ~muddled /\ handled' = handled \cup {i} /\ (i \in handled \/ 1..(i - 1) \subseteq handled)
    BY DEF Handles, IInv, TypeOK
<1> QED BY <1>1 DEF Settling, InOrder

LEMMA SettlingInserts ==
    ASSUME IInv, Settling, NEW u \in Account, NEW q \in Report, NEW c \in Case, Submits(u, q, c)
    PROVE  Settling'
<1>1. /\ \A r \in Report \ {q} : report'[r] = report[r]
      /\ report'[q] = [row |-> "filed", case |-> c, by |-> u, text |-> TRUE, told |-> FALSE]
    BY InsertsMeans
<1>2. /\ report'[q].by = u /\ u # None
    BY <1>1, NoneAssumption
<1>3. handled' = handled /\ muddled' = (muddled \/ u \in Closed)
    BY DEF Submits
<1>4. Blank'
    BY <1>1, <1>2 DEF Settling, Blank, Filed
<1>5. ASSUME ~muddled' PROVE InOrder' /\ Cleared'
    <2>1. ~muddled /\ u \notin Closed
        BY <1>3, <1>5 DEF IInv, TypeOK
    <2>2. ASSUME NEW i \in handled PROVE FiledBy(Story[i].who)' = {}
        <3>1. i \in 1..announced
            BY <2>2 DEF IInv, TypeOK
        <3>2. Story[i].who # u
            BY <2>1, <3>1 DEF Closed
        <3>3. FiledBy(Story[i].who)' \subseteq FiledBy(Story[i].who)
            BY <1>1, <1>2, <3>2 DEF FiledBy, Filed
        <3> QED BY <2>1, <2>2, <3>3 DEF Settling, Cleared
    <2>3. Cleared'
        BY <1>3, <2>2 DEF Cleared
    <2> QED BY <1>3, <2>1, <2>3 DEF Settling, InOrder
<1> QED BY <1>4, <1>5 DEF Settling

\* A merge leaves nothing under the guest, and what it carries over goes to an
\* account that nothing dealt with so far has closed.
LEMMA SettlingMerge ==
    ASSUME IInv, Settling, NEW w \in Delivery, WritesMerge(w)
    PROVE  Settling'
<1> DEFINE i == merging[w].fact
           into == Story[i].into
           who == Story[i].who
<1>1. i \in DOMAIN Story /\ Story[i].kind = "merged"
    BY DEF WritesMerge, IInv, Reading
<1>2. into # None /\ into # who /\ who # None
    BY <1>1, FactMeans
<1>3. Handles(i)
    BY DEF WritesMerge
<1>4. \A r \in Report : report'[r].row = "filed" =>
          /\ r \in Filed \ Duplicates(w)
          /\ report'[r].by = IF r \in Carried(w) THEN into ELSE report[r].by
    BY MergeWrites
<1>5. \A r \in Report : report'[r].row = "filed" => report'[r].text = report[r].text
    <2>1. \A r \in Report : report'[r] =
             IF r \in Duplicates(w) THEN [report[r] EXCEPT !.row = "deleted"]
             ELSE IF r \in Carried(w) THEN [report[r] EXCEPT !.by = into] ELSE report[r]
        BY DEF WritesMerge
    <2> QED BY <2>1 DEF IInv, TypeOK, ReportRow
<1>6. Blank'
    BY <1>2, <1>4, <1>5 DEF Settling, Blank, Filed
<1>7. ASSUME ~muddled' PROVE InOrder' /\ Cleared'
    <2>1. /\ ~muddled /\ InOrder' /\ handled' = handled \cup {i}
          /\ i \in handled \/ 1..(i - 1) \subseteq handled
        BY <1>1, <1>3, <1>7, TurnMeans
    <2>2. InOrder /\ Cleared
        BY <2>1 DEF Settling
    <2>3. \A r \in Report : report'[r].row = "filed" => report'[r].by # who
        BY <1>2, <1>4 DEF FiledBy, Carried
    <2>4. ASSUME NEW j \in handled PROVE FiledBy(Story[j].who)' = {}
        <3>0. FiledBy(Story[j].who) = {}
            BY <2>2, <2>4 DEF Cleared
        <3>1. CASE Carried(w) = {}
            <4>1. FiledBy(Story[j].who)' \subseteq FiledBy(Story[j].who)
                BY <1>4, <3>1 DEF FiledBy, Filed
            <4> QED BY <3>0, <4>1
        <3>2. CASE Carried(w) # {}
            <4>1. FiledBy(who) # {}
                BY <3>2 DEF Carried
            <4>2. i \notin handled
                BY <2>2, <4>1 DEF Cleared
            <4>3. j \in DOMAIN Story /\ j \in Nat /\ i \in Nat \ {0}
                <5>1. j \in 1..announced /\ announced \in 0..Len(Story)
                    BY <2>4 DEF IInv, TypeOK
                <5>2. Len(Story) \in Nat /\ DOMAIN Story = 1..Len(Story)
                    BY StoryAssumption
                <5> QED BY <1>1, <5>1, <5>2
            <4>4. j < i
                <5>1. 1..(j - 1) \subseteq handled
                    BY <2>2, <2>4 DEF InOrder
                <5>2. i # j
                    BY <2>4, <4>2
                <5>3. CASE i < j
                    <6>1. i \in 1..(j - 1)
                        BY <4>3, <5>3
                    <6> QED BY <4>2, <5>1, <6>1
                <5> QED BY <4>3, <5>2, <5>3
            <4>5. into # Story[j].who
                BY <1>1, <4>3, <4>4, ClosedForGood
            <4>6. FiledBy(Story[j].who)' \subseteq FiledBy(Story[j].who)
                BY <1>4, <4>5 DEF FiledBy, Filed
            <4> QED BY <3>0, <4>6
        <3> QED BY <3>1, <3>2
    <2>5. Cleared'
        <3>1. \A j \in handled', r \in Report :
                 report'[r].row = "filed" => report'[r].by # Story[j].who
            BY <2>1, <2>3, <2>4 DEF FiledBy, Filed
        <3> QED BY <3>1 DEF Cleared, FiledBy, Filed
    <2> QED BY <2>1, <2>5
<1> QED BY <1>6, <1>7 DEF Settling

LEMMA SettlingErasure ==
    ASSUME IInv, Settling, NEW i \in DOMAIN Story, Erases(i)
    PROVE  Settling'
<1>0. Story[i].who # None
    BY FactMeans
<1>1. \A r \in Report : report'[r] =
          IF r \in FiledBy(Story[i].who) THEN [report[r] EXCEPT !.by = None, !.text = FALSE]
          ELSE report[r]
    BY DEF Erases, Detached
<1>2. \A r \in Report :
          /\ report'[r].row = report[r].row
          /\ r \in FiledBy(Story[i].who) => report'[r].by = None /\ ~report'[r].text
          /\ r \notin FiledBy(Story[i].who) => report'[r] = report[r]
    BY <1>1 DEF IInv, TypeOK, ReportRow
<1>3. Blank'
    BY <1>2 DEF Settling, Blank, Filed
<1>4. ASSUME ~muddled' PROVE InOrder' /\ Cleared'
    <2>1. ~muddled /\ InOrder' /\ handled' = handled \cup {i}
        BY <1>4, TurnMeans DEF Erases
    <2>2. FiledBy(Story[i].who)' = {}
        BY <1>0, <1>2 DEF FiledBy, Filed
    <2>3. ASSUME NEW j \in handled PROVE FiledBy(Story[j].who)' = {}
        <3>1. Story[j].who # None
            <4>1. j \in DOMAIN Story
                BY <2>3, StoryAssumption DEF IInv, TypeOK
            <4> QED BY <4>1, FactMeans
        <3>2. FiledBy(Story[j].who)' \subseteq FiledBy(Story[j].who)
            BY <1>2, <3>1 DEF FiledBy, Filed
        <3> QED BY <2>1, <2>3, <3>2 DEF Settling, Cleared
    <2>4. Cleared'
        BY <2>1, <2>2, <2>3 DEF Cleared
    <2> QED BY <2>1, <2>4
<1> QED BY <1>3, <1>4 DEF Settling

\* No other step names anybody or deals with a fact.
LEMMA SettlingOthers ==
    ASSUME IInv, Settling, [Next]_vars, ~Inserts, \A w \in Delivery : ~WritesMerge(w),
           \A i \in DOMAIN Story : ~Erases(i)
    PROVE  Settling'
<1>1. handled' = handled /\ muddled' = muddled
    <2>1. ASSUME NEW c \in Case, Resolves(c) \/ Reopens(c) \/ Ages(c) \/ Forgets(c)
          PROVE  handled' = handled /\ muddled' = muddled
        BY <2>1 DEF Resolves, Reopens, Ages, Forgets
    <2>2. ASSUME NEW w \in Delivery, DropsMerge(w) \/ \E i \in DOMAIN Story : ReadsMerge(w, i)
          PROVE  handled' = handled /\ muddled' = muddled
        BY <2>2 DEF DropsMerge, ReadsMerge
    <2>3. CASE Announces \/ ListsOld \/ Purges \/ UNCHANGED vars
        BY <2>3 DEF Announces, ListsOld, Purges, vars
    <2> QED BY <2>1, <2>2, <2>3 DEF Next, CaseStep, AccountStep, PurgeStep, Inserts
<1>2. ASSUME NEW r \in Report, report'[r].row = "filed"
      PROVE  r \in Filed /\ report'[r].by = report[r].by /\ report'[r].text = report[r].text
    <2>0. report[r] \in ReportRow
        BY DEF IInv, TypeOK
    <2>1. CASE SameReports
        BY <1>2, <2>1, SameReportsMeans DEF Filed
    <2>2. ASSUME NEW c \in Case, Resolves(c)
          PROVE  r \in Filed /\ report'[r].by = report[r].by /\ report'[r].text = report[r].text
        <3>1. report'[r] = IF r \in On(c) THEN [report[r] EXCEPT !.told = TRUE] ELSE report[r]
            BY <2>2 DEF Resolves
        <3> QED BY <1>2, <2>0, <3>1 DEF ReportRow, Filed
    <2>3. CASE Purges
        <3>1. report'[r] = report[r] \/ report'[r] = [report[r] EXCEPT !.row = "deleted"]
            BY <2>3 DEF Purges
        <3> QED BY <1>2, <2>0, <3>1 DEF ReportRow, Filed
    <2> QED BY <2>1, <2>2, <2>3, Steps DEF OtherReports
<1>3. Blank'
    BY <1>2 DEF Settling, Blank, Filed
<1>4. \A i \in handled : FiledBy(Story[i].who)' \subseteq FiledBy(Story[i].who)
    BY <1>2 DEF FiledBy, Filed
<1>5. ~muddled => InOrder' /\ Cleared'
    BY <1>1, <1>4 DEF Settling, InOrder, Cleared
<1> QED BY <1>1, <1>3, <1>5 DEF Settling

\* When the story of the accounts has been told in order, no complaint names an
\* account that is gone, whatever was delivered twice, however many workers there
\* are, and whatever was filed, decided and purged meanwhile.
THEOREM HistoriesSettle == Spec => []SettledHistory
<1>1. Init => Settling
    BY DEF Init, NoReport, Settling, Blank, InOrder, Cleared, Filed
<1>2. IInv /\ Settling /\ [Next]_vars => Settling'
    BY SettlingInserts, SettlingMerge, SettlingErasure, SettlingOthers DEF Inserts
<1>3. IInv /\ Settling => SettledHistory
    <2> SUFFICES ASSUME IInv, Settling, handled = DOMAIN Story, ~muddled, NEW r \in Filed
                 PROVE  \/ report[r].by \in Account \ Closed
                        \/ report[r].by = None /\ ~report[r].text
        BY DEF SettledHistory
    <2>1. report[r].by \in Account \cup {None}
        BY DEF Filed, IInv, TypeOK, ReportRow
    <2>2. ASSUME report[r].by \in Closed PROVE FALSE
        <3>1. PICK i \in 1..announced : report[r].by = Story[i].who
            BY <2>2 DEF Closed
        <3>2. i \in handled
            BY StoryAssumption DEF IInv, TypeOK
        <3>3. r \in FiledBy(Story[i].who)
            BY <3>1 DEF FiledBy
        <3> QED BY <3>2, <3>3 DEF Settling, Cleared
    <2> QED BY <2>1, <2>2 DEF Settling, Blank
<1> QED BY <1>1, <1>2, <1>3, Invariant, PTL DEF Spec

=============================================================================
