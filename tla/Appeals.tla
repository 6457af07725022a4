------------------------------- MODULE Appeals ------------------------------
(***************************************************************************)
(* Appeals against decided cases: open_appeal and resolve_appeal           *)
(* (services.py) behind their two endpoints (views.py), over the rows of   *)
(* Case, Verdict, Appeal and Sanction.  An overturn reopens and re-decides *)
(* its case in one transaction and lifts the contested sanction in         *)
(* another, after it.                                                      *)
(*                                                                         *)
(* Everything else that happens to a case is the environment, as coarse as *)
(* CaseDecision, which this module implements.  The cases are the          *)
(* successive rows of one target, all about one subject.                   *)
(***************************************************************************)
EXTENDS CaseVocabulary, Naturals, Sequences

CONSTANTS
    Case,           \* primary keys of the target's rows
    Moderator,
    Request,        \* HTTP requests in flight
    None,           \* null
    DifferentActor, \* settings APPEAL_REQUIRES_DIFFERENT_ACTOR
    CaseDecisions,  \* bound: the decisions other handlers reach
    MaxVerdicts     \* bound: verdicts on record, per case

ASSUME ActorAssumption == None \notin Moderator /\ None \notin Case
ASSUME SettingAssumption == DifferentActor \in BOOLEAN
ASSUME BoundAssumption == CaseDecisions \subseteq TERMINAL_DECISIONS

VARIABLES
    status,     \* of a case, as CaseDecision has it
    trail,      \* models.Verdict: the verdicts of a case, oldest first
    appeal,     \* models.Appeal: a case has one subject, hence one row
    sanction,   \* the sanction a verdict on the case came with
    request,    \* what a request read and where it stands
    orphaned    \* history: overturned cases whose request died owing a lift

vars == <<status, trail, appeal, sanction, request, orphaned>>

VerdictRow ==
    [decision : VerdictDecision, source : VerdictSource, actor : Moderator \cup {None}]

Outcome == {"upheld", "overturned", "withdrawn"}

\* "contests": the case whose sanction is contested; it need not be the case
\* appealed.  "filed": history, how many verdicts were on record at filing.
AppealRow ==
    [state : {"none", "open"} \cup Outcome, by : Moderator \cup {None},
     contests : Case \cup {None}, filed : Nat]

NoAppeal == [state |-> "none", by |-> None, contests |-> None, filed |-> 0]

SanctionStatus == {"none", "active", "ended", "overturned"}

RequestRecord ==
    [step : {"idle", "file", "decide", "lift", "lifting"}, case : Case \cup {None},
     by : Moderator \cup {None}, outcome : Outcome]

Idle == [step |-> "idle", case |-> None, by |-> None, outcome |-> "upheld"]

Init ==
    /\ status = [c \in Case |-> "none"]
    /\ trail = [c \in Case |-> <<>>]
    /\ appeal = [c \in Case |-> NoAppeal]
    /\ sanction = [c \in Case |-> "none"]
    /\ request = [r \in Request |-> Idle]
    /\ orphaned = {}

\* uniq_open_case_per_target, for a row about to become live.
FreeForTarget(c) == \A d \in Case \ {c} : status[d] # "undecided"

LastDecision(c) == IF trail[c] = <<>> THEN "none" ELSE trail[c][Len(trail[c])].decision

Recorded(c, row) == trail' = [trail EXCEPT ![c] = Append(@, row)]

Actors(c) == {trail[c][i].actor : i \in DOMAIN trail[c]} \ {None}

-----------------------------------------------------------------------------
(* The environment: the other handlers and the sanction endpoints.         *)

\* open_case.
Opens(c) ==
    /\ status[c] = "none"
    /\ FreeForTarget(c)
    /\ status' = [status EXCEPT ![c] = "undecided"]
    /\ UNCHANGED <<trail, appeal, sanction, request, orphaned>>

\* resolve_case closes the case, from a current copy of it or an old one, with
\* a sanction or without.
Decides(c, d, a) ==
    /\ status[c] # "none"
    /\ Len(trail[c]) < MaxVerdicts[c]
    /\ d \in TERMINAL_DECISIONS
    /\ Recorded(c, [decision |-> d, source |-> IF a = None THEN "llm" ELSE "human", actor |-> a])
    /\ status' = [status EXCEPT ![c] = "decided"]
    /\ \/ UNCHANGED sanction
       \/ /\ sanction[c] = "none"
          /\ sanction' = [sanction EXCEPT ![c] = "active"]
    /\ UNCHANGED <<appeal, request, orphaned>>

\* resolve_case records that the machine abstained; only an old copy abstains
\* on a decided case, and may reopen it.
Abstains(c) ==
    /\ status[c] # "none"
    /\ Len(trail[c]) < MaxVerdicts[c]
    /\ Recorded(c, [decision |-> "needs_review", source |-> "llm", actor |-> None])
    /\ \/ UNCHANGED status
       \/ FreeForTarget(c) /\ status' = [status EXCEPT ![c] = "undecided"]
    /\ UNCHANGED <<appeal, sanction, request, orphaned>>

\* rescan_case reopens.
Reopens(c) ==
    /\ status[c] = "decided"
    /\ FreeForTarget(c)
    /\ status' = [status EXCEPT ![c] = "undecided"]
    /\ UNCHANGED <<trail, appeal, sanction, request, orphaned>>

\* The sanction expires or is lifted by hand.
SanctionEnds(c) ==
    /\ sanction[c] = "active"
    /\ sanction' = [sanction EXCEPT ![c] = "ended"]
    /\ UNCHANGED <<status, trail, appeal, request, orphaned>>

-----------------------------------------------------------------------------
(* Filing.                                                                 *)

\* AppealListCreateView reads the case of its subject, and open_appeal checks
\* the copy ...
ReadsToFile(r, c) ==
    /\ request[r] = Idle
    /\ status[c] = "decided"
    /\ request' = [request EXCEPT ![r] = [Idle EXCEPT !.step = "file", !.case = c]]
    /\ UNCHANGED <<status, trail, appeal, sanction, orphaned>>

\* ... and inserts the row, contesting any sanction its subject ever had, unless
\* uniq_appeal_per_case_user refuses it.  The case may be live again by now.
Files(r) ==
    LET c == request[r].case IN
    /\ request[r].step = "file"
    /\ IF appeal[c].state = "none"
       THEN \E x \in {None} \cup {d \in Case : sanction[d] # "none"} :
               appeal' = [appeal EXCEPT ![c] = [state |-> "open", by |-> None, contests |-> x,
                                                filed |-> Len(trail[c])]]
       ELSE UNCHANGED appeal
    /\ request' = [request EXCEPT ![r] = Idle]
    /\ UNCHANGED <<status, trail, sanction, orphaned>>

-----------------------------------------------------------------------------
(* Deciding.                                                               *)

\* MUTANT: only the moderator on the last verdict is refused.
Independent_of_last(c, a) ==
    DifferentActor => trail[c] = <<>> \/ trail[c][Len(trail[c])].actor # a

\* APPEAL_REQUIRES_DIFFERENT_ACTOR: nobody with a verdict on the case.
Independent(c, a) == DifferentActor => a \notin Actors(c)

\* resolve_appeal checks its copy of the appeal, the outcome and the actor.  The
\* copy is read a moment earlier: what is refused here is refused then too.
ReadsToDecide(r, c, o, a) ==
    /\ request[r] = Idle
    /\ appeal[c].state = "open"
    /\ o # "withdrawn" => Independent(c, a)
    /\ request' = [request EXCEPT ![r] = [step |-> "decide", case |-> c, by |-> a, outcome |-> o]]
    /\ UNCHANGED <<status, trail, appeal, sanction, orphaned>>

\* MUTANT: an overturn hands the case back to a human.
Reverse_abstains(c) == IF LastDecision(c) = "rejected" THEN "approved" ELSE "needs_review"

\* _reverse: of the last verdict on record, whatever the appeal was filed against.
Reverse(c) == IF LastDecision(c) = "rejected" THEN "approved" ELSE "dismissed"

Decided(c, r) == appeal' = [appeal EXCEPT ![c].state = request[r].outcome, ![c].by = request[r].by]

\* Upheld or withdrawn: the row alone is written, over whatever it holds by now.
Closes(r) ==
    LET c == request[r].case IN
    /\ request[r].step = "decide"
    /\ request[r].outcome # "overturned"
    /\ Decided(c, r)
    /\ request' = [request EXCEPT ![r] = Idle]
    /\ UNCHANGED <<status, trail, sanction, orphaned>>

\* MUTANT: the lift waits for the case to have been reopened.
Overturns_lifts_reopened(r) ==
    LET c == request[r].case IN
    /\ request[r].step = "decide" /\ request[r].outcome = "overturned"
    /\ Len(trail[c]) < MaxVerdicts[c]
    /\ status[c] = "decided" => FreeForTarget(c)
    /\ Decided(c, r)
    /\ Recorded(c, [decision |-> Reverse(c), source |-> "appeal", actor |-> request[r].by])
    /\ status' = [status EXCEPT ![c] = "decided"]
    /\ request' = [request EXCEPT ![r] = IF appeal[c].contests # None /\ status[c] = "decided"
                                         THEN [@ EXCEPT !.step = "lift"] ELSE Idle]
    /\ UNCHANGED <<sanction, orphaned>>

\* Overturned: with the row, one transaction locks the case, reopens it if it is
\* resolved, and re-decides it.
Overturns(r) ==
    LET c == request[r].case IN
    /\ request[r].step = "decide"
    /\ request[r].outcome = "overturned"
    /\ Len(trail[c]) < MaxVerdicts[c]
    /\ status[c] = "decided" => FreeForTarget(c)
    /\ Decided(c, r)
    /\ Recorded(c, [decision |-> Reverse(c), source |-> "appeal", actor |-> request[r].by])
    /\ status' = [status EXCEPT ![c] = "decided"]
    /\ request' = [request EXCEPT ![r] = IF appeal[c].contests # None
                                         THEN [@ EXCEPT !.step = "lift"] ELSE Idle]
    /\ UNCHANGED <<sanction, orphaned>>

\* MUTANT: the appeal is saved in a transaction of its own.
RollsBack_keeps_row(r) ==
    LET c == request[r].case IN
    /\ request[r].step = "decide" /\ request[r].outcome = "overturned"
    /\ status[c] = "decided" /\ ~FreeForTarget(c)
    /\ Decided(c, r)
    /\ request' = [request EXCEPT ![r] = Idle]
    /\ UNCHANGED <<status, trail, sanction, orphaned>>

\* A newer case of the target is live: reopening violates the unique constraint
\* and the transaction takes the appeal's row back with it.
RollsBack(r) ==
    LET c == request[r].case IN
    /\ request[r].step = "decide"
    /\ request[r].outcome = "overturned"
    /\ status[c] = "decided"
    /\ ~FreeForTarget(c)
    /\ request' = [request EXCEPT ![r] = Idle]
    /\ UNCHANGED <<status, trail, appeal, sanction, orphaned>>

\* MUTANT: the lift runs before the transaction that justifies it.
ReadsSanction_first(r) ==
    LET s == appeal[request[r].case].contests IN
    /\ request[r].step = "lift" \/ (request[r].step = "decide" /\ s # None)
    /\ request' = [request EXCEPT ![r] = IF sanction[s] = "active"
                                         THEN [@ EXCEPT !.step = "lifting"] ELSE Idle]
    /\ UNCHANGED <<status, trail, appeal, sanction, orphaned>>

\* After the commit, the contested sanction is read again ...
ReadsSanction(r) ==
    LET s == appeal[request[r].case].contests IN
    /\ request[r].step = "lift"
    /\ request' = [request EXCEPT ![r] = IF sanction[s] = "active"
                                         THEN [@ EXCEPT !.step = "lifting"] ELSE Idle]
    /\ UNCHANGED <<status, trail, appeal, sanction, orphaned>>

\* ... and lift_sanction writes over it what the copy allowed.
Lifts(r) ==
    LET s == appeal[request[r].case].contests IN
    /\ request[r].step = "lifting"
    /\ sanction' = [sanction EXCEPT ![s] = "overturned"]
    /\ request' = [request EXCEPT ![r] = Idle]
    /\ UNCHANGED <<status, trail, appeal, orphaned>>

\* A request dies where it stands; nothing takes its work up again.
Dies(r) ==
    /\ request[r] # Idle
    /\ request' = [request EXCEPT ![r] = Idle]
    /\ orphaned' = IF request[r].step \in {"lift", "lifting"}
                   THEN orphaned \cup {request[r].case} ELSE orphaned
    /\ UNCHANGED <<status, trail, appeal, sanction>>

-----------------------------------------------------------------------------

EnvironmentStep == \E c \in Case :
    \/ Opens(c) \/ Abstains(c) \/ Reopens(c) \/ SanctionEnds(c)
    \/ \E d \in CaseDecisions, a \in Moderator \cup {None} : Decides(c, d, a)

FileStep == \E r \in Request : Files(r) \/ \E c \in Case : ReadsToFile(r, c)

DecideStep == \E r \in Request :
    \/ \E c \in Case, o \in Outcome, a \in Moderator : ReadsToDecide(r, c, o, a)
    \/ Closes(r) \/ Overturns(r) \/ RollsBack(r)

LiftStep == \E r \in Request : ReadsSanction(r) \/ Lifts(r) \/ Dies(r)

Next == EnvironmentStep \/ FileStep \/ DecideStep \/ LiftStep

Spec == Init /\ [][Next]_vars

-----------------------------------------------------------------------------

TypeOK ==
    /\ status \in [Case -> {"none", "undecided", "decided"}]
    /\ trail \in [Case -> Seq(VerdictRow)]
    /\ appeal \in [Case -> AppealRow]
    /\ sanction \in [Case -> SanctionStatus]
    /\ request \in [Request -> RequestRecord]
    /\ orphaned \subseteq Case

\* Independence (DSA Art. 20): whoever upholds or overturns an appeal gave none
\* of the verdicts it was filed against, however much later they decide it and
\* whatever has been decided about the case in between.
DeciderIsIndependent ==
    DifferentActor =>
        \A c \in Case : appeal[c].state \in {"upheld", "overturned"} =>
            \A i \in 1..appeal[c].filed : trail[c][i].actor # appeal[c].by

\* An overturn is not bookkeeping: the appeal's row says "overturned" only where
\* a verdict by the same moderator, given after the filing, reversed the one
\* before it, and none stands behind a rolled-back reopening.
Reverses(c, i) ==
    /\ trail[c][i].source = "appeal"
    /\ trail[c][i].actor = appeal[c].by
    /\ trail[c][i].decision = IF trail[c][i - 1].decision = "rejected" THEN "approved"
                              ELSE "dismissed"

OverturnIsARemedy ==
    \A c \in Case : appeal[c].state = "overturned" =>
        \E i \in (appeal[c].filed + 1)..Len(trail[c]) : i > 1 /\ Reverses(c, i)

\* The lift is owed: after an overturn the contested sanction stays in force
\* only while a request is on its way to lift it, or if that request died.
LiftIsOwed ==
    \A c \in Case :
        /\ appeal[c].state = "overturned"
        /\ appeal[c].contests # None
        /\ sanction[appeal[c].contests] = "active"
        => \/ c \in orphaned
           \/ \E r \in Request : request[r].case = c /\ request[r].step \in {"lift", "lifting"}

\* A sanction is not lifted as overturned before the row that justifies it: some
\* appeal that contests it has a verdict of its own on record.
LiftIsJustified ==
    \A s \in Case : sanction[s] = "overturned" =>
        \E c \in Case : /\ appeal[c].contests = s
                        /\ \E i \in DOMAIN trail[c] : trail[c][i].source = "appeal"

\* From outside, an appeal is one more verdict: the reopening it makes inside its
\* transaction never shows.
LastVerdict ==
    [c \in Case |-> IF trail[c] = <<>> THEN NoVerdict
                    ELSE [decision |-> LastDecision(c), source |-> trail[c][Len(trail[c])].source]]

Decision == INSTANCE CaseDecision WITH verdict <- LastVerdict

ImplementsDecision == Decision!Spec

\* The subject is one person throughout.
Appellant == "appellant"

Status ==
    [c \in Case |-> IF sanction[c] = "none" THEN "none"
                    ELSE IF sanction[c] = "active" THEN "in_force" ELSE "over"]

Subject == [c \in Case |-> IF sanction[c] = "none" THEN None ELSE Appellant]

Record ==
    INSTANCE SanctionRecord WITH Sanction <- Case, User <- {Appellant},
                                 status <- Status, subject <- Subject

\* Deciding a case again, and lifting from an old copy, leave a sanction's record
\* in order: an overturn ends at most what was in force.
ImplementsRecord == Record!Spec

=============================================================================
