---------------------------- MODULE AppealsProofs ---------------------------
(***************************************************************************)
(* The safety of Appeals for any cases, moderators and requests.  An appeal *)
(* is decided from a copy, so nothing a request was told need still hold    *)
(* when it acts.  What does hold is what can only grow: verdicts are        *)
(* appended, a filed appeal keeps what it was filed against, and a sanction *)
(* that has been contested never starts again.  InHand says what a request  *)
(* knows in those terms, and each property follows from it.                 *)
(***************************************************************************)
EXTENDS Appeals, SequenceTheorems, TLAPS

\* A verdict given on appeal is on record.
Remedied(c) == \E i \in 1..Len(trail[c]) : trail[c][i].source = "appeal"

\* Nobody with a verdict the appeal was filed against is about to decide it.
Unbiased(c, a) ==
    DifferentActor => \A i \in 1..appeal[c].filed : trail[c][i].actor # a

\* The same after a step, of the case and the moderator of before it.
RemediedNext(c) == \E i \in 1..Len(trail'[c]) : trail'[c][i].source = "appeal"

UnbiasedNext(c, a) ==
    DifferentActor => \A i \in 1..appeal'[c].filed : trail'[c][i].actor # a

\* What a request that files, decides or lifts can rely on.
Knows(r) ==
    /\ request[r].step # "idle" => request[r].case \in Case
    /\ request[r].step = "file" => Len(trail[request[r].case]) > 0
    /\ request[r].step \in {"decide", "lift", "lifting"} =>
          request[r].by \in Moderator /\ appeal[request[r].case].state # "none"
    /\ request[r].step = "decide" /\ request[r].outcome # "withdrawn" =>
          Unbiased(request[r].case, request[r].by)
    /\ request[r].step \in {"lift", "lifting"} =>
          appeal[request[r].case].contests \in Case /\ Remedied(request[r].case)

InHand == \A r \in Request : Knows(r)

\* A decided case has a verdict, an appeal was filed against some, and a
\* sanction somebody contested was issued.
OnRecord ==
    \A c \in Case :
        /\ status[c] = "decided" => Len(trail[c]) > 0
        /\ appeal[c].state # "none" => appeal[c].filed \in 1..Len(trail[c])
        /\ appeal[c].contests # None =>
              appeal[c].state # "none" /\ sanction[appeal[c].contests] # "none"

IInv == TypeOK /\ InHand /\ OnRecord

-----------------------------------------------------------------------------
(* What only grows.                                                        *)

\* The verdicts of a case are appended to.
Extends(c) ==
    /\ Len(trail[c]) \in Nat /\ Len(trail'[c]) \in Nat
    /\ Len(trail[c]) <= Len(trail'[c])
    /\ \A i \in 1..Len(trail[c]) : trail'[c][i] = trail[c][i]

\* An appeal stays filed, against what it was filed against.
StaysFiled(c) ==
    appeal[c].state # "none" =>
        /\ appeal'[c].state # "none"
        /\ appeal'[c].filed = appeal[c].filed
        /\ appeal'[c].contests = appeal[c].contests

\* A sanction stays issued, and is active for the first time only.
StaysIssued(c) ==
    sanction[c] # "none" =>
        /\ sanction'[c] # "none"
        /\ sanction'[c] = "active" => sanction[c] = "active"

\* Appending a row to the trail of c extends every trail.
LEMMA RecordedExtends ==
    ASSUME TypeOK, NEW c \in Case, NEW row \in VerdictRow, Recorded(c, row)
    PROVE  /\ \A d \in Case : Extends(d)
           /\ \A d \in Case \ {c} : trail'[d] = trail[d]
           /\ Len(trail'[c]) = Len(trail[c]) + 1
           /\ trail'[c][Len(trail'[c])] = row
           /\ trail' \in [Case -> Seq(VerdictRow)]
<1>1. trail \in [Case -> Seq(VerdictRow)]
    BY DEF TypeOK
<1>2. trail' = [trail EXCEPT ![c] = Append(trail[c], row)]
    BY DEF Recorded
<1>3. /\ Append(trail[c], row) \in Seq(VerdictRow)
      /\ Len(trail[c]) \in Nat
      /\ Len(Append(trail[c], row)) = Len(trail[c]) + 1
      /\ \A i \in 1..Len(trail[c]) : Append(trail[c], row)[i] = trail[c][i]
      /\ Append(trail[c], row)[Len(trail[c]) + 1] = row
    BY <1>1, AppendProperties
<1>4. trail'[c] = Append(trail[c], row) /\ \A d \in Case \ {c} : trail'[d] = trail[d]
    BY <1>1, <1>2
<1>5. trail' \in [Case -> Seq(VerdictRow)]
    BY <1>1, <1>2, <1>3
<1>6. \A d \in Case : Len(trail[d]) \in Nat
    BY <1>1
<1>7. ASSUME NEW d \in Case PROVE Extends(d)
    <2>1. CASE d = c
        BY <1>3, <1>4, <2>1 DEF Extends
    <2>2. CASE d # c
        BY <1>4, <1>6, <2>2 DEF Extends
    <2> QED BY <2>1, <2>2
<1> QED BY <1>3, <1>4, <1>5, <1>7

\* A trail nobody writes extends itself.
LEMMA UnchangedExtends ==
    ASSUME TypeOK, trail' = trail
    PROVE  \A d \in Case : Extends(d)
BY DEF TypeOK, Extends

\* The row an overturn records.
ReversalRow(r) ==
    [decision |-> Reverse(request[r].case), source |-> "appeal", actor |-> request[r].by]

LEMMA ReversalRowType ==
    ASSUME TypeOK, NEW r \in Request, request[r].by \in Moderator
    PROVE  ReversalRow(r) \in VerdictRow
BY DEF ReversalRow, Reverse, VerdictRow, VerdictDecision, VerdictSource

LEMMA DecidesRowType ==
    ASSUME NEW d \in TERMINAL_DECISIONS, NEW a \in Moderator \cup {None}
    PROVE  [decision |-> d, source |-> IF a = None THEN "llm" ELSE "human", actor |-> a] \in VerdictRow
BY DEF VerdictRow, VerdictDecision, VerdictSource, TERMINAL_DECISIONS

LEMMA AbstainsRowType ==
    [decision |-> "needs_review", source |-> "llm", actor |-> None] \in VerdictRow
BY DEF VerdictRow, VerdictDecision, VerdictSource

LEMMA RequestTypes ==
    /\ Idle \in RequestRecord
    /\ \A q \in RequestRecord : /\ [q EXCEPT !.step = "lift"] \in RequestRecord
                               /\ [q EXCEPT !.step = "lifting"] \in RequestRecord
BY DEF RequestRecord, Idle, Outcome

-----------------------------------------------------------------------------
(* Types.                                                                  *)

LEMMA TypeStep == IInv /\ [Next]_vars => TypeOK'
<1> SUFFICES ASSUME IInv, [Next]_vars PROVE TypeOK'
    OBVIOUS
<1> USE DEF IInv
<1>0. TypeOK
    OBVIOUS
<1>1. CASE UNCHANGED vars
    BY <1>0, <1>1 DEF vars, TypeOK
<1>2. ASSUME NEW c \in Case, Opens(c) \/ Reopens(c) \/ SanctionEnds(c) PROVE TypeOK'
    BY <1>0, <1>2 DEF Opens, Reopens, SanctionEnds, TypeOK, SanctionStatus
<1>3. ASSUME NEW c \in Case, NEW d \in CaseDecisions, NEW a \in Moderator \cup {None}, Decides(c, d, a)
      PROVE TypeOK'
    <2>1. trail' \in [Case -> Seq(VerdictRow)]
        BY <1>0, <1>3, DecidesRowType, RecordedExtends DEF Decides
    <2> QED BY <1>0, <1>3, <2>1 DEF Decides, TypeOK, SanctionStatus
<1>4. ASSUME NEW c \in Case, Abstains(c) PROVE TypeOK'
    <2>1. trail' \in [Case -> Seq(VerdictRow)]
        BY <1>0, <1>4, AbstainsRowType, RecordedExtends DEF Abstains
    <2> QED BY <1>0, <1>4, <2>1 DEF Abstains, TypeOK
<1>5. ASSUME NEW r \in Request, NEW c \in Case, ReadsToFile(r, c) PROVE TypeOK'
    BY <1>0, <1>5 DEF ReadsToFile, TypeOK, RequestRecord, Idle, Outcome
<1>6. ASSUME NEW r \in Request, Files(r) PROVE TypeOK'
    <2> DEFINE c == request[r].case
    <2>1. c \in Case /\ Len(trail[c]) \in Nat
        BY <1>0, <1>6 DEF Files, InHand, Knows, TypeOK
    <2>2. \A x \in {None} \cup {d \in Case : sanction[d] # "none"} :
              [state |-> "open", by |-> None, contests |-> x, filed |-> Len(trail[c])] \in AppealRow
        BY <2>1 DEF AppealRow
    <2>3. appeal' \in [Case -> AppealRow]
        BY <1>0, <1>6, <2>1, <2>2 DEF Files, TypeOK
    <2> QED BY <1>0, <1>6, <2>3, RequestTypes DEF Files, TypeOK
<1>7. ASSUME NEW r \in Request, NEW c \in Case, NEW o \in Outcome, NEW a \in Moderator,
             ReadsToDecide(r, c, o, a)
      PROVE TypeOK'
    BY <1>0, <1>7 DEF ReadsToDecide, TypeOK, RequestRecord, Outcome
<1>8. ASSUME NEW r \in Request, request[r].step = "decide", NEW c \in Case, Decided(c, r)
      PROVE appeal' \in [Case -> AppealRow]
    <2>1. appeal[c] \in AppealRow /\ request[r] \in RequestRecord
        BY <1>0, <1>8 DEF TypeOK
    <2>2. [appeal[c] EXCEPT !.state = request[r].outcome, !.by = request[r].by] \in AppealRow
        BY <2>1 DEF AppealRow, RequestRecord, Outcome
    <2>3. appeal' = [appeal EXCEPT ![c] = [appeal[c] EXCEPT !.state = request[r].outcome, !.by = request[r].by]]
        BY <1>0, <1>8 DEF Decided, TypeOK
    <2> QED BY <1>0, <2>2, <2>3 DEF TypeOK
<1>9. ASSUME NEW r \in Request, Closes(r) \/ RollsBack(r) PROVE TypeOK'
    <2>1. request[r].case \in Case
        BY <1>9 DEF Closes, RollsBack, InHand, Knows
    <2>2. request' \in [Request -> RequestRecord]
        BY <1>0, <1>9, RequestTypes DEF Closes, RollsBack, TypeOK
    <2> QED BY <1>0, <1>8, <1>9, <2>1, <2>2 DEF Closes, RollsBack, TypeOK
<1>10. ASSUME NEW r \in Request, Overturns(r) PROVE TypeOK'
    <2> DEFINE c == request[r].case
    <2>1. c \in Case /\ request[r].by \in Moderator /\ request[r].step = "decide"
        BY <1>10 DEF Overturns, InHand, Knows
    <2>2. trail' \in [Case -> Seq(VerdictRow)]
        <3>1. Recorded(c, ReversalRow(r))
            BY <1>10 DEF Overturns, ReversalRow
        <3> QED BY <1>0, <2>1, <3>1, ReversalRowType, RecordedExtends
    <2>3. appeal' \in [Case -> AppealRow]
        BY <1>8, <1>10, <2>1 DEF Overturns
    <2>4. request' \in [Request -> RequestRecord]
        BY <1>0, <1>10, RequestTypes DEF Overturns, TypeOK
    <2> QED BY <1>0, <1>10, <2>2, <2>3, <2>4 DEF Overturns, TypeOK
<1>11. ASSUME NEW r \in Request, ReadsSanction(r) \/ Lifts(r) PROVE TypeOK'
    <2>0. request[r] \in RequestRecord
        BY <1>0 DEF TypeOK
    <2>1. request' \in [Request -> RequestRecord]
        BY <1>0, <1>11, <2>0, RequestTypes DEF ReadsSanction, Lifts, TypeOK
    <2> QED BY <1>0, <1>11, <2>1 DEF ReadsSanction, Lifts, TypeOK, SanctionStatus
<1>12. ASSUME NEW r \in Request, Dies(r) PROVE TypeOK'
    <2>1. request' \in [Request -> RequestRecord]
        BY <1>0, <1>12, RequestTypes DEF Dies, TypeOK
    <2>2. orphaned' \subseteq Case
        BY <1>0, <1>12 DEF Dies, TypeOK, InHand, Knows
    <2> QED BY <1>0, <1>12, <2>1, <2>2 DEF Dies, TypeOK
<1> QED BY <1>1, <1>2, <1>3, <1>4, <1>5, <1>6, <1>7, <1>9, <1>10, <1>11, <1>12
        DEF Next, EnvironmentStep, FileStep, DecideStep, LiftStep

-----------------------------------------------------------------------------
(* Every step of Appeals keeps what is on record.                          *)

History == \A c \in Case : Extends(c) /\ StaysFiled(c) /\ StaysIssued(c)

LEMMA HistoryStep == IInv /\ [Next]_vars => History
<1> SUFFICES ASSUME IInv, [Next]_vars PROVE History
    OBVIOUS
<1>0. TypeOK /\ InHand
    BY DEF IInv
<1>1. trail' = trail \/ \E c \in Case, row \in VerdictRow : Recorded(c, row)
    <2>1. ASSUME NEW r \in Request, Overturns(r)
          PROVE \E c \in Case, row \in VerdictRow : Recorded(c, row)
        <3>1. request[r].case \in Case /\ request[r].by \in Moderator
            BY <1>0, <2>1 DEF Overturns, InHand, Knows
        <3>2. Recorded(request[r].case, ReversalRow(r))
            BY <2>1 DEF Overturns, ReversalRow
        <3> QED BY <1>0, <3>1, <3>2, ReversalRowType
    <2>2. ASSUME NEW c \in Case, NEW d \in CaseDecisions, NEW a \in Moderator \cup {None}, Decides(c, d, a)
          PROVE \E row \in VerdictRow : Recorded(c, row)
        BY <2>2, DecidesRowType DEF Decides
    <2>3. ASSUME NEW c \in Case, Abstains(c)
          PROVE \E row \in VerdictRow : Recorded(c, row)
        BY <2>3, AbstainsRowType DEF Abstains
    <2>4. ASSUME NEW c \in Case, Opens(c) \/ Reopens(c) \/ SanctionEnds(c)
          PROVE trail' = trail
        BY <2>4 DEF Opens, Reopens, SanctionEnds
    <2>5. ASSUME NEW r \in Request,
                 \/ Files(r) \/ Closes(r) \/ RollsBack(r) \/ ReadsSanction(r) \/ Lifts(r) \/ Dies(r)
                 \/ \E c \in Case : ReadsToFile(r, c)
                 \/ \E c \in Case, o \in Outcome, a \in Moderator : ReadsToDecide(r, c, o, a)
          PROVE trail' = trail
        BY <2>5 DEF Files, Closes, RollsBack, ReadsSanction, Lifts, Dies, ReadsToFile, ReadsToDecide
    <2>6. CASE UNCHANGED vars
        BY <2>6 DEF vars
    <2> QED BY <2>1, <2>2, <2>3, <2>4, <2>5, <2>6
            DEF Next, EnvironmentStep, FileStep, DecideStep, LiftStep
<1>2. \A c \in Case : Extends(c)
    BY <1>0, <1>1, RecordedExtends, UnchangedExtends
<1>3. \A c \in Case : StaysFiled(c)
    <2>1. ASSUME NEW r \in Request, Files(r) PROVE \A c \in Case : StaysFiled(c)
        BY <1>0, <2>1 DEF Files, StaysFiled, TypeOK
    <2>2. ASSUME NEW r \in Request, Closes(r) \/ Overturns(r) PROVE \A c \in Case : StaysFiled(c)
        <3>1. request[r].case \in Case /\ request[r].outcome \in Outcome
            BY <1>0, <2>2 DEF Closes, Overturns, InHand, Knows, TypeOK, RequestRecord
        <3>2. Decided(request[r].case, r)
            BY <2>2 DEF Closes, Overturns
        <3> QED BY <1>0, <3>1, <3>2 DEF Decided, StaysFiled, TypeOK, AppealRow, Outcome
    <2>3. ASSUME appeal' = appeal PROVE \A c \in Case : StaysFiled(c)
        BY <2>3 DEF StaysFiled
    <2>4. ASSUME NEW c \in Case,
                 \/ Opens(c) \/ Abstains(c) \/ Reopens(c) \/ SanctionEnds(c)
                 \/ \E d \in CaseDecisions, a \in Moderator \cup {None} : Decides(c, d, a)
          PROVE appeal' = appeal
        BY <2>4 DEF Opens, Abstains, Reopens, SanctionEnds, Decides
    <2>5. ASSUME NEW r \in Request,
                 \/ RollsBack(r) \/ ReadsSanction(r) \/ Lifts(r) \/ Dies(r)
                 \/ \E c \in Case : ReadsToFile(r, c)
                 \/ \E c \in Case, o \in Outcome, a \in Moderator : ReadsToDecide(r, c, o, a)
          PROVE appeal' = appeal
        BY <2>5 DEF RollsBack, ReadsSanction, Lifts, Dies, ReadsToFile, ReadsToDecide
    <2>6. CASE UNCHANGED vars
        BY <2>3, <2>6 DEF vars
    <2> QED BY <2>1, <2>2, <2>3, <2>4, <2>5, <2>6
            DEF Next, EnvironmentStep, FileStep, DecideStep, LiftStep
<1>4. \A c \in Case : StaysIssued(c)
    <2>1. ASSUME NEW c \in Case,
                 \/ SanctionEnds(c)
                 \/ \E d \in CaseDecisions, a \in Moderator \cup {None} : Decides(c, d, a)
          PROVE \A s \in Case : StaysIssued(s)
        BY <1>0, <2>1 DEF SanctionEnds, Decides, StaysIssued, TypeOK, SanctionStatus
    <2>2. ASSUME NEW r \in Request, Lifts(r) PROVE \A s \in Case : StaysIssued(s)
        <3>1. appeal[request[r].case].contests \in Case
            BY <1>0, <2>2 DEF Lifts, InHand, Knows
        <3> QED BY <1>0, <2>2, <3>1 DEF Lifts, StaysIssued, TypeOK, SanctionStatus
    <2>3. ASSUME sanction' = sanction PROVE \A s \in Case : StaysIssued(s)
        BY <2>3 DEF StaysIssued
    <2>4. ASSUME NEW c \in Case, Opens(c) \/ Abstains(c) \/ Reopens(c) PROVE sanction' = sanction
        BY <2>4 DEF Opens, Abstains, Reopens
    <2>5. ASSUME NEW r \in Request,
                 \/ Files(r) \/ Closes(r) \/ Overturns(r) \/ RollsBack(r) \/ ReadsSanction(r) \/ Dies(r)
                 \/ \E c \in Case : ReadsToFile(r, c)
                 \/ \E c \in Case, o \in Outcome, a \in Moderator : ReadsToDecide(r, c, o, a)
          PROVE sanction' = sanction
        BY <2>5 DEF Files, Closes, Overturns, RollsBack, ReadsSanction, Dies, ReadsToFile, ReadsToDecide
    <2>6. CASE UNCHANGED vars
        BY <2>3, <2>6 DEF vars
    <2> QED BY <2>1, <2>2, <2>3, <2>4, <2>5, <2>6
            DEF Next, EnvironmentStep, FileStep, DecideStep, LiftStep
<1> QED BY <1>2, <1>3, <1>4 DEF History

\* What was remedied stays remedied ...
LEMMA RemedyRemains ==
    ASSUME History, NEW c \in Case, Remedied(c)
    PROVE  RemediedNext(c)
<1>1. Extends(c)
    BY DEF History
<1> QED BY <1>1 DEF Extends, Remedied, RemediedNext

\* ... and who was unbiased stays unbiased.
LEMMA UnbiasedRemains ==
    ASSUME IInv, History, NEW c \in Case, NEW a, appeal[c].state # "none", Unbiased(c, a)
    PROVE  UnbiasedNext(c, a)
<1>1. Extends(c) /\ StaysFiled(c)
    BY DEF History
<1>2. appeal[c].filed \in 1..Len(trail[c])
    BY DEF IInv, OnRecord
<1>3. appeal'[c].filed = appeal[c].filed
    BY <1>1 DEF StaysFiled
<1>4. \A i \in 1..appeal[c].filed : trail'[c][i] = trail[c][i]
    BY <1>1, <1>2 DEF Extends
<1> QED BY <1>3, <1>4 DEF Unbiased, UnbiasedNext

-----------------------------------------------------------------------------
(* What the requests know.                                                 *)

\* A request that nothing happens to still knows what it knew.
LEMMA KnowsRemains ==
    ASSUME IInv, History, NEW r \in Request, request'[r] = request[r]
    PROVE  Knows(r)'
<1> DEFINE c == request[r].case
<1>0. Knows(r)
    BY DEF IInv, InHand
<1>1. CASE request[r].step = "idle"
    BY <1>1 DEF Knows
<1>2. CASE request[r].step # "idle"
    <2>1. c \in Case /\ Extends(c) /\ StaysFiled(c)
        BY <1>0, <1>2 DEF Knows, History
    <2>2. request[r].step \in {"lift", "lifting"} => RemediedNext(c)
        BY <1>0, <2>1, RemedyRemains DEF Knows
    <2>3. request[r].step = "decide" /\ request[r].outcome # "withdrawn" =>
              UnbiasedNext(c, request[r].by)
        BY <1>0, <2>1, UnbiasedRemains DEF Knows
    <2> QED BY <1>0, <2>1, <2>2, <2>3 DEF Knows, Extends, StaysFiled, Remedied, Unbiased,
            RemediedNext, UnbiasedNext
<1> QED BY <1>1, <1>2

LEMMA HandStep == IInv /\ History /\ [Next]_vars => InHand'
<1> SUFFICES ASSUME IInv, History, [Next]_vars PROVE InHand'
    OBVIOUS
<1>0. TypeOK /\ InHand /\ OnRecord
    BY DEF IInv
<1>1. ASSUME request' = request PROVE InHand'
    BY <1>1, KnowsRemains DEF InHand
<1>2. ASSUME NEW r \in Request, \A q \in Request \ {r} : request'[q] = request[q], Knows(r)'
      PROVE  InHand'
    BY <1>2, KnowsRemains DEF InHand
<1>3. ASSUME NEW r \in Request,
             Files(r) \/ Closes(r) \/ RollsBack(r) \/ Lifts(r) \/ Dies(r)
      PROVE  InHand'
    <2>1. request' = [request EXCEPT ![r] = Idle]
        BY <1>3 DEF Files, Closes, RollsBack, Lifts, Dies
    <2>2. Knows(r)' /\ \A q \in Request \ {r} : request'[q] = request[q]
        BY <1>0, <2>1 DEF Knows, Idle, TypeOK
    <2> QED BY <1>2, <2>2
<1>4. ASSUME NEW r \in Request, NEW c \in Case, ReadsToFile(r, c) PROVE InHand'
    <2>1. request'[r] = [Idle EXCEPT !.step = "file", !.case = c]
          /\ \A q \in Request \ {r} : request'[q] = request[q]
        BY <1>0, <1>4 DEF ReadsToFile, TypeOK
    <2>2. Len(trail'[c]) > 0
        BY <1>0, <1>4 DEF ReadsToFile, OnRecord
    <2>3. Knows(r)'
        BY <2>1, <2>2 DEF Knows, Idle
    <2> QED BY <1>2, <2>1, <2>3
<1>5. ASSUME NEW r \in Request, NEW c \in Case, NEW o \in Outcome, NEW a \in Moderator,
             ReadsToDecide(r, c, o, a)
      PROVE  InHand'
    <2>1. request'[r] = [step |-> "decide", case |-> c, by |-> a, outcome |-> o]
          /\ \A q \in Request \ {r} : request'[q] = request[q]
        BY <1>0, <1>5 DEF ReadsToDecide, TypeOK
    <2>2. appeal[c].state = "open" /\ appeal' = appeal /\ trail' = trail
        BY <1>5 DEF ReadsToDecide
    <2>3. appeal[c].filed \in 1..Len(trail[c]) /\ Len(trail[c]) \in Nat
        BY <1>0, <2>2 DEF OnRecord, TypeOK
    <2>4. o # "withdrawn" => Unbiased(c, a)
        <3> SUFFICES ASSUME o # "withdrawn", DifferentActor, NEW i \in 1..appeal[c].filed
                     PROVE  trail[c][i].actor # a
            BY DEF Unbiased
        <3>1. a \notin Actors(c)
            BY <1>5 DEF ReadsToDecide, Independent
        <3>2. i \in DOMAIN trail[c]
            BY <1>0, <2>3 DEF TypeOK
        <3> QED BY <3>1, <3>2, ActorAssumption DEF Actors
    <2>5. o # "withdrawn" => UnbiasedNext(c, a)
        BY <2>2, <2>4 DEF Unbiased, UnbiasedNext
    <2>6. Knows(r)'
        BY <2>1, <2>2, <2>5 DEF Knows, Unbiased, UnbiasedNext
    <2> QED BY <1>2, <2>1, <2>6
<1>6. ASSUME NEW r \in Request, Overturns(r) PROVE InHand'
    <2> DEFINE c == request[r].case
    <2>1. c \in Case /\ request[r].by \in Moderator /\ request[r].outcome = "overturned"
          /\ appeal[c].state # "none"
        BY <1>0, <1>6 DEF Overturns, InHand, Knows
    <2>2. Recorded(c, ReversalRow(r))
        BY <1>6 DEF Overturns, ReversalRow
    <2>3. RemediedNext(c)
        <3>1. ReversalRow(r) \in VerdictRow
            BY <1>0, <2>1, ReversalRowType
        <3>2. /\ Extends(c)
              /\ Len(trail'[c]) = Len(trail[c]) + 1
              /\ trail'[c][Len(trail'[c])] = ReversalRow(r)
            BY <1>0, <2>1, <2>2, <3>1, RecordedExtends
        <3>3. Len(trail'[c]) \in 1..Len(trail'[c])
            BY <3>2 DEF Extends
        <3>4. trail'[c][Len(trail'[c])].source = "appeal"
            BY <3>2 DEF ReversalRow
        <3> QED BY <3>3, <3>4 DEF RemediedNext
    <2>4. appeal'[c].state # "none" /\ appeal'[c].contests = appeal[c].contests
        BY <2>1 DEF History, StaysFiled
    <2>5. appeal[c].contests \in Case \cup {None}
        BY <1>0, <2>1 DEF TypeOK, AppealRow
    <2>6. \A q \in Request \ {r} : request'[q] = request[q]
        BY <1>0, <1>6 DEF Overturns, TypeOK
    <2>7. Knows(r)'
        <3>1. CASE appeal[c].contests = None
            <4>1. request'[r] = Idle
                BY <1>0, <1>6, <3>1 DEF Overturns, TypeOK
            <4> QED BY <4>1 DEF Knows, Idle
        <3>2. CASE appeal[c].contests # None
            <4>1. request'[r] = [request[r] EXCEPT !.step = "lift"]
                BY <1>0, <1>6, <3>2 DEF Overturns, TypeOK
            <4>2. request'[r].step = "lift" /\ request'[r].case = c /\ request'[r].by = request[r].by
                BY <1>0, <4>1 DEF TypeOK, RequestRecord
            <4> QED BY <2>1, <2>3, <2>4, <2>5, <3>2, <4>2 DEF Knows, Remedied, RemediedNext
        <3> QED BY <3>1, <3>2
    <2> QED BY <1>2, <2>6, <2>7
<1>7. ASSUME NEW r \in Request, ReadsSanction(r) PROVE InHand'
    <2>1. \A q \in Request \ {r} : request'[q] = request[q]
        BY <1>0, <1>7 DEF ReadsSanction, TypeOK
    <2>2. request'[r] = Idle \/ request'[r] = [request[r] EXCEPT !.step = "lifting"]
        BY <1>0, <1>7 DEF ReadsSanction, TypeOK
    <2>3. CASE request'[r] = Idle
        BY <1>2, <2>1, <2>3 DEF Knows, Idle
    <2>4. CASE request'[r] = [request[r] EXCEPT !.step = "lifting"]
        <3>1. request'[r].step = "lifting" /\ request'[r].case = request[r].case
              /\ request'[r].by = request[r].by
            BY <1>0, <2>4 DEF TypeOK, RequestRecord
        <3>2. Knows(r) /\ request[r].step = "lift" /\ trail' = trail /\ appeal' = appeal
            BY <1>0, <1>7 DEF ReadsSanction, InHand
        <3>3. Knows(r)'
            BY <3>1, <3>2 DEF Knows, Remedied
        <3> QED BY <1>2, <2>1, <3>3
    <2> QED BY <2>2, <2>3, <2>4
<1>8. ASSUME NEW c \in Case,
             \/ Opens(c) \/ Abstains(c) \/ Reopens(c) \/ SanctionEnds(c)
             \/ \E d \in CaseDecisions, a \in Moderator \cup {None} : Decides(c, d, a)
      PROVE  InHand'
    BY <1>1, <1>8 DEF Opens, Abstains, Reopens, SanctionEnds, Decides
<1>9. CASE UNCHANGED vars
    BY <1>1, <1>9 DEF vars
<1> QED BY <1>3, <1>4, <1>5, <1>6, <1>7, <1>8, <1>9
        DEF Next, EnvironmentStep, FileStep, DecideStep, LiftStep

-----------------------------------------------------------------------------
(* What is on record.                                                      *)

\* The row of an appeal is written by its filing and its decision alone.
LEMMA AppealWriters ==
    ASSUME TypeOK, InHand, [Next]_vars, NEW c \in Case, appeal'[c] # appeal[c]
    PROVE  \E r \in Request :
              /\ request[r].case = c
              /\ \/ Files(r) /\ appeal[c].state = "none" /\ appeal'[c].state = "open"
                 \/ Closes(r) \/ Overturns(r)
<1>1. appeal' # appeal
    OBVIOUS
<1>2. ASSUME NEW r \in Request, Closes(r) \/ Overturns(r) PROVE request[r].case = c
    BY <1>2 DEF Closes, Overturns, Decided, TypeOK
<1>3. ASSUME NEW r \in Request, Files(r)
      PROVE  request[r].case = c /\ appeal[c].state = "none" /\ appeal'[c].state = "open"
    <2>1. request[r].case = c /\ appeal[c].state = "none"
        BY <1>1, <1>3 DEF Files, TypeOK
    <2>2. PICK x \in {None} \cup {d \in Case : sanction[d] # "none"} :
             appeal'[c] = [state |-> "open", by |-> None, contests |-> x, filed |-> Len(trail[c])]
        BY <1>3, <2>1 DEF Files, TypeOK
    <2> QED BY <2>1, <2>2
<1>4. ASSUME NEW d \in Case,
             \/ Opens(d) \/ Abstains(d) \/ Reopens(d) \/ SanctionEnds(d)
             \/ \E e \in CaseDecisions, a \in Moderator \cup {None} : Decides(d, e, a)
      PROVE  FALSE
    BY <1>1, <1>4 DEF Opens, Abstains, Reopens, SanctionEnds, Decides
<1>5. ASSUME NEW r \in Request,
             \/ RollsBack(r) \/ ReadsSanction(r) \/ Lifts(r) \/ Dies(r)
             \/ \E d \in Case : ReadsToFile(r, d)
             \/ \E d \in Case, o \in Outcome, a \in Moderator : ReadsToDecide(r, d, o, a)
      PROVE  FALSE
    BY <1>1, <1>5 DEF RollsBack, ReadsSanction, Lifts, Dies, ReadsToFile, ReadsToDecide
<1> QED BY <1>1, <1>2, <1>3, <1>4, <1>5
        DEF Next, EnvironmentStep, FileStep, DecideStep, LiftStep, vars

\* The row an insert or a decision leaves is filed against verdicts there are.
LEMMA RecordStep == IInv /\ History /\ [Next]_vars => OnRecord'
<1> SUFFICES ASSUME IInv, History, [Next]_vars, NEW c \in Case
             PROVE  /\ status'[c] = "decided" => Len(trail'[c]) > 0
                    /\ appeal'[c].state # "none" => appeal'[c].filed \in 1..Len(trail'[c])
                    /\ appeal'[c].contests # None =>
                          appeal'[c].state # "none" /\ sanction'[appeal'[c].contests] # "none"
    BY DEF OnRecord
<1>0. TypeOK /\ InHand /\ OnRecord
    BY DEF IInv
<1>1. Extends(c) /\ StaysFiled(c) /\ appeal[c] \in AppealRow
    BY <1>0 DEF History, TypeOK
<1>2. status'[c] = "decided" => Len(trail'[c]) > 0
    <2>1. ASSUME NEW d \in Case, NEW row \in VerdictRow, Recorded(d, row),
                 \A e \in Case \ {d} : status'[e] = status[e]
          PROVE  status'[c] = "decided" => Len(trail'[c]) > 0
        <3>1. c = d => Len(trail'[c]) = Len(trail[c]) + 1
            BY <1>0, <2>1, RecordedExtends
        <3> QED BY <1>0, <1>1, <2>1, <3>1 DEF OnRecord, Extends
    <2>2. ASSUME status'[c] \in {status[c], "undecided"}
          PROVE  status'[c] = "decided" => Len(trail'[c]) > 0
        BY <1>0, <1>1, <2>2 DEF OnRecord, Extends
    <2>3. ASSUME NEW r \in Request, Overturns(r)
          PROVE  status'[c] = "decided" => Len(trail'[c]) > 0
        <3> DEFINE d == request[r].case
        <3>1. d \in Case /\ ReversalRow(r) \in VerdictRow
            BY <1>0, <2>3, ReversalRowType DEF Overturns, InHand, Knows
        <3>2. Recorded(d, ReversalRow(r)) /\ \A e \in Case \ {d} : status'[e] = status[e]
            BY <1>0, <2>3 DEF Overturns, ReversalRow, TypeOK
        <3> QED BY <2>1, <3>1, <3>2
    <2>4. ASSUME NEW d \in Case, NEW e \in CaseDecisions, NEW a \in Moderator \cup {None}, Decides(d, e, a)
          PROVE  status'[c] = "decided" => Len(trail'[c]) > 0
        BY <1>0, <2>1, <2>4, DecidesRowType DEF Decides, TypeOK
    <2>5. ASSUME NEW d \in Case, Opens(d) \/ Abstains(d) \/ Reopens(d) \/ SanctionEnds(d)
          PROVE  status'[c] = "decided" => Len(trail'[c]) > 0
        <3>1. status'[c] \in {status[c], "undecided"}
            BY <1>0, <2>5 DEF Opens, Abstains, Reopens, SanctionEnds, TypeOK
        <3> QED BY <2>2, <3>1
    <2>6. ASSUME NEW r \in Request,
                 \/ Files(r) \/ Closes(r) \/ RollsBack(r) \/ ReadsSanction(r) \/ Lifts(r) \/ Dies(r)
                 \/ \E d \in Case : ReadsToFile(r, d)
                 \/ \E d \in Case, o \in Outcome, a \in Moderator : ReadsToDecide(r, d, o, a)
          PROVE  status'[c] = "decided" => Len(trail'[c]) > 0
        <3>1. status' = status
            BY <2>6 DEF Files, Closes, RollsBack, ReadsSanction, Lifts, Dies, ReadsToFile, ReadsToDecide
        <3> QED BY <2>2, <3>1
    <2>7. CASE UNCHANGED vars
        BY <2>2, <2>7 DEF vars
    <2> QED BY <2>3, <2>4, <2>5, <2>6, <2>7
            DEF Next, EnvironmentStep, FileStep, DecideStep, LiftStep
<1>3. /\ appeal'[c].state # "none" => appeal'[c].filed \in 1..Len(trail'[c])
      /\ appeal'[c].contests # None =>
            appeal'[c].state # "none" /\ sanction'[appeal'[c].contests] # "none"
    <2>1. CASE appeal[c].state # "none" \/ appeal'[c] = appeal[c]
        <3>1. /\ appeal'[c].state # "none" <=> appeal[c].state # "none"
              /\ appeal'[c].filed = appeal[c].filed
              /\ appeal'[c].contests = appeal[c].contests
            BY <1>1, <2>1 DEF StaysFiled
        <3>2. appeal[c].contests # None => StaysIssued(appeal[c].contests)
            BY <1>1 DEF History, AppealRow
        <3> QED BY <1>0, <1>1, <3>1, <3>2 DEF OnRecord, Extends, StaysIssued
    <2>2. ASSUME appeal[c].state = "none", appeal'[c] # appeal[c]
          PROVE  \E r \in Request : Files(r) /\ request[r].case = c
        <3>1. ASSUME NEW r \in Request, Closes(r) \/ Overturns(r), request[r].case = c PROVE FALSE
            BY <1>0, <2>2, <3>1 DEF Closes, Overturns, InHand, Knows
        <3> QED BY <1>0, <2>2, <3>1, AppealWriters
    <2>3. ASSUME NEW r \in Request, Files(r), request[r].case = c, appeal[c].state = "none"
          PROVE  /\ appeal'[c].filed = Len(trail'[c]) /\ Len(trail'[c]) > 0
                 /\ appeal'[c].contests # None =>
                       appeal'[c].state # "none" /\ sanction'[appeal'[c].contests] # "none"
        <3>1. PICK x \in {None} \cup {d \in Case : sanction[d] # "none"} :
                 appeal'[c] = [state |-> "open", by |-> None, contests |-> x, filed |-> Len(trail[c])]
            BY <1>0, <2>3 DEF Files, TypeOK
        <3>2. Len(trail[c]) > 0 /\ trail' = trail /\ sanction' = sanction
            BY <1>0, <2>3 DEF Files, InHand, Knows
        <3> QED BY <3>1, <3>2
    <2> QED BY <1>1, <2>1, <2>2, <2>3 DEF Extends
<1> QED BY <1>2, <1>3

-----------------------------------------------------------------------------

LEMMA Inductive ==
    /\ Init => IInv
    /\ IInv /\ [Next]_vars => IInv'
<1>1. Init => IInv
    BY DEF Init, IInv, TypeOK, InHand, Knows, OnRecord, Idle, NoAppeal, RequestRecord, AppealRow,
           Outcome, SanctionStatus
<1>2. IInv /\ [Next]_vars => IInv'
    BY TypeStep, HistoryStep, HandStep, RecordStep DEF IInv
<1> QED BY <1>1, <1>2

\* Every variable of Appeals keeps its type, for any cases and requests.
THEOREM AppealTypes == Spec => []TypeOK
<1>1. IInv => TypeOK
    BY DEF IInv
<1> QED BY <1>1, Inductive, PTL DEF Spec

\* Whoever upholds or overturns an appeal gave none of the verdicts it was filed
\* against, whatever copies the requests that decided it worked from.
THEOREM DecidersAreIndependent == Spec => []DeciderIsIndependent
<1>1. Init => DeciderIsIndependent
    BY DEF Init, DeciderIsIndependent, NoAppeal
<1>2. IInv /\ DeciderIsIndependent /\ [Next]_vars => DeciderIsIndependent'
    <2> SUFFICES ASSUME IInv, DeciderIsIndependent, [Next]_vars, DifferentActor, NEW c \in Case,
                        appeal'[c].state \in {"upheld", "overturned"}
                 PROVE  UnbiasedNext(c, appeal'[c].by)
        BY DEF DeciderIsIndependent, UnbiasedNext
    <2>0. TypeOK /\ InHand /\ OnRecord /\ History
        BY HistoryStep DEF IInv
    <2>1. CASE appeal'[c] = appeal[c]
        <3>1. Unbiased(c, appeal[c].by)
            BY <2>1 DEF DeciderIsIndependent, Unbiased
        <3>2. UnbiasedNext(c, appeal[c].by)
            BY <2>0, <2>1, <3>1, UnbiasedRemains
        <3> QED BY <2>1, <3>2
    <2>2. ASSUME NEW r \in Request, request[r].case = c, Closes(r) \/ Overturns(r)
          PROVE  UnbiasedNext(c, appeal'[c].by)
        <3>1. Knows(r) /\ request[r].step = "decide" /\ Decided(c, r)
            BY <2>0, <2>2 DEF Closes, Overturns, InHand
        <3>2. appeal'[c].state = request[r].outcome /\ appeal'[c].by = request[r].by
            BY <2>0, <3>1 DEF Decided, TypeOK, AppealRow
        <3>3. Unbiased(c, request[r].by) /\ appeal[c].state # "none"
            BY <2>2, <3>1, <3>2 DEF Knows
        <3>4. UnbiasedNext(c, request[r].by)
            BY <2>0, <3>3, UnbiasedRemains
        <3> QED BY <3>2, <3>4
    <2> QED BY <2>0, <2>1, <2>2, AppealWriters
<1>3. IInv /\ [Next]_vars => IInv'
    BY Inductive
<1> QED BY <1>1, <1>2, <1>3, Inductive, PTL DEF Spec

\* An appeal whose row says "overturned" has a reversing verdict by the same
\* moderator on record, given after it was filed; a rolled-back reopening leaves
\* neither.
THEOREM OverturnsAreRemedies == Spec => []OverturnIsARemedy
<1>1. Init => OverturnIsARemedy
    BY DEF Init, OverturnIsARemedy, NoAppeal
<1>2. IInv /\ OverturnIsARemedy /\ [Next]_vars => OverturnIsARemedy'
    <2> DEFINE Shown(c, i) ==
            /\ i \in (appeal'[c].filed + 1)..Len(trail'[c]) /\ i > 1
            /\ trail'[c][i].source = "appeal"
            /\ trail'[c][i].actor = appeal'[c].by
            /\ trail'[c][i].decision = IF trail'[c][i - 1].decision = "rejected" THEN "approved"
                                       ELSE "dismissed"
    <2> SUFFICES ASSUME IInv, OverturnIsARemedy, [Next]_vars, NEW c \in Case,
                        appeal'[c].state = "overturned"
                 PROVE  \E i \in Int : Shown(c, i)
        <3> HIDE DEF Shown
        <3>1. ASSUME NEW c \in Case, NEW i \in Int, Shown(c, i)
              PROVE  i \in (appeal'[c].filed + 1)..Len(trail'[c]) /\ i > 1 /\ Reverses(c, i)'
            BY <3>1 DEF Shown, Reverses
        <3> QED BY <3>1 DEF OverturnIsARemedy
    <2>0. TypeOK /\ InHand /\ OnRecord /\ History /\ Extends(c)
        BY HistoryStep DEF IInv, History
    <2>1. CASE appeal'[c] = appeal[c]
        <3>1. PICK i \in (appeal[c].filed + 1)..Len(trail[c]) : i > 1 /\ Reverses(c, i)
            BY <2>1 DEF OverturnIsARemedy
        <3>2. appeal[c].filed \in Nat
            BY <2>0 DEF TypeOK, AppealRow
        <3>3. i \in 1..Len(trail[c]) /\ i - 1 \in 1..Len(trail[c])
            BY <2>0, <3>1, <3>2 DEF Extends
        <3>4. trail'[c][i] = trail[c][i] /\ trail'[c][i - 1] = trail[c][i - 1]
            BY <2>0, <3>3 DEF Extends
        <3>5. i \in (appeal'[c].filed + 1)..Len(trail'[c])
            BY <2>0, <2>1, <3>1, <3>2, <3>3 DEF Extends
        <3>6. Shown(c, i)
            BY <2>1, <3>1, <3>4, <3>5 DEF Reverses
        <3> QED BY <3>3, <3>6
    <2>2. ASSUME NEW r \in Request, request[r].case = c, Overturns(r)
          PROVE  Shown(c, Len(trail'[c]))
        <3>1. ReversalRow(r) \in VerdictRow /\ Recorded(c, ReversalRow(r)) /\ Decided(c, r)
            <4>1. request[r].by \in Moderator
                BY <2>0, <2>2 DEF Overturns, InHand, Knows
            <4> QED BY <2>0, <2>2, <4>1, ReversalRowType DEF Overturns, ReversalRow
        <3>2. /\ Len(trail'[c]) = Len(trail[c]) + 1
              /\ trail'[c][Len(trail'[c])] = ReversalRow(r)
            BY <2>0, <3>1, RecordedExtends
        <3>3. appeal[c].state # "none" /\ appeal'[c].filed = appeal[c].filed
            BY <2>0, <2>2 DEF Overturns, InHand, Knows, History, StaysFiled
        <3>4. appeal[c].filed \in 1..Len(trail[c]) /\ Len(trail[c]) \in Nat
            BY <2>0, <3>3 DEF OnRecord, Extends
        <3>5. appeal'[c].by = request[r].by
            BY <2>0, <3>1 DEF Decided, TypeOK, AppealRow
        <3>6. trail'[c][Len(trail[c])] = trail[c][Len(trail[c])]
            BY <2>0, <3>4 DEF Extends
        <3>7. LastDecision(c) = trail[c][Len(trail[c])].decision
            BY <2>0, <3>4 DEF LastDecision, TypeOK
        <3>8. ReversalRow(r).decision = IF trail'[c][Len(trail'[c]) - 1].decision = "rejected"
                                        THEN "approved" ELSE "dismissed"
            BY <2>2, <3>2, <3>4, <3>6, <3>7 DEF ReversalRow, Reverse
        <3>9. ReversalRow(r).source = "appeal" /\ ReversalRow(r).actor = request[r].by
            BY DEF ReversalRow
        <3>10. Len(trail'[c]) \in (appeal'[c].filed + 1)..Len(trail'[c]) /\ Len(trail'[c]) > 1
            BY <3>2, <3>3, <3>4
        <3> QED BY <3>2, <3>5, <3>8, <3>9, <3>10
    <2>3. ASSUME NEW r \in Request, request[r].case = c, Closes(r) PROVE FALSE
        BY <2>0, <2>3 DEF Closes, Decided, TypeOK, AppealRow
    <2>4. Len(trail'[c]) \in Int
        BY <2>0 DEF Extends
    <2> HIDE DEF Shown
    <2> QED BY <2>0, <2>1, <2>2, <2>3, <2>4, AppealWriters
<1> QED BY <1>1, <1>2, Inductive, PTL DEF Spec

\* A request on its way to lift a sanction stops by looking, lifting or dying.
LEMMA LiftEnds ==
    ASSUME TypeOK, [Next]_vars, NEW r \in Request, request[r].step \in {"lift", "lifting"},
           request'[r] # request[r]
    PROVE  ReadsSanction(r) \/ Lifts(r) \/ Dies(r)
<1>1. request' # request
    OBVIOUS
<1>2. ASSUME NEW q \in Request,
             \/ Files(q) \/ Closes(q) \/ Overturns(q) \/ RollsBack(q)
             \/ \E d \in Case : ReadsToFile(q, d)
             \/ \E d \in Case, o \in Outcome, a \in Moderator : ReadsToDecide(q, d, o, a)
      PROVE  FALSE
    <2>1. CASE Files(q) \/ Closes(q) \/ Overturns(q) \/ RollsBack(q)
        <3>1. q # r
            BY <2>1 DEF Files, Closes, Overturns, RollsBack
        <3> QED BY <2>1, <3>1 DEF Files, Closes, Overturns, RollsBack, TypeOK
    <2>2. ASSUME NEW d \in Case, ReadsToFile(q, d) PROVE FALSE
        BY <2>2 DEF ReadsToFile, Idle, TypeOK
    <2>3. ASSUME NEW d \in Case, NEW o \in Outcome, NEW a \in Moderator, ReadsToDecide(q, d, o, a)
          PROVE FALSE
        BY <2>3 DEF ReadsToDecide, Idle, TypeOK
    <2> QED BY <1>2, <2>1, <2>2, <2>3
<1>3. ASSUME NEW q \in Request, ReadsSanction(q) \/ Lifts(q) \/ Dies(q) PROVE q = r
    BY <1>3 DEF ReadsSanction, Lifts, Dies, TypeOK
<1>4. ASSUME NEW d \in Case,
             \/ Opens(d) \/ Abstains(d) \/ Reopens(d) \/ SanctionEnds(d)
             \/ \E e \in CaseDecisions, a \in Moderator \cup {None} : Decides(d, e, a)
      PROVE  FALSE
    BY <1>1, <1>4 DEF Opens, Abstains, Reopens, SanctionEnds, Decides
<1> QED BY <1>1, <1>2, <1>3, <1>4
        DEF Next, EnvironmentStep, FileStep, DecideStep, LiftStep, vars

\* After an overturn the contested sanction is in force only while a request is on
\* its way to lift it, or after that request died.
THEOREM LiftsAreOwed == Spec => []LiftIsOwed
<1>1. Init => LiftIsOwed
    BY DEF Init, LiftIsOwed, NoAppeal
<1>2. IInv /\ LiftIsOwed /\ [Next]_vars => LiftIsOwed'
    <2> SUFFICES ASSUME IInv, LiftIsOwed, [Next]_vars, NEW c \in Case,
                        appeal'[c].state = "overturned", appeal'[c].contests # None,
                        sanction'[appeal'[c].contests] = "active"
                 PROVE  \/ c \in orphaned'
                        \/ \E r \in Request : request'[r].case = c /\ request'[r].step \in {"lift", "lifting"}
        BY DEF LiftIsOwed
    <2>0. TypeOK /\ InHand /\ OnRecord /\ History
        BY HistoryStep DEF IInv
    <2>1. CASE appeal'[c] = appeal[c]
        <3> DEFINE s == appeal[c].contests
        <3>1. s \in Case /\ sanction[s] # "none" /\ sanction'[s] = "active"
            BY <2>0, <2>1 DEF OnRecord, TypeOK, AppealRow
        <3>2. sanction[s] = "active"
            BY <2>0, <3>1 DEF History, StaysIssued
        <3>3. orphaned \subseteq orphaned'
            <4>1. ASSUME NEW r \in Request,
                         \/ Files(r) \/ Closes(r) \/ Overturns(r) \/ RollsBack(r) \/ ReadsSanction(r)
                         \/ Lifts(r) \/ Dies(r) \/ \E d \in Case : ReadsToFile(r, d)
                         \/ \E d \in Case, o \in Outcome, a \in Moderator : ReadsToDecide(r, d, o, a)
                  PROVE  orphaned \subseteq orphaned'
                BY <4>1 DEF Files, Closes, Overturns, RollsBack, ReadsSanction, Lifts, Dies,
                            ReadsToFile, ReadsToDecide
            <4>2. ASSUME NEW d \in Case,
                         \/ Opens(d) \/ Abstains(d) \/ Reopens(d) \/ SanctionEnds(d)
                         \/ \E e \in CaseDecisions, a \in Moderator \cup {None} : Decides(d, e, a)
                  PROVE  orphaned \subseteq orphaned'
                BY <4>2 DEF Opens, Abstains, Reopens, SanctionEnds, Decides
            <4> QED BY <4>1, <4>2 DEF Next, EnvironmentStep, FileStep, DecideStep, LiftStep, vars
        <3>4. CASE c \in orphaned
            BY <3>3, <3>4
        <3>5. ASSUME NEW r \in Request, request[r].case = c, request[r].step \in {"lift", "lifting"}
              PROVE  \/ c \in orphaned'
                     \/ request'[r].case = c /\ request'[r].step \in {"lift", "lifting"}
            <4>1. CASE request'[r] = request[r]
                BY <3>5, <4>1
            <4>2. CASE Dies(r)
                BY <3>5, <4>2 DEF Dies
            <4>3. CASE Lifts(r)
                BY <2>0, <3>1, <3>5, <4>3 DEF Lifts, TypeOK
            <4>4. CASE ReadsSanction(r)
                <5>1. request'[r] = [request[r] EXCEPT !.step = "lifting"]
                    BY <2>0, <3>2, <3>5, <4>4 DEF ReadsSanction, TypeOK
                <5> QED BY <2>0, <3>5, <5>1 DEF TypeOK, RequestRecord
            <4> QED BY <2>0, <3>5, <4>1, <4>2, <4>3, <4>4, LiftEnds
        <3> QED BY <2>1, <3>1, <3>2, <3>4, <3>5 DEF LiftIsOwed
    <2>2. ASSUME NEW r \in Request, request[r].case = c, Overturns(r)
          PROVE  request'[r].case = c /\ request'[r].step \in {"lift", "lifting"}
        <3>1. appeal[c].state # "none" /\ appeal'[c].contests = appeal[c].contests
            BY <2>0, <2>2 DEF Overturns, InHand, Knows, History, StaysFiled
        <3>2. request'[r] = [request[r] EXCEPT !.step = "lift"]
            BY <2>0, <2>2, <3>1 DEF Overturns, TypeOK
        <3> QED BY <2>0, <2>2, <3>2 DEF TypeOK, RequestRecord
    <2>3. ASSUME NEW r \in Request, request[r].case = c, Closes(r) PROVE FALSE
        BY <2>0, <2>3 DEF Closes, Decided, TypeOK, AppealRow
    <2> QED BY <2>0, <2>1, <2>2, <2>3, AppealWriters
<1> QED BY <1>1, <1>2, Inductive, PTL DEF Spec

\* A sanction is lifted as overturned only after a verdict on an appeal that
\* contests it.
THEOREM LiftsAreJustified == Spec => []LiftIsJustified
<1>1. Init => LiftIsJustified
    BY DEF Init, LiftIsJustified
<1>2. IInv /\ LiftIsJustified /\ [Next]_vars => LiftIsJustified'
    <2> SUFFICES ASSUME IInv, LiftIsJustified, [Next]_vars PROVE LiftIsJustified'
        OBVIOUS
    <2>t. TypeOK'
        BY TypeStep
    <2> SUFFICES ASSUME NEW s \in Case, sanction'[s] = "overturned"
                 PROVE  \E c \in Case : appeal'[c].contests = s /\ RemediedNext(c)
        <3>1. \A c \in Case : DOMAIN trail'[c] = 1..Len(trail'[c])
            BY <2>t DEF TypeOK
        <3> QED BY <3>1 DEF LiftIsJustified, RemediedNext
    <2>0. TypeOK /\ InHand /\ OnRecord /\ History
        BY HistoryStep DEF IInv
    <2>1. CASE sanction[s] = "overturned"
        <3>1. PICK c \in Case : /\ appeal[c].contests = s
                                /\ \E i \in DOMAIN trail[c] : trail[c][i].source = "appeal"
            BY <2>1 DEF LiftIsJustified
        <3>2. Remedied(c)
            BY <2>0, <3>1 DEF Remedied, TypeOK
        <3>3. appeal[c].state # "none"
            BY <2>0, <3>1, ActorAssumption DEF OnRecord
        <3>4. appeal'[c].contests = s
            BY <2>0, <3>1, <3>3 DEF History, StaysFiled
        <3> QED BY <2>0, <3>2, <3>4, RemedyRemains
    <2>2. ASSUME NEW r \in Request, Lifts(r), sanction[s] # "overturned"
          PROVE  \E c \in Case : appeal'[c].contests = s /\ RemediedNext(c)
        <3> DEFINE c == request[r].case
        <3>1. c \in Case /\ appeal[c].contests \in Case /\ Remedied(c)
            BY <2>0, <2>2 DEF Lifts, InHand, Knows
        <3>2. appeal[c].contests = s /\ appeal' = appeal
            BY <2>0, <2>2, <3>1 DEF Lifts, TypeOK
        <3> QED BY <2>0, <3>1, <3>2, RemedyRemains
    <2>3. ASSUME NEW c \in Case,
                 \/ SanctionEnds(c)
                 \/ \E d \in CaseDecisions, a \in Moderator \cup {None} : Decides(c, d, a)
          PROVE sanction[s] = "overturned"
        BY <2>0, <2>3 DEF SanctionEnds, Decides, TypeOK
    <2>4. ASSUME NEW c \in Case, Opens(c) \/ Abstains(c) \/ Reopens(c) PROVE sanction' = sanction
        BY <2>4 DEF Opens, Abstains, Reopens
    <2>5. ASSUME NEW r \in Request,
                 \/ Files(r) \/ Closes(r) \/ Overturns(r) \/ RollsBack(r) \/ ReadsSanction(r) \/ Dies(r)
                 \/ \E c \in Case : ReadsToFile(r, c)
                 \/ \E c \in Case, o \in Outcome, a \in Moderator : ReadsToDecide(r, c, o, a)
          PROVE sanction' = sanction
        BY <2>5 DEF Files, Closes, Overturns, RollsBack, ReadsSanction, Dies, ReadsToFile, ReadsToDecide
    <2> QED BY <2>1, <2>2, <2>3, <2>4, <2>5
            DEF Next, EnvironmentStep, FileStep, DecideStep, LiftStep, vars
<1> QED BY <1>1, <1>2, Inductive, PTL DEF Spec

-----------------------------------------------------------------------------
(* Appeals implements CaseDecision.                                        *)

\* The verdict the refinement mapping reads off a trail.
LastOf(c) == [decision |-> LastDecision(c), source |-> trail[c][Len(trail[c])].source]

\* Recording a row makes it the last verdict of its case and of no other.
LEMMA RecordedIsLast ==
    ASSUME TypeOK, NEW c \in Case, NEW row \in VerdictRow, Recorded(c, row)
    PROVE  LastVerdict' = [LastVerdict EXCEPT ![c] = [decision |-> row.decision, source |-> row.source]]
<1>1. /\ \A d \in Case \ {c} : trail'[d] = trail[d]
      /\ Len(trail'[c]) = Len(trail[c]) + 1 /\ Len(trail[c]) \in Nat
      /\ trail'[c][Len(trail'[c])] = row
    BY RecordedExtends DEF TypeOK
<1>2. trail'[c] # <<>>
    BY <1>1
<1>3. LastVerdict'[c] = [decision |-> row.decision, source |-> row.source]
    BY <1>1, <1>2 DEF LastVerdict, LastDecision
<1>4. ASSUME NEW d \in Case \ {c} PROVE LastVerdict'[d] = LastVerdict[d]
    BY <1>1, <1>4 DEF LastVerdict, LastDecision
<1>5. LastVerdict = [d \in Case |-> LastVerdict[d]] /\ LastVerdict' = [d \in Case |-> LastVerdict'[d]]
    BY DEF LastVerdict
<1> QED BY <1>3, <1>4, <1>5

\* Every committed step of Appeals is a step of CaseDecision or changes nothing
\* it shows: the reopening inside an overturn is never seen, and a rollback, a
\* lift or a death decides nothing.
THEOREM AppealsImplementDecision == Spec => ImplementsDecision
<1>1. Init => Decision!Init
    <2> SUFFICES ASSUME Init PROVE Decision!Init
        OBVIOUS
    <2>1. LastVerdict = [c \in Case |-> NoVerdict]
        BY DEF Init, LastVerdict
    <2> QED BY <2>1 DEF Init, Decision!Init, NoVerdict, Decision!NoVerdict
<1>v. Decision!Verdict = Verdict /\ Decision!TERMINAL_DECISIONS = TERMINAL_DECISIONS
    BY DEF Decision!Verdict, Verdict, Decision!TERMINAL_DECISIONS, TERMINAL_DECISIONS,
           Decision!VerdictDecision, VerdictDecision, Decision!VerdictSource, VerdictSource
<1>2. IInv /\ [Next]_vars => [Decision!Next]_<<status, LastVerdict>>
    <2> SUFFICES ASSUME IInv, [Next]_vars PROVE [Decision!Next]_<<status, LastVerdict>>
        OBVIOUS
    <2>0. TypeOK /\ InHand
        BY DEF IInv
    <2>1. ASSUME trail' = trail PROVE LastVerdict' = LastVerdict
        BY <2>1 DEF LastVerdict, LastDecision
    <2>2. ASSUME NEW c \in Case, Opens(c) PROVE Decision!File(c)
        BY <2>1, <2>2 DEF Opens, Decision!File
    <2>3. ASSUME NEW c \in Case, Reopens(c) PROVE Decision!Reopen(c)
        BY <2>1, <2>3 DEF Reopens, Decision!Reopen
    <2>4. ASSUME NEW c \in Case, NEW d \in CaseDecisions, NEW a \in Moderator \cup {None}, Decides(c, d, a)
          PROVE  \E v \in Verdict : Decision!Decide(c, v)
        <3> DEFINE row == [decision |-> d, source |-> IF a = None THEN "llm" ELSE "human", actor |-> a]
                   v == [decision |-> row.decision, source |-> row.source]
        <3>1. d \in TERMINAL_DECISIONS /\ row \in VerdictRow /\ Recorded(c, row)
            BY <2>4, DecidesRowType DEF Decides
        <3>2. LastVerdict' = [LastVerdict EXCEPT ![c] = v]
            BY <2>0, <3>1, RecordedIsLast
        <3>3. v \in Verdict
            BY <3>1 DEF VerdictRow, Verdict
        <3>4. v.decision \in TERMINAL_DECISIONS /\ status' = [status EXCEPT ![c] = "decided"]
            BY <2>4, <3>1 DEF Decides
        <3> HIDE DEF v
        <3> QED BY <1>v, <3>2, <3>3, <3>4 DEF Decision!Decide
    <2>5. ASSUME NEW c \in Case, Abstains(c) PROVE \E v \in Verdict : Decision!Abstain(c, v)
        <3> DEFINE row == [decision |-> "needs_review", source |-> "llm", actor |-> None]
                   v == [decision |-> row.decision, source |-> row.source]
        <3>1. row \in VerdictRow /\ Recorded(c, row)
            BY <2>5, AbstainsRowType DEF Abstains
        <3>2. LastVerdict' = [LastVerdict EXCEPT ![c] = v]
            BY <2>0, <3>1, RecordedIsLast
        <3>3. v \in Verdict /\ v.decision \notin TERMINAL_DECISIONS
            BY DEF Verdict, VerdictDecision, VerdictSource, TERMINAL_DECISIONS
        <3>4. \E s \in {"undecided", status[c]} \ {"none"} : status' = [status EXCEPT ![c] = s]
            BY <2>0, <2>5 DEF Abstains, TypeOK
        <3> HIDE DEF v
        <3> QED BY <1>v, <3>2, <3>3, <3>4 DEF Decision!Abstain
    <2>6. ASSUME NEW r \in Request, Overturns(r)
          PROVE  \E c \in Case, v \in Verdict : Decision!Decide(c, v)
        <3> DEFINE c == request[r].case
                   row == ReversalRow(r)
                   v == [decision |-> row.decision, source |-> row.source]
        <3>1. c \in Case /\ row \in VerdictRow /\ Recorded(c, row)
            <4>1. c \in Case /\ request[r].by \in Moderator
                BY <2>0, <2>6 DEF Overturns, InHand, Knows
            <4> QED BY <2>0, <2>6, <4>1, ReversalRowType DEF Overturns, ReversalRow
        <3>2. LastVerdict' = [LastVerdict EXCEPT ![c] = v]
            <4> HIDE DEF row
            <4> QED BY <2>0, <3>1, RecordedIsLast
        <3>3. v \in Verdict
            BY <3>1 DEF VerdictRow, Verdict
        <3>4. v.decision \in TERMINAL_DECISIONS
            BY DEF ReversalRow, Reverse, TERMINAL_DECISIONS
        <3>5. status' = [status EXCEPT ![c] = "decided"]
            BY <2>6 DEF Overturns
        <3> HIDE DEF v
        <3> QED BY <1>v, <3>1, <3>2, <3>3, <3>4, <3>5 DEF Decision!Decide
    <2>7. ASSUME status' = status, trail' = trail
          PROVE  UNCHANGED <<status, LastVerdict>>
        BY <2>1, <2>7
    <2>8. ASSUME NEW c \in Case, SanctionEnds(c) PROVE UNCHANGED <<status, LastVerdict>>
        BY <2>7, <2>8 DEF SanctionEnds
    <2>9. ASSUME NEW r \in Request,
                 \/ Files(r) \/ Closes(r) \/ RollsBack(r) \/ ReadsSanction(r) \/ Lifts(r) \/ Dies(r)
                 \/ \E c \in Case : ReadsToFile(r, c)
                 \/ \E c \in Case, o \in Outcome, a \in Moderator : ReadsToDecide(r, c, o, a)
          PROVE  UNCHANGED <<status, LastVerdict>>
        BY <2>7, <2>9 DEF Files, Closes, RollsBack, ReadsSanction, Lifts, Dies, ReadsToFile, ReadsToDecide
    <2>10. CASE UNCHANGED vars
        BY <2>7, <2>10 DEF vars
    <2> QED BY <1>v, <2>2, <2>3, <2>4, <2>5, <2>6, <2>8, <2>9, <2>10
            DEF Next, EnvironmentStep, FileStep, DecideStep, LiftStep, Decision!Next
<1> QED BY <1>1, <1>2, Inductive, PTL DEF Spec, ImplementsDecision, Decision!Spec

-----------------------------------------------------------------------------
(* Appeals implements SanctionRecord.                                      *)

\* How one sanction may be written: issued where there was none, ended where it
\* was in force, or left as everybody sees it.
SanctionWritten(s) ==
    /\ \A t \in Case \ {s} : sanction'[t] = sanction[t]
    /\ \/ sanction[s] = "none" /\ sanction'[s] = "active"
       \/ sanction[s] = "active" /\ sanction'[s] \in {"ended", "overturned"}
       \/ sanction[s] \in {"ended", "overturned"} /\ sanction'[s] \in {"ended", "overturned"}

\* No step writes more than one sanction, or one in another way.
LEMMA WritesOneSanction ==
    ASSUME IInv, [Next]_vars
    PROVE  sanction' = sanction \/ \E s \in Case : SanctionWritten(s)
<1> DEFINE Goal == sanction' = sanction \/ \E s \in Case : SanctionWritten(s)
<1>0. TypeOK /\ InHand /\ OnRecord
    BY DEF IInv
<1>1. ASSUME NEW c \in Case, NEW d \in CaseDecisions, NEW a \in Moderator \cup {None}, Decides(c, d, a)
      PROVE  Goal
    BY <1>0, <1>1 DEF Decides, SanctionWritten, TypeOK
<1>2. ASSUME NEW c \in Case, SanctionEnds(c) PROVE Goal
    BY <1>0, <1>2 DEF SanctionEnds, SanctionWritten, TypeOK
<1>3. ASSUME NEW r \in Request, Lifts(r) PROVE Goal
    <2> DEFINE c == request[r].case
               s == appeal[c].contests
    <2>1. c \in Case /\ s \in Case
        BY <1>0, <1>3 DEF Lifts, InHand, Knows
    <2>2. sanction[s] # "none" /\ s # None
        BY <1>0, <2>1, ActorAssumption DEF OnRecord
    <2>3. sanction' = [sanction EXCEPT ![s] = "overturned"]
        BY <1>3 DEF Lifts
    <2>4. sanction[s] \in SanctionStatus /\ sanction'[s] = "overturned"
          /\ \A t \in Case \ {s} : sanction'[t] = sanction[t]
        BY <1>0, <2>1, <2>3 DEF TypeOK
    <2> HIDE DEF s
    <2> QED BY <2>1, <2>2, <2>4 DEF SanctionWritten, SanctionStatus
<1>4. ASSUME NEW c \in Case, Opens(c) \/ Abstains(c) \/ Reopens(c) PROVE sanction' = sanction
    BY <1>4 DEF Opens, Abstains, Reopens
<1>5. ASSUME NEW r \in Request,
             \/ Files(r) \/ Closes(r) \/ Overturns(r) \/ RollsBack(r) \/ ReadsSanction(r) \/ Dies(r)
             \/ \E c \in Case : ReadsToFile(r, c)
             \/ \E c \in Case, o \in Outcome, a \in Moderator : ReadsToDecide(r, c, o, a)
      PROVE sanction' = sanction
    BY <1>5 DEF Files, Closes, Overturns, RollsBack, ReadsSanction, Dies, ReadsToFile, ReadsToDecide
<1> QED BY <1>1, <1>2, <1>3, <1>4, <1>5
        DEF Next, EnvironmentStep, FileStep, DecideStep, LiftStep, vars

\* However often a case is decided, appealed and decided again, and whatever copy
\* services.resolve_appeal and lift_sanction act on, the sanction of a verdict is
\* issued once and ends once: an overturn ends what was in force or nothing.
THEOREM AppealsKeepRecord == Spec => ImplementsRecord
<1>1. Init => Record!Init
    BY DEF Init, Record!Init, Status, Subject
<1>2. IInv /\ [Next]_vars => [Record!Next]_<<Status, Subject>>
    <2> SUFFICES ASSUME IInv, [Next]_vars PROVE [Record!Next]_<<Status, Subject>>
        OBVIOUS
    <2>1. CASE sanction' = sanction
        BY <2>1 DEF Status, Subject
    <2>2. ASSUME NEW s \in Case, SanctionWritten(s) PROVE [Record!Next]_<<Status, Subject>>
        <3>0. sanction \in [Case -> SanctionStatus]
            BY DEF IInv, TypeOK
        <3>1. CASE sanction[s] = "none" /\ sanction'[s] = "active"
            <4>1. /\ Status[s] = "none"
                  /\ Status' = [Status EXCEPT ![s] = "in_force"]
                  /\ Subject' = [Subject EXCEPT ![s] = Appellant]
                BY <2>2, <3>1 DEF SanctionWritten, Status, Subject
            <4> QED BY <4>1 DEF Record!Next, Record!Issue
        <3>2. CASE sanction[s] = "active" /\ sanction'[s] \in {"ended", "overturned"}
            <4>1. /\ Status[s] = "in_force"
                  /\ Status' = [Status EXCEPT ![s] = "over"]
                  /\ Subject' = Subject
                BY <2>2, <3>2 DEF SanctionWritten, Status, Subject
            <4> QED BY <4>1 DEF Record!Next, Record!End
        <3>3. CASE sanction[s] \in {"ended", "overturned"} /\ sanction'[s] \in {"ended", "overturned"}
            <4>1. UNCHANGED <<Status, Subject>>
                BY <2>2, <3>3 DEF SanctionWritten, Status, Subject
            <4> QED BY <4>1
        <3> QED BY <2>2, <3>1, <3>2, <3>3 DEF SanctionWritten
    <2> QED BY <2>1, <2>2, WritesOneSanction
<1>3. Spec => Record!Init /\ [][Record!Next]_<<Status, Subject>>
    BY <1>1, <1>2, Inductive, PTL DEF Spec
<1> QED BY <1>3 DEF ImplementsRecord, Record!Spec

=============================================================================
