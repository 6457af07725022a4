--------------------------- MODULE SanctionsProofs --------------------------
(***************************************************************************)
(* The safety of Sanctions for any sanctions, users, kinds, ladders and     *)
(* number of requests.  What an action may do to a row depends on which     *)
(* process holds the row: a row of an open transaction is pending and has   *)
(* one writer, so a commit and a rollback never touch what was issued.      *)
(* What was issued stays issued, though the purge may take it off the       *)
(* record: so a step taken from an old count is borne out by what was       *)
(* issued, and falls short of it by no more than was destroyed.  And a row  *)
(* that once stopped keeping a user out never starts again, which is what a *)
(* check made before a key is dropped counts on.                            *)
(***************************************************************************)
EXTENDS Sanctions, FiniteSetTheorems, TLAPS

\* A transaction that has not committed holds a pending row, and alone.
OpenTransactions ==
    /\ \A p \in Process : work[p].op = "verdict" =>
          work[p].row \in Sanction /\ row[work[p].row].state = "pending"
    /\ \A p, q \in Process :
          work[p].op = "verdict" /\ work[q].op = "verdict" /\ p # q => work[p].row # work[q].row

\* Whoever is about to drop a key saw nothing on record that keeps its user out,
\* and nothing it saw does so now.
SeenIsFree ==
    \A p \in Process : work[p].op = "drop" =>
        /\ work[p].seen \subseteq Issued
        /\ Warrants(work[p].user) \cap work[p].seen = {}

Held == OpenTransactions /\ SeenIsFree

\* The sanctions of one kind that were ever issued to a user.
Ever(u, k) == {s \in Issued : row[s].subject = u /\ row[s].kind = k}

\* No sanction stands higher on its ladder than sanctions were issued, itself
\* included.
StepsAreCounted ==
    /\ IsFiniteSet(Issued)
    /\ \A u \in User \cup {None}, k \in Kind \cup {None}, s \in Sanction :
          row[s].subject = u /\ row[s].kind = k =>
              /\ s \in Issued => row[s].step <= Cardinality(Ever(u, k))
              /\ row[s].state = "pending" => row[s].step <= Cardinality(Ever(u, k)) + 1

\* Step n, settled when "seen" was on record, is above what was seen but for what
\* had been destroyed.
Above(u, k, n, seen) ==
    \/ n = Len(Ladder[k])
    \/ \A r \in seen : row[r].subject = u /\ row[r].kind = k
                        => n + Cardinality(Purged(u, k) \ seen) > row[r].step

DraftIsSound(d, seen) ==
    /\ d.subject \in User /\ d.kind \in Kind /\ d.clock # "past"
    /\ d.step <= Cardinality(Ever(d.subject, d.kind)) + 1
    /\ seen \subseteq Issued
    /\ d.step > 0 => Above(d.subject, d.kind, d.step, seen)

DraftsAreSound ==
    \A p \in Process : work[p].op = "issue" => DraftIsSound(work[p].draft, work[p].seen)

IInv == TypeOK /\ Held /\ StepsAreCounted /\ DraftsAreSound

-----------------------------------------------------------------------------
(* Counting.                                                               *)

\* While what was issued is finite, so is every part of it that is counted, and
\* what was issued and is not on record was purged.
LEMMA Counting ==
    ASSUME IsFiniteSet(Issued), NEW u, NEW k
    PROVE  /\ Committed \subseteq Issued /\ Strikes(u, k) \subseteq Ever(u, k)
           /\ Ever(u, k) \subseteq Strikes(u, k) \cup (Purged(u, k) \ Committed)
           /\ IsFiniteSet(Strikes(u, k)) /\ IsFiniteSet(Purged(u, k)) /\ IsFiniteSet(Ever(u, k))
           /\ Cardinality(Strikes(u, k)) \in Nat /\ Cardinality(Ever(u, k)) \in Nat
<1>1. /\ Committed \subseteq Issued /\ Strikes(u, k) \subseteq Issued
      /\ Purged(u, k) \subseteq Issued /\ Ever(u, k) \subseteq Issued
    BY DEF Committed, Issued, Strikes, Purged, Ever
<1>2. IsFiniteSet(Strikes(u, k)) /\ IsFiniteSet(Purged(u, k)) /\ IsFiniteSet(Ever(u, k))
    BY <1>1, FS_Subset
<1>3. /\ Strikes(u, k) \subseteq Ever(u, k)
      /\ Ever(u, k) \subseteq Strikes(u, k) \cup (Purged(u, k) \ Committed)
    BY DEF Committed, Issued, Strikes, Purged, Ever
<1> QED BY <1>1, <1>2, <1>3, FS_CardinalityType

\* What was ever issued is on record, or counts among what was destroyed.
LEMMA LostIsCounted ==
    ASSUME IsFiniteSet(Issued), NEW u, NEW k
    PROVE  /\ Cardinality(Purged(u, k) \ Committed) \in Nat
           /\ Cardinality(Ever(u, k)) <= Cardinality(Strikes(u, k)) + Cardinality(Purged(u, k) \ Committed)
<1> DEFINE S == Strikes(u, k)
           L == Purged(u, k) \ Committed
<1>1. IsFiniteSet(S) /\ IsFiniteSet(L) /\ Ever(u, k) \subseteq S \cup L
    BY Counting, FS_Subset
<1>2. Cardinality(S) \in Nat /\ Cardinality(L) \in Nat /\ Cardinality(Ever(u, k)) \in Nat
    BY <1>1, Counting, FS_CardinalityType
<1>3. IsFiniteSet(S \cup L) /\ Cardinality(S \cup L) = Cardinality(S) + Cardinality(L)
    <2>1. S \cap L = {}
        BY DEF Strikes
    <2>2. Cardinality(S \cap L) = 0
        BY <2>1, FS_EmptySet
    <2>3. Cardinality(S \cup L) = Cardinality(S) + Cardinality(L) - Cardinality(S \cap L)
        BY <1>1, FS_Union
    <2> QED BY <1>1, <1>2, <2>2, <2>3, FS_Union
<1>4. Cardinality(Ever(u, k)) <= Cardinality(S \cup L)
    BY <1>1, <1>3, FS_Subset
<1> QED BY <1>2, <1>3, <1>4

\* A new row of a kind with a ladder takes the step after the strikes so far, or
\* the last; every other new row takes none.
LEMMA NewRowType ==
    ASSUME IsFiniteSet(Issued), NEW u \in User, NEW k \in Kind, NEW r \in NewRow(u, k)
    PROVE  /\ r \in SanctionRow /\ r.subject = u /\ r.kind = k /\ r.clock # "past"
           /\ \/ r.step = 0
              \/ r.step = Cardinality(Strikes(u, k)) + 1
              \/ r.step = Len(Ladder[k]) /\ r.step <= Cardinality(Strikes(u, k))
<1> DEFINE n == LadderStep(u, k)
<1>1. Cardinality(Strikes(u, k)) \in Nat
    BY Counting
<1>2. Ladder[k] \in Seq({"ahead", "never"}) /\ Len(Ladder[k]) \in Nat
    BY LadderAssumption
<1>3. Ladder[k] # <<>> => n \in 1..Len(Ladder[k])
    BY <1>1, <1>2 DEF LadderStep
<1>4. Ladder[k] # <<>> => Ladder[k][n] \in {"ahead", "never"} /\ n \in Nat
    BY <1>2, <1>3
<1>5. n = Cardinality(Strikes(u, k)) + 1 \/ (n = Len(Ladder[k]) /\ n <= Cardinality(Strikes(u, k)))
    BY <1>1, <1>2 DEF LadderStep
<1>6. CASE r = [[NoRow EXCEPT !.subject = u, !.kind = k] EXCEPT !.clock = "ahead"]
    BY <1>6 DEF NoRow, SanctionRow, Clock
<1>7. CASE Ladder[k] = <<>> /\ r = [NoRow EXCEPT !.subject = u, !.kind = k]
    BY <1>7 DEF NoRow, SanctionRow, Clock
<1>8. CASE /\ Ladder[k] # <<>>
           /\ r = [[NoRow EXCEPT !.subject = u, !.kind = k] EXCEPT !.clock = Ladder[k][n], !.step = n]
    BY <1>4, <1>5, <1>8 DEF NoRow, SanctionRow, Clock
<1> QED BY <1>6, <1>7, <1>8 DEF NewRow

\* The draft of a request that has just counted is sound.
LEMMA NewDraftIsSound ==
    ASSUME TypeOK, StepsAreCounted, NEW u \in User, NEW k \in Kind, NEW r \in NewRow(u, k),
           NEW seen, seen = IF r.step = 0 THEN {} ELSE Committed
    PROVE  DraftIsSound(r, seen)
<1> DEFINE n == Cardinality(Strikes(u, k))
           e == Cardinality(Ever(u, k))
           lost == Cardinality(Purged(u, k) \ Committed)
<1>0. IsFiniteSet(Issued)
    BY DEF StepsAreCounted
<1>1. /\ r \in SanctionRow /\ r.subject = u /\ r.kind = k /\ r.clock # "past" /\ r.step \in Nat
      /\ \/ r.step = 0
         \/ r.step = n + 1
         \/ r.step = Len(Ladder[k]) /\ r.step <= n
    BY <1>0, NewRowType DEF SanctionRow
<1>2. n \in Nat /\ e \in Nat /\ n <= e
    BY <1>0, Counting, FS_Subset
<1>3. seen \subseteq Issued
    BY <1>0, Counting
<1>4. ASSUME r.step > 0, r.step # Len(Ladder[k]), NEW q \in seen,
             row[q].subject = u, row[q].kind = k
      PROVE  r.step + Cardinality(Purged(u, k) \ seen) > row[q].step
    <2>1. seen = Committed /\ r.step = n + 1
        BY <1>1, <1>4
    <2>2. e <= n + lost /\ lost \in Nat
        BY <1>0, LostIsCounted
    <2>3. row[q].step <= e /\ row[q].step \in Nat
        BY <1>3, <1>4 DEF StepsAreCounted, TypeOK, SanctionRow, Issued
    <2>4. r.step + lost > row[q].step
        BY <1>2, <2>1, <2>2, <2>3
    <2> QED BY <2>1, <2>4
<1>5. r.step <= e + 1
    BY <1>1, <1>2
<1>6. r.step > 0 => Above(u, k, r.step, seen)
    BY <1>4 DEF Above
<1> QED BY <1>1, <1>3, <1>5, <1>6 DEF DraftIsSound

-----------------------------------------------------------------------------
(* The ways a row is written.                                              *)

Inserted(s) ==
    /\ row[s] = NoRow
    /\ \E p \in Process, st \in {"pending", "active"} :
          /\ work[p].op = "issue"
          /\ row' = [row EXCEPT ![s] = [work[p].draft EXCEPT !.state = st]]

Settled(s) ==
    /\ row[s].state = "pending"
    /\ row' = [row EXCEPT ![s].state = "active"] \/ row' = [row EXCEPT ![s] = NoRow]

Aged(s) ==
    /\ s \in Committed
    /\ row' = [row EXCEPT ![s].clock = "past"]

\* Ended or, later, destroyed.
Ended(s) ==
    /\ s \in Committed
    /\ \E to \in EndState \cup {"purged"} : row' = [row EXCEPT ![s].state = to]

RowStep == row' = row \/ \E s \in Sanction : Inserted(s) \/ Settled(s) \/ Aged(s) \/ Ended(s)

\* Every action writes no row, or one, in one of these ways.
LEMMA WritesOneRow ==
    ASSUME TypeOK, Held, [Next]_vars
    PROVE  RowStep
<1>1. CASE UNCHANGED vars
    BY <1>1 DEF vars, RowStep
<1>2. ASSUME NEW p \in Request, NEW s \in Sanction, Issue(p, s) \/ IssueWithVerdict(p, s)
      PROVE  RowStep
    <2>1. p \in Process
        BY DEF Process
    <2> QED BY <1>2, <2>1 DEF Issue, IssueWithVerdict, RowStep, Inserted
<1>3. ASSUME NEW p \in Request, VerdictCommits(p)
      PROVE  RowStep
    BY <1>3 DEF VerdictCommits, RowStep, Settled, Held, OpenTransactions, Process
<1>4. ASSUME NEW p \in Process, Fails(p)
      PROVE  RowStep
    BY <1>4 DEF Fails, RowStep, Settled, Held, OpenTransactions
<1>5. ASSUME NEW p \in Process, End(p)
      PROVE  RowStep
    <2>1. work[p].row \in Committed /\ work[p].row \in Sanction /\ work[p].to \in EndState
        BY <1>5 DEF End, TypeOK, Work, Committed
    <2> QED BY <1>5, <2>1 DEF End, RowStep, Ended
<1>6. ASSUME NEW s \in Sanction, Lapses(s) \/ Purge(s)
      PROVE  RowStep
    BY <1>6 DEF Lapses, Purge, RowStep, Aged, Ended, Committed, EndState
<1>7. ASSUME NEW p \in Process, CheckWarrant(p) \/ DropKey(p) \/ Enforce(p) \/ EndsNothing(p)
      PROVE  RowStep
    BY <1>7 DEF CheckWarrant, DropKey, Enforce, EndsNothing, RowStep
<1>8. ASSUME NEW s \in Sanction, ListLapsed(s) \/ \E p \in Request : Lift(p, s)
      PROVE  RowStep
    BY <1>8 DEF ListLapsed, Lift, ReadsToEnd, RowStep
<1>9. CASE CacheStep
    BY <1>9 DEF CacheStep, ListToRearm, KeyExpires, Rearm, RearmFails, RowStep
<1>10. ASSUME NEW p \in Request, NEW u \in User, NEW k \in Kind, ReadsLadder(p, u, k)
       PROVE  RowStep
    BY <1>10 DEF ReadsLadder, RowStep
<1> QED BY <1>1, <1>2, <1>3, <1>4, <1>5, <1>6, <1>7, <1>8, <1>9, <1>10
        DEF Next, IssueStep, EndStep, Process

\* What a new row says of the request that wrote it.
InsertedFor(s, d, seen) ==
    /\ DraftIsSound(d, seen)
    /\ row'[s].subject = d.subject /\ row'[s].kind = d.kind /\ row'[s].clock = d.clock
    /\ row'[s].step = d.step /\ row'[s].state \in {"pending", "active"}

\* A row that is inserted is its request's draft, pending or active.
LEMMA InsertedRow ==
    ASSUME TypeOK, DraftsAreSound, NEW s \in Sanction, Inserted(s)
    PROVE  /\ row'[s] \in SanctionRow
           /\ \E p \in Process : work[p].op = "issue" /\ InsertedFor(s, work[p].draft, work[p].seen)
<1>1. PICK p \in Process, st \in {"pending", "active"} :
          /\ work[p].op = "issue"
          /\ row' = [row EXCEPT ![s] = [work[p].draft EXCEPT !.state = st]]
    BY DEF Inserted
<1>2. work[p].draft \in SanctionRow
    BY DEF TypeOK, Work
<1>3. row'[s] = [work[p].draft EXCEPT !.state = st]
    BY <1>1 DEF TypeOK
<1>4. DraftIsSound(work[p].draft, work[p].seen)
    BY <1>1 DEF DraftsAreSound
<1>5. row'[s] \in SanctionRow
    BY <1>2, <1>3 DEF SanctionRow
<1>6. /\ row'[s].subject = work[p].draft.subject /\ row'[s].kind = work[p].draft.kind
      /\ row'[s].clock = work[p].draft.clock /\ row'[s].step = work[p].draft.step
      /\ row'[s].state = st
    BY <1>2, <1>3 DEF SanctionRow
<1> QED BY <1>1, <1>4, <1>5, <1>6 DEF InsertedFor

\* A row keeps its type.
LEMMA RowsKeepType ==
    ASSUME TypeOK, DraftsAreSound, RowStep
    PROVE  row' \in [Sanction -> SanctionRow]
<1>1. row \in [Sanction -> SanctionRow]
    BY DEF TypeOK
<1>2. ASSUME NEW s \in Sanction, Inserted(s)
      PROVE  row' \in [Sanction -> SanctionRow]
    <2>1. row'[s] \in SanctionRow
        BY <1>2, InsertedRow
    <2>2. PICK d : row' = [row EXCEPT ![s] = d]
        BY <1>2 DEF Inserted
    <2> QED BY <1>1, <2>1, <2>2
<1>3. ASSUME NEW s \in Sanction, Settled(s)
      PROVE  row' \in [Sanction -> SanctionRow]
    <2>1. NoRow \in SanctionRow
        BY DEF NoRow, SanctionRow, Clock
    <2>2. [row[s] EXCEPT !.state = "active"] \in SanctionRow
        BY <1>1 DEF SanctionRow
    <2> QED BY <1>1, <1>3, <2>1, <2>2 DEF Settled
<1>4. ASSUME NEW s \in Sanction, Aged(s)
      PROVE  row' \in [Sanction -> SanctionRow]
    BY <1>1, <1>4 DEF Aged, SanctionRow, Clock
<1>5. ASSUME NEW s \in Sanction, Ended(s)
      PROVE  row' \in [Sanction -> SanctionRow]
    BY <1>1, <1>5 DEF Ended, SanctionRow, EndState
<1> QED BY <1>1, <1>2, <1>3, <1>4, <1>5 DEF RowStep

\* What was issued stays so, is about the same person and kind, keeps its step,
\* once out of force stays out, and once destroyed stays destroyed.
LEMMA RecordGrows ==
    ASSUME TypeOK, RowStep, NEW s \in Issued
    PROVE  /\ s \in Issued'
           /\ row'[s].subject = row[s].subject
           /\ row'[s].kind = row[s].kind
           /\ row'[s].step = row[s].step
           /\ InForce(s)' => InForce(s)
           /\ row[s].state = "purged" => row'[s].state = "purged"
<1> USE DEF Issued, Committed, InForce
<1>1. row \in [Sanction -> SanctionRow] /\ s \in Sanction
    BY DEF TypeOK
<1>2. CASE row' = row
    BY <1>1, <1>2
<1>3. ASSUME NEW t \in Sanction, t # s, Inserted(t) \/ Settled(t) \/ Aged(t) \/ Ended(t)
      PROVE  row'[s] = row[s]
    BY <1>1, <1>3 DEF Inserted, Settled, Aged, Ended
<1>4. ~Inserted(s) /\ ~Settled(s)
    BY <1>1 DEF Inserted, Settled, NoRow
<1>5. CASE Aged(s)
    BY <1>1, <1>5 DEF Aged, SanctionRow
<1>6. CASE Ended(s)
    BY <1>1, <1>6 DEF Ended, SanctionRow, EndState
<1> QED BY <1>1, <1>2, <1>3, <1>4, <1>5, <1>6 DEF RowStep

-----------------------------------------------------------------------------
(* The invariant.                                                          *)

\* Nothing is on record and every process is idle.
LEMMA IInvInit == Init => IInv
<1> SUFFICES ASSUME Init PROVE IInv
    OBVIOUS
<1>1. TypeOK
    BY DEF Init, TypeOK, NoRow, SanctionRow, Clock, Idle, Work, EndState
<1>2. Held /\ DraftsAreSound
    BY DEF Init, Held, OpenTransactions, SeenIsFree, DraftsAreSound, Idle
<1>3. Issued = {} /\ \A s \in Sanction : row[s].state # "pending"
    BY DEF Init, Issued, NoRow
<1>4. StepsAreCounted
    BY <1>3, FS_EmptySet DEF StepsAreCounted
<1> QED BY <1>1, <1>2, <1>4 DEF IInv

\* A process is between two steps the code has, or idle.
LEMMA TypesStep ==
    ASSUME IInv, [Next]_vars
    PROVE  TypeOK'
<1> USE DEF TypeOK
<1>1. row' \in [Sanction -> SanctionRow]
    BY WritesOneRow, RowsKeepType DEF IInv
<1>2. key' \in [User -> BOOLEAN]
    BY DEF IInv, vars, Next, IssueStep, EndStep, CacheStep, ReadsLadder, Issue, Enforce, Stored,
           IssueWithVerdict, VerdictCommits, Fails, Lapses, Purge, ReadsToEnd, Lift, ListLapsed, End,
           EndsNothing, CheckWarrant, DropKey, KeyExpires, ListToRearm, Rearm, RearmFails
<1>3. rearming' \subseteq User
    BY DEF IInv, vars, Next, IssueStep, EndStep, CacheStep, ReadsLadder, Issue, Enforce,
           IssueWithVerdict, VerdictCommits, Fails, Lapses, Purge, ReadsToEnd, Lift, ListLapsed, End,
           EndsNothing, CheckWarrant, DropKey, KeyExpires, ListToRearm, Rearm, RearmFails
<1>4. work' \in [Process -> Work]
    <2> DEFINE Works == work \in [Process -> Work] /\ row \in [Sanction -> SanctionRow]
    <2>0. Works /\ Idle \in Work /\ NoRow \in SanctionRow
        BY DEF IInv, Idle, Work, EndState, NoRow, SanctionRow, Clock
    <2>1. ASSUME NEW p \in Process, NEW w \in Work, SetWork(p, w)
          PROVE  work' \in [Process -> Work]
        BY <2>0, <2>1 DEF SetWork
    <2>2. \A op \in {"issue", "enforce", "verdict", "end", "check"}, s \in Sanction \cup {None},
             u \in User \cup {None} : Busy(op, s, u) \in Work
        BY <2>0 DEF Busy, Idle, Work, EndState
    <2>3. ASSUME NEW p \in Request, NEW u \in User, NEW k \in Kind, ReadsLadder(p, u, k)
          PROVE  work' \in [Process -> Work]
        <3>1. PICK r \in NewRow(u, k) :
                  SetWork(p, [Busy("issue", None, u) EXCEPT
                                 !.draft = r, !.seen = IF r.step = 0 THEN {} ELSE Committed])
            BY <2>3 DEF ReadsLadder
        <3>2. r \in SanctionRow
            BY NewRowType DEF IInv, StepsAreCounted
        <3>3. [Busy("issue", None, u) EXCEPT
                  !.draft = r, !.seen = IF r.step = 0 THEN {} ELSE Committed] \in Work
            <4>1. ASSUME NEW w \in Work, NEW seen \in SUBSET Sanction
                  PROVE  [w EXCEPT !.draft = r, !.seen = seen] \in Work
                BY <3>2 DEF Work
            <4>2. (IF r.step = 0 THEN {} ELSE Committed) \in SUBSET Sanction
                BY DEF Committed
            <4> QED BY <2>2, <4>1, <4>2
        <3> QED BY <2>1, <3>1, <3>3 DEF Process
    <2>4. ASSUME NEW p \in Request, NEW s \in Sanction, Issue(p, s) \/ IssueWithVerdict(p, s)
          PROVE  work' \in [Process -> Work]
        <3>1. work[p].draft.subject \in User \cup {None} /\ p \in Process
            BY <2>0 DEF Process, Work, SanctionRow
        <3> QED BY <2>0, <2>1, <2>2, <2>4, <3>1 DEF Issue, IssueWithVerdict
    <2>5. CASE IssueStep
        BY <2>0, <2>1, <2>3, <2>4, <2>5 DEF IssueStep, Enforce, VerdictCommits, Process
    <2>6. ASSUME NEW p \in Process,
                 End(p) \/ EndsNothing(p) \/ CheckWarrant(p) \/ DropKey(p) \/ Fails(p)
          PROVE  work' \in [Process -> Work]
        <3>1. Busy("check", None, work[p].user) \in Work
            <4>1. work[p].user \in User \cup {None}
                BY <2>0 DEF Work
            <4> QED BY <2>2, <4>1
        <3>2. [work[p] EXCEPT !.op = "drop", !.seen = Committed] \in Work
            BY <2>0 DEF Work, Committed
        <3> QED BY <2>0, <2>1, <2>6, <3>1, <3>2 DEF End, EndsNothing, CheckWarrant, DropKey, Fails
    <2>7. ASSUME NEW p \in Process, NEW s \in Sanction, NEW to \in EndState, ReadsToEnd(p, s, to)
          PROVE  work' \in [Process -> Work]
        <3>1. row[s].subject \in User \cup {None}
            BY <2>0 DEF SanctionRow
        <3>2. [Busy("end", s, row[s].subject) EXCEPT !.to = to] \in Work
            BY <2>2, <3>1 DEF Work
        <3> QED BY <2>1, <2>7, <3>2 DEF ReadsToEnd
    <2>8. CASE EndStep
        BY <2>0, <2>6, <2>7, <2>8 DEF EndStep, Lapses, Purge, ListLapsed, Lift, Process, EndState
    <2>9. CASE CacheStep \/ UNCHANGED vars
        BY <2>0, <2>9 DEF CacheStep, vars, ListToRearm, KeyExpires, Rearm, RearmFails
    <2> QED BY <2>5, <2>8, <2>9 DEF Next
<1> QED BY <1>1, <1>2, <1>3, <1>4

\* A process that comes to hold a draft, or to drop a key, has just looked.
LEMMA WorkStep ==
    ASSUME IInv, [Next]_vars, NEW p \in Process
    PROVE  \/ work'[p] = work[p]
           \/ work'[p].op \notin {"issue", "drop"}
           \/ /\ work'[p].op = "issue" /\ row' = row
              /\ DraftIsSound(work'[p].draft, work'[p].seen)
           \/ /\ work'[p].op = "drop" /\ row' = row
              /\ work'[p].seen = Committed /\ Warrants(work'[p].user) = {}
<1> DEFINE Goal == \/ work'[p] = work[p]
                   \/ work'[p].op \notin {"issue", "drop"}
                   \/ /\ work'[p].op = "issue" /\ row' = row
                      /\ DraftIsSound(work'[p].draft, work'[p].seen)
                   \/ /\ work'[p].op = "drop" /\ row' = row
                      /\ work'[p].seen = Committed /\ Warrants(work'[p].user) = {}
<1>0. work \in [Process -> Work] /\ Idle.op = "idle" /\ \A op, s, u : Busy(op, s, u).op = op
    BY DEF IInv, TypeOK, Idle, Busy
<1>1. ASSUME NEW q \in Process, q # p, NEW w, SetWork(q, w) PROVE work'[p] = work[p]
    BY <1>0, <1>1 DEF SetWork
<1>2. ASSUME NEW w, SetWork(p, w) PROVE work'[p] = w
    BY <1>0, <1>2 DEF SetWork
<1>3. ASSUME NEW q \in Process, NEW u \in User, NEW k \in Kind, ReadsLadder(q, u, k)
      PROVE  Goal
    <2>1. PICK r \in NewRow(u, k) :
              SetWork(q, [Busy("issue", None, u) EXCEPT
                             !.draft = r, !.seen = IF r.step = 0 THEN {} ELSE Committed])
        BY <1>3 DEF ReadsLadder
    <2> DEFINE seen == IF r.step = 0 THEN {} ELSE Committed
               w == [Busy("issue", None, u) EXCEPT !.draft = r, !.seen = seen]
    <2>2. w.op = "issue" /\ w.draft = r /\ w.seen = seen
        BY DEF Busy, Idle
    <2>3. DraftIsSound(r, seen)
        BY NewDraftIsSound DEF IInv
    <2> QED BY <1>1, <1>2, <1>3, <2>1, <2>2, <2>3 DEF ReadsLadder
<1>4. ASSUME NEW q \in Process, NEW s \in Sanction, Issue(q, s) \/ IssueWithVerdict(q, s)
      PROVE  Goal
    BY <1>0, <1>1, <1>2, <1>4 DEF Issue, IssueWithVerdict
<1>5. CASE IssueStep
    BY <1>0, <1>1, <1>2, <1>3, <1>4, <1>5 DEF IssueStep, Enforce, VerdictCommits, Process
<1>6. ASSUME NEW q \in Process,
             End(q) \/ EndsNothing(q) \/ CheckWarrant(q) \/ DropKey(q) \/ Fails(q)
      PROVE  Goal
    <2>1. LET w == [work[q] EXCEPT !.op = "drop", !.seen = Committed]
          IN  w.op = "drop" /\ w.seen = Committed /\ w.user = work[q].user
        BY <1>0 DEF Work
    <2>2. CASE q # p
        BY <1>1, <1>6, <2>2 DEF End, EndsNothing, CheckWarrant, DropKey, Fails
    <2>3. CASE q = p /\ CheckWarrant(q)
        BY <1>0, <1>2, <2>1, <2>3 DEF CheckWarrant
    <2>4. CASE q = p /\ ~CheckWarrant(q)
        BY <1>0, <1>2, <1>6, <2>4 DEF End, EndsNothing, DropKey, Fails
    <2> QED BY <2>2, <2>3, <2>4
<1>7. ASSUME NEW q \in Process, NEW s \in Sanction, NEW to, ReadsToEnd(q, s, to)
      PROVE  Goal
    <2>1. [Busy("end", s, row[s].subject) EXCEPT !.to = to].op = "end"
        BY DEF Busy, Idle
    <2> QED BY <1>1, <1>2, <1>7, <2>1 DEF ReadsToEnd
<1>8. CASE EndStep
    BY <1>6, <1>7, <1>8 DEF EndStep, Lapses, Purge, ListLapsed, Lift, Process
<1>9. CASE CacheStep \/ UNCHANGED vars
    BY <1>9 DEF CacheStep, vars, ListToRearm, KeyExpires, Rearm, RearmFails
<1> QED BY <1>5, <1>8, <1>9 DEF Next

\* A pending row is written by its own transaction only.
LEMMA OpenTransactionsStep ==
    ASSUME IInv, [Next]_vars
    PROVE  OpenTransactions'
<1> USE DEF OpenTransactions
<1>0. /\ OpenTransactions
      /\ row \in [Sanction -> SanctionRow] /\ work \in [Process -> Work]
      /\ Idle.op = "idle" /\ \A op, s, u : Busy(op, s, u).op = op /\ Busy(op, s, u).row = s
    BY DEF IInv, Held, TypeOK, Idle, Busy
<1>1. ASSUME NEW p \in Request, NEW s \in Sanction, Issue(p, s)
      PROVE  OpenTransactions'
    <2>1. \A q \in Process : work'[q] = work[q] \/ work'[q].op \in {"enforce", "idle"}
        BY <1>0, <1>1 DEF Issue, SetWork
    <2>2. row[s].state # "pending" /\ \A t \in Sanction \ {s} : row'[t] = row[t]
        BY <1>0, <1>1 DEF Issue, NoRow
    <2> QED BY <1>0, <2>1, <2>2
<1>2. ASSUME NEW p \in Request, NEW s \in Sanction, IssueWithVerdict(p, s)
      PROVE  OpenTransactions'
    <2>1. p \in Process /\ work'[p].row = s /\ \A q \in Process \ {p} : work'[q] = work[q]
        BY <1>0, <1>2 DEF IssueWithVerdict, SetWork, Process
    <2>2. row[s].state # "pending" /\ \A t \in Sanction \ {s} : row'[t] = row[t]
        BY <1>0, <1>2 DEF IssueWithVerdict, NoRow
    <2>3. row'[s].state = "pending"
        <3>1. row'[s] = [work[p].draft EXCEPT !.state = "pending"]
            BY <1>0, <1>2 DEF IssueWithVerdict
        <3>2. work[p].draft \in SanctionRow
            BY <1>0, <2>1 DEF Work
        <3> QED BY <3>1, <3>2 DEF SanctionRow
    <2> QED BY <1>0, <2>1, <2>2, <2>3
<1>3. ASSUME NEW p \in Process, VerdictCommits(p) \/ Fails(p)
      PROVE  OpenTransactions'
    <2>1. work'[p].op = "idle" /\ \A q \in Process \ {p} : work'[q] = work[q]
        BY <1>0, <1>3 DEF VerdictCommits, Fails, SetWork
    <2>2. \A t \in Sanction : row'[t] = row[t] \/ (work[p].op = "verdict" /\ t = work[p].row)
        BY <1>0, <1>3 DEF VerdictCommits, Fails
    <2> QED BY <1>0, <2>1, <2>2
<1>4. ASSUME NEW p \in Process, End(p)
      PROVE  OpenTransactions'
    <2>1. \A q \in Process : work'[q] = work[q] \/ work'[q].op = "check"
        BY <1>0, <1>4 DEF End, SetWork
    <2>2. \A t \in Sanction : row'[t] = row[t] \/ (t = work[p].row /\ row[t].state # "pending")
        BY <1>0, <1>4 DEF End, Committed
    <2> QED BY <1>0, <2>1, <2>2
<1>5. ASSUME NEW s \in Sanction, Lapses(s) \/ Purge(s)
      PROVE  OpenTransactions'
    <2>1. work' = work /\ row[s].state # "pending" /\ \A t \in Sanction \ {s} : row'[t] = row[t]
        BY <1>0, <1>5 DEF Lapses, Purge, Committed, EndState
    <2> QED BY <1>0, <2>1
<1>6. ASSUME row' = row, \A q \in Process : work'[q] = work[q] \/ work'[q].op # "verdict"
      PROVE  OpenTransactions'
    BY <1>0, <1>6
<1>7. ASSUME NEW p \in Process, CheckWarrant(p) \/ DropKey(p) \/ Enforce(p) \/ EndsNothing(p)
      PROVE  OpenTransactions'
    <2>1. \A q \in Process : work'[q] = work[q] \/ work'[q].op # "verdict"
        BY <1>0, <1>7 DEF CheckWarrant, DropKey, Enforce, EndsNothing, SetWork, Work
    <2> QED BY <1>6, <1>7, <2>1 DEF CheckWarrant, DropKey, Enforce, EndsNothing
<1>8. ASSUME NEW p \in Process, NEW s \in Sanction, NEW to, ReadsToEnd(p, s, to)
      PROVE  OpenTransactions'
    <2>1. [Busy("end", s, row[s].subject) EXCEPT !.to = to].op = "end"
        BY DEF Busy, Idle
    <2>2. \A q \in Process : work'[q] = work[q] \/ work'[q].op # "verdict"
        BY <1>0, <1>8, <2>1 DEF ReadsToEnd, SetWork
    <2> QED BY <1>6, <1>8, <2>2 DEF ReadsToEnd
<1>9. CASE CacheStep \/ UNCHANGED vars
    BY <1>6, <1>9 DEF CacheStep, vars, ListToRearm, KeyExpires, Rearm, RearmFails
<1>10. ASSUME NEW p \in Request, NEW u \in User, NEW k \in Kind, ReadsLadder(p, u, k)
       PROVE  OpenTransactions'
    <2>1. \A q \in Process : work'[q] = work[q] \/ work'[q].op = "issue"
        <3>1. \A r, seen : [Busy("issue", None, u) EXCEPT !.draft = r, !.seen = seen].op = "issue"
            BY DEF Busy, Idle
        <3> QED BY <1>0, <1>10, <3>1 DEF ReadsLadder, SetWork
    <2> QED BY <1>6, <1>10, <2>1 DEF ReadsLadder
<1>11. CASE IssueStep
    BY <1>1, <1>2, <1>3, <1>7, <1>10, <1>11 DEF IssueStep, Process
<1>12. CASE EndStep
    BY <1>3, <1>4, <1>5, <1>7, <1>8, <1>12 DEF EndStep, ListLapsed, Lift, Process
<1> QED BY <1>9, <1>11, <1>12 DEF Next

\* What a process saw on record stays issued and out of force.
LEMMA HeldStep ==
    ASSUME IInv, [Next]_vars
    PROVE  Held'
<1>0. RowStep /\ TypeOK /\ SeenIsFree
    BY WritesOneRow DEF IInv, Held
<1>1. SeenIsFree'
    <2> SUFFICES ASSUME NEW p \in Process, work'[p].op = "drop", NEW s \in work'[p].seen
                 PROVE  s \in Issued' /\ ~(InForce(s)' /\ Bites(s)' /\ row'[s].subject = work'[p].user)
        BY DEF SeenIsFree, Warrants
    <2>1. s \in Issued /\ ~(InForce(s) /\ Bites(s) /\ row[s].subject = work'[p].user)
        <3>1. CASE work'[p] = work[p]
            BY <1>0, <3>1 DEF SeenIsFree, Warrants, Issued
        <3>2. CASE work'[p].seen = Committed /\ Warrants(work'[p].user) = {}
            BY <3>2 DEF Warrants, Committed, Issued
        <3> QED BY <3>1, <3>2, WorkStep
    <2>2. /\ s \in Issued'
          /\ row'[s].subject = row[s].subject
          /\ InForce(s)' => InForce(s)
          /\ Bites(s)' => Bites(s)
        BY <1>0, <2>1, RecordGrows DEF Bites
    <2> QED BY <2>1, <2>2
<1> QED BY <1>1, OpenTransactionsStep DEF Held

\* What was issued was issued in a step of its own, so it stays finite.
LEMMA IssuedStaysFinite ==
    ASSUME TypeOK, IsFiniteSet(Issued), RowStep
    PROVE  IsFiniteSet(Issued')
<1>0. row \in [Sanction -> SanctionRow]
    BY DEF TypeOK
<1>1. CASE row' = row
    <2>1. Issued' = Issued
        BY <1>1 DEF Issued
    <2> QED BY <2>1
<1>2. ASSUME NEW s \in Sanction, Inserted(s) \/ Settled(s) \/ Aged(s) \/ Ended(s)
      PROVE  IsFiniteSet(Issued')
    <2>1. \A t \in Sanction \ {s} : row'[t] = row[t]
        BY <1>0, <1>2 DEF Inserted, Settled, Aged, Ended
    <2>2. Issued' \subseteq Issued \cup {s}
        BY <2>1 DEF Issued
    <2> QED BY <2>2, FS_AddElement, FS_Subset
<1> QED BY <1>1, <1>2 DEF RowStep

\* Nobody's issued sanctions grow fewer, and one that is new is one more.
LEMMA EverGrows ==
    ASSUME TypeOK, IsFiniteSet(Issued), IsFiniteSet(Issued'), RowStep, NEW u, NEW k
    PROVE  /\ Cardinality(Ever(u, k)) \in Nat /\ Cardinality(Ever(u, k)') \in Nat
           /\ Cardinality(Ever(u, k)) <= Cardinality(Ever(u, k)')
           /\ \A s \in Issued' \ Issued : row'[s].subject = u /\ row'[s].kind = k
                 => Cardinality(Ever(u, k)) + 1 <= Cardinality(Ever(u, k)')
<1>1. Ever(u, k) \subseteq Ever(u, k)'
    BY RecordGrows DEF Ever
<1>2. IsFiniteSet(Ever(u, k)) /\ IsFiniteSet(Ever(u, k)')
    <2>1. Ever(u, k) \subseteq Issued /\ Ever(u, k)' \subseteq Issued'
        BY DEF Ever
    <2> QED BY <2>1, FS_Subset
<1>3. Cardinality(Ever(u, k)) <= Cardinality(Ever(u, k)')
    BY <1>1, <1>2, FS_Subset
<1>4. ASSUME NEW s \in Issued' \ Issued, row'[s].subject = u, row'[s].kind = k
      PROVE  Cardinality(Ever(u, k)) + 1 <= Cardinality(Ever(u, k)')
    <2>1. s \notin Ever(u, k) /\ Ever(u, k) \cup {s} \subseteq Ever(u, k)'
        BY <1>1, <1>4 DEF Ever
    <2>2. Cardinality(Ever(u, k) \cup {s}) = Cardinality(Ever(u, k)) + 1
        BY <1>2, <2>1, FS_AddElement
    <2> QED BY <1>2, <2>1, <2>2, FS_Subset
<1> QED BY <1>2, <1>3, <1>4, FS_CardinalityType

\* Steps stay counted: a new row took a step that was borne out when it was
\* counted, and no fewer were issued since.
LEMMA StepsStep ==
    ASSUME IInv, [Next]_vars
    PROVE  StepsAreCounted'
<1>0. /\ RowStep /\ TypeOK /\ IsFiniteSet(Issued) /\ StepsAreCounted /\ DraftsAreSound
      /\ row \in [Sanction -> SanctionRow] /\ row' \in [Sanction -> SanctionRow]
    BY WritesOneRow, RowsKeepType DEF IInv, StepsAreCounted, TypeOK
<1>1. IsFiniteSet(Issued')
    BY <1>0, IssuedStaysFinite
<1>2. ASSUME NEW s \in Sanction, s \notin Issued, row'[s].state # "absent"
      PROVE  row'[s].step <= Cardinality(Ever(row'[s].subject, row'[s].kind)) + 1
    <2>1. CASE Inserted(s)
        BY <1>0, <2>1, InsertedRow DEF InsertedFor, DraftIsSound
    <2>2. CASE \/ row'[s] = row[s]
               \/ row[s].state = "pending" /\ row'[s] = [row[s] EXCEPT !.state = "active"]
        <3>1. row[s].state = "pending"
            BY <1>0, <1>2, <2>2 DEF Issued, SanctionRow
        <3>2. row[s].step <= Cardinality(Ever(row[s].subject, row[s].kind)) + 1
            BY <1>0, <3>1 DEF StepsAreCounted, SanctionRow
        <3>3. /\ row'[s].subject = row[s].subject /\ row'[s].kind = row[s].kind
              /\ row'[s].step = row[s].step
            BY <1>0, <2>2 DEF SanctionRow
        <3> QED BY <3>2, <3>3
    <2>3. ASSUME NEW t \in Sanction, t # s, Inserted(t) \/ Settled(t) \/ Aged(t) \/ Ended(t)
          PROVE  row'[s] = row[s]
        BY <1>0, <2>3 DEF Inserted, Settled, Aged, Ended
    <2>4. CASE Settled(s)
        BY <1>0, <1>2, <2>2, <2>4 DEF Settled, NoRow
    <2>5. ~Aged(s) /\ ~Ended(s)
        BY <1>2 DEF Aged, Ended, Committed, Issued
    <2> QED BY <1>0, <2>1, <2>2, <2>3, <2>4, <2>5 DEF RowStep
<1>3. ASSUME NEW u \in User \cup {None}, NEW k \in Kind \cup {None}, NEW s \in Sanction,
             row'[s].subject = u, row'[s].kind = k, row'[s].state # "absent"
      PROVE  /\ s \in Issued' => row'[s].step <= Cardinality(Ever(u, k)')
             /\ row'[s].state = "pending" => row'[s].step <= Cardinality(Ever(u, k)') + 1
    <2>1. /\ Cardinality(Ever(u, k)) \in Nat /\ Cardinality(Ever(u, k)') \in Nat
          /\ Cardinality(Ever(u, k)) <= Cardinality(Ever(u, k)')
          /\ s \in Issued' \ Issued => Cardinality(Ever(u, k)) + 1 <= Cardinality(Ever(u, k)')
        BY <1>0, <1>1, <1>3, EverGrows
    <2>2. row'[s].step \in Nat
        BY <1>0 DEF SanctionRow
    <2>3. CASE s \in Issued
        <3>1. s \in Issued' /\ row'[s].step = row[s].step /\ row[s].subject = u /\ row[s].kind = k
            BY <1>0, <1>3, <2>3, RecordGrows
        <3>2. row[s].step <= Cardinality(Ever(u, k))
            BY <1>0, <2>3, <3>1 DEF StepsAreCounted
        <3> QED BY <2>1, <2>2, <3>1, <3>2 DEF Issued
    <2>4. CASE s \notin Issued
        <3>1. row'[s].step <= Cardinality(Ever(u, k)) + 1
            BY <1>2, <1>3, <2>4
        <3> QED BY <2>1, <2>2, <2>4, <3>1
    <2> QED BY <2>3, <2>4
<1>4. Issued' = {s \in Sanction : row'[s].state \notin {"absent", "pending"}}
    BY DEF Issued
<1> QED BY <1>1, <1>3, <1>4 DEF StepsAreCounted

\* A draft stays sound while its request waits: what was seen keeps its step, and
\* no more than that is destroyed.
LEMMA DraftKeeps ==
    ASSUME IInv, RowStep, IsFiniteSet(Issued'), NEW d \in SanctionRow, NEW seen, DraftIsSound(d, seen)
    PROVE  DraftIsSound(d, seen)'
<1> DEFINE u == d.subject
           k == d.kind
           Lost == Purged(u, k) \ seen
<1>0. TypeOK /\ IsFiniteSet(Issued) /\ row \in [Sanction -> SanctionRow]
    BY DEF IInv, StepsAreCounted, TypeOK
<1>1. d.step \in Nat /\ seen \subseteq Issued /\ seen \subseteq Issued'
    BY <1>0, RecordGrows DEF SanctionRow, DraftIsSound
<1>2. d.step <= Cardinality(Ever(u, k)') + 1
    <2>1. /\ Cardinality(Ever(u, k)) \in Nat /\ Cardinality(Ever(u, k)') \in Nat
          /\ Cardinality(Ever(u, k)) <= Cardinality(Ever(u, k)')
        BY <1>0, EverGrows
    <2> QED BY <1>1, <2>1 DEF DraftIsSound
<1>3. /\ IsFiniteSet(Lost) /\ IsFiniteSet(Lost') /\ Lost \subseteq Lost'
    <2>1. Purged(u, k) \subseteq Issued /\ Purged(u, k)' \subseteq Issued'
        BY DEF Purged, Issued
    <2>2. Purged(u, k) \subseteq Purged(u, k)'
        BY <1>0, <2>1, RecordGrows DEF Purged
    <2>3. Lost \subseteq Issued /\ Lost' \subseteq Issued' /\ Lost \subseteq Lost'
        BY <2>1, <2>2
    <2> QED BY <1>0, <2>3, FS_Subset
<1>4. Cardinality(Lost) \in Nat /\ Cardinality(Lost') \in Nat /\ Cardinality(Lost) <= Cardinality(Lost')
    BY <1>3, FS_Subset, FS_CardinalityType
<1>5. ASSUME d.step > 0, d.step # Len(Ladder[k]), NEW r \in seen,
             row'[r].subject = u, row'[r].kind = k
      PROVE  d.step + Cardinality(Lost') > row'[r].step
    <2>1. row[r].subject = u /\ row[r].kind = k /\ row'[r].step = row[r].step /\ row[r].step \in Nat
        BY <1>0, <1>1, <1>5, RecordGrows DEF Issued, SanctionRow
    <2>2. d.step + Cardinality(Lost) > row[r].step
        BY <1>5, <2>1 DEF DraftIsSound, Above
    <2> QED BY <1>1, <1>4, <2>1, <2>2
<1> QED BY <1>1, <1>2, <1>5 DEF DraftIsSound, Above

\* Drafts stay sound.
LEMMA DraftsStep ==
    ASSUME IInv, [Next]_vars, IsFiniteSet(Issued')
    PROVE  DraftsAreSound'
<1> SUFFICES ASSUME NEW p \in Process, work'[p].op = "issue"
             PROVE  DraftIsSound(work[p].draft, work[p].seen)'
    BY DEF DraftsAreSound
<1>0. RowStep /\ DraftsAreSound /\ work \in [Process -> Work] /\ work' \in [Process -> Work]
    BY WritesOneRow, TypesStep DEF IInv, TypeOK
<1>1. DraftIsSound(work'[p].draft, work'[p].seen)
    <2>1. CASE work'[p] = work[p]
        BY <1>0, <2>1 DEF DraftsAreSound
    <2> QED BY <2>1, WorkStep
<1>2. work'[p].draft \in SanctionRow
    BY <1>0 DEF Work
<1>3. ASSUME NEW d \in SanctionRow, NEW seen, DraftIsSound(d, seen) PROVE DraftIsSound(d, seen)'
    BY <1>0, <1>3, DraftKeeps
<1> QED BY <1>1, <1>2, <1>3

\* The steps together.
LEMMA Invariant == Spec => []IInv
<1>1. IInv /\ [Next]_vars => IInv'
    <2> SUFFICES ASSUME IInv, [Next]_vars PROVE IInv'
        OBVIOUS
    <2>1. StepsAreCounted' /\ IsFiniteSet(Issued')
        BY StepsStep DEF StepsAreCounted
    <2> QED BY <2>1, TypesStep, HeldStep, DraftsStep DEF IInv
<1> QED BY IInvInit, <1>1, PTL DEF Spec

-----------------------------------------------------------------------------
(* The theorems.                                                           *)

\* Rows, keys and processes keep their types.
THEOREM SanctionTypes == Spec => []TypeOK
<1>1. IInv => TypeOK
    BY DEF IInv
<1> QED BY <1>1, Invariant, PTL

\* Lifting or expiring one sanction never frees a user whom another keeps out, if
\* that one was on record when services._clear_enforcement asked: however many
\* requests issue, end and check at once, only what is committed after the
\* question can lose its key.
THEOREM OverlapAlwaysRespected == Spec => OverlapIsRespected
<1> DEFINE A == \A p \in Process : work[p].op = "drop" /\ work'[p] = Idle
                   => \A u \in User : key[u] /\ ~key'[u] => Warrants(u) \cap work[p].seen = {}
<1>1. ASSUME IInv, Next PROVE A
    <2> SUFFICES ASSUME NEW p \in Process, work[p].op = "drop", work'[p] = Idle,
                        NEW u \in User, key[u], ~key'[u]
                 PROVE  Warrants(u) \cap work[p].seen = {}
        OBVIOUS
    <2>0. TypeOK /\ SeenIsFree /\ work'[p] # work[p]
        BY <1>1 DEF IInv, Held, Idle
    <2>1. ASSUME NEW q \in Process, DropKey(q)
          PROVE  u = work[p].user
        BY <2>0, <2>1 DEF DropKey, SetWork, TypeOK
    <2>2. CASE u = work[p].user
        BY <2>0, <2>2 DEF SeenIsFree
    <2>3. CASE key' = key
        BY <2>3
    <2>4. ASSUME NEW q \in Request, Enforce(q) \/ (\E s \in Sanction : IssueWithVerdict(q, s))
          PROVE  key' = key \/ key'[u]
        BY <2>0, <2>4 DEF Enforce, IssueWithVerdict, Stored, TypeOK
    <2>5. CASE CacheStep
        BY <2>0, <2>5 DEF CacheStep, ListToRearm, KeyExpires, Rearm, RearmFails
    <2>6. CASE IssueStep
        BY <2>3, <2>4, <2>6 DEF IssueStep, ReadsLadder, Issue, VerdictCommits
    <2>7. CASE EndStep
        BY <2>1, <2>2, <2>3, <2>7
        DEF EndStep, End, EndsNothing, CheckWarrant, Fails, Lapses, Purge, ListLapsed, Lift, ReadsToEnd
    <2> QED BY <1>1, <2>5, <2>6, <2>7 DEF Next
<1>2. IInv /\ [Next]_vars => [A]_vars
    BY <1>1
<1> QED BY <1>2, Invariant, PTL DEF Spec, OverlapIsRespected

\* The ladder of services.ladder_duration is memory: whoever counts, issues, ends
\* and purges beside a request, between its unlocked count and its insert too, its
\* sanction stands above every one of its user and kind that was on record when it
\* counted, or on the last step, or lower by no more steps than rows had been
\* destroyed.  Of two requests that count side by side nothing is claimed.
THEOREM LadderAlwaysEscalates == Spec => LadderEscalates
<1> DEFINE A == \A p \in Request, s \in Sanction :
                   /\ row[s] = NoRow /\ row'[s] # NoRow /\ row'[s].step > 0
                   /\ work[p].op = "issue" /\ work'[p] # work[p]
                   => LET u == row'[s].subject
                          k == row'[s].kind
                          lost == Cardinality(Purged(u, k) \ work[p].seen)
                      IN  \/ row'[s].step = Len(Ladder[k])
                          \/ \A r \in work[p].seen : row[r].subject = u /\ row[r].kind = k
                                                       => row'[s].step + lost > row[r].step
<1>1. ASSUME IInv, Next PROVE A
    <2> SUFFICES ASSUME NEW p \in Request, NEW s \in Sanction,
                        row[s] = NoRow, row'[s] # NoRow, row'[s].step > 0,
                        work[p].op = "issue", work'[p] # work[p]
                 PROVE  Above(row'[s].subject, row'[s].kind, row'[s].step, work[p].seen)
        BY DEF Above
    <2>0. /\ row \in [Sanction -> SanctionRow] /\ work \in [Process -> Work] /\ p \in Process
          /\ work[p].draft \in SanctionRow /\ OpenTransactions
          /\ DraftIsSound(work[p].draft, work[p].seen)
        BY <1>1 DEF IInv, TypeOK, Held, DraftsAreSound, Process, Work
    <2>1. ASSUME NEW q \in Process, NEW w, SetWork(q, w) PROVE q = p
        BY <2>0, <2>1 DEF SetWork
    <2>2. ASSUME NEW t \in Sanction, NEW r, row' = [row EXCEPT ![t] = r] PROVE t = s /\ row'[s] = r
        BY <2>0, <2>2
    <2>3. ASSUME NEW st \in {"pending", "active"}, row'[s] = [work[p].draft EXCEPT !.state = st]
          PROVE  Above(row'[s].subject, row'[s].kind, row'[s].step, work[p].seen)
        <3>1. /\ row'[s].subject = work[p].draft.subject /\ row'[s].kind = work[p].draft.kind
              /\ row'[s].step = work[p].draft.step
            BY <2>0, <2>3 DEF SanctionRow
        <3> QED BY <2>0, <3>1 DEF DraftIsSound
    <2>4. ASSUME NEW q \in Request, NEW t \in Sanction, Issue(q, t)
          PROVE  row'[s] = [work[p].draft EXCEPT !.state = "active"]
        BY <2>1, <2>2, <2>4 DEF Issue, Process
    <2>5. ASSUME NEW q \in Request, NEW t \in Sanction, IssueWithVerdict(q, t)
          PROVE  row'[s] = [work[p].draft EXCEPT !.state = "pending"]
        BY <2>1, <2>2, <2>5 DEF IssueWithVerdict, Process
    <2>6. row' # row
        OBVIOUS
    <2>7. ASSUME NEW q \in Request, VerdictCommits(q) PROVE FALSE
        BY <2>0, <2>1, <2>7 DEF VerdictCommits, Process
    <2>8. ASSUME NEW q \in Process, Fails(q) \/ End(q) PROVE FALSE
        BY <2>0, <2>1, <2>6, <2>8 DEF Fails, End
    <2>9. CASE IssueStep
        BY <2>3, <2>4, <2>5, <2>6, <2>7, <2>9 DEF IssueStep, ReadsLadder, Enforce
    <2>10. CASE EndStep
        <3>1. ASSUME NEW t \in Sanction, Lapses(t) \/ Purge(t) PROVE FALSE
            BY <3>1 DEF Lapses, Purge
        <3> QED BY <2>6, <2>8, <2>10, <3>1
                DEF EndStep, EndsNothing, CheckWarrant, DropKey, ListLapsed, Lift, ReadsToEnd
    <2>11. CASE CacheStep
        BY <2>6, <2>11 DEF CacheStep, ListToRearm, KeyExpires, Rearm, RearmFails
    <2> QED BY <1>1, <2>9, <2>10, <2>11 DEF Next
<1>2. IInv /\ [Next]_vars => [A]_vars
    BY <1>1
<1> QED BY <1>2, Invariant, PTL DEF Spec, LadderEscalates

-----------------------------------------------------------------------------
(* The record.                                                             *)

\* A sanction that is still to be committed runs ahead of the clock, and is
\* somebody's.
PendingIsFresh ==
    \A s \in Sanction : row[s].state = "pending" => row[s].clock # "past" /\ row[s].subject \in User

\* An open transaction leaves its row as it wrote it: only what is on record lapses.
LEMMA PendingStep ==
    ASSUME IInv, PendingIsFresh, RowStep
    PROVE  PendingIsFresh'
<1>0. TypeOK /\ DraftsAreSound /\ row \in [Sanction -> SanctionRow]
    BY DEF IInv, TypeOK
<1> SUFFICES ASSUME NEW s \in Sanction, row'[s].state = "pending"
             PROVE  row'[s].clock # "past" /\ row'[s].subject \in User
    BY DEF PendingIsFresh
<1>1. CASE row'[s] = row[s]
    BY <1>1 DEF PendingIsFresh
<1>2. ASSUME NEW t \in Sanction, t # s, Inserted(t) \/ Settled(t) \/ Aged(t) \/ Ended(t)
      PROVE  row'[s] = row[s]
    BY <1>0, <1>2 DEF Inserted, Settled, Aged, Ended
<1>3. CASE Inserted(s)
    BY <1>0, <1>3, InsertedRow DEF InsertedFor, DraftIsSound
<1>4. ~Settled(s) /\ ~Aged(s) /\ ~Ended(s)
    BY <1>0 DEF Settled, Aged, Ended, Committed, NoRow, SanctionRow, EndState
<1> QED BY <1>1, <1>2, <1>3, <1>4 DEF RowStep

\* What is written of a row is what the record says of it.
LEMMA RowMeans ==
    ASSUME IInv, RowStep, PendingIsFresh
    PROVE  Record!Next \/ UNCHANGED <<Status, Subject>>
<1>0. /\ TypeOK /\ DraftsAreSound
      /\ row \in [Sanction -> SanctionRow] /\ row' \in [Sanction -> SanctionRow]
    BY RowsKeepType DEF IInv, TypeOK
<1> DEFINE StatusOf(r) == IF r.state \in {"absent", "pending"} THEN "none"
                          ELSE IF r.state = "active" /\ r.clock # "past" THEN "in_force" ELSE "over"
           SubjectOf(r) == IF r.state \in {"absent", "pending"} THEN None ELSE r.subject
<1>1. /\ Status = [s \in Sanction |-> StatusOf(row[s])]
      /\ Status' = [s \in Sanction |-> StatusOf(row'[s])]
    BY DEF Status, Issued, InForce
<1>2. /\ Subject = [s \in Sanction |-> SubjectOf(row[s])]
      /\ Subject' = [s \in Sanction |-> SubjectOf(row'[s])]
    BY DEF Subject, Issued
<1> HIDE DEF StatusOf, SubjectOf
<1>3. ASSUME NEW s \in Sanction, \A t \in Sanction \ {s} : row'[t] = row[t]
      PROVE  /\ Status' = [Status EXCEPT ![s] = StatusOf(row'[s])]
             /\ Subject' = [Subject EXCEPT ![s] = SubjectOf(row'[s])]
             /\ Status[s] = StatusOf(row[s]) /\ Status = [Status EXCEPT ![s] = StatusOf(row[s])]
             /\ Subject[s] = SubjectOf(row[s]) /\ Subject = [Subject EXCEPT ![s] = SubjectOf(row[s])]
    BY <1>1, <1>2, <1>3
<1>4. CASE row' = row
    BY <1>1, <1>2, <1>4
<1>5. ASSUME NEW s \in Sanction, Inserted(s) \/ Settled(s) \/ Aged(s) \/ Ended(s)
      PROVE  Record!Next \/ UNCHANGED <<Status, Subject>>
    <2>0. \A t \in Sanction \ {s} : row'[t] = row[t]
        BY <1>0, <1>5 DEF Inserted, Settled, Aged, Ended
    <2>1. ASSUME StatusOf(row'[s]) = StatusOf(row[s]), SubjectOf(row'[s]) = SubjectOf(row[s])
          PROVE  UNCHANGED <<Status, Subject>>
        BY <1>3, <2>0, <2>1
    <2>2. ASSUME StatusOf(row[s]) = "in_force", StatusOf(row'[s]) = "over",
                 SubjectOf(row'[s]) = SubjectOf(row[s])
          PROVE  Record!Next
        BY <1>3, <2>0, <2>2 DEF Record!Next, Record!End
    <2>3. ASSUME NEW u \in User, StatusOf(row[s]) = "none", StatusOf(row'[s]) = "in_force",
                 SubjectOf(row'[s]) = u
          PROVE  Record!Next
        BY <1>3, <2>0, <2>3 DEF Record!Next, Record!Issue
    <2>4. CASE Inserted(s)
        <3>1. /\ row'[s].state \in {"pending", "active"}
              /\ row'[s].clock # "past" /\ row'[s].subject \in User
            BY <1>0, <2>4, InsertedRow DEF InsertedFor, DraftIsSound
        <3>2. row[s].state = "absent"
            BY <2>4 DEF Inserted, NoRow
        <3> QED BY <2>1, <2>3, <3>1, <3>2 DEF StatusOf, SubjectOf
    <2>5. CASE Settled(s)
        <3>1. \/ row'[s].state = "absent"
              \/ /\ row'[s].state = "active" /\ row'[s].clock = row[s].clock
                 /\ row'[s].subject = row[s].subject
            BY <1>0, <2>5 DEF Settled, NoRow, SanctionRow
        <3>2. row[s].state = "pending" /\ row[s].clock # "past" /\ row[s].subject \in User
            BY <2>5 DEF Settled, PendingIsFresh
        <3> QED BY <2>1, <2>3, <3>1, <3>2 DEF StatusOf, SubjectOf
    <2>6. CASE Aged(s) \/ Ended(s)
        <3>1. /\ row[s].state \notin {"absent", "pending"} /\ row'[s].state \notin {"absent", "pending"}
              /\ row'[s].subject = row[s].subject
              /\ row'[s].clock = "past" \/ row'[s].state # "active"
            BY <1>0, <2>6 DEF Aged, Ended, Committed, SanctionRow, EndState
        <3> QED BY <2>1, <2>2, <3>1 DEF StatusOf, SubjectOf
    <2> QED BY <1>5, <2>4, <2>5, <2>6
<1> QED BY <1>4, <1>5 DEF RowStep

\* services.issue_sanction, resolve_case, lift_sanction and tasks.expire_sanctions
\* keep one record: however requests and the job interleave, fail and act on copies
\* they read long before, a sanction comes into force once, by the commit of the
\* transaction that wrote it, and is over for good after that.
THEOREM SanctionsKeepRecord == Spec => ImplementsRecord
<1>1. Init => Record!Init /\ PendingIsFresh
    BY DEF Init, Record!Init, Status, Subject, Issued, NoRow, PendingIsFresh
<1>2. IInv /\ PendingIsFresh /\ [Next]_vars => PendingIsFresh' /\ [Record!Next]_<<Status, Subject>>
    BY WritesOneRow, PendingStep, RowMeans DEF IInv
<1>3. Spec => Record!Init /\ [][Record!Next]_<<Status, Subject>>
    BY <1>1, <1>2, Invariant, PTL DEF Spec
<1> QED BY <1>3 DEF ImplementsRecord, Record!Spec

=============================================================================
