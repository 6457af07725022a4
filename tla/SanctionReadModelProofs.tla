----------------------- MODULE SanctionReadModelProofs ----------------------
(***************************************************************************)
(* The read-model of sanctions for any users, rows and page size.          *)
(*                                                                         *)
(* A user's row is right, or a fact that has not arrived outnumbers it, or *)
(* the user is waiting for a running rebuild with an empty row.  That a    *)
(* page loses nobody between two cursors is a fact about finite sets of    *)
(* numbers, proved first.                                                  *)
(***************************************************************************)
EXTENDS SanctionReadModel, FiniteSetTheorems, TLAPS

-----------------------------------------------------------------------------
(* Least and greatest elements, and pages.                                 *)

LEMMA LeastOf ==
    ASSUME NEW S, S \subseteq Nat, S # {}
    PROVE  \E x \in S : \A y \in S : x <= y
<1> DEFINE R == {ss \in Nat \X Nat : ss[1] < ss[2]}
<1>1. IsWellFoundedOn(R, Nat)
    BY NatLessThanWellFounded DEF OpToRel
<1>2. PICK x \in S : \A y \in S : <<y, x>> \notin R
    <2> HIDE DEF R
    <2> QED BY <1>1, WFMin
<1>3. \A y \in S : x <= y
    <2> TAKE y \in S
    <2>1. x \in Nat /\ y \in Nat
        OBVIOUS
    <2>2. ~(y < x)
        BY <1>2, <2>1
    <2> QED BY <2>1, <2>2
<1> QED BY <1>3

LEMMA MinIsLeast ==
    ASSUME NEW S, S \subseteq Nat, S # {}
    PROVE  Min(S) \in S /\ \A y \in S : Min(S) <= y
BY LeastOf DEF Min

\* By the size of a smallest set without a greatest element.
LEMMA GreatestOf ==
    ASSUME NEW S, S \subseteq Nat, S # {}, IsFiniteSet(S)
    PROVE  \E x \in S : \A y \in S : x >= y
<1> DEFINE Bad == {A \in SUBSET S : A # {} /\ ~\E x \in A : \A y \in A : x >= y}
           sizes == {Cardinality(A) : A \in Bad}
<1>0. \A A \in SUBSET S : IsFiniteSet(A) /\ Cardinality(A) \in Nat
    BY FS_Subset, FS_CardinalityType
<1>1. SUFFICES ASSUME Bad # {} PROVE FALSE
    OBVIOUS
<1>2. PICK A \in Bad : \A B \in Bad : Cardinality(A) <= Cardinality(B)
    <2>1. sizes \subseteq Nat /\ sizes # {}
        BY <1>0, <1>1
    <2> HIDE DEF Bad
    <2>2. \E n \in sizes : \A k \in sizes : n <= k
        <3> HIDE DEF sizes
        <3> QED BY <2>1, LeastOf
    <2> QED BY <2>2
<1>3. PICK a \in A : TRUE
    OBVIOUS
<1> DEFINE B == A \ {a}
<1>4. Cardinality(B) = Cardinality(A) - 1
    BY <1>0, FS_RemoveElement
<1>5. B # {}
    OBVIOUS
<1>6. B \notin Bad
    <2>1. Cardinality(A) \in Nat
        BY <1>0
    <2> HIDE DEF Bad, B
    <2> QED BY <1>2, <1>4, <2>1
<1>7. PICK b \in B : \A y \in B : b >= y
    BY <1>5, <1>6
<1>8. a \in Nat /\ b \in Nat /\ \A y \in A : y \in Nat
    OBVIOUS
<1>9. IF a >= b THEN \A y \in A : a >= y ELSE \A y \in A : b >= y
    BY <1>7, <1>8
<1> QED BY <1>7, <1>9

LEMMA MaxIsGreatest ==
    ASSUME NEW S, S \subseteq Nat, S # {}, IsFiniteSet(S)
    PROVE  Max(S) \in S /\ \A y \in S : Max(S) >= y
BY GreatestOf DEF Max

\* The first subjects of S, one more than fits: when it is that many the last
\* goes to the next page.  Nobody is lost between a page and its cursor.
PageOf(S) == {u \in S : Cardinality({v \in S : v < u}) <= Limit}

More(S) == Cardinality(PageOf(S)) > Limit

Kept(S) == IF More(S) THEN PageOf(S) \ {Max(PageOf(S))} ELSE PageOf(S)

LEMMA PageLosesNobody ==
    ASSUME NEW S, S \subseteq Nat, IsFiniteSet(S)
    PROVE  /\ Kept(S) \subseteq S
           /\ Kept(S) = {} => S = {}
           /\ Kept(S) # {} => /\ Max(Kept(S)) \in Kept(S)
                              /\ \A u \in Kept(S) : u <= Max(Kept(S))
                              /\ \A u \in S : u \in Kept(S) \/ (More(S) /\ u > Max(Kept(S)))
<1> DEFINE below(u) == {v \in S : v < u}
           page == {u \in S : Cardinality(below(u)) <= Limit}
           more == Cardinality(page) > Limit
           kept == IF more THEN page \ {Max(page)} ELSE page
<1>0. /\ \A A \in SUBSET S : IsFiniteSet(A) /\ Cardinality(A) \in Nat
      /\ \A A, B \in SUBSET S : A \subseteq B => Cardinality(A) <= Cardinality(B)
    BY FS_Subset, FS_CardinalityType
<1>1. Limit \in Nat /\ Limit >= 1
    BY LimitAssumption
<1>2. \A u \in S, p \in page : u < p => u \in page
    <2> TAKE u \in S, p \in page
    <2> SUFFICES ASSUME u < p PROVE Cardinality(below(u)) <= Limit
        OBVIOUS
    <2>0. p \in S
        OBVIOUS
    <2>1. below(u) \subseteq below(p) /\ below(u) \in SUBSET S /\ below(p) \in SUBSET S
        <3> SUFFICES ASSUME NEW v \in S, v < u PROVE v < p
            OBVIOUS
        <3>1. v \in Nat /\ u \in Nat /\ p \in Nat
            BY <2>0
        <3> QED BY <3>1
    <2>2. Cardinality(below(u)) <= Cardinality(below(p)) /\ Cardinality(below(p)) <= Limit
        BY <1>0, <2>1
    <2>3. Cardinality(below(u)) \in Nat /\ Cardinality(below(p)) \in Nat
        BY <1>0, <2>1
    <2> HIDE DEF below
    <2> QED BY <1>1, <2>2, <2>3
<1>3. ~more => page = S
    <2> SUFFICES ASSUME ~more, S \ page # {} PROVE FALSE
        OBVIOUS
    <2>1. PICK m \in S \ page : \A y \in S \ page : m <= y
        BY LeastOf
    <2>2. below(m) \subseteq page
        <3> SUFFICES ASSUME NEW v \in S, v < m, v \notin page PROVE FALSE
            OBVIOUS
        <3>1. v \in Nat /\ m \in Nat /\ m <= v
            BY <2>1
        <3> QED BY <3>1
    <2>3. /\ Cardinality(below(m)) <= Cardinality(page)
          /\ Cardinality(below(m)) \in Nat /\ Cardinality(page) \in Nat
        BY <1>0, <2>2
    <2> HIDE DEF below
    <2> QED BY <1>1, <2>1, <2>3
<1>4. S # {} => page # {}
    <2> SUFFICES ASSUME S # {} PROVE page # {}
        OBVIOUS
    <2>1. PICK m \in S : \A y \in S : m <= y
        BY LeastOf
    <2>2. below(m) = {}
        <3> SUFFICES ASSUME NEW v \in S, v < m PROVE FALSE
            OBVIOUS
        <3>1. v \in Nat /\ m \in Nat /\ m <= v
            BY <2>1
        <3> QED BY <3>1
    <2>3. Cardinality(below(m)) = 0
        BY <2>2, FS_EmptySet
    <2> HIDE DEF below
    <2> QED BY <1>1, <2>3
<1>5. page # {} => Max(page) \in page /\ \A y \in page : Max(page) >= y
    <2>1. page \subseteq Nat /\ IsFiniteSet(page)
        BY <1>0
    <2> HIDE DEF page
    <2> QED BY <2>1, MaxIsGreatest
<1>6. more => kept # {}
    <2> SUFFICES ASSUME more, page \subseteq {Max(page)} PROVE FALSE
        OBVIOUS
    <2>1. Cardinality({Max(page)}) = 1 /\ IsFiniteSet({Max(page)})
        BY FS_Singleton
    <2>2. Cardinality(page) <= 1 /\ Cardinality(page) \in Nat
        BY <1>0, <2>1, FS_Subset
    <2> HIDE DEF page
    <2> QED BY <1>1, <2>2
<1>7. kept # {} => Max(kept) \in kept /\ \A y \in kept : Max(kept) >= y
    <2>1. kept \subseteq Nat /\ IsFiniteSet(kept)
        BY <1>0
    <2> HIDE DEF kept
    <2> QED BY <2>1, MaxIsGreatest
<1>8. kept = {} => S = {}
    BY <1>4, <1>6
<1>9. ASSUME kept # {}, NEW u \in S, u \notin kept PROVE more /\ u > Max(kept)
    <2>1. more
        BY <1>3, <1>9
    <2>2. /\ page # {} /\ Max(page) \in page /\ \A y \in page : Max(page) >= y
          /\ Max(kept) \in page /\ Max(kept) # Max(page)
        BY <1>5, <1>7, <1>9, <2>1
    <2>3. u \in Nat /\ Max(kept) \in Nat /\ Max(page) \in Nat /\ Max(kept) \in S
        BY <2>2
    <2>4. CASE u \notin page
        <3>1. ~(u < Max(kept)) /\ u # Max(kept)
            BY <1>2, <2>2, <2>4
        <3> HIDE DEF page, kept
        <3> QED BY <2>1, <2>3, <3>1
    <2>5. CASE u \in page
        <3>1. u = Max(page)
            BY <1>9, <2>1, <2>5
        <3>2. Max(page) >= Max(kept)
            BY <2>2
        <3> QED BY <2>1, <2>2, <2>3, <3>1, <3>2
    <2> QED BY <2>4, <2>5
<1>a. More(S) = more /\ Kept(S) = kept
    BY DEF More, Kept, PageOf
<1> HIDE DEF more
<1>10. kept \subseteq S
    OBVIOUS
<1> HIDE DEF kept
<1>11. /\ kept \subseteq S
       /\ kept = {} => S = {}
       /\ kept # {} => /\ Max(kept) \in kept
                       /\ \A u \in kept : u <= Max(kept)
                       /\ \A u \in S : u \in kept \/ (more /\ u > Max(kept))
    <2>1. kept # {} => \A u \in kept : u <= Max(kept)
        <3> SUFFICES ASSUME kept # {}, NEW u \in kept PROVE u <= Max(kept)
            OBVIOUS
        <3>1. u \in Nat /\ Max(kept) \in Nat /\ Max(kept) >= u
            BY <1>7, <1>10
        <3> QED BY <3>1
    <2> QED BY <1>7, <1>8, <1>9, <1>10, <2>1
<1> QED BY <1>a, <1>11

-----------------------------------------------------------------------------
(* Types, and what the parts of a rebuild have to do with each other.      *)

\* The change of a transaction is of a row or of a guest, and stamped.
ChangeOK(x) ==
    /\ x.user \in User /\ x.seq \in Stamp /\ x.seq >= 1
    /\ \/ x.kind \in {"issue", "end"} /\ x.row \in Sanction /\ x.from = None
       \/ x.kind = "merge" /\ x.row = None /\ x.from \in User /\ x.from # x.user

Changing ==
    \A w \in Writer : writing[w] # Idle =>
        /\ ChangeOK(writing[w])
        /\ writing[w].kind = "end" => row[writing[w].row].state # "absent"

RowOK(r) ==
    IF r.state = "absent" THEN r.subject = None ELSE r.subject \in User /\ r.updated_at >= 1

Timed == (\A s \in Sanction : RowOK(row[s])) /\ (\A f \in facts : f.seq >= 1)

\* One row of the export per user, and those still to read are before the cursor.
Paging ==
    /\ IF rebuild.step \in {"rows", "seq"} THEN rebuild.todo # {} ELSE rebuild.todo = {}
    /\ rebuild.step \in {"idle", "page"} => rebuild.rows = {}
    /\ \A u \in rebuild.todo : u <= rebuild.cursor
    /\ \A e \in rebuild.rows : e.user \notin rebuild.todo /\ e.user <= rebuild.cursor
    /\ \A e, d \in rebuild.rows : e.user = d.user => e = d

TInv == TypeOK /\ Changing /\ Timed /\ Paging

LEMMA Numerals ==
    /\ User \subseteq Nat /\ 0 \notin User /\ None \notin User /\ None \notin Sanction
    /\ IsFiniteSet(User)
    /\ Stamp \subseteq Nat /\ 0 \in Stamp /\ MaxClock \in Nat
    /\ \A S \in SUBSET Stamp : IsFiniteSet(S)
<1>1. MaxClock \in Nat /\ Stamp = 0..MaxClock
    BY LimitAssumption DEF Stamp
<1>2. IsFiniteSet(Stamp)
    BY <1>1, FS_Interval
<1>3. \A S \in SUBSET Stamp : IsFiniteSet(S)
    BY <1>2, FS_Subset
<1> QED BY <1>1, <1>3, UserAssumption

LEMMA BlankTypes ==
    /\ NoSanction \in SanctionRow /\ Idle \in Change /\ NoRow \in ModelRow
    /\ NoRebuild \in RebuildRecord
BY Numerals DEF NoSanction, SanctionRow, Idle, Change, NoRow, ModelRow, NoRebuild, RebuildRecord

\* The newest stamp of a snapshot is that of one of its rows, or zero.
LEMMA NewestMeans ==
    ASSUME TInv, NEW u \in User
    PROVE  /\ Newest(u) \in Stamp
           /\ Newest(u) = 0 \/ \E s \in Of(u) : Newest(u) = row[s].updated_at
           /\ Snapshot(u) # {} => Newest(u) >= 1
<1> DEFINE S == {row[s].updated_at : s \in Snapshot(u)} \cup {0}
<1>1. \A s \in Snapshot(u) : s \in Sanction /\ s \in Of(u) /\ row[s].state = "active"
    BY DEF Snapshot, Of, InForce
<1>2. \A s \in Snapshot(u) : row[s].updated_at \in Stamp /\ row[s].updated_at >= 1
    BY <1>1 DEF TInv, TypeOK, SanctionRow, Timed, RowOK
<1>3. S \subseteq Stamp /\ S \subseteq Nat /\ S # {} /\ IsFiniteSet(S)
    BY <1>2, Numerals
<1>4. Max(S) \in S /\ \A y \in S : Max(S) >= y
    <2> HIDE DEF S
    <2> QED BY <1>3, MaxIsGreatest
<1>5. Newest(u) = Max(S)
    BY DEF Newest
<1>6. Snapshot(u) # {} => Newest(u) >= 1
    <2> SUFFICES ASSUME NEW s \in Snapshot(u) PROVE Newest(u) >= 1
        OBVIOUS
    <2>1. Max(S) >= row[s].updated_at /\ row[s].updated_at >= 1
        BY <1>2, <1>4
    <2>2. Max(S) \in Nat /\ row[s].updated_at \in Nat
        BY <1>2, <1>3, <1>4, Numerals
    <2> HIDE DEF S
    <2> QED BY <1>5, <2>1, <2>2
<1> QED BY <1>1, <1>3, <1>4, <1>5, <1>6

\* What a commit does to the rows, one at a time.
LEMMA WrittenMeans ==
    ASSUME TInv, NEW w \in Writer, writing[w] # Idle
    PROVE  /\ Written(w) \in [Sanction -> SanctionRow]
           /\ \A s \in Sanction : RowOK(Written(w)[s])
           /\ \A s \in Announced(w) :
                 s \in Sanction /\ Written(w)[s].updated_at = writing[w].seq
<1> DEFINE x == writing[w]
<1>0. ChangeOK(x) /\ row \in [Sanction -> SanctionRow] /\ \A s \in Sanction : RowOK(row[s])
    BY DEF TInv, Changing, Timed, TypeOK
<1>1. CASE x.kind = "issue"
    <2> DEFINE r == [NoSanction EXCEPT !.state = "active", !.subject = x.user, !.updated_at = x.seq]
    <2>1. r \in SanctionRow
        BY <1>0 DEF NoSanction, ChangeOK, SanctionRow
    <2>2. RowOK(r) /\ r.updated_at = x.seq
        BY <1>0 DEF NoSanction, ChangeOK, RowOK
    <2>3. Written(w) = [row EXCEPT ![x.row] = r] /\ Announced(w) = {x.row} /\ x.row \in Sanction
        BY <1>0, <1>1 DEF Written, Announced, ChangeOK
    <2> HIDE DEF r, x
    <2>4. Written(w)[x.row] = r /\ \A s \in Sanction \ {x.row} : Written(w)[s] = row[s]
        BY <1>0, <2>3
    <2>5. Written(w) \in [Sanction -> SanctionRow]
        BY <1>0, <2>1, <2>3
    <2> QED BY <1>0, <2>2, <2>3, <2>4, <2>5 DEF x
<1>2. CASE x.kind = "end"
    <2> DEFINE r == [row[x.row] EXCEPT !.state = "ended", !.updated_at = x.seq]
    <2>1. /\ x.row \in Sanction /\ row[x.row] \in SanctionRow /\ RowOK(row[x.row])
          /\ row[x.row].state # "absent"
        BY <1>0, <1>2 DEF ChangeOK, TInv, Changing
    <2>2. r \in SanctionRow /\ r.updated_at = x.seq /\ r.subject = row[x.row].subject /\ r.state = "ended"
        BY <1>0, <2>1 DEF ChangeOK, SanctionRow
    <2>3. RowOK(r)
        BY <1>0, <2>1, <2>2 DEF ChangeOK, RowOK
    <2>4. Written(w) = [row EXCEPT ![x.row] = r] /\ Announced(w) = {x.row}
        <3>1. Written(w) = [row EXCEPT ![x.row].state = "ended", ![x.row].updated_at = x.seq]
            BY <1>2 DEF Written
        <3>2. Announced(w) = {x.row}
            BY <1>2 DEF Announced
        <3> QED BY <1>0, <2>1, <3>1, <3>2
    <2> HIDE DEF r, x
    <2>5. Written(w)[x.row] = r /\ \A s \in Sanction \ {x.row} : Written(w)[s] = row[s]
        BY <1>0, <2>1, <2>4
    <2>6. Written(w) \in [Sanction -> SanctionRow]
        BY <1>0, <2>2, <2>4
    <2> QED BY <1>0, <2>1, <2>2, <2>3, <2>4, <2>5, <2>6 DEF x
<1>3. CASE x.kind = "merge"
    <2> DEFINE f == [s \in Sanction |-> IF row[s].subject = x.from THEN Carry(row[s], x.user, x.seq)
                                      ELSE row[s]]
    <2>1. Written(w) = f /\ Announced(w) = {s \in Of(x.from) : row[s].state = "active"}
        BY <1>3 DEF Written, Announced
    <2>2. ASSUME NEW s \in Sanction
          PROVE  f[s] \in SanctionRow /\ RowOK(f[s])
                 /\ (row[s].subject = x.from => f[s].updated_at = x.seq)
        <3>1. row[s] \in SanctionRow /\ RowOK(row[s]) /\ x.from \in User
            BY <1>0, <1>3 DEF ChangeOK
        <3>2. row[s].subject = x.from => row[s].state # "absent"
            BY <3>1, Numerals DEF RowOK
        <3>3. /\ Carry(row[s], x.user, x.seq) \in SanctionRow
              /\ Carry(row[s], x.user, x.seq).state = row[s].state
              /\ Carry(row[s], x.user, x.seq).subject = x.user
              /\ Carry(row[s], x.user, x.seq).updated_at = x.seq
            BY <1>0, <3>1 DEF ChangeOK, SanctionRow, Carry
        <3> HIDE DEF x
        <3> QED BY <1>0, <3>1, <3>2, <3>3 DEF RowOK, ChangeOK
    <2> HIDE DEF x
    <2>3. f \in [Sanction -> SanctionRow]
        BY <2>2
    <2> HIDE DEF f
    <2> QED BY <2>1, <2>2, <2>3 DEF x, Of
<1> QED BY <1>0, <1>1, <1>2, <1>3 DEF ChangeOK

\* A transaction in flight.
LEMMA StampsStep ==
    ASSUME TInv, NEW w \in Writer, Stamps(w), NEW x, writing' = [writing EXCEPT ![w] = x],
           x \in Change, ChangeOK(x), x.kind = "end" => row[x.row].state # "absent",
           UNCHANGED <<row, facts, seen, model, rebuild, steady, excused>>
    PROVE  TInv'
<1>1. clock' \in Stamp
    BY Numerals, LimitAssumption DEF Stamps, TInv, TypeOK, Stamp
<1>2. TypeOK'
    BY <1>1 DEF TInv, TypeOK
<1>3. Changing'
    BY DEF TInv, TypeOK, Changing
<1>4. Timed' /\ Paging'
    BY DEF TInv, Timed, Paging
<1> QED BY <1>2, <1>3, <1>4 DEF TInv

LEMMA OwnerStepTypes ==
    ASSUME TInv, OwnerStep
    PROVE  TInv'
<1>0. ASSUME NEW w \in Writer, Stamps(w) PROVE clock' \in Stamp /\ clock' >= 1
    BY <1>0, LimitAssumption DEF Stamps, TInv, TypeOK, Stamp
<1>a. \A s \in Sanction : row[s] \in SanctionRow /\ RowOK(row[s])
    BY DEF TInv, TypeOK, Timed
<1>1. ASSUME NEW w \in Writer, NEW s \in Sanction, NEW u \in User, Issues(w, s, u) PROVE TInv'
    <2> DEFINE x == [kind |-> "issue", row |-> s, user |-> u, from |-> None, seq |-> clock']
    <2>1. /\ Stamps(w) /\ writing' = [writing EXCEPT ![w] = x]
          /\ UNCHANGED <<row, facts, seen, model, rebuild, steady, excused>>
        BY <1>1 DEF Issues
    <2>2. x \in Change /\ ChangeOK(x) /\ x.kind = "issue"
        BY <1>0, <2>1 DEF Change, ChangeOK
    <2> HIDE DEF x
    <2> QED BY <2>1, <2>2, StampsStep
<1>2. ASSUME NEW w \in Writer, NEW s \in Sanction, Ends(w, s) PROVE TInv'
    <2> DEFINE x == [kind |-> "end", row |-> s, user |-> row[s].subject, from |-> None, seq |-> clock']
    <2>1. /\ Stamps(w) /\ writing' = [writing EXCEPT ![w] = x] /\ row[s].state = "active"
          /\ UNCHANGED <<row, facts, seen, model, rebuild, steady, excused>>
        BY <1>2 DEF Ends
    <2>2. x \in Change /\ ChangeOK(x) /\ x.row = s
        BY <1>0, <1>a, <2>1 DEF Change, ChangeOK, RowOK
    <2>3. row[x.row].state # "absent"
        BY <2>1, <2>2
    <2> HIDE DEF x
    <2> QED BY <2>1, <2>2, <2>3, StampsStep
<1>3. ASSUME NEW w \in Writer, NEW g \in User, NEW u \in User, Merges(w, g, u) PROVE TInv'
    <2> DEFINE x == [kind |-> "merge", row |-> None, user |-> u, from |-> g, seq |-> clock']
    <2>1. /\ Stamps(w) /\ writing' = [writing EXCEPT ![w] = x] /\ g # u
          /\ UNCHANGED <<row, facts, seen, model, rebuild, steady, excused>>
        BY <1>3 DEF Merges
    <2>2. x \in Change /\ ChangeOK(x) /\ x.kind = "merge"
        BY <1>0, <2>1 DEF Change, ChangeOK
    <2> HIDE DEF x
    <2> QED BY <2>1, <2>2, StampsStep
<1>4. ASSUME NEW w \in Writer, RollsBack(w) PROVE TInv'
    <2>1. /\ writing' = [writing EXCEPT ![w] = Idle]
          /\ UNCHANGED <<row, clock, facts, seen, model, rebuild, steady, excused>>
        BY <1>4 DEF RollsBack
    <2>2. TypeOK'
        BY <2>1, BlankTypes DEF TInv, TypeOK
    <2>3. Changing' /\ Timed' /\ Paging'
        BY <2>1 DEF TInv, TypeOK, Changing, Timed, Paging
    <2> QED BY <2>2, <2>3 DEF TInv
<1>5. ASSUME NEW w \in Writer, Commits(w) PROVE TInv'
    <2>0. writing[w] # Idle /\ ChangeOK(writing[w])
        BY <1>5 DEF Commits, TInv, Changing
    <2>1. /\ row' = Written(w) /\ writing' = [writing EXCEPT ![w] = Idle]
          /\ facts' = facts \cup
                 {[user |-> writing[w].user, seq |-> Written(w)[s].updated_at] : s \in Announced(w)}
          /\ excused' = excused \cup Unhealed(w)
          /\ steady' \subseteq steady
          /\ UNCHANGED <<clock, seen, model, rebuild>>
        BY <1>5 DEF Commits, StillSteady
    <2>2. /\ Written(w) \in [Sanction -> SanctionRow]
          /\ \A s \in Sanction : RowOK(Written(w)[s])
          /\ \A s \in Announced(w) : Written(w)[s].updated_at = writing[w].seq
        BY <2>0, WrittenMeans
    <2>3. \A f \in facts' : f \in facts \/ (f = [user |-> writing[w].user, seq |-> writing[w].seq])
        BY <2>1, <2>2
    <2>4. [user |-> writing[w].user, seq |-> writing[w].seq] \in Fact
        BY <2>0 DEF ChangeOK, Fact
    <2>5. Unhealed(w) \subseteq User
        BY <2>0 DEF Unhealed, ChangeOK
    <2>6. TypeOK'
        BY <2>1, <2>2, <2>3, <2>4, <2>5, BlankTypes DEF TInv, TypeOK
    <2>7. \A s \in Sanction : row[s].state # "absent" => row'[s].state # "absent"
        <3> SUFFICES ASSUME NEW s \in Sanction, row[s].state # "absent" PROVE Written(w)[s].state # "absent"
            BY <2>1
        <3>1. CASE writing[w].kind = "issue"
            BY <2>0, <3>1 DEF Written, NoSanction, TInv, TypeOK
        <3>2. CASE writing[w].kind = "end"
            BY <2>0, <3>2, <1>a DEF Written, TInv, TypeOK, SanctionRow
        <3>3. CASE writing[w].kind = "merge"
            BY <2>0, <3>3, <1>a DEF Written, Carry, SanctionRow
        <3> QED BY <2>0, <3>1, <3>2, <3>3 DEF ChangeOK
    <2>8. Changing'
        <3> SUFFICES ASSUME NEW v \in Writer, writing'[v] # Idle
                     PROVE  ChangeOK(writing'[v]) /\ (writing'[v].kind = "end" => row'[writing'[v].row].state # "absent")
            BY DEF Changing
        <3>1. writing'[v] = writing[v] /\ writing[v] # Idle
            BY <2>1 DEF TInv, TypeOK
        <3>2. ChangeOK(writing[v]) /\ (writing[v].kind = "end" => row[writing[v].row].state # "absent")
            BY <3>1 DEF TInv, Changing
        <3>3. writing[v].kind = "end" => writing[v].row \in Sanction
            BY <3>2 DEF ChangeOK
        <3> QED BY <2>7, <3>1, <3>2, <3>3
    <2>9. Timed' /\ Paging'
        <3>1. \A f \in facts' : f.seq >= 1
            BY <2>0, <2>3 DEF TInv, Timed, ChangeOK
        <3> QED BY <2>1, <2>2, <3>1 DEF TInv, Timed, Paging
    <2> QED BY <2>6, <2>8, <2>9 DEF TInv
<1>6. ASSUME NEW s \in Sanction, Lapses(s) PROVE TInv'
    <2> DEFINE r == [row[s] EXCEPT !.lapsed = TRUE]
    <2>1. /\ row' = [row EXCEPT ![s] = r] /\ steady' \subseteq steady
          /\ UNCHANGED <<clock, writing, facts, seen, model, rebuild, excused>>
        BY <1>6 DEF Lapses, StillSteady, TInv, TypeOK
    <2>2. r \in SanctionRow /\ RowOK(r) /\ r.state = row[s].state
        BY <1>a DEF SanctionRow, RowOK
    <2> HIDE DEF r
    <2>3. TypeOK'
        BY <2>1, <2>2 DEF TInv, TypeOK
    <2>4. Changing' /\ Timed' /\ Paging'
        BY <2>1, <2>2 DEF TInv, TypeOK, Changing, ChangeOK, Timed, Paging
    <2> QED BY <2>3, <2>4 DEF TInv
<1>7. ASSUME NEW s \in Sanction, Purges(s) PROVE TInv'
    <2> DEFINE r == [row[s] EXCEPT !.state = "purged"]
    <2>1. /\ row[s].state = "ended"
          /\ row' = [row EXCEPT ![s] = r] /\ steady' \subseteq steady
          /\ UNCHANGED <<clock, writing, facts, seen, model, rebuild, excused>>
        BY <1>7 DEF Purges, StillSteady, TInv, TypeOK
    <2>2. r \in SanctionRow /\ RowOK(r) /\ r.state # "absent"
        BY <1>a, <2>1 DEF SanctionRow, RowOK
    <2> HIDE DEF r
    <2>3. TypeOK'
        BY <2>1, <2>2 DEF TInv, TypeOK
    <2>4. Changing' /\ Timed' /\ Paging'
        BY <2>1, <2>2 DEF TInv, TypeOK, Changing, ChangeOK, Timed, Paging
    <2> QED BY <2>3, <2>4 DEF TInv
<1> QED BY <1>1, <1>2, <1>3, <1>4, <1>5, <1>6, <1>7 DEF OwnerStep

\* A page of the export: who is on it, and who is left for the next.
LEMMA ListsMeans ==
    ASSUME TInv, ListsPage
    PROVE  /\ rebuild.step = "page"
           /\ UNCHANGED <<row, clock, writing, facts, seen, model, steady, excused>>
           /\ \/ /\ rebuild' = NoRebuild
                 /\ \A u \in User : u > rebuild.cursor => Snapshot(u) = {}
              \/ \E kept \in SUBSET User, more \in BOOLEAN, last \in User :
                    /\ kept # {} /\ \A u \in kept : u <= last
                    /\ rebuild' = [step |-> "rows", cursor |-> last, more |-> more, todo |-> kept,
                                   half |-> {}, rows |-> {}]
                    /\ \A u \in User : u > rebuild.cursor /\ Snapshot(u) # {} =>
                          u \in kept \/ (more /\ u > last)
<1> DEFINE S == {u \in User : u > rebuild.cursor /\ Snapshot(u) # {}}
           more == More(S)
           kept == Kept(S)
<1>1. S \subseteq Nat /\ IsFiniteSet(S) /\ S \subseteq User
    BY Numerals, FS_Subset
<1>2. /\ kept \subseteq S
      /\ kept = {} => S = {}
      /\ kept # {} => /\ Max(kept) \in kept
                      /\ \A u \in kept : u <= Max(kept)
                      /\ \A u \in S : u \in kept \/ (more /\ u > Max(kept))
    <2> HIDE DEF S
    <2> QED BY <1>1, PageLosesNobody
<1>3. Page(rebuild.cursor) = PageOf(S)
    BY DEF Page, PageOf
<1>4. /\ rebuild.step = "page"
      /\ rebuild' = IF kept = {} THEN NoRebuild
                    ELSE [NoRebuild EXCEPT !.step = "rows", !.todo = kept, !.more = more,
                                           !.cursor = Max(kept)]
      /\ UNCHANGED <<row, clock, writing, facts, seen, model, steady, excused>>
    <2> HIDE DEF S
    <2> QED BY <1>3 DEF ListsPage, More, Kept
<1>5. more \in BOOLEAN
    BY DEF More
<1>6. \A u \in User : u \in S <=> u > rebuild.cursor /\ Snapshot(u) # {}
    OBVIOUS
<1> HIDE DEF S, more, kept
<1>7. CASE kept = {}
    BY <1>2, <1>4, <1>6, <1>7
<1>8. CASE kept # {}
    <2>1. rebuild' = [step |-> "rows", cursor |-> Max(kept), more |-> more, todo |-> kept,
                      half |-> {}, rows |-> {}]
        BY <1>4, <1>8 DEF NoRebuild
    <2>2. kept \in SUBSET User /\ Max(kept) \in User
        BY <1>1, <1>2, <1>8
    <2> QED BY <1>2, <1>4, <1>5, <1>6, <1>8, <2>1, <2>2
<1> QED BY <1>7, <1>8

\* The row of a page that is read next, and the row it gives.
LEMMA ReadsSeqMeans ==
    ASSUME TInv, ReadsSeq
    PROVE  \E u \in rebuild.todo : \E e \in ExportRow :
              /\ rebuild.step = "seq"
              /\ e.user = u /\ e.sanctions = rebuild.half /\ e.seq = Newest(u)
              /\ e.torn <=> Snapshot(u) # rebuild.half
              /\ u = Min(rebuild.todo)
              /\ rebuild' = [step |-> IF rebuild.todo = {u} THEN "upsert" ELSE "rows",
                             cursor |-> rebuild.cursor, more |-> rebuild.more,
                             todo |-> rebuild.todo \ {u}, half |-> {}, rows |-> rebuild.rows \cup {e}]
              /\ UNCHANGED <<row, clock, writing, facts, seen, model, steady, excused>>
<1> DEFINE u == Min(rebuild.todo)
           e == [user |-> u, sanctions |-> rebuild.half, seq |-> Newest(u), torn |-> Snapshot(u) # rebuild.half]
<1>0. rebuild \in RebuildRecord
    BY DEF TInv, TypeOK
<1>1. rebuild.step = "seq" /\ rebuild.todo # {} /\ rebuild.todo \subseteq User
    BY <1>0 DEF ReadsSeq, TInv, Paging, RebuildRecord
<1>2. u \in rebuild.todo /\ u \in User
    BY <1>1, Numerals, MinIsLeast
<1>3. e \in ExportRow
    BY <1>0, <1>2, NewestMeans DEF ExportRow, RebuildRecord
<1>4. /\ rebuild' = [rebuild EXCEPT !.step = IF rebuild.todo = {u} THEN "upsert" ELSE "rows",
                                    !.todo = rebuild.todo \ {u}, !.half = {}, !.rows = rebuild.rows \cup {e}]
      /\ UNCHANGED <<row, clock, writing, facts, seen, model, steady, excused>>
    BY DEF ReadsSeq
<1>5. e.user = u /\ e.sanctions = rebuild.half /\ e.seq = Newest(u) /\ (e.torn <=> Snapshot(u) # rebuild.half)
    OBVIOUS
<1> HIDE DEF e, u
<1>6. rebuild' = [step |-> IF rebuild.todo = {u} THEN "upsert" ELSE "rows",
                  cursor |-> rebuild.cursor, more |-> rebuild.more,
                  todo |-> rebuild.todo \ {u}, half |-> {}, rows |-> rebuild.rows \cup {e}]
    BY <1>0, <1>4 DEF RebuildRecord
<1> QED BY <1>1, <1>2, <1>3, <1>4, <1>5, <1>6 DEF u

\* One row of the export put into the table.
LEMMA UpsertsMeans ==
    ASSUME TInv, NEW e \in rebuild.rows, Upserts(e)
    PROVE  /\ rebuild.step = "upsert" /\ e \in ExportRow
           /\ UNCHANGED <<row, clock, writing, facts, seen, steady>>
           /\ \/ /\ ~(e.seq < model[e.user].seq)
                 /\ model' = [model EXCEPT ![e.user] = [sanctions |-> e.sanctions, seq |-> e.seq]]
                 /\ excused' = IF e.torn THEN excused \cup {e.user} ELSE excused
              \/ /\ e.seq <= model[e.user].seq
                 /\ UNCHANGED <<model, excused>>
           /\ \/ /\ rebuild.rows # {e}
                 /\ rebuild' = [step |-> "upsert", cursor |-> rebuild.cursor, more |-> rebuild.more,
                                todo |-> rebuild.todo, half |-> rebuild.half, rows |-> rebuild.rows \ {e}]
              \/ /\ rebuild.rows = {e} /\ rebuild.more
                 /\ rebuild' = [step |-> "page", cursor |-> rebuild.cursor, more |-> FALSE,
                                todo |-> {}, half |-> {}, rows |-> {}]
              \/ /\ rebuild.rows = {e} /\ ~rebuild.more
                 /\ rebuild' = NoRebuild
<1>0. rebuild \in RebuildRecord
    BY DEF TInv, TypeOK
<1>1. rebuild.step = "upsert" /\ e \in ExportRow /\ rebuild.more \in BOOLEAN
    BY <1>0 DEF Upserts, RebuildRecord
<1>2. /\ UNCHANGED <<row, clock, writing, facts, seen, steady>>
      /\ \/ /\ ~(e.seq < model[e.user].seq)
            /\ model' = [model EXCEPT ![e.user] = [sanctions |-> e.sanctions, seq |-> e.seq]]
            /\ excused' = IF e.torn THEN excused \cup {e.user} ELSE excused
         \/ /\ e.seq <= model[e.user].seq
            /\ UNCHANGED <<model, excused>>
    BY DEF Upserts, Outdated
<1>3. rebuild' = IF rebuild.rows \ {e} # {} THEN [rebuild EXCEPT !.rows = rebuild.rows \ {e}]
                 ELSE IF rebuild.more THEN [NoRebuild EXCEPT !.step = "page", !.cursor = rebuild.cursor]
                 ELSE NoRebuild
    BY DEF Upserts
<1>4. CASE rebuild.rows # {e}
    <2>1. rebuild' = [rebuild EXCEPT !.rows = rebuild.rows \ {e}]
        BY <1>3, <1>4
    <2>2. rebuild' = [step |-> "upsert", cursor |-> rebuild.cursor, more |-> rebuild.more,
                      todo |-> rebuild.todo, half |-> rebuild.half, rows |-> rebuild.rows \ {e}]
        BY <1>0, <1>1, <2>1 DEF RebuildRecord
    <2> QED BY <1>1, <1>2, <1>4, <2>2
<1>5. CASE rebuild.rows = {e} /\ rebuild.more
    <2>1. rebuild' = [step |-> "page", cursor |-> rebuild.cursor, more |-> FALSE,
                      todo |-> {}, half |-> {}, rows |-> {}]
        BY <1>3, <1>5 DEF NoRebuild
    <2> QED BY <1>1, <1>2, <1>5, <2>1
<1>6. CASE rebuild.rows = {e} /\ ~rebuild.more
    BY <1>1, <1>2, <1>3, <1>6
<1> QED BY <1>4, <1>5, <1>6

\* Steps that leave the tables and the transactions of the owner alone.
LEMMA RunnerTypes ==
    ASSUME TInv, UNCHANGED <<row, clock, writing, facts>>,
           seen' \subseteq facts, model' \in [User -> ModelRow], rebuild' \in RebuildRecord,
           steady' \subseteq User, excused' \subseteq User, Paging'
    PROVE  TInv'
BY DEF TInv, TypeOK, Changing, Timed

LEMMA RunnerStepTypes ==
    ASSUME TInv, RunnerStep
    PROVE  TInv'
<1>0. /\ rebuild \in RebuildRecord /\ model \in [User -> ModelRow] /\ seen \subseteq facts
      /\ facts \subseteq Fact /\ steady \subseteq User /\ excused \subseteq User /\ Paging
    BY DEF TInv, TypeOK
<1>a. \A u \in User : Snapshot(u) \subseteq Sanction
    BY DEF Snapshot, Of
<1>1. ASSUME NEW f \in facts, Delivers(f) PROVE TInv'
    <2>1. f \in Fact /\ f.user \in User
        BY <1>0 DEF Fact
    <2>2. [sanctions |-> Apply(f), seq |-> f.seq] \in ModelRow
        BY <1>a, <2>1 DEF Apply, ModelRow, Fact
    <2>3. /\ model' \in [User -> ModelRow] /\ excused' \subseteq User /\ seen' \subseteq facts
          /\ UNCHANGED <<row, clock, writing, facts, rebuild, steady>>
        BY <1>0, <1>1, <2>1, <2>2 DEF Delivers
    <2>4. Paging'
        BY <1>0, <2>3 DEF Paging
    <2> QED BY <1>0, <2>3, <2>4, RunnerTypes
<1>2. CASE Rebuilds
    <2>1. rebuild' = [step |-> "page", cursor |-> 0, more |-> FALSE, todo |-> {}, half |-> {}, rows |-> {}]
        BY <1>2 DEF Rebuilds, NoRebuild
    <2>2. rebuild' \in RebuildRecord /\ Paging'
        BY <2>1 DEF RebuildRecord, Paging
    <2>3. /\ model' \in [User -> ModelRow] /\ steady' \subseteq User
          /\ UNCHANGED <<row, clock, writing, facts, seen, excused>>
        BY <1>2, BlankTypes DEF Rebuilds
    <2> QED BY <1>0, <2>2, <2>3, RunnerTypes
<1>3. CASE ListsPage
    <2>1. rebuild' \in RebuildRecord /\ Paging'
        <3>1. CASE rebuild' = NoRebuild
            BY <3>1, BlankTypes DEF Paging, NoRebuild
        <3>2. ASSUME NEW kept \in SUBSET User, NEW more \in BOOLEAN, NEW last \in User,
                     kept # {}, \A u \in kept : u <= last,
                     rebuild' = [step |-> "rows", cursor |-> last, more |-> more, todo |-> kept,
                                 half |-> {}, rows |-> {}]
              PROVE  rebuild' \in RebuildRecord /\ Paging'
            BY <3>2 DEF Paging, RebuildRecord
        <3> QED BY <1>3, <3>1, <3>2, ListsMeans
    <2> QED BY <1>0, <1>3, <2>1, ListsMeans, RunnerTypes
<1>4. CASE ReadsSnapshot
    <2>1. /\ rebuild.step = "rows"
          /\ rebuild' = [rebuild EXCEPT !.step = "seq", !.half = Snapshot(Min(rebuild.todo))]
          /\ UNCHANGED <<row, clock, writing, facts, seen, model, steady, excused>>
        BY <1>4 DEF ReadsSnapshot
    <2>2. Snapshot(Min(rebuild.todo)) \subseteq Sanction
        BY DEF Snapshot, Of
    <2>3. rebuild' \in RebuildRecord /\ Paging'
        BY <1>0, <2>1, <2>2 DEF RebuildRecord, Paging
    <2> QED BY <1>0, <2>1, <2>3, RunnerTypes
<1>5. CASE ReadsSeq
    <2>1. PICK u \in rebuild.todo, e \in ExportRow :
             /\ rebuild.step = "seq" /\ e.user = u
             /\ rebuild' = [step |-> IF rebuild.todo = {u} THEN "upsert" ELSE "rows",
                            cursor |-> rebuild.cursor, more |-> rebuild.more,
                            todo |-> rebuild.todo \ {u}, half |-> {}, rows |-> rebuild.rows \cup {e}]
             /\ UNCHANGED <<row, clock, writing, facts, seen, model, steady, excused>>
        BY <1>5, ReadsSeqMeans
    <2>2. rebuild' \in RebuildRecord
        BY <1>0, <2>1 DEF RebuildRecord
    <2>3. Paging'
        BY <1>0, <2>1 DEF Paging
    <2> QED BY <1>0, <2>1, <2>2, <2>3, RunnerTypes
<1>6. ASSUME NEW e \in rebuild.rows, Upserts(e) PROVE TInv'
    <2>1. e \in ExportRow /\ e.user \in User /\ e.sanctions \subseteq Sanction /\ e.seq \in Stamp
        BY <1>6, UpsertsMeans DEF ExportRow
    <2>2. [sanctions |-> e.sanctions, seq |-> e.seq] \in ModelRow
        BY <2>1 DEF ModelRow
    <2>3. /\ model' \in [User -> ModelRow] /\ excused' \subseteq User
          /\ UNCHANGED <<row, clock, writing, facts, seen, steady>>
        BY <1>0, <1>6, <2>1, <2>2, UpsertsMeans
    <2>4. CASE rebuild' = NoRebuild
        <3>1. Paging'
            BY <2>4 DEF Paging, NoRebuild
        <3> QED BY <1>0, <2>3, <2>4, <3>1, BlankTypes, RunnerTypes
    <2>5. CASE rebuild' = [step |-> "page", cursor |-> rebuild.cursor, more |-> FALSE,
                           todo |-> {}, half |-> {}, rows |-> {}]
        <3>1. rebuild' \in RebuildRecord /\ Paging'
            BY <1>0, <2>5 DEF RebuildRecord, Paging
        <3> QED BY <1>0, <2>3, <3>1, RunnerTypes
    <2>6. CASE rebuild' = [step |-> "upsert", cursor |-> rebuild.cursor, more |-> rebuild.more,
                           todo |-> rebuild.todo, half |-> rebuild.half, rows |-> rebuild.rows \ {e}]
        <3>0. rebuild.step = "upsert"
            BY <1>6, UpsertsMeans
        <3>1. rebuild' \in RebuildRecord /\ Paging'
            BY <1>0, <2>6, <3>0 DEF RebuildRecord, Paging
        <3> QED BY <1>0, <2>3, <3>1, RunnerTypes
    <2> QED BY <1>6, <2>4, <2>5, <2>6, UpsertsMeans
<1> QED BY <1>1, <1>2, <1>3, <1>4, <1>5, <1>6 DEF RunnerStep

LEMMA Typed == (Init => TInv) /\ (TInv /\ [Next]_vars => TInv')
<1>1. Init => TInv
    <2> SUFFICES ASSUME Init PROVE TInv
        OBVIOUS
    <2>1. TypeOK
        BY BlankTypes, Numerals DEF Init, TypeOK
    <2>2. Changing /\ Timed /\ Paging
        BY DEF Init, Changing, Timed, Paging, RowOK, NoSanction, NoRebuild
    <2> QED BY <2>1, <2>2 DEF TInv
<1>2. TInv /\ UNCHANGED vars => TInv'
    BY DEF TInv, vars, TypeOK, Changing, Timed, Paging
<1> QED BY <1>1, <1>2, OwnerStepTypes, RunnerStepTypes DEF Next

\* Every variable of the read-model and its owner keeps its type.
THEOREM ReadModelTypes == Spec => []TypeOK
<1>1. TInv => TypeOK
    BY DEF TInv
<1> QED BY <1>1, Typed, PTL DEF Spec

-----------------------------------------------------------------------------
(* A rebuild is complete.                                                  *)

\* The rebuild has still to put the row of u into the table.
Waiting(u) ==
    /\ rebuild.step # "idle"
    /\ \/ u \in rebuild.todo
       \/ \E e \in rebuild.rows : e.user = u
       \/ u > rebuild.cursor /\ (rebuild.step = "page" \/ rebuild.more)

\* A user steadily under sanction has an answer that says so, or will get one.
Accounted ==
    /\ \A u \in steady : Snapshot(u) # {}
    /\ \A u \in steady : model[u].seq >= 1 => model[u].sanctions # {}
    /\ \A e \in rebuild.rows : e.user \in steady => e.seq >= 1 /\ e.sanctions # {}
    /\ rebuild.step = "seq" /\ Min(rebuild.todo) \in steady => rebuild.half # {}
    /\ rebuild.step # "idle" => \A u \in steady : model[u].seq >= 1 \/ Waiting(u)

LEMMA OwnerAccounts ==
    ASSUME TInv, Accounted, OwnerStep
    PROVE  Accounted' /\ rebuild' = rebuild
<1>1. /\ UNCHANGED <<model, rebuild>> /\ steady' \subseteq steady
      /\ \A u \in steady' : Snapshot(u)' # {}
    <2>1. ASSUME NEW w \in Writer, Stamps(w), UNCHANGED <<row, facts, seen, model, rebuild, steady, excused>>
          PROVE  /\ UNCHANGED <<model, rebuild>> /\ steady' \subseteq steady
                 /\ \A u \in steady' : Snapshot(u)' # {}
        BY <2>1 DEF Accounted, Snapshot, Of, InForce
    <2>2. ASSUME NEW w \in Writer, RollsBack(w)
          PROVE  /\ UNCHANGED <<model, rebuild>> /\ steady' \subseteq steady
                 /\ \A u \in steady' : Snapshot(u)' # {}
        BY <2>2 DEF RollsBack, Accounted, Snapshot, Of, InForce
    <2>3. ASSUME NEW w \in Writer, Commits(w)
          PROVE  /\ UNCHANGED <<model, rebuild>> /\ steady' \subseteq steady
                 /\ \A u \in steady' : Snapshot(u)' # {}
        BY <2>3 DEF Commits, StillSteady
    <2>4. ASSUME NEW s \in Sanction, Lapses(s) \/ Purges(s)
          PROVE  /\ UNCHANGED <<model, rebuild>> /\ steady' \subseteq steady
                 /\ \A u \in steady' : Snapshot(u)' # {}
        BY <2>4 DEF Lapses, Purges, StillSteady
    <2>5. \A w \in Writer, s \in Sanction : Ends(w, s) =>
              Stamps(w) /\ UNCHANGED <<row, facts, seen, model, rebuild, steady, excused>>
        BY DEF Ends
    <2>6. \A w \in Writer, s \in Sanction, u \in User : Issues(w, s, u) =>
              Stamps(w) /\ UNCHANGED <<row, facts, seen, model, rebuild, steady, excused>>
        BY DEF Issues
    <2>7. \A w \in Writer, g, u \in User : Merges(w, g, u) =>
              Stamps(w) /\ UNCHANGED <<row, facts, seen, model, rebuild, steady, excused>>
        BY DEF Merges
    <2> QED BY <2>1, <2>2, <2>3, <2>4, <2>5, <2>6, <2>7 DEF OwnerStep
<1> QED BY <1>1 DEF Accounted, Waiting

LEMMA DeliversAccounts ==
    ASSUME TInv, Accounted, NEW f \in facts, Delivers(f)
    PROVE  Accounted' /\ rebuild' = rebuild
<1>1. f.user \in User /\ f.seq \in Nat /\ f.seq >= 1
    BY Numerals DEF TInv, TypeOK, Timed, Fact
<1>2. UNCHANGED <<row, rebuild, steady>>
    BY DEF Delivers
<1>3. \A u \in User : Snapshot(u)' = Snapshot(u)
    BY <1>2 DEF Snapshot, Of, InForce
<1>4. model \in [User -> ModelRow] /\ steady \subseteq User /\ \A u \in User : model[u].seq \in Nat
    BY Numerals DEF TInv, TypeOK, ModelRow
<1>5. \/ model' = model
      \/ model' = [model EXCEPT ![f.user] = [sanctions |-> Snapshot(f.user), seq |-> f.seq]]
    BY DEF Delivers, Apply
<1>6. \A u \in steady :
          /\ model[u].seq >= 1 => model'[u].seq >= 1
          /\ model'[u].seq >= 1 => model'[u].sanctions # {}
    <2> TAKE u \in steady
    <2>1. CASE u = f.user /\ model' # model
        <3>1. model'[u] = [sanctions |-> Snapshot(u), seq |-> f.seq]
            BY <1>1, <1>4, <1>5, <2>1
        <3> QED BY <1>1, <3>1 DEF Accounted
    <2>2. CASE u # f.user \/ model' = model
        <3>1. model'[u] = model[u]
            BY <1>4, <1>5, <2>2
        <3> QED BY <3>1 DEF Accounted
    <2> QED BY <2>1, <2>2
<1> QED BY <1>2, <1>3, <1>4, <1>6 DEF Accounted, Waiting

LEMMA RebuildAccounts ==
    ASSUME TInv, Accounted, Rebuilds \/ ListsPage \/ ReadsSnapshot \/ ReadsSeq \/ \E e \in rebuild.rows : Upserts(e)
    PROVE  /\ Accounted'
           /\ rebuild.step # "idle" /\ rebuild'.step = "idle" => \A u \in steady : model'[u].sanctions # {}
<1>0. /\ rebuild \in RebuildRecord /\ Paging /\ steady \subseteq User
      /\ model \in [User -> ModelRow] /\ \A u \in User : model[u].seq \in Nat
    BY Numerals DEF TInv, TypeOK, ModelRow
<1>1. CASE Rebuilds
    <2>1. rebuild' = [step |-> "page", cursor |-> 0, more |-> FALSE, todo |-> {}, half |-> {}, rows |-> {}]
        BY <1>1 DEF Rebuilds, NoRebuild
    <2>2. model' = [u \in User |-> NoRow] /\ steady' = {u \in User : Snapshot(u) # {}} /\ row' = row
        BY <1>1 DEF Rebuilds
    <2>3. \A u \in User : Snapshot(u)' = Snapshot(u)
        BY <2>2 DEF Snapshot, Of, InForce
    <2>4. \A u \in User : u > 0
        BY Numerals
    <2>5. \A u \in User : model'[u] = NoRow
        BY <2>2
    <2>6. \A u \in User : model'[u].seq = 0
        BY <2>5 DEF NoRow
    <2>7. /\ rebuild'.step = "page" /\ rebuild'.cursor = 0
          /\ rebuild'.todo = {} /\ rebuild'.rows = {}
        BY <2>1
    <2> QED BY <2>1, <2>2, <2>3, <2>4, <2>6, <2>7 DEF Accounted, Waiting
<1>2. CASE ListsPage
    <2>1. /\ rebuild.step = "page" /\ rebuild.todo = {} /\ rebuild.rows = {}
          /\ UNCHANGED <<row, model, steady>>
        BY <1>0, <1>2, ListsMeans DEF Paging
    <2>2. \A u \in User : Snapshot(u)' = Snapshot(u)
        BY <2>1 DEF Snapshot, Of, InForce
    <2>3. \A u \in steady : model[u].seq >= 1 \/ u > rebuild.cursor
        BY <2>1 DEF Accounted, Waiting
    <2>4. CASE rebuild' = NoRebuild /\ \A u \in User : u > rebuild.cursor => Snapshot(u) = {}
        <3>1. \A u \in steady : model[u].seq >= 1
            BY <1>0, <2>3, <2>4 DEF Accounted
        <3> QED BY <1>0, <2>1, <2>2, <2>4, <3>1 DEF Accounted, Waiting, NoRebuild
    <2>5. ASSUME NEW kept \in SUBSET User, NEW more \in BOOLEAN, NEW last \in User,
                 rebuild' = [step |-> "rows", cursor |-> last, more |-> more, todo |-> kept,
                             half |-> {}, rows |-> {}],
                 \A u \in User : u > rebuild.cursor /\ Snapshot(u) # {} => u \in kept \/ (more /\ u > last)
          PROVE  Accounted' /\ rebuild'.step # "idle"
        <3>1. \A u \in steady : model[u].seq >= 1 \/ u \in kept \/ (more /\ u > last)
            BY <1>0, <2>3, <2>5 DEF Accounted
        <3> QED BY <1>0, <2>1, <2>2, <2>5, <3>1 DEF Accounted, Waiting
    <2> QED BY <1>2, <2>4, <2>5, ListsMeans
<1>3. CASE ReadsSnapshot
    <2>1. /\ rebuild.step = "rows"
          /\ rebuild' = [rebuild EXCEPT !.step = "seq", !.half = Snapshot(Min(rebuild.todo))]
          /\ UNCHANGED <<row, model, steady>>
        BY <1>3 DEF ReadsSnapshot
    <2>2. \A u \in User : Snapshot(u)' = Snapshot(u)
        BY <2>1 DEF Snapshot, Of, InForce
    <2>3. /\ rebuild'.step = "seq" /\ rebuild'.half = Snapshot(Min(rebuild.todo))
          /\ rebuild'.todo = rebuild.todo /\ rebuild'.rows = rebuild.rows
          /\ rebuild'.cursor = rebuild.cursor /\ rebuild'.more = rebuild.more
        BY <1>0, <2>1 DEF RebuildRecord
    <2> QED BY <1>0, <2>1, <2>2, <2>3 DEF Accounted, Waiting
<1>4. CASE ReadsSeq
    <2>1. PICK u \in rebuild.todo, e \in ExportRow :
             /\ rebuild.step = "seq"
             /\ e.user = u /\ e.sanctions = rebuild.half /\ e.seq = Newest(u)
             /\ u = Min(rebuild.todo)
             /\ rebuild' = [step |-> IF rebuild.todo = {u} THEN "upsert" ELSE "rows",
                            cursor |-> rebuild.cursor, more |-> rebuild.more,
                            todo |-> rebuild.todo \ {u}, half |-> {}, rows |-> rebuild.rows \cup {e}]
             /\ UNCHANGED <<row, model, steady>>
        BY <1>4, ReadsSeqMeans
    <2>2. \A v \in User : Snapshot(v)' = Snapshot(v)
        BY <2>1 DEF Snapshot, Of, InForce
    <2>3. u \in User
        BY <1>0 DEF RebuildRecord
    <2>4. e.user \in steady => e.seq >= 1 /\ e.sanctions # {}
        BY <2>1, <2>3, NewestMeans DEF Accounted
    <2>5. /\ rebuild'.step \in {"rows", "upsert"} /\ rebuild'.cursor = rebuild.cursor
          /\ rebuild'.more = rebuild.more /\ rebuild'.todo = rebuild.todo \ {u}
          /\ rebuild'.rows = rebuild.rows \cup {e}
        BY <2>1
    <2>6. \A v \in steady : Waiting(v) => Waiting(v)'
        BY <2>1, <2>5 DEF Waiting
    <2> QED BY <1>0, <2>1, <2>2, <2>4, <2>5, <2>6 DEF Accounted
<1>5. ASSUME NEW e \in rebuild.rows, Upserts(e)
      PROVE  /\ Accounted'
             /\ rebuild'.step = "idle" => \A u \in steady : model'[u].sanctions # {}
    <2>1. /\ rebuild.step = "upsert" /\ rebuild.todo = {} /\ e.user \in User /\ e.seq \in Nat
          /\ UNCHANGED <<row, steady>>
        BY <1>0, <1>5, UpsertsMeans, Numerals DEF Paging, ExportRow
    <2>2. \A u \in User : Snapshot(u)' = Snapshot(u)
        BY <2>1 DEF Snapshot, Of, InForce
    <2>3. \/ /\ model' = [model EXCEPT ![e.user] = [sanctions |-> e.sanctions, seq |-> e.seq]]
          \/ /\ e.seq <= model[e.user].seq
             /\ model' = model
        BY <1>5, UpsertsMeans
    <2>4. \A u \in steady :
              /\ model[u].seq >= 1 \/ u = e.user => model'[u].seq >= 1
              /\ model'[u].seq >= 1 => model'[u].sanctions # {}
        <3> TAKE u \in steady
        <3>1. CASE u = e.user
            <4>1. e.seq >= 1 /\ e.sanctions # {}
                BY <3>1 DEF Accounted
            <4>2. CASE model' = [model EXCEPT ![e.user] = [sanctions |-> e.sanctions, seq |-> e.seq]]
                <5>1. model'[u] = [sanctions |-> e.sanctions, seq |-> e.seq]
                    BY <1>0, <2>1, <3>1, <4>2
                <5> QED BY <4>1, <5>1
            <4>3. CASE e.seq <= model[e.user].seq /\ model' = model
                <5>1. model[u].seq >= 1
                    BY <1>0, <2>1, <3>1, <4>1, <4>3
                <5> QED BY <4>3, <5>1 DEF Accounted
            <4> QED BY <2>3, <4>2, <4>3
        <3>2. CASE u # e.user
            <4>1. model'[u] = model[u]
                BY <1>0, <2>3, <3>2
            <4> QED BY <3>2, <4>1 DEF Accounted
        <3> QED BY <3>1, <3>2
    <2>5. /\ rebuild'.rows \subseteq rebuild.rows /\ rebuild'.step # "seq"
          /\ \A u \in steady : Waiting(u) /\ u # e.user =>
                rebuild'.step # "idle" /\ Waiting(u)'
        <3>1. CASE rebuild.rows # {e} /\
                   rebuild' = [step |-> "upsert", cursor |-> rebuild.cursor, more |-> rebuild.more,
                               todo |-> rebuild.todo, half |-> rebuild.half, rows |-> rebuild.rows \ {e}]
            BY <2>1, <3>1 DEF Waiting
        <3>2. CASE rebuild.rows = {e} /\ rebuild.more /\
                   rebuild' = [step |-> "page", cursor |-> rebuild.cursor, more |-> FALSE,
                               todo |-> {}, half |-> {}, rows |-> {}]
            BY <2>1, <3>2 DEF Waiting
        <3>3. CASE rebuild.rows = {e} /\ ~rebuild.more /\ rebuild' = NoRebuild
            BY <2>1, <3>3 DEF Waiting, NoRebuild
        <3> QED BY <1>5, <3>1, <3>2, <3>3, UpsertsMeans
    <2>6. \A u \in steady : model'[u].seq >= 1 \/ (rebuild'.step # "idle" /\ Waiting(u)')
        BY <2>1, <2>4, <2>5 DEF Accounted
    <2> QED BY <1>0, <2>1, <2>2, <2>4, <2>5, <2>6 DEF Accounted
<1>6. Rebuilds => rebuild.step = "idle"
    BY DEF Rebuilds
<1>7. ReadsSnapshot \/ ReadsSeq => rebuild'.step # "idle"
    <2>1. ReadsSnapshot => rebuild'.step # "idle"
        BY <1>0 DEF ReadsSnapshot, RebuildRecord
    <2>2. ReadsSeq => rebuild'.step # "idle"
        BY <1>0 DEF ReadsSeq, RebuildRecord
    <2> QED BY <2>1, <2>2
<1>8. CASE ListsPage /\ rebuild'.step = "idle"
    <2>1. /\ rebuild.step = "page" /\ rebuild.todo = {} /\ rebuild.rows = {} /\ model' = model
          /\ \A u \in User : u > rebuild.cursor => Snapshot(u) = {}
        BY <1>0, <1>8, ListsMeans DEF Paging
    <2>2. \A u \in steady : model[u].seq >= 1
        BY <1>0, <2>1 DEF Accounted, Waiting
    <2> QED BY <1>2, <1>8, <2>1, <2>2 DEF Accounted
<1> QED BY <1>1, <1>2, <1>3, <1>4, <1>5, <1>6, <1>7, <1>8

\* Whoever is under sanction from the beginning of a rebuild to its end has a row
\* at the end that says so, whatever page they are on and whatever is issued,
\* ended, carried over or delivered meanwhile.
THEOREM RebuildsAreComplete == Spec => RebuildIsComplete
<1>1. Init => Accounted
    BY DEF Init, Accounted, NoRebuild
<1>2. TInv /\ Accounted /\ [Next]_vars => Accounted'
    <2>1. TInv /\ Accounted /\ UNCHANGED vars => Accounted'
        BY DEF vars, Accounted, Waiting, Snapshot, Of, InForce
    <2> QED BY <2>1, OwnerAccounts, DeliversAccounts, RebuildAccounts DEF Next, RunnerStep
<1>3. TInv /\ Accounted /\ [Next]_vars =>
          [rebuild.step # "idle" /\ rebuild'.step = "idle" => \A u \in steady : model'[u].sanctions # {}]_vars
    BY OwnerAccounts, DeliversAccounts, RebuildAccounts DEF Next, RunnerStep
<1> QED BY <1>1, <1>2, <1>3, Typed, PTL DEF Spec, RebuildIsComplete

-----------------------------------------------------------------------------
(* The read-model converges.                                               *)

Active(u) == {s \in Of(u) : row[s].state = "active"}

\* S is what is in force, or was until it lapsed unannounced.
Agrees(S, u) == Snapshot(u) \subseteq S /\ S \subseteq Active(u)

\* A fact that outnumbers n has still to arrive.
Late(u, n) == \E f \in facts \ seen : f.user = u /\ f.seq > n

\* The number n does not outrun what is committed about u.
Backed(u, n) == n = 0 \/ \E k \in Numbers(u) : n <= k

\* Putting S under the number n into the table would do no harm.
Fresh(u, n, S) == Agrees(S, u) \/ model[u].seq > n \/ Late(u, n)

Settled(u) ==
    /\ \/ Agrees(model[u].sanctions, u) \/ Late(u, model[u].seq)
       \/ Waiting(u) /\ model[u] = NoRow
    /\ Backed(u, model[u].seq)
    /\ \A e \in rebuild.rows : e.user = u =>
          /\ Backed(u, e.seq)
          /\ ~e.torn => Fresh(u, e.seq, e.sanctions)
          /\ e.seq = 0 => Fresh(u, e.seq, {})

AllSettled == \A u \in User \ excused : Settled(u)

LEMMA Numbered ==
    ASSUME TInv, NEW u \in User
    PROVE  /\ Numbers(u) \subseteq Nat /\ model[u] \in ModelRow /\ model[u].seq \in Nat
           /\ \A e \in rebuild.rows : e.user \in User /\ e.seq \in Nat /\ e \in ExportRow
           /\ \A f \in facts : f.user \in User /\ f.seq \in Nat /\ f.seq >= 1
<1>1. \A s \in Of(u) : row[s].updated_at \in Nat
    BY Numerals DEF TInv, TypeOK, SanctionRow, Of
<1>2. \A f \in facts : f.user \in User /\ f.seq \in Nat /\ f.seq >= 1
    BY Numerals DEF TInv, TypeOK, Timed, Fact
<1>3. Numbers(u) \subseteq Nat
    BY <1>1, <1>2 DEF Numbers
<1>4. model[u] \in ModelRow /\ model[u].seq \in Nat
    BY Numerals DEF TInv, TypeOK, ModelRow
<1>5. \A e \in rebuild.rows : e.user \in User /\ e.seq \in Nat /\ e \in ExportRow
    BY Numerals DEF TInv, TypeOK, RebuildRecord, ExportRow
<1> QED BY <1>2, <1>3, <1>4, <1>5

\* A user whom a step does not touch stays settled.
LEMMA Stays ==
    ASSUME NEW u \in User, Settled(u),
           Snapshot(u)' \subseteq Snapshot(u), Active(u)' = Active(u),
           Numbers(u) \subseteq Numbers(u)',
           \A f \in facts \ seen : f.user = u => f \in facts' \ seen',
           model'[u] = model[u],
           \A e \in rebuild'.rows : e.user = u => e \in rebuild.rows,
           Waiting(u) => Waiting(u)'
    PROVE  Settled(u)'
<1>1. \A S : Agrees(S, u) => Snapshot(u)' \subseteq S /\ S \subseteq Active(u)'
    BY DEF Agrees
<1>2. \A n : Late(u, n) => \E f \in facts' \ seen' : f.user = u /\ f.seq > n
    BY DEF Late
<1>3. \A n : Backed(u, n) => n = 0 \/ \E k \in Numbers(u)' : n <= k
    BY DEF Backed
<1>4. /\ \/ Agrees(model[u].sanctions, u)' \/ Late(u, model[u].seq)'
         \/ Waiting(u)' /\ model'[u] = NoRow
      /\ Backed(u, model[u].seq)'
    BY <1>1, <1>2, <1>3 DEF Settled, Agrees, Late, Backed
<1>5. ASSUME NEW e \in rebuild'.rows, e.user = u
      PROVE  /\ Backed(u, e.seq)'
             /\ ~e.torn => Fresh(u, e.seq, e.sanctions)'
             /\ e.seq = 0 => Fresh(u, e.seq, {})'
    <2>1. e \in rebuild.rows
        BY <1>5
    <2>2. /\ Backed(u, e.seq)
          /\ ~e.torn => Fresh(u, e.seq, e.sanctions)
          /\ e.seq = 0 => Fresh(u, e.seq, {})
        BY <1>5, <2>1 DEF Settled
    <2> QED BY <1>1, <1>2, <1>3, <2>2 DEF Fresh, Agrees, Late, Backed
<1> QED BY <1>4, <1>5 DEF Settled

\* Of the rows of u, the change of w leaves what is active as it is, unless its
\* fact is about u or it is excused.
LEMMA CommitSpares ==
    ASSUME TInv, NEW w \in Writer, writing[w] # Idle, NEW u \in User, u \notin Unhealed(w),
           u # writing[w].user \/ Announced(w) = {}
    PROVE  \A s \in Sanction :
              /\ row[s].subject = u => Written(w)[s] = row[s]
              /\ Written(w)[s].subject = u => Written(w)[s] = row[s] \/ Written(w)[s].state # "active"
<1> DEFINE x == writing[w]
<1>0. ChangeOK(x) /\ row \in [Sanction -> SanctionRow] /\ \A s \in Sanction : RowOK(row[s])
    BY DEF TInv, Changing, Timed, TypeOK
<1>a. /\ u \in {x.from} \ {None} => FALSE
      /\ x.row # None /\ row[x.row].subject = u => u = x.user
    BY DEF Unhealed
<1>b. u # None /\ None \notin Sanction
    BY Numerals
<1>1. CASE x.kind = "issue"
    <2> DEFINE r == [NoSanction EXCEPT !.state = "active", !.subject = x.user, !.updated_at = x.seq]
    <2>1. Announced(w) = {x.row} /\ x.row \in Sanction /\ Written(w) = [row EXCEPT ![x.row] = r]
        BY <1>0, <1>1 DEF Announced, Written, ChangeOK
    <2>2. u # x.user /\ row[x.row].subject # u
        BY <1>a, <1>b, <2>1
    <2>3. r.subject = x.user
        BY DEF NoSanction
    <2> HIDE DEF r, x
    <2>4. Written(w)[x.row] = r /\ \A s \in Sanction \ {x.row} : Written(w)[s] = row[s]
        BY <1>0, <2>1
    <2> QED BY <2>2, <2>3, <2>4
<1>2. CASE x.kind = "end"
    <2> DEFINE r == [row[x.row] EXCEPT !.state = "ended", !.updated_at = x.seq]
    <2>1. Announced(w) = {x.row} /\ x.row \in Sanction
        BY <1>0, <1>2 DEF Announced, ChangeOK
    <2>2. u # x.user /\ row[x.row].subject # u
        BY <1>a, <1>b, <2>1
    <2>3. Written(w) = [row EXCEPT ![x.row] = r]
        <3>1. Written(w) = [row EXCEPT ![x.row].state = "ended", ![x.row].updated_at = x.seq]
            BY <1>2 DEF Written
        <3> QED BY <1>0, <2>1, <3>1
    <2>4. r.subject = row[x.row].subject
        BY <1>0, <2>1 DEF SanctionRow
    <2> HIDE DEF r, x
    <2>5. Written(w)[x.row] = r /\ \A s \in Sanction \ {x.row} : Written(w)[s] = row[s]
        BY <1>0, <2>1, <2>3
    <2> QED BY <2>2, <2>4, <2>5
<1>3. CASE x.kind = "merge"
    <2>1. x.from # u /\ x.from \in User
        BY <1>0, <1>3, <1>a, <1>b DEF ChangeOK
    <2>2. Announced(w) = {s \in Of(x.from) : row[s].state = "active"}
        BY <1>3 DEF Announced
    <2>3. ASSUME NEW s \in Sanction
          PROVE  Written(w)[s] = IF row[s].subject = x.from THEN Carry(row[s], x.user, x.seq) ELSE row[s]
        BY <1>3 DEF Written
    <2>4. ASSUME NEW s \in Sanction, row[s].subject = x.from
          PROVE  Written(w)[s].subject = x.user /\ Written(w)[s].state = row[s].state
        BY <1>0, <2>3, <2>4 DEF Carry, SanctionRow
    <2>5. ASSUME NEW s \in Sanction, row[s].subject = x.from, u = x.user
          PROVE  row[s].state # "active"
        BY <2>2, <2>5 DEF Of
    <2> HIDE DEF x
    <2> QED BY <2>1, <2>3, <2>4, <2>5
<1> QED BY <1>0, <1>1, <1>2, <1>3 DEF ChangeOK

\* A change that commits is either announced to u by the highest number yet, or
\* none of its business, or excused.
LEMMA CommitSettles ==
    ASSUME TInv, NEW w \in Writer, Commits(w), NEW u \in User, u \notin excused', Settled(u)
    PROVE  Settled(u)'
<1> DEFINE x == writing[w]
<1>0. writing[w] # Idle /\ ChangeOK(x)
    BY DEF Commits, TInv, Changing
<1>1. /\ row' = Written(w)
      /\ facts' = facts \cup {[user |-> x.user, seq |-> Written(w)[s].updated_at] : s \in Announced(w)}
      /\ UNCHANGED <<seen, model, rebuild>>
    BY DEF Commits
<1>2. u \notin Unhealed(w)
    BY DEF Commits
<1>3. \A s \in Announced(w) : s \in Sanction /\ Written(w)[s].updated_at = x.seq
    BY <1>0, WrittenMeans
<1>4. x.seq \in Nat /\ x.seq >= 1 /\ seen \subseteq facts
    BY <1>0, Numerals DEF ChangeOK, TInv, TypeOK
<1>5. CASE u = x.user /\ Announced(w) # {}
    <2> DEFINE f == [user |-> u, seq |-> x.seq]
    <2>1. f \in facts' /\ f.user = u /\ f.seq = x.seq
        BY <1>1, <1>3, <1>5
    <2>2. \A n \in Numbers(u) : ~(n >= x.seq)
        BY <1>2, <1>5 DEF Unhealed
    <2>3. x.seq \in {g.seq : g \in {g \in facts' : g.user = u}}
        BY <2>1
    <2>4. x.seq \in Numbers(u)'
        BY <2>3 DEF Numbers
    <2>5. f \notin seen'
        <3>1. f \in facts => f.seq \in Numbers(u)
            BY <2>1 DEF Numbers
        <3>2. f \notin facts
            BY <1>4, <2>1, <2>2, <3>1
        <3> QED BY <1>1, <1>4, <3>2
    <2> HIDE DEF f, x
    <2>6. ASSUME NEW n \in Nat, Backed(u, n)
          PROVE  n < x.seq
        <3>1. CASE n = 0
            BY <1>4, <3>1
        <3>2. CASE \E k \in Numbers(u) : n <= k
            <4>1. PICK k \in Numbers(u) : n <= k
                BY <3>2
            <4>2. k \in Nat /\ ~(k >= x.seq)
                BY <2>2, Numbered
            <4> QED BY <1>4, <4>1, <4>2
        <3> QED BY <2>6, <3>1, <3>2 DEF Backed
    <2>7. ASSUME NEW n \in Nat, n < x.seq
          PROVE  (\E g \in facts' \ seen' : g.user = u /\ g.seq > n) /\ (\E k \in Numbers(u)' : n <= k)
        <3>1. f \in facts' \ seen' /\ f.user = u /\ f.seq > n
            BY <1>4, <2>1, <2>5, <2>7
        <3>2. n <= x.seq
            BY <1>4, <2>7
        <3> QED BY <2>4, <3>1, <3>2
    <2>8. model[u].seq \in Nat /\ Backed(u, model[u].seq) /\ model' = model /\ rebuild' = rebuild
        BY <1>1, Numbered DEF Settled
    <2>9. Late(u, model[u].seq)' /\ Backed(u, model[u].seq)'
        BY <2>6, <2>7, <2>8 DEF Late, Backed
    <2>10. ASSUME NEW e \in rebuild'.rows, e.user = u
           PROVE  /\ Backed(u, e.seq)'
                  /\ ~e.torn => Fresh(u, e.seq, e.sanctions)'
                  /\ e.seq = 0 => Fresh(u, e.seq, {})'
        <3>1. e.seq \in Nat /\ Backed(u, e.seq)
            BY <2>8, <2>10, Numbered DEF Settled
        <3>2. e.seq < x.seq
            BY <2>6, <3>1
        <3> QED BY <2>7, <3>1, <3>2 DEF Fresh, Late, Backed
    <2> QED BY <2>9, <2>10 DEF Settled
<1>6. CASE u # x.user \/ Announced(w) = {}
    <2>1. \A s \in Sanction :
              /\ row[s].subject = u => row'[s] = row[s]
              /\ row'[s].subject = u => row'[s] = row[s] \/ row'[s].state # "active"
        BY <1>0, <1>1, <1>2, <1>6, CommitSpares
    <2>2. Snapshot(u)' \subseteq Snapshot(u)
        BY <2>1 DEF Snapshot, Of, InForce
    <2>3. Active(u)' = Active(u)
        BY <2>1 DEF Active, Of
    <2>4. Numbers(u) \subseteq Numbers(u)'
        BY <1>1, <2>1 DEF Numbers, Of
    <2>5. Waiting(u) => Waiting(u)'
        BY <1>1 DEF Waiting
    <2> QED BY <1>1, <2>2, <2>3, <2>4, <2>5, Stays
<1> QED BY <1>5, <1>6

LEMMA OwnerSettles ==
    ASSUME TInv, AllSettled, OwnerStep
    PROVE  AllSettled'
<1>1. ASSUME NEW u \in User, Settled(u), UNCHANGED <<row, facts, seen, model, rebuild>>
      PROVE  Settled(u)'
    <2>1. /\ Snapshot(u)' = Snapshot(u) /\ Active(u)' = Active(u) /\ Numbers(u)' = Numbers(u)
          /\ Waiting(u)' = Waiting(u)
        BY <1>1 DEF Snapshot, Of, InForce, Active, Numbers, Waiting
    <2> QED BY <1>1, <2>1, Stays
<1>2. ASSUME UNCHANGED <<row, facts, seen, model, rebuild, excused>>
      PROVE  AllSettled'
    BY <1>1, <1>2 DEF AllSettled
<1>3. ASSUME NEW w \in Writer, Commits(w)
      PROVE  AllSettled'
    BY <1>3, CommitSettles DEF AllSettled, Commits
<1>4. ASSUME NEW s \in Sanction, Lapses(s)
      PROVE  AllSettled'
    <2>1. /\ row' = [row EXCEPT ![s].lapsed = TRUE]
          /\ UNCHANGED <<facts, seen, model, rebuild, excused>>
        BY <1>4 DEF Lapses
    <2>2. ASSUME NEW r \in Sanction
          PROVE  /\ row'[r].subject = row[r].subject /\ row'[r].state = row[r].state
                 /\ row'[r].updated_at = row[r].updated_at
                 /\ row'[r].lapsed = row[r].lapsed \/ row'[r].lapsed = TRUE
        BY <2>1 DEF TInv, TypeOK, SanctionRow
    <2>3. ASSUME NEW u \in User
          PROVE  /\ Snapshot(u)' \subseteq Snapshot(u) /\ Active(u)' = Active(u)
                 /\ Numbers(u) \subseteq Numbers(u)' /\ Waiting(u)' = Waiting(u)
        BY <2>1, <2>2 DEF Snapshot, Of, InForce, Active, Numbers, Waiting
    <2> QED BY <2>1, <2>3, Stays DEF AllSettled
<1>5. \A w \in Writer : RollsBack(w) \/ (\E s \in Sanction : Ends(w, s) \/ \E u \in User : Issues(w, s, u))
          \/ (\E g, u \in User : Merges(w, g, u)) => UNCHANGED <<row, facts, seen, model, rebuild, excused>>
    BY DEF RollsBack, Ends, Issues, Merges
<1>6. ASSUME NEW s \in Sanction, Purges(s)
      PROVE  AllSettled'
    <2>1. /\ row[s].state = "ended" /\ row' = [row EXCEPT ![s].state = "purged"]
          /\ UNCHANGED <<facts, seen, model, rebuild, excused>>
        BY <1>6 DEF Purges
    <2>2. ASSUME NEW r \in Sanction
          PROVE  /\ row'[r].subject = row[r].subject /\ row'[r].updated_at = row[r].updated_at
                 /\ row'[r].lapsed = row[r].lapsed
                 /\ row'[r].state = "active" <=> row[r].state = "active"
        BY <2>1 DEF TInv, TypeOK, SanctionRow
    <2>3. ASSUME NEW u \in User
          PROVE  /\ Snapshot(u)' \subseteq Snapshot(u) /\ Active(u)' = Active(u)
                 /\ Numbers(u) \subseteq Numbers(u)' /\ Waiting(u)' = Waiting(u)
        BY <2>1, <2>2 DEF Snapshot, Of, InForce, Active, Numbers, Waiting
    <2> QED BY <2>1, <2>3, Stays DEF AllSettled
<1> QED BY <1>2, <1>3, <1>4, <1>5, <1>6 DEF OwnerStep

\* A fact that arrives is applied, or the table has seen one as new.
LEMMA DeliversSettles ==
    ASSUME TInv, AllSettled, NEW f \in facts, Delivers(f)
    PROVE  AllSettled'
<1>1. f.user \in User /\ f.seq \in Nat /\ f.seq >= 1
    BY Numerals DEF TInv, TypeOK, Timed, Fact
<1>2. UNCHANGED <<row, facts, rebuild>> /\ seen' = seen \cup {f} /\ model \in [User -> ModelRow]
    BY DEF Delivers, TInv, TypeOK
<1>3. /\ Snapshot(f.user)' = Snapshot(f.user)
      /\ \A u \in User : /\ Snapshot(u)' = Snapshot(u) /\ Active(u)' = Active(u)
                         /\ Numbers(u)' = Numbers(u) /\ Waiting(u)' = Waiting(u)
    BY <1>1, <1>2 DEF Snapshot, Of, InForce, Active, Numbers, Waiting
<1>4. Snapshot(f.user) \subseteq Active(f.user)
    BY DEF Snapshot, InForce, Active
<1>5. CASE /\ f.seq >= model[f.user].seq
           /\ model' = [model EXCEPT ![f.user] = [sanctions |-> Snapshot(f.user), seq |-> f.seq]]
           /\ excused' = IF rebuild.step = "idle" THEN excused \ {f.user} ELSE excused
    <2>1. model'[f.user] = [sanctions |-> Snapshot(f.user), seq |-> f.seq]
        BY <1>1, <1>2, <1>5
    <2>2. model'[f.user].sanctions = Snapshot(f.user) /\ model'[f.user].seq = f.seq
        BY <2>1
    <2>3. Agrees(model[f.user].sanctions, f.user)'
        BY <1>1, <1>3, <1>4, <2>2 DEF Agrees
    <2>4. Backed(f.user, model[f.user].seq)'
        <3>1. f.seq \in {g.seq : g \in {g \in facts : g.user = f.user}}
            OBVIOUS
        <3>2. f.seq \in Numbers(f.user)
            BY <3>1 DEF Numbers
        <3> QED BY <1>1, <1>3, <2>2, <3>2 DEF Backed
    <2>5. ASSUME NEW e \in rebuild'.rows, e.user = f.user, f.user \notin excused'
          PROVE  /\ Backed(f.user, e.seq)'
                 /\ ~e.torn => Fresh(f.user, e.seq, e.sanctions)'
                 /\ e.seq = 0 => Fresh(f.user, e.seq, {})'
        <3>1. e \in rebuild.rows
            BY <1>2, <2>5
        <3>2. rebuild.step # "idle"
            BY <3>1 DEF TInv, Paging
        <3>3. /\ Backed(f.user, e.seq)
              /\ ~e.torn => Fresh(f.user, e.seq, e.sanctions)
              /\ e.seq = 0 => Fresh(f.user, e.seq, {})
            BY <1>1, <1>5, <2>5, <3>1, <3>2 DEF AllSettled, Settled
        <3>4. Backed(f.user, e.seq)'
            BY <1>1, <1>3, <3>3 DEF Backed
        <3>5. ASSUME NEW S, Fresh(f.user, e.seq, S)
              PROVE  Fresh(f.user, e.seq, S)'
            <4>1. e.seq \in Nat /\ model[f.user].seq \in Nat
                BY <1>1, <3>1, Numbered
            <4>2. CASE Agrees(S, f.user)
                BY <1>1, <1>3, <4>2 DEF Agrees, Fresh
            <4>3. CASE model[f.user].seq > e.seq
                <5>1. f.seq > e.seq
                    BY <1>1, <1>5, <4>1, <4>3
                <5> QED BY <2>2, <5>1 DEF Fresh
            <4>4. CASE Late(f.user, e.seq)
                <5>1. PICK g \in facts \ seen : g.user = f.user /\ g.seq > e.seq
                    BY <4>4 DEF Late
                <5>2. CASE g = f
                    BY <2>2, <5>1, <5>2 DEF Fresh
                <5>3. CASE g # f
                    <6>1. g \in facts' \ seen'
                        BY <1>2, <5>1, <5>3
                    <6> QED BY <5>1, <6>1 DEF Fresh, Late
                <5> QED BY <5>2, <5>3
            <4> QED BY <3>5, <4>2, <4>3, <4>4 DEF Fresh
        <3> QED BY <3>3, <3>4, <3>5
    <2>6. f.user \notin excused' => Settled(f.user)'
        BY <2>3, <2>4, <2>5 DEF Settled
    <2>7. ASSUME NEW u \in User, u \notin excused', u # f.user
          PROVE  Settled(u)'
        <3>1. u \notin excused /\ model'[u] = model[u]
            BY <1>1, <1>2, <1>5, <2>7
        <3>2. \A g \in facts \ seen : g.user = u => g \in facts' \ seen'
            BY <1>2, <2>7
        <3>3. Settled(u)
            BY <3>1 DEF AllSettled
        <3> QED BY <1>2, <1>3, <3>1, <3>2, <3>3, Stays
    <2> QED BY <2>6, <2>7 DEF AllSettled
<1>6. CASE f.seq <= model[f.user].seq /\ UNCHANGED <<model, excused>>
    <2> SUFFICES ASSUME NEW u \in User, u \notin excused', Settled(u)
                 PROVE  Settled(u)'
        BY <1>6 DEF AllSettled
    <2>1. ASSUME NEW n, Late(u, n), n \in Nat
          PROVE  Late(u, n)' \/ (u = f.user /\ model[u].seq > n)
        <3>1. PICK g \in facts \ seen : g.user = u /\ g.seq > n
            BY <2>1 DEF Late
        <3>2. CASE g = f
            BY <1>1, <1>6, <2>1, <3>1, <3>2, Numbered
        <3>3. CASE g # f
            <4>1. g \in facts' \ seen'
                BY <1>2, <3>1, <3>3
            <4> QED BY <3>1, <4>1 DEF Late
        <3> QED BY <3>2, <3>3
    <2>2. model' = model /\ rebuild' = rebuild /\ model[u].seq \in Nat
        BY <1>2, <1>6, Numbered
    <2>3. \A S : Agrees(S, u) => Agrees(S, u)'
        BY <1>3 DEF Agrees
    <2>4. \A n : Backed(u, n) => Backed(u, n)'
        BY <1>3 DEF Backed
    <2>5. Late(u, model[u].seq) => Late(u, model[u].seq)'
        <3>1. Late(u, model[u].seq) => \E g \in facts' \ seen' : g.user = u /\ g.seq > model[u].seq
            BY <2>1, <2>2 DEF Late
        <3> QED BY <2>2, <3>1 DEF Late
    <2>6. /\ \/ Agrees(model[u].sanctions, u)' \/ Late(u, model[u].seq)'
             \/ Waiting(u)' /\ model'[u] = NoRow
          /\ Backed(u, model[u].seq)'
        BY <1>3, <2>2, <2>3, <2>4, <2>5 DEF Settled, Agrees, Backed
    <2>7. ASSUME NEW e \in rebuild'.rows, e.user = u
          PROVE  /\ Backed(u, e.seq)'
                 /\ ~e.torn => Fresh(u, e.seq, e.sanctions)'
                 /\ e.seq = 0 => Fresh(u, e.seq, {})'
        <3>1. e \in rebuild.rows /\ e.seq \in Nat
            BY <2>2, <2>7, Numbered
        <3>2. /\ Backed(u, e.seq)
              /\ ~e.torn => Fresh(u, e.seq, e.sanctions)
              /\ e.seq = 0 => Fresh(u, e.seq, {})
            BY <2>7, <3>1 DEF Settled
        <3>3. ASSUME NEW S, Fresh(u, e.seq, S) PROVE Fresh(u, e.seq, S)'
            BY <2>1, <2>2, <2>3, <3>1, <3>3 DEF Fresh
        <3> QED BY <2>4, <3>2, <3>3
    <2> QED BY <2>6, <2>7 DEF Settled
<1> QED BY <1>5, <1>6 DEF Delivers, Apply

\* The rebuild hands every user on: to a row, to a later page, or to nobody
\* because there is nothing to say.
LEMMA RebuildSettles ==
    ASSUME TInv, AllSettled,
           Rebuilds \/ ListsPage \/ ReadsSnapshot \/ ReadsSeq \/ \E e \in rebuild.rows : Upserts(e)
    PROVE  AllSettled'
<1>0. /\ rebuild \in RebuildRecord /\ Paging /\ model \in [User -> ModelRow]
      /\ \A u \in User : u > 0 /\ u \in Nat
    BY Numerals DEF TInv, TypeOK
<1>a. UNCHANGED <<row, facts, seen>>
    BY DEF Rebuilds, ListsPage, ReadsSnapshot, ReadsSeq, Upserts
<1>b. \A u \in User : /\ Snapshot(u)' = Snapshot(u) /\ Active(u)' = Active(u)
                      /\ Numbers(u)' = Numbers(u) /\ Snapshot(u) \subseteq Active(u)
    BY <1>a DEF Snapshot, Of, InForce, Active, Numbers
<1>c. ASSUME NEW u \in User, Settled(u), model'[u] = model[u],
             \A e \in rebuild'.rows : e.user = u => e \in rebuild.rows,
             Waiting(u) => Waiting(u)'
      PROVE  Settled(u)'
    BY <1>a, <1>b, <1>c, Stays
\* A user whose row agrees, and who has no row left in the export.
<1>d. ASSUME NEW u \in User, Settled(u), model'[u] = model[u], Agrees(model[u].sanctions, u),
             \A e \in rebuild'.rows : e.user # u
      PROVE  Settled(u)'
    <2>1. Agrees(model[u].sanctions, u)' /\ Backed(u, model[u].seq)'
        BY <1>b, <1>d DEF Settled, Agrees, Backed
    <2> QED BY <1>d, <2>1 DEF Settled
<1>1. CASE Rebuilds
    <2>1. rebuild' = [step |-> "page", cursor |-> 0, more |-> FALSE, todo |-> {}, half |-> {}, rows |-> {}]
        BY <1>1 DEF Rebuilds, NoRebuild
    <2>2. model' = [u \in User |-> NoRow]
        BY <1>1 DEF Rebuilds
    <2>3. rebuild'.step = "page" /\ rebuild'.cursor = 0 /\ rebuild'.rows = {}
        BY <2>1
    <2> SUFFICES ASSUME NEW u \in User PROVE Settled(u)'
        BY DEF AllSettled
    <2>4. model'[u] = NoRow
        BY <2>2
    <2>5. Backed(u, model[u].seq)'
        BY <2>4 DEF Backed, NoRow
    <2>6. Waiting(u)'
        BY <1>0, <2>3 DEF Waiting
    <2> QED BY <2>3, <2>4, <2>5, <2>6 DEF Settled
<1>2. CASE ListsPage
    <2>1. /\ rebuild.step = "page" /\ rebuild.todo = {} /\ rebuild.rows = {}
          /\ UNCHANGED <<model, excused>>
        BY <1>0, <1>2, ListsMeans DEF Paging
    <2> SUFFICES ASSUME NEW u \in User, u \notin excused, Settled(u) PROVE Settled(u)'
        BY <2>1 DEF AllSettled
    <2>2. /\ rebuild'.rows = {}
          /\ Waiting(u) => Waiting(u)' \/ Snapshot(u) = {}
        <3>1. CASE rebuild' = NoRebuild /\ \A v \in User : v > rebuild.cursor => Snapshot(v) = {}
            BY <2>1, <3>1 DEF Waiting, NoRebuild
        <3>2. ASSUME NEW kept \in SUBSET User, NEW more \in BOOLEAN, NEW last \in User,
                     rebuild' = [step |-> "rows", cursor |-> last, more |-> more, todo |-> kept,
                                 half |-> {}, rows |-> {}],
                     \A v \in User : v > rebuild.cursor /\ Snapshot(v) # {} => v \in kept \/ (more /\ v > last)
              PROVE  rebuild'.rows = {} /\ (Waiting(u) => Waiting(u)' \/ Snapshot(u) = {})
            <4>1. /\ rebuild'.step = "rows" /\ rebuild'.cursor = last /\ rebuild'.more = more
                  /\ rebuild'.todo = kept /\ rebuild'.rows = {}
                BY <3>2
            <4>2. Waiting(u) => u > rebuild.cursor
                BY <2>1 DEF Waiting
            <4> QED BY <3>2, <4>1, <4>2 DEF Waiting
        <3> QED BY <1>2, <3>1, <3>2, ListsMeans
    <2>3. CASE Waiting(u) /\ model[u] = NoRow /\ Snapshot(u) = {}
        <3>1. Agrees(model[u].sanctions, u)
            BY <2>3 DEF Agrees, NoRow
        <3> QED BY <1>d, <2>1, <2>2, <3>1
    <2>4. CASE Waiting(u) => Waiting(u)'
        BY <1>c, <2>1, <2>2, <2>4
    <2>5. CASE model[u] # NoRow
        <3>1. Agrees(model[u].sanctions, u) \/ Late(u, model[u].seq)
            BY <2>5 DEF Settled
        <3>2. Agrees(model[u].sanctions, u)' \/ Late(u, model[u].seq)'
            BY <1>a, <1>b, <2>1, <3>1 DEF Agrees, Late
        <3>3. Backed(u, model[u].seq)'
            BY <1>b, <2>1 DEF Settled, Backed
        <3> QED BY <2>2, <3>2, <3>3 DEF Settled
    <2> QED BY <2>2, <2>3, <2>4, <2>5
<1>3. CASE ReadsSnapshot
    <2>1. /\ rebuild.step = "rows"
          /\ rebuild' = [rebuild EXCEPT !.step = "seq", !.half = Snapshot(Min(rebuild.todo))]
          /\ UNCHANGED <<model, excused>>
        BY <1>3 DEF ReadsSnapshot
    <2>2. /\ rebuild'.step = "seq" /\ rebuild'.todo = rebuild.todo /\ rebuild'.rows = rebuild.rows
          /\ rebuild'.cursor = rebuild.cursor /\ rebuild'.more = rebuild.more
        BY <1>0, <2>1 DEF RebuildRecord
    <2>3. \A u \in User : Waiting(u) => Waiting(u)'
        BY <2>1, <2>2 DEF Waiting
    <2> QED BY <1>c, <2>1, <2>2, <2>3 DEF AllSettled
<1>4. CASE ReadsSeq
    <2>1. PICK v \in rebuild.todo, e \in ExportRow :
             /\ rebuild.step = "seq"
             /\ e.user = v /\ e.sanctions = rebuild.half /\ e.seq = Newest(v)
             /\ e.torn <=> Snapshot(v) # rebuild.half
             /\ rebuild' = [step |-> IF rebuild.todo = {v} THEN "upsert" ELSE "rows",
                            cursor |-> rebuild.cursor, more |-> rebuild.more,
                            todo |-> rebuild.todo \ {v}, half |-> {}, rows |-> rebuild.rows \cup {e}]
             /\ UNCHANGED <<model, excused>>
        BY <1>4, ReadsSeqMeans
    <2>2. v \in User
        BY <1>0 DEF RebuildRecord
    <2>3. /\ rebuild'.step \in {"rows", "upsert"} /\ rebuild'.cursor = rebuild.cursor
          /\ rebuild'.more = rebuild.more /\ rebuild'.todo = rebuild.todo \ {v}
          /\ rebuild'.rows = rebuild.rows \cup {e}
        BY <2>1
    <2>4. \A u \in User : Waiting(u) => Waiting(u)'
        BY <2>1, <2>3 DEF Waiting
    <2>5. ASSUME NEW u \in User, u # v, Settled(u) PROVE Settled(u)'
        BY <1>c, <2>1, <2>3, <2>4, <2>5
    <2>6. ASSUME Settled(v) PROVE Settled(v)'
        <3>1. \A d \in rebuild'.rows : d.user = v => d = e
            BY <1>0, <2>3 DEF Paging
        <3>2. Backed(v, e.seq)'
            <4>1. e.seq = 0 \/ \E s \in Of(v) : e.seq = row[s].updated_at
                BY <2>1, <2>2, NewestMeans
            <4>2. e.seq \in Nat
                BY <2>1, Numerals DEF ExportRow
            <4>3. e.seq = 0 \/ \E k \in Numbers(v) : e.seq <= k
                BY <4>1, <4>2 DEF Numbers
            <4> QED BY <1>b, <2>2, <4>3 DEF Backed
        <3>3. ~e.torn => Agrees(e.sanctions, v)'
            BY <1>b, <2>1, <2>2 DEF Agrees
        <3>4. e.seq = 0 => Agrees({}, v)'
            <4>1. e.seq = 0 => Snapshot(v) = {}
                <5>1. Snapshot(v) # {} => Newest(v) >= 1
                    BY <2>2, NewestMeans
                <5>2. Newest(v) = 0 => Snapshot(v) = {}
                    BY <5>1
                <5> QED BY <2>1, <5>2
            <4> QED BY <1>b, <2>2, <4>1 DEF Agrees
        <3>5. /\ \/ Agrees(model[v].sanctions, v)' \/ Late(v, model[v].seq)'
                 \/ Waiting(v)' /\ model'[v] = NoRow
              /\ Backed(v, model[v].seq)'
            BY <1>a, <1>b, <2>1, <2>2, <2>4, <2>6 DEF Settled, Agrees, Late, Backed
        <3>6. ASSUME NEW d \in rebuild'.rows, d.user = v
              PROVE  /\ Backed(v, d.seq)'
                     /\ ~d.torn => Fresh(v, d.seq, d.sanctions)'
                     /\ d.seq = 0 => Fresh(v, d.seq, {})'
            <4>1. d = e
                BY <3>1, <3>6
            <4> QED BY <3>2, <3>3, <3>4, <4>1 DEF Fresh
        <3> QED BY <3>5, <3>6 DEF Settled
    <2> QED BY <2>1, <2>5, <2>6 DEF AllSettled
<1>5. ASSUME NEW e \in rebuild.rows, Upserts(e)
      PROVE  AllSettled'
    <2>1. /\ rebuild.step = "upsert" /\ rebuild.todo = {} /\ e.user \in User /\ e.seq \in Nat
        BY <1>0, <1>5, UpsertsMeans, Numerals DEF Paging, ExportRow
    <2>2. /\ rebuild'.rows = rebuild.rows \ {e}
          /\ \A u \in User : Waiting(u) /\ u # e.user => Waiting(u)'
        <3>1. CASE rebuild.rows # {e} /\
                   rebuild' = [step |-> "upsert", cursor |-> rebuild.cursor, more |-> rebuild.more,
                               todo |-> rebuild.todo, half |-> rebuild.half, rows |-> rebuild.rows \ {e}]
            BY <2>1, <3>1 DEF Waiting
        <3>2. CASE rebuild.rows = {e} /\ rebuild.more /\
                   rebuild' = [step |-> "page", cursor |-> rebuild.cursor, more |-> FALSE,
                               todo |-> {}, half |-> {}, rows |-> {}]
            BY <2>1, <3>2 DEF Waiting
        <3>3. CASE rebuild.rows = {e} /\ ~rebuild.more /\ rebuild' = NoRebuild
            BY <2>1, <3>3 DEF Waiting, NoRebuild
        <3> QED BY <1>5, <3>1, <3>2, <3>3, UpsertsMeans
    <2>3. ASSUME NEW u \in User, u # e.user, u \notin excused' PROVE Settled(u)'
        <3>1. u \notin excused /\ model'[u] = model[u]
            BY <1>0, <1>5, <2>1, <2>3, UpsertsMeans
        <3> QED BY <1>c, <2>2, <2>3, <3>1 DEF AllSettled
    <2>4. ASSUME e.user \notin excused' PROVE Settled(e.user)'
        <3> DEFINE u == e.user
        <3>0. \A d \in rebuild'.rows : d.user # u
            BY <1>0, <2>2 DEF Paging
        <3>1. u \notin excused
            BY <1>5, <2>4, UpsertsMeans
        <3>2. /\ Backed(u, e.seq)
              /\ ~e.torn => Fresh(u, e.seq, e.sanctions)
              /\ e.seq = 0 => Fresh(u, e.seq, {})
              /\ Settled(u) /\ model[u].seq \in Nat
            BY <2>1, <3>1, Numbered DEF AllSettled, Settled
        <3>3. CASE /\ ~(e.seq < model[u].seq)
                   /\ model' = [model EXCEPT ![u] = [sanctions |-> e.sanctions, seq |-> e.seq]]
                   /\ ~e.torn
            <4>1. model'[u] = [sanctions |-> e.sanctions, seq |-> e.seq]
                BY <1>0, <2>1, <3>3
            <4>2. Agrees(e.sanctions, u) \/ Late(u, e.seq)
                BY <2>1, <3>2, <3>3 DEF Fresh
            <4>3. model'[u].sanctions = e.sanctions /\ model'[u].seq = e.seq
                BY <4>1
            <4>4. Agrees(model[u].sanctions, u)' \/ Late(u, model[u].seq)'
                BY <1>a, <1>b, <2>1, <4>2, <4>3 DEF Agrees, Late
            <4>5. Backed(u, model[u].seq)'
                BY <1>b, <2>1, <3>2, <4>3 DEF Backed
            <4> QED BY <3>0, <4>4, <4>5 DEF Settled
        <3>4. CASE e.seq <= model[u].seq /\ UNCHANGED model
            <4>1. CASE Agrees(model[u].sanctions, u)
                BY <1>d, <2>1, <3>0, <3>2, <3>4, <4>1
            <4>2. Late(u, model[u].seq) => Late(u, model[u].seq)'
                BY <1>a, <3>4 DEF Late
            <4>3. Backed(u, model[u].seq)'
                BY <1>b, <2>1, <3>2, <3>4 DEF Settled, Backed
            <4>4. CASE Late(u, model[u].seq)
                BY <3>0, <4>2, <4>3, <4>4 DEF Settled
            <4>5. CASE model[u] = NoRow
                <5>1. e.seq = 0 /\ model[u].seq = 0 /\ model[u].sanctions = {}
                    BY <2>1, <3>4, <4>5 DEF NoRow
                <5>2. Agrees(model[u].sanctions, u) \/ Late(u, model[u].seq)
                    BY <3>2, <5>1 DEF Fresh
                <5> QED BY <4>1, <4>4, <5>2
            <4> QED BY <3>2, <4>1, <4>4, <4>5 DEF Settled
        <3> QED BY <1>5, <2>4, <3>3, <3>4, UpsertsMeans
    <2> QED BY <2>3, <2>4 DEF AllSettled
<1> QED BY <1>1, <1>2, <1>3, <1>4, <1>5

\* When every fact about a user has arrived and no rebuild is running, the
\* read-model's row is what the owner's tables say, in whatever order the facts
\* came, for every user no step has excused.
THEOREM ReadModelAlwaysConverges == Spec => []ReadModelConverges
<1>1. Init => AllSettled
    <2> SUFFICES ASSUME Init, NEW u \in User PROVE Settled(u)
        BY DEF AllSettled
    <2>1. model[u] = NoRow /\ rebuild.rows = {} /\ Of(u) = {}
        BY Numerals DEF Init, Of, NoSanction, NoRebuild
    <2> QED BY <2>1 DEF Settled, Agrees, Snapshot, Backed, NoRow
<1>2. TInv /\ AllSettled /\ [Next]_vars => AllSettled'
    <2>1. ASSUME AllSettled, UNCHANGED vars PROVE AllSettled'
        <3>1. ASSUME NEW u \in User
              PROVE  /\ Snapshot(u)' = Snapshot(u) /\ Active(u)' = Active(u)
                     /\ Numbers(u)' = Numbers(u) /\ Waiting(u)' = Waiting(u)
            BY <2>1 DEF vars, Snapshot, Of, InForce, Active, Numbers, Waiting
        <3>2. UNCHANGED <<facts, seen, model, rebuild, excused>>
            BY <2>1 DEF vars
        <3> QED BY <2>1, <3>1, <3>2, Stays DEF AllSettled
    <2> QED BY <2>1, OwnerSettles, DeliversSettles, RebuildSettles DEF Next, RunnerStep
<1>3. AllSettled => ReadModelConverges
    <2> SUFFICES ASSUME AllSettled, NEW u \in User \ excused, Quiet(u)
                 PROVE  model[u].sanctions = Snapshot(u)
        BY DEF ReadModelConverges
    <2>1. ~Waiting(u) /\ ~Late(u, model[u].seq)
        BY DEF Quiet, Waiting, Late
    <2>2. Agrees(model[u].sanctions, u)
        BY <2>1 DEF AllSettled, Settled
    <2>3. Active(u) \subseteq Snapshot(u)
        BY DEF Quiet, Active, Snapshot, InForce
    <2> QED BY <2>2, <2>3 DEF Agrees
<1> QED BY <1>1, <1>2, <1>3, Typed, PTL DEF Spec

-----------------------------------------------------------------------------
(* The record.                                                             *)

\* A sanction that is being issued is not there yet, and nobody else writes it.
Reserved ==
    \A w \in Writer : writing[w].kind = "issue" =>
        /\ row[writing[w].row] = NoSanction
        /\ \A v \in Writer \ {w} : writing[v].row # writing[w].row

\* What a commit leaves of a row.
LEMMA WrittenRow ==
    ASSUME TInv, NEW w \in Writer, writing[w] # Idle, NEW s \in Sanction
    PROVE  LET x == writing[w] IN
           /\ x.kind = "issue" => Written(w)[s] =
                 IF s = x.row THEN [NoSanction EXCEPT !.state = "active", !.subject = x.user,
                                                      !.updated_at = x.seq] ELSE row[s]
           /\ x.kind = "end" => Written(w)[s] =
                 IF s = x.row THEN [row[s] EXCEPT !.state = "ended", !.updated_at = x.seq] ELSE row[s]
           /\ x.kind = "merge" => Written(w)[s] =
                 IF row[s].subject = x.from THEN Carry(row[s], x.user, x.seq) ELSE row[s]
<1>0. ChangeOK(writing[w]) /\ row \in [Sanction -> SanctionRow]
    BY DEF TInv, Changing, TypeOK
<1>1. CASE writing[w].kind = "issue"
    BY <1>0, <1>1 DEF Written
<1>2. CASE writing[w].kind = "end"
    <2>1. Written(w) = [row EXCEPT ![writing[w].row].state = "ended",
                                   ![writing[w].row].updated_at = writing[w].seq]
        BY <1>2 DEF Written
    <2>2. writing[w].row \in Sanction /\ row[writing[w].row] \in SanctionRow
        BY <1>0, <1>2 DEF ChangeOK
    <2> QED BY <1>0, <1>2, <2>1, <2>2
<1>3. CASE writing[w].kind = "merge"
    BY <1>0, <1>3 DEF Written
<1> QED BY <1>0, <1>1, <1>2, <1>3 DEF ChangeOK

\* An insert stays its writer's own until it commits or rolls back.
LEMMA ReservedStep ==
    ASSUME TInv, Reserved, [Next]_vars
    PROVE  Reserved'
<1>0. /\ writing \in [Writer -> Change] /\ row \in [Sanction -> SanctionRow]
      /\ Idle.kind = "idle" /\ Idle.row = None /\ NoSanction.state = "absent" /\ NoSanction.subject = None
      /\ \A w \in Writer : writing[w] # Idle => ChangeOK(writing[w])
      /\ \A w \in Writer : writing[w].kind = "issue" => writing[w].row \in Sanction
    BY DEF TInv, TypeOK, Changing, Idle, NoSanction, ChangeOK
<1>1. ASSUME UNCHANGED <<row, writing>> PROVE Reserved'
    BY <1>1 DEF Reserved
<1>2. ASSUME NEW w \in Writer, NEW s \in Sanction, NEW u \in User, Issues(w, s, u) PROVE Reserved'
    <2> DEFINE x == [kind |-> "issue", row |-> s, user |-> u, from |-> None, seq |-> clock']
    <2>1. /\ row[s] = NoSanction /\ row' = row /\ writing' = [writing EXCEPT ![w] = x]
          /\ \A v \in Writer : writing[v].row # s
        BY <1>2 DEF Issues
    <2>2. writing'[w].kind = "issue" /\ writing'[w].row = s /\ \A v \in Writer \ {w} : writing'[v] = writing[v]
        BY <1>0, <2>1
    <2> QED BY <2>1, <2>2 DEF Reserved
<1>3. ASSUME NEW w \in Writer, NEW s \in Sanction, Ends(w, s) PROVE Reserved'
    <2> DEFINE x == [kind |-> "end", row |-> s, user |-> row[s].subject, from |-> None, seq |-> clock']
    <2>1. row[s].state = "active" /\ row' = row /\ writing' = [writing EXCEPT ![w] = x]
        BY <1>3 DEF Ends
    <2>2. writing'[w].kind = "end" /\ writing'[w].row = s /\ \A v \in Writer \ {w} : writing'[v] = writing[v]
        BY <1>0, <2>1
    <2>3. \A v \in Writer : writing[v].kind = "issue" => writing[v].row # s
        BY <1>0, <2>1 DEF Reserved
    <2> QED BY <2>1, <2>2, <2>3 DEF Reserved
<1>4. ASSUME NEW w \in Writer, NEW g \in User, NEW u \in User, Merges(w, g, u) PROVE Reserved'
    <2> DEFINE x == [kind |-> "merge", row |-> None, user |-> u, from |-> g, seq |-> clock']
    <2>1. row' = row /\ writing' = [writing EXCEPT ![w] = x]
        BY <1>4 DEF Merges
    <2>2. writing'[w].kind = "merge" /\ writing'[w].row = None /\ \A v \in Writer \ {w} : writing'[v] = writing[v]
        BY <1>0, <2>1
    <2> QED BY <1>0, <2>1, <2>2, Numerals DEF Reserved
<1>5. ASSUME NEW w \in Writer, RollsBack(w) PROVE Reserved'
    <2>1. row' = row /\ writing' = [writing EXCEPT ![w] = Idle]
        BY <1>5 DEF RollsBack
    <2>2. writing'[w] = Idle /\ \A v \in Writer \ {w} : writing'[v] = writing[v]
        BY <1>0, <2>1
    <2> QED BY <1>0, <2>1, <2>2, Numerals DEF Reserved
<1>6. ASSUME NEW w \in Writer, Commits(w) PROVE Reserved'
    <2>1. row' = Written(w) /\ writing' = [writing EXCEPT ![w] = Idle] /\ writing[w] # Idle
        BY <1>6 DEF Commits
    <2>2. writing'[w] = Idle /\ \A v \in Writer \ {w} : writing'[v] = writing[v]
        BY <1>0, <2>1
    <2>3. ASSUME NEW v \in Writer \ {w}, writing[v].kind = "issue"
          PROVE  row'[writing[v].row] = NoSanction
        <3> DEFINE s == writing[v].row
        <3>1. s \in Sanction /\ row[s] = NoSanction /\ writing[w].row # s
            BY <1>0, <2>3 DEF Reserved
        <3>2. ChangeOK(writing[w])
            BY <1>0, <2>1
        <3>3. writing[w].kind = "merge" => row[s].subject # writing[w].from
            BY <1>0, <3>1, <3>2, Numerals DEF ChangeOK
        <3>4. Written(w)[s] = row[s]
            BY <2>1, <3>1, <3>2, <3>3, WrittenRow DEF ChangeOK
        <3> QED BY <2>1, <3>1, <3>4
    <2> QED BY <1>0, <2>2, <2>3, Numerals DEF Reserved
<1>7. ASSUME NEW s \in Sanction, Lapses(s) PROVE Reserved'
    <2>1. row[s].state = "active" /\ row' = [row EXCEPT ![s].lapsed = TRUE] /\ writing' = writing
        BY <1>7 DEF Lapses, InForce
    <2>2. \A v \in Writer : writing[v].kind = "issue" =>
             writing[v].row \in Sanction /\ row[writing[v].row] = NoSanction /\ writing[v].row # s
        BY <1>0, <2>1 DEF Reserved
    <2> QED BY <1>0, <2>1, <2>2 DEF Reserved
<1>8. CASE UNCHANGED vars
    BY <1>1, <1>8 DEF vars
<1>9. CASE RunnerStep
    BY <1>1, <1>9 DEF RunnerStep, Delivers, Rebuilds, ListsPage, ReadsSnapshot, ReadsSeq, Upserts
<1>10. ASSUME NEW s \in Sanction, Purges(s) PROVE Reserved'
    <2>1. row[s].state = "ended" /\ row' = [row EXCEPT ![s].state = "purged"] /\ writing' = writing
        BY <1>10 DEF Purges
    <2>2. \A v \in Writer : writing[v].kind = "issue" =>
             writing[v].row \in Sanction /\ row[writing[v].row] = NoSanction /\ writing[v].row # s
        BY <1>0, <2>1 DEF Reserved, NoSanction
    <2> QED BY <1>0, <2>1, <2>2 DEF Reserved
<1> QED BY <1>2, <1>3, <1>4, <1>5, <1>6, <1>7, <1>8, <1>9, <1>10 DEF Next, OwnerStep

\* Every step leaves the record, or issues, ends or carries.
LEMMA RecordStep ==
    ASSUME TInv, Reserved, [Next]_vars
    PROVE  Record!Next \/ UNCHANGED <<Status, Subject>>
<1> DEFINE StatusOf(r) == IF r.state = "absent" THEN "none"
                           ELSE IF r.state = "active" /\ ~r.lapsed THEN "in_force" ELSE "over"
           Goal == Record!Next \/ UNCHANGED <<Status, Subject>>
<1>0. /\ row \in [Sanction -> SanctionRow]
      /\ Status = [s \in Sanction |-> StatusOf(row[s])]
      /\ Status' = [s \in Sanction |-> StatusOf(row'[s])]
      /\ Subject = [s \in Sanction |-> row[s].subject]
      /\ Subject' = [s \in Sanction |-> row'[s].subject]
    BY DEF TInv, TypeOK, Status, InForce, Subject
<1> SUFFICES Goal
    OBVIOUS
<1> HIDE DEF StatusOf
<1>1. ASSUME row' = row PROVE Goal
    BY <1>0, <1>1
<1>2. ASSUME NEW s \in Sanction, \A t \in Sanction \ {s} : row'[t] = row[t],
             row'[s].subject = row[s].subject,
             \/ StatusOf(row'[s]) = StatusOf(row[s])
             \/ StatusOf(row[s]) = "in_force" /\ StatusOf(row'[s]) = "over"
      PROVE  Goal
    <2>1. Subject' = Subject
        BY <1>0, <1>2
    <2>2. Status' = [Status EXCEPT ![s] = StatusOf(row'[s])] /\ Status[s] = StatusOf(row[s])
        BY <1>0, <1>2
    <2>3. CASE StatusOf(row'[s]) = StatusOf(row[s])
        <3>1. Status' = Status
            BY <1>0, <2>2, <2>3
        <3> QED BY <2>1, <3>1
    <2>4. CASE StatusOf(row[s]) = "in_force" /\ StatusOf(row'[s]) = "over"
        <3>1. Record!End(s)
            BY <2>1, <2>2, <2>4 DEF Record!End
        <3> QED BY <3>1 DEF Record!Next
    <2> QED BY <1>2, <2>3, <2>4
<1>3. ASSUME NEW w \in Writer, Commits(w) PROVE Goal
    <2> DEFINE x == writing[w]
    <2>0. x # Idle /\ row' = Written(w) /\ ChangeOK(x)
        BY <1>3 DEF Commits, TInv, Changing
    <2>1. CASE x.kind = "issue"
        <3> DEFINE s == x.row
        <3>1. s \in Sanction /\ x.user \in User /\ row[s] = NoSanction
            BY <2>0, <2>1 DEF ChangeOK, Reserved
        <3>2. /\ \A t \in Sanction \ {s} : row'[t] = row[t]
              /\ row'[s] = [NoSanction EXCEPT !.state = "active", !.subject = x.user, !.updated_at = x.seq]
            BY <2>0, <2>1, <3>1, WrittenRow
        <3>3. StatusOf(row[s]) = "none" /\ StatusOf(row'[s]) = "in_force" /\ row'[s].subject = x.user
            BY <3>1, <3>2 DEF StatusOf, NoSanction
        <3> HIDE DEF s, x
        <3>4. Subject' = [Subject EXCEPT ![s] = x.user]
            BY <1>0, <3>1, <3>2, <3>3
        <3>5. Status' = [Status EXCEPT ![s] = "in_force"] /\ Status[s] = "none"
            BY <1>0, <3>1, <3>2, <3>3
        <3> QED BY <3>1, <3>4, <3>5 DEF Record!Next, Record!Issue
    <2>2. CASE x.kind = "end"
        <3> DEFINE s == x.row
        <3>1. s \in Sanction /\ row[s] \in SanctionRow /\ row[s].state # "absent"
            BY <1>0, <2>0, <2>2 DEF ChangeOK, TInv, Changing
        <3>2. /\ \A t \in Sanction \ {s} : row'[t] = row[t]
              /\ row'[s] = [row[s] EXCEPT !.state = "ended", !.updated_at = x.seq]
            BY <2>0, <2>2, <3>1, WrittenRow
        <3>3. row'[s].state = "ended" /\ row'[s].subject = row[s].subject
            BY <3>1, <3>2 DEF SanctionRow
        <3>4. StatusOf(row[s]) \in {"in_force", "over"} /\ StatusOf(row'[s]) = "over"
            BY <3>1, <3>3 DEF StatusOf
        <3> HIDE DEF s, x, Goal
        <3> QED BY <1>2, <3>1, <3>2, <3>3, <3>4
    <2>3. CASE x.kind = "merge"
        <3>1. x.from \in User /\ x.user \in User
            BY <2>0, <2>3 DEF ChangeOK
        <3>2. ASSUME NEW s \in Sanction
              PROVE  /\ row'[s].subject = IF row[s].subject = x.from THEN x.user ELSE row[s].subject
                     /\ StatusOf(row'[s]) = StatusOf(row[s])
            <4>1. row'[s] = IF row[s].subject = x.from THEN Carry(row[s], x.user, x.seq) ELSE row[s]
                BY <2>0, <2>3, WrittenRow
            <4>2. row[s] \in SanctionRow
                BY <1>0
            <4>3. /\ Carry(row[s], x.user, x.seq).subject = x.user
                  /\ Carry(row[s], x.user, x.seq).state = row[s].state
                  /\ Carry(row[s], x.user, x.seq).lapsed = row[s].lapsed
                BY <4>2 DEF Carry, SanctionRow
            <4> HIDE DEF x
            <4> QED BY <4>1, <4>3 DEF StatusOf
        <3> HIDE DEF x
        <3>3. Status' = Status
            BY <1>0, <3>2
        <3>4. Subject' = [s \in Sanction |-> IF Subject[s] = x.from THEN x.user ELSE Subject[s]]
            BY <1>0, <3>2
        <3> QED BY <3>1, <3>3, <3>4 DEF Record!Next, Record!Carry
    <2> QED BY <2>0, <2>1, <2>2, <2>3 DEF ChangeOK
<1>4. ASSUME NEW s \in Sanction, Lapses(s) PROVE Goal
    <2>1. row[s].state = "active" /\ ~row[s].lapsed /\ row' = [row EXCEPT ![s].lapsed = TRUE]
        BY <1>4 DEF Lapses, InForce
    <2>2. /\ \A t \in Sanction \ {s} : row'[t] = row[t]
          /\ row'[s].subject = row[s].subject /\ row'[s].state = "active" /\ row'[s].lapsed
        BY <1>0, <2>1 DEF SanctionRow
    <2>3. StatusOf(row[s]) = "in_force" /\ StatusOf(row'[s]) = "over"
        BY <2>1, <2>2 DEF StatusOf
    <2> HIDE DEF Goal
    <2> QED BY <1>2, <2>2, <2>3
<1>8. ASSUME NEW s \in Sanction, Purges(s) PROVE Goal
    <2>1. row[s].state = "ended" /\ row' = [row EXCEPT ![s].state = "purged"]
        BY <1>8 DEF Purges
    <2>2. /\ \A t \in Sanction \ {s} : row'[t] = row[t]
          /\ row'[s].subject = row[s].subject /\ row'[s].state = "purged"
        BY <1>0, <2>1 DEF SanctionRow
    <2>3. StatusOf(row[s]) = "over" /\ StatusOf(row'[s]) = "over"
        BY <2>1, <2>2 DEF StatusOf
    <2> HIDE DEF Goal
    <2> QED BY <1>2, <2>2, <2>3
<1>5. ASSUME NEW w \in Writer,
             \/ RollsBack(w)
             \/ \E s \in Sanction : Ends(w, s) \/ \E u \in User : Issues(w, s, u)
             \/ \E g, u \in User : Merges(w, g, u)
      PROVE  row' = row
    BY <1>5 DEF RollsBack, Ends, Issues, Merges
<1>6. CASE RunnerStep \/ UNCHANGED vars
    <2>1. row' = row
        BY <1>6 DEF RunnerStep, Delivers, Rebuilds, ListsPage, ReadsSnapshot, ReadsSeq, Upserts, vars
    <2> HIDE DEF Goal
    <2> QED BY <1>1, <2>1
<1>7. CASE OwnerStep
    <2> HIDE DEF Goal
    <2> QED BY <1>1, <1>3, <1>4, <1>5, <1>7, <1>8 DEF OwnerStep
<1> HIDE DEF Goal
<1> QED BY <1>6, <1>7 DEF Next

\* services.issue_sanction, lift_sanction, the expiry job, the purge and the merge
\* handler keep one record, whatever order their transactions commit in: a
\* sanction is issued once, ends once, and a merge carries everything that is on
\* the guest's record when it commits, ended or not, in one step that no other
\* writer gets between.
THEOREM OwnerKeepsRecord == Spec => ImplementsRecord
<1>1. Init => Record!Init /\ Reserved
    BY DEF Init, Record!Init, Status, Subject, NoSanction, Reserved, Idle
<1>2. TInv /\ Reserved /\ [Next]_vars => Reserved' /\ [Record!Next]_<<Status, Subject>>
    BY ReservedStep, RecordStep
<1>3. Spec => Record!Init /\ [][Record!Next]_<<Status, Subject>>
    BY <1>1, <1>2, Typed, PTL DEF Spec
<1> QED BY <1>3 DEF ImplementsRecord, Record!Spec

=============================================================================
