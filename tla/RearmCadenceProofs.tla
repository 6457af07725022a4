-------------------------- MODULE RearmCadenceProofs ------------------------
(***************************************************************************)
(* Under settings that leave room for the missed runs and the delay of the *)
(* next one, the blacklist key never lapses, whatever the four numbers     *)
(* are.  The invariant says how old the key can be: no older than the      *)
(* periods that went without a run and the ticks of this one.              *)
(***************************************************************************)
EXTENDS RearmCadence, Integers, TLAPS

\* Ticks since the key was set, at most: a run that reached the row did so in this
\* period, otherwise in the one before the missed ones.
Age == IF reached THEN phase ELSE (missed + 1) * Period + phase

\* A period whose run can no longer come counts as missed before it ends.
RunIsDue == ~reached /\ phase > Delay => missed < Misses

IInv == TypeOK /\ RunIsDue /\ ttl + Age >= Lifetime

-----------------------------------------------------------------------------

\* Periods add up: the arithmetic of one more missed period.
LEMMA PeriodsAdd ==
    ASSUME NEW m \in Nat
    PROVE  /\ (m + 1) * Period \in Nat
           /\ (m + 2) * Period = (m + 1) * Period + Period
           /\ (m + 1 + 1) * Period = (m + 1) * Period + Period
BY ClockAssumption, SMT

\* More missed periods are longer.
LEMMA PeriodsGrow ==
    ASSUME NEW m \in Nat, NEW n \in Nat, m < n
    PROVE  (m + 1) * Period + Period <= (n + 1) * Period
<1> DEFINE d == n - (m + 1)
<1>1. d \in Nat /\ n + 1 = (m + 1) + (1 + d)
    OBVIOUS
<1>2. ((m + 1) + (1 + d)) * Period = (m + 1) * Period + Period + d * Period
    BY <1>1, ClockAssumption, SMT
<1>3. d * Period \in Nat
    BY <1>1, ClockAssumption, SMT
<1> QED BY <1>1, <1>2, <1>3, PeriodsAdd, ClockAssumption

\* A key loses a tick at most while its age gains one.
LEMMA TicksBalance ==
    ASSUME IInv, Age \in Nat
    PROVE  /\ Aged \in 0..Lifetime
           /\ Aged + (Age + 1) >= Lifetime
BY ClockAssumption DEF IInv, TypeOK, Aged

\* An issued sanction starts with a key of no age.
LEMMA IInvInit == Init => IInv
BY ClockAssumption DEF Init, IInv, TypeOK, RunIsDue, Age

\* Setting the key, and letting time pass, keep its age within the bound.
LEMMA IInvStep == IInv /\ [Next]_vars => IInv'
<1> SUFFICES ASSUME IInv, [Next]_vars PROVE IInv'
    OBVIOUS
<1> USE ClockAssumption
<1>0. (missed + 1) * Period \in Nat /\ (missed + 1 + 1) * Period = (missed + 1) * Period + Period
    BY PeriodsAdd DEF IInv, TypeOK
<1>1. CASE Rearm
    BY <1>1 DEF Rearm, IInv, TypeOK, RunIsDue, Age
<1>1a. Age \in Nat
    BY <1>0 DEF Age, IInv, TypeOK
<1>1b. Aged \in 0..Lifetime /\ Aged + (Age + 1) >= Lifetime
    BY <1>1a, TicksBalance
<1>2. CASE Tick
    <2>1. ttl' = Aged /\ phase' = phase + 1 /\ phase + 1 \in 0..(Period - 1)
        BY <1>2 DEF Tick, IInv, TypeOK
    <2>2. reached' = reached /\ missed' = missed
        BY <1>2 DEF Tick
    <2>3. TypeOK'
        BY <1>1b, <2>1, <2>2 DEF IInv, TypeOK
    <2>4. RunIsDue'
        BY <1>2 DEF Tick, MayMiss, IInv, TypeOK, RunIsDue
    <2>5. Age' = Age + 1
        BY <1>0, <2>1, <2>2 DEF Age, IInv, TypeOK
    <2>6. (ttl + Age)' >= Lifetime
        BY <1>1b, <2>1, <2>5
    <2> QED BY <2>3, <2>4, <2>6 DEF IInv
<1>3. CASE Beat
    <2>1. ttl' = Aged /\ phase' = 0 /\ reached' = FALSE
        BY <1>3 DEF Beat
    <2>2. 0 \in 0..(Period - 1) /\ 0 \in 0..Misses
        OBVIOUS
    <2>3. CASE reached
        <3>1. missed' = 0
            BY <1>3, <2>3 DEF Beat
        <3>2. TypeOK'
            BY <1>1b, <2>1, <2>2, <3>1 DEF TypeOK
        <3>3. Age' = Age + 1
            BY <1>3, <2>1, <2>3, <3>1 DEF Beat, Age, IInv, TypeOK
        <3>4. (ttl + Age)' >= Lifetime
            BY <1>1b, <2>1, <3>3
        <3> QED BY <2>1, <3>2, <3>4 DEF IInv, RunIsDue
    <2>4. CASE ~reached
        <3>1. missed' = missed + 1 /\ missed < Misses
            BY <1>3, <2>4 DEF Beat, MayMiss
        <3>2. missed + 1 \in 0..Misses
            BY <3>1 DEF IInv, TypeOK
        <3>3. TypeOK'
            BY <1>1b, <2>1, <2>2, <3>1, <3>2 DEF TypeOK
        <3>4. Age' = Age + 1
            BY <1>0, <1>3, <2>1, <2>4, <3>1 DEF Beat, Age, IInv, TypeOK
        <3>5. (ttl + Age)' >= Lifetime
            BY <1>1b, <2>1, <3>4
        <3>6. RunIsDue'
            BY <2>1, <2>2 DEF RunIsDue
        <3> QED BY <3>3, <3>5, <3>6 DEF IInv
    <2> QED BY <2>3, <2>4
<1>4. CASE UNCHANGED vars
    BY <1>4 DEF vars, IInv, TypeOK, RunIsDue, Age
<1> QED BY <1>1, <1>2, <1>3, <1>4 DEF Next

\* A key of that age is alive.
LEMMA IInvLives == CadenceHolds /\ IInv => KeyNeverLapses
<1> SUFFICES ASSUME CadenceHolds, IInv PROVE ttl > 0
    BY DEF KeyNeverLapses
<1> USE ClockAssumption DEF CadenceHolds, IInv, TypeOK
<1>0. (Misses + 1) * Period \in Nat /\ (missed + 1) * Period \in Nat /\ Period <= (Misses + 1) * Period
    <2>1. 0 * Period = 0 /\ (0 + 1) * Period = Period
        BY SMT
    <2>2. CASE Misses = 0
        BY <2>1, <2>2, PeriodsAdd
    <2>3. CASE Misses > 0
        BY <2>1, <2>3, PeriodsAdd, PeriodsGrow
    <2> QED BY <2>2, <2>3, PeriodsAdd
<1>1. CASE reached
    BY <1>0, <1>1 DEF Age
<1>2. CASE ~reached /\ missed < Misses
    <2>1. (missed + 1) * Period + Period <= (Misses + 1) * Period
        BY <1>2, PeriodsGrow
    <2> QED BY <1>0, <1>2, <2>1 DEF Age
<1>3. CASE ~reached /\ missed = Misses
    <2>1. phase <= Delay
        BY <1>3 DEF RunIsDue
    <2> QED BY <1>0, <1>3, <2>1 DEF Age
<1> QED BY <1>1, <1>2, <1>3

\* For every lifetime, period, delay and number of missed runs with
\* Lifetime > (Misses + 1) * Period + Delay, the blacklist key of a user under a
\* sanction never lapses.
THEOREM KeyLives == CadenceHolds => (Spec => []KeyNeverLapses)
<1>1. CadenceHolds /\ IInv => KeyNeverLapses
    BY IInvLives
<1>2. Spec => []IInv
    BY IInvInit, IInvStep, PTL DEF Spec
<1> SUFFICES ASSUME CadenceHolds PROVE Spec => []KeyNeverLapses
    OBVIOUS
<1>3. IInv => KeyNeverLapses
    BY <1>1
<1> QED BY <1>2, <1>3, PTL

=============================================================================
