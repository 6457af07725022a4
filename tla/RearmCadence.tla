---------------------------- MODULE RearmCadence ----------------------------
(***************************************************************************)
(* The clock behind the blacklist: the key of one user under one long      *)
(* sanction, which dies of age, and rearm_active_sanctions, which beat     *)
(* starts once a period and which reaches the user's row some time into    *)
(* it, or misses the period altogether (beat down, no worker, a cache      *)
(* that refuses the key).  Time is a number of ticks.                      *)
(***************************************************************************)
EXTENDS Naturals

CONSTANTS
    Lifetime,   \* settings BLACKLIST_TTL_SECONDS
    Period,     \* settings REARM_SCHEDULE
    Delay,      \* the latest tick of a period at which a run reaches the row
    Misses      \* the most periods in a row that go without a run

ASSUME ClockAssumption ==
    /\ Lifetime \in Nat \ {0}
    /\ Period \in Nat \ {0}
    /\ Delay \in 0..(Period - 1)
    /\ Misses \in Nat

VARIABLES
    ttl,        \* ticks until the key dies, 0 when it is gone
    phase,      \* ticks since the beat of this period
    reached,    \* the key was set in this period
    missed      \* periods in a row that ended without that

vars == <<ttl, phase, reached, missed>>

\* issue_sanction sets the key at any moment of a period.
Init ==
    /\ ttl = Lifetime
    /\ phase \in 0..(Period - 1)
    /\ reached = TRUE
    /\ missed = 0

\* MUTANT: the key is set only where there is none, as cache.add would.
Rearm_adds ==
    /\ ~reached
    /\ phase <= Delay
    /\ ttl' = IF ttl = 0 THEN Lifetime ELSE ttl
    /\ reached' = TRUE
    /\ missed' = 0
    /\ UNCHANGED phase

\* This period's run reaches the row and sets the key for a whole lifetime.
Rearm ==
    /\ ~reached
    /\ phase <= Delay
    /\ ttl' = Lifetime
    /\ reached' = TRUE
    /\ missed' = 0
    /\ UNCHANGED phase

\* The period may pass without a run.
MayMiss == reached \/ missed < Misses

Aged == IF ttl = 0 THEN 0 ELSE ttl - 1

\* A tick inside a period; past Delay no run is coming.
Tick ==
    /\ phase + 1 < Period
    /\ phase = Delay => MayMiss
    /\ ttl' = Aged
    /\ phase' = phase + 1
    /\ UNCHANGED <<reached, missed>>

\* The tick of the next beat.
Beat ==
    /\ phase + 1 = Period
    /\ MayMiss
    /\ ttl' = Aged
    /\ phase' = 0
    /\ reached' = FALSE
    /\ missed' = IF reached THEN 0 ELSE missed + 1

Next == Rearm \/ Tick \/ Beat

Spec == Init /\ [][Next]_vars

TypeOK ==
    /\ ttl \in 0..Lifetime
    /\ phase \in 0..(Period - 1)
    /\ reached \in BOOLEAN
    /\ missed \in 0..Misses

\* A suspension does not quietly stop being enforced: through missed runs and
\* late ones, the key does not die while the sanction is in force.
KeyNeverLapses == ttl > 0

\* What the settings must allow for that: a key outlives the missed periods, the
\* one that follows them, and the delay of the run in it.
CadenceHolds == Lifetime > (Misses + 1) * Period + Delay

=============================================================================
