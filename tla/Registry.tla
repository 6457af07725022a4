------------------------------- MODULE Registry -----------------------------
(***************************************************************************)
(* The merge-registries of registry.py, seen from one target type: what is *)
(* effective when built-in, settings and runtime layers are laid over each *)
(* other, the policy of the type, the complaint reasons and the screening  *)
(* rules.  Pure definitions.                                               *)
(*                                                                         *)
(* A deployment is [types, reasons, rules]; each is a sequence of layers,  *)
(* lowest first.  A layer of types holds the policy of the one type, the   *)
(* other layers are functions from codes; a place a layer says nothing     *)
(* about holds Absent, and one it removes (an entry of None) Removed.      *)
(***************************************************************************)
EXTENDS Integers, FiniteSetsExt

CONSTANTS
    Absent,         \* the layer does not name the code
    Removed,        \* the layer removes the code
    Reason,         \* codes of complaint reasons
    SystemReason,   \* codes the module itself produces (_SYSTEM_REASONS)
    Rule            \* codes of screening rules, numbered in code order

ASSUME RegistryAssumption ==
    /\ Absent # Removed
    /\ Reason \cap SystemReason = {}
    /\ Absent \notin Reason \cup SystemReason
    /\ Rule \subseteq Nat

\* Whether the code applies to this type, the type's "*" included, is one bit.
ReasonEntry == [applies : BOOLEAN, describe : BOOLEAN, system : BOOLEAN]

RuleEntry == [applies : BOOLEAN, pattern : {"valid", "broken", "empty"},
              decision : {"approved", "rejected", "needs_review"}]

\* "reasons" is the allowlist; "source" is where the content comes from.
Policy == [screen : BOOLEAN, media : BOOLEAN, reasons : SUBSET (Reason \cup {"*"}),
           source : {"function", "evidence", "nowhere"}]

UNREGISTERED_POLICY ==
    [screen |-> FALSE, media |-> FALSE, reasons |-> {"*"}, source |-> "nowhere"]

\* The last layer that names a code wins.
Top(layers) ==
    LET named == {i \in DOMAIN layers : layers[i] # Absent}
    IN IF named = {} THEN Absent ELSE layers[Max(named)]

At(layers, code) == Top([i \in DOMAIN layers |-> layers[i][code]])

Live(entry) == entry \notin {Absent, Removed}

-----------------------------------------------------------------------------
(* Target types.                                                           *)

Registered(d) == Live(Top(d.types))

\* resolve_policy, where the type is registered.
PolicyOf(d) == Top(d.types)

\* resolve_policy_lenient.
LenientPolicy(d) == IF Registered(d) THEN PolicyOf(d) ELSE UNREGISTERED_POLICY

-----------------------------------------------------------------------------
(* Reasons.                                                                *)

SystemEntry == [applies |-> TRUE, describe |-> FALSE, system |-> TRUE]

\* MUTANT: system reasons are laid at the bottom, where a host replaces them.
GetReasons_system_first(d) ==
    LET entry == [c \in Reason \cup SystemReason |->
                    IF c \in SystemReason /\ At(d.reasons, c) = Absent
                    THEN SystemEntry ELSE At(d.reasons, c)]
    IN [c \in {x \in Reason \cup SystemReason : Live(entry[x])} |-> entry[c]]

\* get_reasons: system reasons are laid last and cannot be removed.
GetReasons(d) ==
    [c \in SystemReason \cup {x \in Reason : Live(At(d.reasons, x))} |->
        IF c \in SystemReason THEN SystemEntry ELSE At(d.reasons, c)]

\* What a complaint form, and the model's prompt, may name for this type.
ReasonsForTarget(d) ==
    LET allowed == PolicyOf(d).reasons
    IN {c \in DOMAIN GetReasons(d) :
            /\ ~GetReasons(d)[c].system
            /\ GetReasons(d)[c].applies
            /\ "*" \in allowed \/ c \in allowed}

-----------------------------------------------------------------------------
(* Rules.                                                                  *)

RulesForTarget(d) ==
    {r \in Rule : Live(At(d.rules, r)) /\ At(d.rules, r).applies}

\* The rules whose pattern is there, compiles and matches the content.
RuleHits(d, matching) ==
    {r \in RulesForTarget(d) : At(d.rules, r).pattern = "valid" /\ r \in matching}

\* run_rules: the first hit in code order decides.
FirstHit(d, matching) == At(d.rules, Min(RuleHits(d, matching)))

=============================================================================
