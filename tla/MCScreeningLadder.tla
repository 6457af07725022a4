-------------------------- MODULE MCScreeningLadder -------------------------
(* A small instance of ScreeningLadder.                                    *)
EXTENDS ScreeningLadder

Codes == Reason \cup SystemReason

Plain == [screen |-> TRUE, media |-> TRUE, reasons |-> {"*"}, source |-> "function"]

Silence == [c \in Codes |-> Absent]

Builtin == [c \in Codes |-> IF c \in Reason
                THEN [applies |-> TRUE, describe |-> FALSE, system |-> FALSE] ELSE Absent]

\* A host that takes one reason out, narrows another, and claims a system code.
Settled == [c \in Codes |->
    IF c = "spam" THEN Removed
    ELSE IF c = "fraud" THEN [applies |-> FALSE, describe |-> TRUE, system |-> FALSE]
    ELSE [applies |-> TRUE, describe |-> FALSE, system |-> FALSE]]

Runtime == [c \in Codes |-> IF c = "spam"
                THEN [applies |-> TRUE, describe |-> TRUE, system |-> FALSE] ELSE Absent]

RuleIs(pattern, decision) == [applies |-> TRUE, pattern |-> pattern, decision |-> decision]

NoRules == [r \in Rule |-> Absent]

Mixed == [r \in Rule |-> IF r = 1 THEN RuleIs("valid", "rejected") ELSE RuleIs("valid", "approved")]

Torn == [r \in Rule |-> IF r = 1 THEN RuleIs("broken", "approved") ELSE RuleIs("valid", "needs_review")]

D(types, reasons, rules) == [types |-> types, reasons |-> reasons, rules |-> rules]

Deployments == {
    D(<<Absent, Plain, Absent>>, <<Builtin, Silence, Silence>>, <<NoRules, Mixed, NoRules>>),
    D(<<Absent, Plain, [Plain EXCEPT !.reasons = {"fraud"}]>>,
      <<Builtin, Settled, Runtime>>, <<NoRules, Mixed, [NoRules EXCEPT ![1] = Removed]>>),
    D(<<Absent, [Plain EXCEPT !.media = FALSE], Absent>>,
      <<Builtin, Settled, Silence>>, <<NoRules, Torn, NoRules>>),
    D(<<Absent, [Plain EXCEPT !.source = "evidence"], Absent>>,
      <<Builtin, Silence, Runtime>>, <<NoRules, NoRules, NoRules>>),
    D(<<Absent, [Plain EXCEPT !.source = "nowhere", !.screen = FALSE], Absent>>,
      <<Builtin, Silence, Silence>>, <<NoRules, Torn, NoRules>>),
    D(<<Absent, Plain, Removed>>, <<Builtin, Silence, Silence>>, <<NoRules, NoRules, NoRules>>)}

Settings == [enabled : BOOLEAN, base : BOOLEAN, transport : {"url", "data_b64"},
             onFailure : {"hold", "approve", "reject"},
             onUnavailable : {"hold", "approve", "reject"}, onMedia : {"dlq", "review"}]

\* Every pair of the two fallbacks, and of origin and transport; the rest
\* follows them so that each value occurs with both doors.
SomeSettings == {s \in Settings :
    /\ ~s.enabled => s.base /\ s.transport = "url"
    /\ s.onMedia = "review" <=> s.onFailure = "approve"
    /\ s.onUnavailable # s.onFailure \/ s.onFailure = "hold"}
=============================================================================
