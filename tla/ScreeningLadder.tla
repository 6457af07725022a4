--------------------------- MODULE ScreeningLadder --------------------------
(***************************************************************************)
(* What decides a verdict when no person does, from the two doors content  *)
(* comes through: a report, whose case is screened by a retried task       *)
(* (submit_report, start_screening, screen_case), and a draft, screened    *)
(* while its author waits (screen_draft).  Behind both stand the stages of *)
(* screening.py: the rules, the photos one by one, the model.  One request *)
(* is followed from its arrival to its answer; the host may be redeployed  *)
(* with other registries between two attempts of the task.                 *)
(*                                                                         *)
(* The content's owner, the CDN, the model and the author are external:    *)
(* each of their answers is chosen when it is asked for.                   *)
(***************************************************************************)
EXTENDS Registry

CONSTANTS
    Deployment,     \* registries a process may be started with
    Setting,        \* STAPEL_MODERATION settings it may be started with
    MaxRefs,        \* bound on the photo refs of a content
    MaxInline,      \* bound on the inline images of a draft
    MAX_MEDIA_PER_CASE,
    SCREEN_MAX_ATTEMPTS

ASSUME DeploymentAssumption ==
    \A d \in Deployment :
        /\ \A i \in DOMAIN d.types : d.types[i] \in Policy \cup {Absent, Removed}
        /\ Registered(d) => PolicyOf(d) \in Policy
        /\ \A r \in Rule : Live(At(d.rules, r)) => At(d.rules, r) \in RuleEntry

ASSUME SettingAssumption ==
    Setting \subseteq [enabled : BOOLEAN, base : BOOLEAN, transport : {"url", "data_b64"},
                       onFailure : {"hold", "approve", "reject"},
                       onUnavailable : {"hold", "approve", "reject"},
                       onMedia : {"dlq", "review"}]

ASSUME LadderBoundAssumption ==
    /\ {MaxRefs, MaxInline} \subseteq Nat
    /\ {MAX_MEDIA_PER_CASE, SCREEN_MAX_ATTEMPTS} \subseteq Nat \ {0}

VARIABLES
    deployment, settings,   \* what the process runs with
    door,           \* "report" or "draft"
    pc,             \* where the request is
    code,           \* the reason a report names
    owner,          \* what the content's owner last answered
    content,        \* the content last read or handed over
    look,           \* the photos: [todo, images, missed]
    told,           \* what the model last answered
    trouble,        \* the exception that ended the last handler
    tries,          \* attempts the screening task has begun
    result,         \* the ScreeningResult the request ends with
    row,            \* the state of its case
    answer          \* how the request ended

world == <<owner, content, look, told>>
ends  == <<trouble, tries, result, row, answer>>
vars  == <<deployment, settings, door, pc, code, world, ends>>

-----------------------------------------------------------------------------
(* The owner of a content, and fetch_content.                              *)

OwnerError == {"LookupError", "KeyError", "ReviewNotFound", "ObjectDoesNotExist", "OSError"}

OwnerAnswer == [said : OwnerError \cup {"content"}, wire : BOOLEAN]

Unasked == [said |-> "nothing", wire |-> FALSE]

\* The error says there is no such target.
SaysGone(e) == e \in OwnerError \ {"OSError"}

\* MUTANT: only the cause is read, which no wire carries.
IsNotFound_cause_only(o) == ~o.wire /\ o.said \in {"LookupError", "KeyError", "ReviewNotFound"}

\* _is_not_found: in process the class of the cause decides, over a wire the
\* name at the head of its repr.
IsNotFound(o) ==
    \/ o.said = "ReviewNotFound"
    \/ ~o.wire /\ o.said \in {"LookupError", "KeyError"}
    \/ o.wire /\ o.said \in {"LookupError", "KeyError", "ObjectDoesNotExist"}

\* fetch_content of a policy, with or without an attestation: the owner is
\* asked only where the type names a function.
Fetched(policy, attested, o) ==
    CASE policy.source = "evidence" -> IF attested THEN "content" ELSE "TargetNotFound"
      [] policy.source = "nowhere"  -> "ContentUnavailable"
      [] policy.source = "function" ->
            IF o.said = "content" THEN "content"
            ELSE IF IsNotFound(o) THEN "TargetNotFound" ELSE "ContentUnavailable"

AskedOwner(policy, o) == IF policy.source = "function" THEN o ELSE Unasked

-----------------------------------------------------------------------------
(* Values.                                                                 *)

\* "matching": the rules whose pattern, if it compiles, is found in the text;
\* "sound": every inline image is a decodable image and their sum is in bounds.
Content == [refs : 0..MaxRefs, inline : 0..MaxInline, matching : SUBSET Rule, sound : BOOLEAN]

\* What an owner serves or a report attests: photos by ref only.
Fetchable == {c \in Content : c.inline = 0 /\ c.sound}

NoContent == [refs |-> 0, inline |-> 0, matching |-> {}, sound |-> TRUE]

\* One ref: what cdn.describe and a fetch of its best variant come to.
Photo == [known : BOOLEAN, variant : BOOLEAN, absolute : BOOLEAN, bytes : BOOLEAN, typed : BOOLEAN]

Miss == {"unknown", "no_variant", "no_origin", "not_fetched", "no_type"}

Look == [todo : 0..MAX_MEDIA_PER_CASE, images : 0..MAX_MEDIA_PER_CASE, missed : SUBSET Miss]

Unlooked == [todo |-> 0, images |-> 0, missed |-> {}]

Decision == {"approved", "rejected", "needs_review"}

\* "sure": the confidence reaches LLM_CONFIDENCE_FLOOR.
ModelAnswer == [decision : Decision, sure : BOOLEAN]

\* The provider did not answer, answered a failure, or answered no verdict.
Silent == [decision |-> "none", sure |-> FALSE]

Result == [decision : Decision \cup {"dismissed"}, source : {"rule", "llm", "policy_default"}]

NoResult == [decision |-> "none", source |-> "none"]

Phase == {"new", "task", "rules", "photos", "model", "judged", "failed", "climbing", "done"}

TypeOK ==
    /\ deployment \in Deployment
    /\ settings \in Setting
    /\ door \in {"report", "draft"}
    /\ pc \in Phase
    /\ code \in Reason \cup SystemReason \cup {Absent}
    /\ owner \in OwnerAnswer \cup {Unasked}
    /\ content \in Content
    /\ look \in Look
    /\ told \in ModelAnswer \cup {Silent, NoResult}
    /\ trouble \in {"none", "UnknownTargetType", "UnknownReason", "ReasonNotApplicable",
                    "DescriptionRequired", "CannotReport", "EvidenceInvalid", "TargetNotFound",
                    "ContentUnavailable", "OwnContent", "AlreadyReported", "InvalidDraftImage",
                    "ScreeningUnavailable", "MediaUnresolvable"}
    /\ tries \in 0..SCREEN_MAX_ATTEMPTS
    /\ result \in Result \cup {NoResult}
    /\ row \in {"absent", "screening", "queued", "dlq", "resolved"}
    /\ answer \in {"none", "refused", "accepted", "allowed", "held", "rejected", "raised",
                   "verdict", "parked", "gone", "exhausted"}

Init ==
    /\ deployment \in Deployment
    /\ settings \in Setting
    /\ door \in {"report", "draft"}
    /\ pc = "new"
    /\ code = Absent
    /\ owner = Unasked
    /\ content = NoContent
    /\ look = Unlooked
    /\ told = NoResult
    /\ trouble = "none"
    /\ tries = 0
    /\ result = NoResult
    /\ row = "absent"
    /\ answer = "none"

Automatic(d) == PolicyOf(d).screen /\ settings.enabled

-----------------------------------------------------------------------------
(* The report door.                                                        *)

\* "unfit": evidence that is no JSON object, or over MAX_EVIDENCE_BYTES;
\* "again": the reporter has a report on the target's case already.
Report == [code : Reason \cup SystemReason, described : BOOLEAN, may : BOOLEAN,
           evidence : {"none", "sound", "unfit"}, owner : OwnerAnswer,
           own : BOOLEAN, again : BOOLEAN]

\* validate_evidence: it refuses rather than cuts, and takes nothing beside a
\* content it can read.
EvidenceTaken(policy, r) ==
    r.evidence = "none" \/ (r.evidence = "sound" /\ policy.source = "evidence")

\* submit_report's gates in their order: the first that refuses, or "none".
\* The last is a constraint met inside the transaction, which takes the case
\* back with it.
Gate(d, r) ==
    LET reasons == GetReasons(d)
        read    == Fetched(PolicyOf(d), r.evidence = "sound", r.owner)
    IN IF ~Registered(d) THEN "UnknownTargetType"
       ELSE IF r.code \notin DOMAIN reasons \/ reasons[r.code].system THEN "UnknownReason"
       ELSE IF ~reasons[r.code].applies THEN "ReasonNotApplicable"
       ELSE IF reasons[r.code].describe /\ ~r.described THEN "DescriptionRequired"
       ELSE IF ~r.may THEN "CannotReport"
       ELSE IF ~EvidenceTaken(PolicyOf(d), r) THEN "EvidenceInvalid"
       ELSE IF read # "content" THEN read
       ELSE IF r.own THEN "OwnContent"
       ELSE IF r.again THEN "AlreadyReported"
       ELSE "none"

Refused(why) ==
    /\ trouble' = why
    /\ answer' = "refused"
    /\ pc' = "done"
    /\ UNCHANGED <<tries, result, row>>

\* A report is refused, or its case opens and start_screening requests the
\* task or, without automation, queues it.
Submits(r) ==
    /\ pc = "new" /\ door = "report"
    /\ code' = r.code
    /\ IF Gate(deployment, r) # "none" THEN Refused(Gate(deployment, r))
       ELSE /\ row' = IF Automatic(deployment) THEN "screening" ELSE "queued"
            /\ pc' = IF Automatic(deployment) THEN "task" ELSE "done"
            /\ answer' = IF Automatic(deployment) THEN "none" ELSE "accepted"
            /\ UNCHANGED <<trouble, tries, result>>
    /\ UNCHANGED <<deployment, settings, door, world>>

\* screen_case up to the content: the policy is resolved strictly, and again.
\* A target that is gone closes its case; everything else that raises climbs.
Begins(o, attested, c) ==
    LET policy == PolicyOf(deployment)
        read   == Fetched(policy, attested, o)
    IN /\ pc = "task"
       /\ tries' = tries + 1
       /\ IF ~Registered(deployment)
          THEN /\ pc' = "climbing"
               /\ trouble' = "UnknownTargetType"
               /\ UNCHANGED <<owner, content, result, row, answer>>
          ELSE /\ owner' = AskedOwner(policy, o)
               /\ content' = IF read = "content" THEN c ELSE NoContent
               /\ pc' = CASE read = "content" -> "rules"
                          [] read = "TargetNotFound" -> "done"
                          [] read = "ContentUnavailable" -> "climbing"
               /\ trouble' = IF read = "content" THEN "none" ELSE read
               /\ IF read = "TargetNotFound"
                  THEN /\ result' = [decision |-> "dismissed", source |-> "policy_default"]
                       /\ row' = "resolved"
                       /\ answer' = "gone"
                  ELSE UNCHANGED <<result, row, answer>>
       /\ UNCHANGED <<deployment, settings, door, code, look, told>>

-----------------------------------------------------------------------------
(* The draft door.                                                         *)

\* MUTANT: the two settings are read for each other.
DraftFallback_crossed(off) == IF off THEN settings.onFailure ELSE settings.onUnavailable

\* What stands in for a screener: one setting where none is configured,
\* another where it did not answer.
DraftFallback(off) == IF off THEN settings.onUnavailable ELSE settings.onFailure

\* _draft_fallback, and the verdict of apply_screening_failure.
Spelled(value) ==
    [decision |-> CASE value = "approve" -> "approved"
                    [] value = "reject"  -> "rejected"
                    [] value = "hold"    -> "needs_review",
     source |-> "policy_default"]

\* MUTANT: a held draft is written down though nobody looked at it.
WrittenDown_held(failed, r) == r.decision # "approved"

\* screen_draft opens a case for a refusal somebody decided.
WrittenDown(failed, r) ==
    ~(failed /\ r.decision = "needs_review") /\ r.decision # "approved"

\* MUTANT: whatever came out closes the case.
RowAfter_closes(r) == "resolved"

\* A verdict closes its case, an abstention queues it.
RowAfter(r) == IF r.decision = "needs_review" THEN "queued" ELSE "resolved"

\* The rest of screen_draft: "failed" is its screening_failed.
AnswersDraft(failed, r) ==
    /\ result' = r
    /\ row' = IF WrittenDown(failed, r) THEN RowAfter(r) ELSE "absent"
    /\ answer' = IF WrittenDown(failed, r) THEN "rejected"
                 ELSE IF r.decision = "approved" THEN "allowed" ELSE "held"
    /\ pc' = "done"

InlineAccepted(c) == c.inline > 0 => c.inline <= MAX_MEDIA_PER_CASE /\ c.sound

\* screen_draft up to the screener: too many inline images refuse the call,
\* and without automation the fallback answers.
Composes(c) ==
    /\ pc = "new" /\ door = "draft"
    /\ content' = c
    /\ \/ /\ ~Registered(deployment)
          /\ Refused("UnknownTargetType")
       \/ /\ Registered(deployment) /\ ~InlineAccepted(c)
          /\ Refused("InvalidDraftImage")
       \/ /\ Registered(deployment) /\ InlineAccepted(c) /\ ~Automatic(deployment)
          /\ AnswersDraft(TRUE, Spelled(DraftFallback(TRUE)))
          /\ UNCHANGED <<trouble, tries>>
       \/ /\ Registered(deployment) /\ InlineAccepted(c) /\ Automatic(deployment)
          /\ pc' = "rules"
          /\ UNCHANGED ends
    /\ UNCHANGED <<deployment, settings, door, code, owner, look, told>>

-----------------------------------------------------------------------------
(* The stages of default_screener.                                         *)

\* run_rules: a hit is a verdict, and no photo is looked at; else run_llm
\* lines up what the policy lets the model see.  Inline images go as they
\* are and stand in for any refs, refs are cut to the cap.
RunsRules ==
    LET inline == IF PolicyOf(deployment).media THEN content.inline ELSE 0
    IN /\ pc = "rules"
       /\ IF RuleHits(deployment, content.matching) # {}
          THEN /\ result' = [decision |-> FirstHit(deployment, content.matching).decision,
                             source |-> "rule"]
               /\ pc' = "judged"
               /\ UNCHANGED look
          ELSE /\ look' = [todo |-> IF PolicyOf(deployment).media /\ inline = 0
                                    THEN Min({content.refs, MAX_MEDIA_PER_CASE}) ELSE 0,
                           images |-> inline, missed |-> {}]
               /\ pc' = "photos"
               /\ UNCHANGED result
       /\ UNCHANGED <<deployment, settings, door, code, owner, content, told,
                      trouble, tries, row, answer>>

\* _absolute_url: no origin makes nothing of a relative URL.
HasUrl(p) == p.absolute \/ settings.base

\* What one turn of the loop of _media_images makes of a ref.
Seen(p) ==
    IF ~p.known THEN "unknown"
    ELSE IF ~p.variant THEN "no_variant"
    ELSE IF ~HasUrl(p) THEN "no_origin"
    ELSE IF settings.transport = "url" THEN "image"
    ELSE IF ~p.bytes THEN "not_fetched"
    ELSE IF ~p.typed THEN "no_type"
    ELSE "image"

LooksAt(p) ==
    /\ pc = "photos" /\ look.todo > 0
    /\ look' = IF Seen(p) = "image"
               THEN [look EXCEPT !.todo = @ - 1, !.images = @ + 1]
               ELSE [look EXCEPT !.todo = @ - 1, !.missed = @ \cup {Seen(p)}]
    /\ UNCHANGED <<deployment, settings, door, pc, code, owner, content, told, ends>>

\* MUTANT: with no image left the text goes to the model alone.
Unresolvable_never == FALSE

\* The content has photos and not one of them can be shown.
Unresolvable == PolicyOf(deployment).media /\ look.images = 0 /\ content.refs > 0

\* After the photos, run_llm asks or gives up before asking.
LinesUp ==
    /\ pc = "photos" /\ look.todo = 0
    /\ IF Unresolvable THEN pc' = "failed" /\ trouble' = "MediaUnresolvable"
       ELSE pc' = "model" /\ UNCHANGED trouble
    /\ UNCHANGED <<deployment, settings, door, code, world, tries, result, row, answer>>

\* Below the floor the decision is a person's.
Judgement(a) == [decision |-> IF a.sure THEN a.decision ELSE "needs_review", source |-> "llm"]

\* llm.complete: no answer, a failure envelope and a malformed verdict all
\* raise; an answer is held against the confidence floor.
AsksModel(a) ==
    /\ pc = "model"
    /\ told' = a
    /\ IF a = Silent
       THEN /\ pc' = "failed"
            /\ trouble' = "ScreeningUnavailable"
            /\ UNCHANGED result
       ELSE /\ pc' = "judged"
            /\ result' = Judgement(a)
            /\ UNCHANGED trouble
    /\ UNCHANGED <<deployment, settings, door, code, owner, content, look, tries, row, answer>>

-----------------------------------------------------------------------------
(* The answer.                                                             *)

\* A result: screen_case resolves the case with it, screen_draft answers.
Concludes ==
    /\ pc = "judged"
    /\ \/ /\ door = "draft"
          /\ AnswersDraft(FALSE, result)
       \/ /\ door = "report"
          /\ row' = RowAfter(result)
          /\ answer' = "verdict"
          /\ pc' = "done"
          /\ UNCHANGED result
    /\ UNCHANGED <<deployment, settings, door, code, world, trouble, tries>>

\* screen_draft answers for a screener that was unavailable, and for nothing
\* else: any other exception leaves through the caller.
FailsDraft ==
    /\ pc = "failed" /\ door = "draft"
    /\ IF trouble = "ScreeningUnavailable"
       THEN AnswersDraft(TRUE, Spelled(DraftFallback(FALSE)))
       ELSE answer' = "raised" /\ pc' = "done" /\ UNCHANGED <<result, row>>
    /\ UNCHANGED <<deployment, settings, door, code, world, trouble, tries>>

\* What screen_case lets out of its handler.
Climbs(why) == why # "MediaUnresolvable"

FailsTask ==
    /\ pc = "failed" /\ door = "report"
    /\ IF Climbs(trouble) THEN pc' = "climbing" /\ UNCHANGED <<row, answer>>
       ELSE /\ row' = IF settings.onMedia = "review" THEN "queued" ELSE "dlq"
            /\ answer' = "parked"
            /\ pc' = "done"
    /\ UNCHANGED <<deployment, settings, door, code, world, trouble, tries, result>>

\* The next attempt starts from nothing: what the last one read was its own.
Retries ==
    /\ pc = "climbing" /\ tries < SCREEN_MAX_ATTEMPTS
    /\ pc' = "task"
    /\ owner' = Unasked
    /\ content' = NoContent
    /\ look' = Unlooked
    /\ told' = NoResult
    /\ trouble' = "none"
    /\ UNCHANGED <<deployment, settings, door, code, tries, result, row, answer>>

\* apply_screening_failure, once the attempts are spent.
GivesUp ==
    LET r == Spelled(settings.onFailure)
    IN /\ pc = "climbing" /\ tries = SCREEN_MAX_ATTEMPTS
       /\ pc' = "done"
       /\ answer' = "exhausted"
       /\ IF r.decision = "needs_review" THEN row' = "dlq" /\ UNCHANGED result
          ELSE row' = "resolved" /\ result' = r
       /\ UNCHANGED <<deployment, settings, door, code, world, trouble, tries>>

\* The workers restart with other registries while a task waits.
Redeploys(d) ==
    /\ pc = "task"
    /\ d # deployment
    /\ deployment' = d
    /\ UNCHANGED <<settings, door, pc, code, world, ends>>

Next ==
    \/ \E r \in Report : Submits(r)
    \/ \E o \in OwnerAnswer, attested \in BOOLEAN, c \in Fetchable : Begins(o, attested, c)
    \/ \E c \in Content : Composes(c)
    \/ RunsRules
    \/ \E p \in Photo : LooksAt(p)
    \/ LinesUp
    \/ \E a \in ModelAnswer \cup {Silent} : AsksModel(a)
    \/ Concludes
    \/ FailsDraft
    \/ FailsTask
    \/ Retries
    \/ GivesUp
    \/ \E d \in Deployment : Redeploys(d)

Spec == Init /\ [][Next]_vars

-----------------------------------------------------------------------------
(* Properties.                                                             *)

\* Published without a person: an allowed draft, a case resolved "approved".
Permitted == answer = "allowed" \/ (row = "resolved" /\ result.decision = "approved")

\* No outage and no hesitation is read as permission: whatever went through
\* was approved by a rule that matches it, by a model that answered and was
\* sure, or by the very setting the deployment chose for this failure
\* (screen_draft: "Unavailability is never permission").
UnavailableIsNoPermission ==
    Permitted =>
        CASE result.source = "rule" ->
                \E r \in content.matching :
                    LET rule == At(deployment.rules, r)
                    IN rule \in RuleEntry /\ rule.pattern = "valid" /\ rule.decision = "approved"
          [] result.source = "llm"  -> told = [decision |-> "approved", sure |-> TRUE]
          [] result.source = "policy_default" ->
                IF door = "draft" /\ ~Automatic(deployment)
                THEN settings.onUnavailable = "approve"
                ELSE settings.onFailure = "approve"

\* Under a policy that screens photos the model judges beside photos: it was
\* shown every image a draft carries inline and nothing else, or, where there
\* is none inline, at least one of the refs and never more than there are.
\* Inline images stand in for the refs: of a draft that carries both no ref
\* is looked at (_media_images returns early), and of refs the model sees
\* what could be resolved (_normalize_inline_images refuses rather than
\* trims, run_llm raises MediaUnresolvable rather than ask with none).
NoBlindVerdict ==
    (result.source = "llm" /\ PolicyOf(deployment).media) =>
        IF content.inline > 0 THEN look.images = content.inline
        ELSE /\ content.refs > 0 => look.images > 0
             /\ look.images <= content.refs

\* The setting that answers a draft where no screener does.
Fallback == IF Automatic(deployment) THEN settings.onFailure ELSE settings.onUnavailable

\* A draft told "rejected" has a case, and no other draft has: resolved where
\* the decision is a refusal, by a screener or by a fallback set to "reject"
\* (open_appeal wants a resolved case), queued where a rule or the model
\* hesitated.  What a fallback of "hold" holds and what was allowed leaves
\* none behind, and a fallback answers as its own setting says and nothing
\* else (screen_draft, "the asymmetry" and "a failure writes nothing down").
RefusalIsOnRecord ==
    (door = "draft" /\ pc = "done") =>
        /\ (answer = "rejected") <=> (row # "absent")
        /\ (row = "resolved") <=> (result.decision = "rejected")
        /\ (row = "queued") => result.source \in {"rule", "llm"}
        /\ (answer = "held") <=> (result = Spelled("hold"))
        /\ (answer = "allowed") <=> (result.decision = "approved")
        /\ result.source = "policy_default" => result = Spelled(Fallback)

\* The retry ladder is climbed for what another attempt may cure, an owner
\* or a provider that did not answer, and for a type the workers no longer
\* know; a target its owner says is gone closes its case, and nothing else
\* does.  The one exception is the code's: an ObjectDoesNotExist raised in
\* process is not recognised (screen_case, _is_not_found).
OnlyOutagesClimb ==
    /\ pc = "climbing" =>
          \/ /\ trouble = "UnknownTargetType"
             /\ ~Registered(deployment)
          \/ /\ trouble = "ScreeningUnavailable"
             /\ told = Silent
          \/ /\ trouble = "ContentUnavailable"
             /\ SaysGone(owner.said) => owner = [said |-> "ObjectDoesNotExist", wire |-> FALSE]
    /\ answer = "gone" => SaysGone(owner.said) \/ PolicyOf(deployment).source = "evidence"

\* MUTANT: the check knows one transport only.
MissingOrigin_url_only(d) ==
    /\ ~settings.base
    /\ settings.transport = "url"
    /\ Registered(d) /\ Automatic(d) /\ PolicyOf(d).media

\* check_media_transport: W007 speaks at boot.
MissingOrigin(d) ==
    /\ ~settings.base
    /\ Registered(d) /\ Automatic(d) /\ PolicyOf(d).media

\* No photo is dropped for want of an origin in a deployment that screens
\* automatically and whose start-up check W007 said nothing
\* (check_media_transport against _absolute_url and _media_images).
MissingOriginIsSaid ==
    ("no_origin" \in look.missed /\ Registered(deployment) /\ Automatic(deployment)) =>
        MissingOrigin(deployment)

\* A complaint form and submit_report agree: a reason is refused as unknown
\* or as not applicable only if the form does not offer it, and a reason the
\* module keeps for itself is never accepted, whatever the host registers
\* (reasons_for_target, submit_report, get_reasons).
FormIsHonoured ==
    /\ trouble \in {"UnknownReason", "ReasonNotApplicable"} =>
          code \notin ReasonsForTarget(deployment)
    /\ code \in SystemReason => answer = "refused"

\* Every draft handed in is answered: an unavailable or raising screener
\* comes out through ON_SCREENING_FAILURE (screen_draft's docstring).
DraftIsAnswered == door = "draft" => answer # "raised"

\* The one case there may be, and the verdict on it once the request has ended.
TheCase == "case"

CaseStatus ==
    [c \in {TheCase} |-> IF row = "absent" THEN "none"
                         ELSE IF row = "resolved" THEN "decided" ELSE "undecided"]

CaseVerdict == [c \in {TheCase} |-> IF row # "absent" /\ pc = "done" THEN result ELSE NoResult]

Lifecycle ==
    INSTANCE CaseDecision WITH Case <- {TheCase}, status <- CaseStatus, verdict <- CaseVerdict

\* To its case a screening, however often retried and through whichever door, is
\* one verdict or none: a terminal one closes the case with it, an abstention
\* leaves it to people, and a park, an outage or a hold puts no verdict on it.
ImplementsDecision == Lifecycle!Spec

=============================================================================
