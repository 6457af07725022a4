------------------------ MODULE ScreeningLadderProofs -----------------------
(***************************************************************************)
(* The safety of ScreeningLadder for any registries, settings and bounds.  *)
(* A request runs with one deployment from the rules to its answer, and a  *)
(* retry starts from nothing, so what an answer rests on is still there    *)
(* when it is given; and an ended request stays as it ended.               *)
(***************************************************************************)
EXTENDS ScreeningLadder, FiniteSetTheorems, TLAPS

\* A screener is at work, or has just ended.
Working == {"rules", "photos", "model", "judged", "failed"}

\* Until it ends a request has no answer, no result before one is judged, and
\* a case only where a report opened one.
Underway ==
    /\ pc # "done" =>
          /\ answer = "none"
          /\ row = IF door = "report" /\ pc # "new" THEN "screening" ELSE "absent"
    /\ pc \notin {"judged", "done"} => result = NoResult
    /\ pc \in {"task", "climbing"} => door = "report"
    /\ pc = "new" => tries = 0
    /\ pc = "task" => tries < SCREEN_MAX_ATTEMPTS

\* A screener works for a type that is registered and screened.
Known ==
    pc \in Working => Registered(deployment) /\ (door = "draft" => Automatic(deployment))

\* What the photos amount to.
Shown ==
    LET media == PolicyOf(deployment).media IN
    /\ pc \in {"new", "task", "rules"} => look = Unlooked
    /\ pc \in Working => content.inline <= MAX_MEDIA_PER_CASE
    /\ look.images + look.todo <= MAX_MEDIA_PER_CASE
    /\ look.missed # {} => pc \notin {"new", "task", "rules"} /\ media
    /\ pc = "photos" /\ ~media => look.todo = 0
    /\ (pc \in {"photos", "model"} \/ result.source = "llm") /\ media =>
          IF content.inline > 0 THEN look.images = content.inline /\ look.todo = 0
          ELSE look.images + look.todo <= content.refs
    /\ (pc = "model" \/ result.source = "llm") /\ media => (content.refs > 0 => look.images > 0)
    /\ "no_origin" \in look.missed => ~settings.base

\* What a result rests on.
Grounded ==
    /\ pc = "judged" => result.source \in {"rule", "llm"} /\ result.decision \in Decision
    /\ result.source = "rule" =>
          \E r \in content.matching :
              LET rule == At(deployment.rules, r)
              IN rule \in RuleEntry /\ rule.pattern = "valid" /\ rule.decision = result.decision
    /\ result.source = "llm" => told \in ModelAnswer /\ result = Judgement(told)

\* What ended a handler.
Troubled ==
    /\ pc \notin {"failed", "climbing", "done"} => trouble = "none"
    /\ pc = "failed" => \/ trouble = "MediaUnresolvable"
                        \/ trouble = "ScreeningUnavailable" /\ told = Silent
    /\ pc = "climbing" => trouble \notin {"UnknownReason", "ReasonNotApplicable"}

Kept ==
    /\ UnavailableIsNoPermission
    /\ NoBlindVerdict
    /\ RefusalIsOnRecord
    /\ OnlyOutagesClimb
    /\ MissingOriginIsSaid
    /\ FormIsHonoured

IInv == TypeOK /\ Underway /\ Known /\ Shown /\ Grounded /\ Troubled /\ Kept

-----------------------------------------------------------------------------
(* The registries and the owner.                                           *)

LEMMA MinIsLeast ==
    ASSUME NEW S, S \subseteq Nat, S # {}
    PROVE  Min(S) \in S /\ \A y \in S : Min(S) <= y
<1> DEFINE R == {ss \in Nat \X Nat : ss[1] < ss[2]}
<1>1. IsWellFoundedOn(R, Nat)
    BY NatLessThanWellFounded DEF OpToRel
<1>2. PICK x \in S : \A y \in S : <<y, x>> \notin R
    <2> HIDE DEF R
    <2> QED BY <1>1, WFMin
<1>3. \A y \in S : x <= y
    <2> TAKE y \in S
    <2>1. x \in Nat /\ y \in Nat
        OBVIOUS
    <2>2. ~(y < x)
        BY <1>2, <2>1
    <2> QED BY <2>1, <2>2
<1> QED BY <1>3 DEF Min

\* run_rules answers with a rule of the content that is there and compiles.
LEMMA FirstHitIsAHit ==
    ASSUME NEW d \in Deployment, NEW m, RuleHits(d, m) # {}
    PROVE  \E r \in m : /\ At(d.rules, r) \in RuleEntry
                        /\ At(d.rules, r).pattern = "valid"
                        /\ FirstHit(d, m) = At(d.rules, r)
<1>1. RuleHits(d, m) \subseteq Nat
    BY RegistryAssumption DEF RuleHits, RulesForTarget
<1>2. Min(RuleHits(d, m)) \in RuleHits(d, m)
    BY <1>1, MinIsLeast
<1>3. \A r \in Rule : Live(At(d.rules, r)) => At(d.rules, r) \in RuleEntry
    BY DeploymentAssumption
<1> QED BY <1>2, <1>3 DEF FirstHit, RuleHits, RulesForTarget

\* What the owner of the content can come to.
LEMMA FetchedMeans ==
    ASSUME NEW policy \in Policy, NEW attested \in BOOLEAN, NEW o \in OwnerAnswer
    PROVE  /\ Fetched(policy, attested, o) \in {"content", "TargetNotFound", "ContentUnavailable"}
           /\ Fetched(policy, attested, o) = "TargetNotFound" =>
                 SaysGone(AskedOwner(policy, o).said) \/ policy.source = "evidence"
           /\ /\ Fetched(policy, attested, o) = "ContentUnavailable"
              /\ SaysGone(AskedOwner(policy, o).said)
              => AskedOwner(policy, o) = [said |-> "ObjectDoesNotExist", wire |-> FALSE]
<1>1. policy.source \in {"function", "evidence", "nowhere"}
    BY DEF Policy
<1>2. /\ o.said \in OwnerError \cup {"content"} /\ o.wire \in BOOLEAN
      /\ o = [said |-> o.said, wire |-> o.wire]
    BY DEF OwnerAnswer
<1>3. CASE policy.source = "function"
    BY <1>2, <1>3 DEF Fetched, AskedOwner, SaysGone, IsNotFound, OwnerError
<1>4. CASE policy.source # "function"
    BY <1>1, <1>4 DEF Fetched, AskedOwner, SaysGone, Unasked, OwnerError
<1> QED BY <1>3, <1>4

LEMMA SpelledMeans ==
    ASSUME NEW value \in {"hold", "approve", "reject"}
    PROVE  /\ Spelled(value) \in Result /\ Spelled(value).decision \in Decision
           /\ Spelled(value).source = "policy_default"
           /\ Spelled(value).decision = "approved" <=> value = "approve"
BY DEF Spelled, Result, Decision

LEMMA SettingMeans ==
    ASSUME IInv
    PROVE  /\ settings.onFailure \in {"hold", "approve", "reject"}
           /\ settings.onUnavailable \in {"hold", "approve", "reject"}
           /\ deployment \in Deployment
           /\ Registered(deployment) => PolicyOf(deployment) \in Policy
BY SettingAssumption, DeploymentAssumption DEF IInv, TypeOK

\* The gates refuse what the form does not offer, and every system reason.
LEMMA GateMeans ==
    ASSUME NEW d \in Deployment, NEW r \in Report
    PROVE  /\ Gate(d, r) \in {"UnknownTargetType", "UnknownReason", "ReasonNotApplicable",
                               "DescriptionRequired", "CannotReport", "EvidenceInvalid",
                               "TargetNotFound", "ContentUnavailable", "OwnContent",
                               "AlreadyReported", "none"}
           /\ Gate(d, r) \in {"UnknownReason", "ReasonNotApplicable"} =>
                  r.code \notin ReasonsForTarget(d)
           /\ r.code \in SystemReason => Gate(d, r) # "none"
<1> DEFINE reasons == GetReasons(d)
           read == Fetched(PolicyOf(d), r.evidence = "sound", r.owner)
<1>1. Registered(d) => read \in {"content", "TargetNotFound", "ContentUnavailable"}
    BY FetchedMeans, DeploymentAssumption DEF Report
<1>2. /\ r.code \in SystemReason => r.code \in DOMAIN reasons /\ reasons[r.code].system
      /\ r.code \in ReasonsForTarget(d) =>
            r.code \in DOMAIN reasons /\ ~reasons[r.code].system /\ reasons[r.code].applies
    BY DEF GetReasons, SystemEntry, ReasonsForTarget
<1>3. Gate(d, r) =
         IF ~Registered(d) THEN "UnknownTargetType"
         ELSE IF r.code \notin DOMAIN reasons \/ reasons[r.code].system THEN "UnknownReason"
         ELSE IF ~reasons[r.code].applies THEN "ReasonNotApplicable"
         ELSE IF reasons[r.code].describe /\ ~r.described THEN "DescriptionRequired"
         ELSE IF ~r.may THEN "CannotReport"
         ELSE IF ~EvidenceTaken(PolicyOf(d), r) THEN "EvidenceInvalid"
         ELSE IF read # "content" THEN read
         ELSE IF r.own THEN "OwnContent"
         ELSE IF r.again THEN "AlreadyReported"
         ELSE "none"
    BY DEF Gate
<1> HIDE DEF reasons, read
<1> QED BY <1>1, <1>2, <1>3

-----------------------------------------------------------------------------
(* The steps before a screener is at work.                                 *)

LEMMA SubmitsStep ==
    ASSUME IInv, NEW r \in Report, Submits(r)
    PROVE  IInv'
<1> DEFINE gate == Gate(deployment, r)
<1>1. deployment \in Deployment
    BY DEF IInv, TypeOK
<1>2. /\ gate \in {"UnknownTargetType", "UnknownReason", "ReasonNotApplicable",
                    "DescriptionRequired", "CannotReport", "EvidenceInvalid",
                    "TargetNotFound", "ContentUnavailable", "OwnContent",
                    "AlreadyReported", "none"}
      /\ gate \in {"UnknownReason", "ReasonNotApplicable"} => r.code \notin ReasonsForTarget(deployment)
      /\ r.code \in SystemReason => gate # "none"
    BY <1>1, GateMeans
<1>3. /\ pc = "new" /\ door = "report" /\ code' = r.code
      /\ UNCHANGED <<deployment, settings, door, owner, content, look, told, tries, result>>
      /\ IF gate # "none"
         THEN trouble' = gate /\ answer' = "refused" /\ pc' = "done" /\ row' = row
         ELSE /\ row' = IF Automatic(deployment) THEN "screening" ELSE "queued"
              /\ pc' = IF Automatic(deployment) THEN "task" ELSE "done"
              /\ answer' = IF Automatic(deployment) THEN "none" ELSE "accepted"
              /\ UNCHANGED trouble
    BY DEF Submits, Refused, world
<1>4. result = NoResult /\ look = Unlooked /\ trouble = "none" /\ row = "absent" /\ answer = "none"
    BY <1>3 DEF IInv, Underway, Shown, Troubled
<1>5. r.code \in Reason \cup SystemReason
    BY DEF Report
<1> HIDE DEF gate
<1>6. TypeOK'
    BY <1>2, <1>3, <1>5 DEF IInv, TypeOK, Phase
<1>7. Underway' /\ Known' /\ Troubled'
    BY <1>2, <1>3, <1>4, LadderBoundAssumption DEF IInv, Underway, Known, Troubled, Working
<1>8. Shown' /\ Grounded'
    BY <1>3, <1>4 DEF IInv, Shown, Grounded, Working, Unlooked, NoResult
<1>9. Kept'
    <2>1. UnavailableIsNoPermission'
        BY <1>3, <1>4 DEF UnavailableIsNoPermission, Permitted, NoResult
    <2>2. NoBlindVerdict' /\ MissingOriginIsSaid'
        BY <1>3, <1>4 DEF NoBlindVerdict, MissingOriginIsSaid, NoResult, Unlooked
    <2>3. RefusalIsOnRecord'
        BY <1>3 DEF RefusalIsOnRecord
    <2>4. OnlyOutagesClimb'
        BY <1>3 DEF OnlyOutagesClimb
    <2>5. FormIsHonoured'
        BY <1>2, <1>3, <1>4 DEF FormIsHonoured
    <2> QED BY <2>1, <2>2, <2>3, <2>4, <2>5 DEF Kept
<1> QED BY <1>6, <1>7, <1>8, <1>9 DEF IInv

\* No system reason gets past the gates, and no draft names one.
LEMMA NoSystemReason == ASSUME IInv, pc # "done" PROVE code \notin SystemReason
BY DEF IInv, Underway, Kept, FormIsHonoured

LEMMA BeginsStep ==
    ASSUME IInv, NEW o \in OwnerAnswer, NEW attested \in BOOLEAN, NEW c \in Fetchable,
           Begins(o, attested, c)
    PROVE  IInv'
<1> DEFINE policy == PolicyOf(deployment)
           read == Fetched(policy, attested, o)
<1>1. /\ pc = "task" /\ tries' = tries + 1
      /\ UNCHANGED <<deployment, settings, door, code, look, told>>
    BY DEF Begins
<1>2. /\ result = NoResult /\ look = Unlooked /\ trouble = "none" /\ door = "report"
      /\ row = "screening" /\ answer = "none" /\ code \notin SystemReason
    BY <1>1, NoSystemReason DEF IInv, Underway, Shown, Troubled
<1>3. tries' \in 0..SCREEN_MAX_ATTEMPTS
    BY <1>1, LadderBoundAssumption DEF IInv, TypeOK, Underway
<1>4. CASE ~Registered(deployment)
    <2>1. /\ pc' = "climbing" /\ trouble' = "UnknownTargetType"
          /\ UNCHANGED <<owner, content, result, row, answer>>
        BY <1>4 DEF Begins
    <2>2. TypeOK'
        BY <1>1, <1>3, <2>1 DEF IInv, TypeOK, Phase
    <2>3. Underway' /\ Known' /\ Troubled'
        BY <1>1, <1>2, <2>1 DEF IInv, Underway, Known, Troubled, Working
    <2>4. Shown' /\ Grounded'
        BY <1>1, <1>2, <2>1 DEF IInv, Shown, Grounded, Working, Unlooked, NoResult
    <2>5. Kept'
        BY <1>1, <1>2, <1>4, <2>1
        DEF Kept, UnavailableIsNoPermission, Permitted, NoBlindVerdict, RefusalIsOnRecord,
            OnlyOutagesClimb, MissingOriginIsSaid, FormIsHonoured, NoResult, Unlooked
    <2> QED BY <2>2, <2>3, <2>4, <2>5 DEF IInv
<1>5. CASE Registered(deployment)
    <2>1. /\ owner' = AskedOwner(policy, o)
          /\ content' = IF read = "content" THEN c ELSE NoContent
          /\ pc' = CASE read = "content" -> "rules"
                     [] read = "TargetNotFound" -> "done"
                     [] read = "ContentUnavailable" -> "climbing"
          /\ trouble' = IF read = "content" THEN "none" ELSE read
          /\ IF read = "TargetNotFound"
             THEN /\ result' = [decision |-> "dismissed", source |-> "policy_default"]
                  /\ row' = "resolved"
                  /\ answer' = "gone"
             ELSE UNCHANGED <<result, row, answer>>
        BY <1>5 DEF Begins
    <2>2. /\ read \in {"content", "TargetNotFound", "ContentUnavailable"}
          /\ read = "TargetNotFound" => SaysGone(owner'.said) \/ policy.source = "evidence"
          /\ read = "ContentUnavailable" /\ SaysGone(owner'.said)
                => owner' = [said |-> "ObjectDoesNotExist", wire |-> FALSE]
        BY <1>5, <2>1, SettingMeans, FetchedMeans
    <2>3. c \in Content /\ c.inline = 0 /\ NoContent \in Content /\ owner' \in OwnerAnswer \cup {Unasked}
        BY <2>1, LadderBoundAssumption DEF Fetchable, Content, NoContent, AskedOwner
    <2> HIDE DEF read, policy
    <2>4. CASE read = "content"
        <3>1. pc' = "rules" /\ content' = c /\ trouble' = "none" /\ UNCHANGED <<result, row, answer>>
            BY <2>1, <2>4
        <3>2. TypeOK'
            BY <1>1, <1>3, <2>3, <3>1 DEF IInv, TypeOK, Phase
        <3>3. Underway' /\ Known' /\ Troubled'
            BY <1>1, <1>2, <1>5, <3>1 DEF IInv, Underway, Known, Troubled, Working
        <3>4. Shown' /\ Grounded'
            BY <1>1, <1>2, <2>3, <3>1, LadderBoundAssumption
            DEF IInv, Shown, Grounded, Working, Unlooked, NoResult
        <3>5. Kept'
            BY <1>1, <1>2, <3>1
            DEF Kept, UnavailableIsNoPermission, Permitted, NoBlindVerdict, RefusalIsOnRecord,
                OnlyOutagesClimb, MissingOriginIsSaid, FormIsHonoured, NoResult, Unlooked
        <3> QED BY <3>2, <3>3, <3>4, <3>5 DEF IInv
    <2>5. CASE read = "TargetNotFound"
        <3>1. /\ pc' = "done" /\ content' = NoContent /\ trouble' = "TargetNotFound"
              /\ result' = [decision |-> "dismissed", source |-> "policy_default"]
              /\ row' = "resolved" /\ answer' = "gone"
            BY <2>1, <2>5
        <3>2. TypeOK'
            BY <1>1, <1>3, <2>3, <3>1 DEF IInv, TypeOK, Phase, Result
        <3>3. Underway' /\ Known' /\ Troubled'
            BY <1>1, <1>2, <3>1 DEF IInv, Underway, Known, Troubled, Working
        <3>4. Shown' /\ Grounded'
            BY <1>1, <1>2, <3>1 DEF IInv, Shown, Grounded, Working, Unlooked
        <3>5. policy = PolicyOf(deployment')
            BY <1>1 DEF policy
        <3>6. Kept'
            BY <1>1, <1>2, <2>2, <2>5, <3>1, <3>5
            DEF Kept, UnavailableIsNoPermission, Permitted, NoBlindVerdict, RefusalIsOnRecord,
                OnlyOutagesClimb, MissingOriginIsSaid, FormIsHonoured, Unlooked
        <3> QED BY <3>2, <3>3, <3>4, <3>6 DEF IInv
    <2>6. CASE read = "ContentUnavailable"
        <3>1. /\ pc' = "climbing" /\ content' = NoContent /\ trouble' = "ContentUnavailable"
              /\ UNCHANGED <<result, row, answer>>
            BY <2>1, <2>6
        <3>2. TypeOK'
            BY <1>1, <1>3, <2>3, <3>1 DEF IInv, TypeOK, Phase
        <3>3. Underway' /\ Known' /\ Troubled'
            BY <1>1, <1>2, <3>1 DEF IInv, Underway, Known, Troubled, Working
        <3>4. Shown' /\ Grounded'
            BY <1>1, <1>2, <3>1 DEF IInv, Shown, Grounded, Working, Unlooked, NoResult
        <3>5. Kept'
            BY <1>1, <1>2, <2>2, <2>6, <3>1
            DEF Kept, UnavailableIsNoPermission, Permitted, NoBlindVerdict, RefusalIsOnRecord,
                OnlyOutagesClimb, MissingOriginIsSaid, FormIsHonoured, NoResult, Unlooked
        <3> QED BY <3>2, <3>3, <3>4, <3>5 DEF IInv
    <2> QED BY <2>2, <2>4, <2>5, <2>6
<1> QED BY <1>4, <1>5

\* The answer to a draft: what is allowed was approved, what is resolved was
\* rejected, and a refusal has a case.
LEMMA DraftAnswers ==
    ASSUME NEW failed \in BOOLEAN, NEW r \in Result, r.decision \in Decision,
           IF failed THEN r = Spelled(Fallback) ELSE r.source # "policy_default",
           AnswersDraft(failed, r), Fallback' = Fallback
    PROVE  /\ pc' = "done" /\ result' = r
           /\ answer' \in {"rejected", "allowed", "held"}
           /\ row' \in {"absent", "queued", "resolved"}
           /\ answer' = "allowed" => r.decision = "approved"
           /\ row' = "resolved" => r.decision = "rejected"
           /\ RefusalIsOnRecord'
<1>1. r.decision \in {"approved", "rejected", "needs_review"}
    BY DEF Decision
<1>2. /\ pc' = "done" /\ result' = r
      /\ row' = IF WrittenDown(failed, r) THEN RowAfter(r) ELSE "absent"
      /\ answer' = IF WrittenDown(failed, r) THEN "rejected"
                   ELSE IF r.decision = "approved" THEN "allowed" ELSE "held"
    BY DEF AnswersDraft
<1>3. /\ r \in Result /\ Spelled("hold") = [decision |-> "needs_review", source |-> "policy_default"]
      /\ r = [decision |-> r.decision, source |-> r.source]
      /\ failed => r.source = "policy_default"
    BY DEF Spelled, Result
<1>4. r.source \in {"rule", "llm", "policy_default"}
    BY DEF Result
<1> QED BY <1>1, <1>2, <1>3, <1>4 DEF WrittenDown, RowAfter, RefusalIsOnRecord

LEMMA ComposesStep ==
    ASSUME IInv, NEW c \in Content, Composes(c)
    PROVE  IInv'
<1>1. /\ pc = "new" /\ door = "draft" /\ content' = c
      /\ UNCHANGED <<deployment, settings, door, code, owner, look, told>>
    BY DEF Composes
<1>2. /\ result = NoResult /\ look = Unlooked /\ trouble = "none"
      /\ row = "absent" /\ answer = "none" /\ code \notin SystemReason
    BY <1>1, NoSystemReason DEF IInv, Underway, Shown, Troubled
<1>3. ASSUME NEW why \in {"UnknownTargetType", "InvalidDraftImage"}, Refused(why)
      PROVE  IInv'
    <2>1. trouble' = why /\ answer' = "refused" /\ pc' = "done" /\ UNCHANGED <<tries, result, row>>
        BY <1>3 DEF Refused
    <2>2. TypeOK'
        BY <1>1, <2>1 DEF IInv, TypeOK, Phase
    <2>3. Underway' /\ Known' /\ Troubled'
        BY <1>1, <1>2, <2>1 DEF IInv, Underway, Known, Troubled, Working
    <2>4. Shown' /\ Grounded'
        BY <1>1, <1>2, <2>1 DEF IInv, Shown, Grounded, Working, Unlooked, NoResult
    <2>5. RefusalIsOnRecord'
        BY <1>1, <1>2, <2>1 DEF RefusalIsOnRecord, Spelled, NoResult
    <2>6. Kept'
        BY <1>1, <1>2, <2>1, <2>5
        DEF Kept, UnavailableIsNoPermission, Permitted, NoBlindVerdict,
            OnlyOutagesClimb, MissingOriginIsSaid, FormIsHonoured, NoResult, Unlooked
    <2> QED BY <2>2, <2>3, <2>4, <2>6 DEF IInv
<1>4. CASE Registered(deployment) /\ InlineAccepted(c) /\ ~Automatic(deployment)
    <2> DEFINE r == Spelled(settings.onUnavailable)
    <2>1. AnswersDraft(TRUE, r) /\ UNCHANGED <<trouble, tries>>
        BY <1>1, <1>4 DEF Composes, DraftFallback
    <2>2. /\ r \in Result /\ r.decision \in Decision /\ r.source = "policy_default"
          /\ r.decision = "approved" <=> settings.onUnavailable = "approve"
          /\ r = Spelled(Fallback) /\ Fallback' = Fallback
        BY <1>1, <1>4, SettingMeans, SpelledMeans DEF Fallback, Automatic
    <2> HIDE DEF r
    <2>3. /\ pc' = "done" /\ result' = r
          /\ answer' \in {"rejected", "allowed", "held"} /\ row' \in {"absent", "queued", "resolved"}
          /\ answer' = "allowed" => r.decision = "approved"
          /\ row' = "resolved" => r.decision = "rejected"
          /\ RefusalIsOnRecord'
        BY <2>1, <2>2, DraftAnswers
    <2>4. TypeOK'
        BY <1>1, <2>1, <2>2, <2>3 DEF IInv, TypeOK, Phase
    <2>5. Underway' /\ Known' /\ Troubled'
        BY <1>1, <1>2, <2>1, <2>3 DEF IInv, Underway, Known, Troubled, Working
    <2>6. Shown' /\ Grounded'
        BY <1>1, <1>2, <2>1, <2>2, <2>3 DEF IInv, Shown, Grounded, Working, Unlooked
    <2>7. UnavailableIsNoPermission'
        BY <1>1, <1>4, <2>2, <2>3 DEF UnavailableIsNoPermission, Permitted, Automatic
    <2>8. NoBlindVerdict' /\ OnlyOutagesClimb' /\ MissingOriginIsSaid' /\ FormIsHonoured'
        BY <1>1, <1>2, <2>1, <2>2, <2>3
        DEF NoBlindVerdict, OnlyOutagesClimb, MissingOriginIsSaid, FormIsHonoured, Unlooked
    <2> QED BY <2>3, <2>4, <2>5, <2>6, <2>7, <2>8 DEF IInv, Kept
<1>5. CASE Registered(deployment) /\ InlineAccepted(c) /\ Automatic(deployment)
    <2>1. pc' = "rules" /\ UNCHANGED <<trouble, tries, result, row, answer>>
        BY <1>1, <1>5 DEF Composes, ends
    <2>2. c.inline <= MAX_MEDIA_PER_CASE
        BY <1>5, LadderBoundAssumption DEF InlineAccepted, Content
    <2>3. TypeOK'
        BY <1>1, <2>1 DEF IInv, TypeOK, Phase
    <2>4. Underway' /\ Known' /\ Troubled'
        BY <1>1, <1>2, <1>5, <2>1 DEF IInv, Underway, Known, Troubled, Working, Automatic
    <2>5. Shown' /\ Grounded'
        BY <1>1, <1>2, <2>1, <2>2 DEF IInv, Shown, Grounded, Working, Unlooked, NoResult
    <2>6. Kept'
        BY <1>1, <1>2, <2>1
        DEF Kept, UnavailableIsNoPermission, Permitted, NoBlindVerdict, RefusalIsOnRecord,
            OnlyOutagesClimb, MissingOriginIsSaid, FormIsHonoured, NoResult, Unlooked
    <2> QED BY <2>3, <2>4, <2>5, <2>6 DEF IInv
<1> QED BY <1>3, <1>4, <1>5 DEF Composes

-----------------------------------------------------------------------------
(* The steps of a screener.                                                *)

LEMMA RunsRulesStep ==
    ASSUME IInv, RunsRules
    PROVE  IInv'
<1> DEFINE media == PolicyOf(deployment).media
           inline == IF media THEN content.inline ELSE 0
<1>1. /\ pc = "rules"
      /\ UNCHANGED <<deployment, settings, door, code, owner, content, told, trouble, tries, row, answer>>
    BY DEF RunsRules
<1>2. /\ result = NoResult /\ look = Unlooked /\ trouble = "none" /\ answer = "none"
      /\ code \notin SystemReason /\ content.inline <= MAX_MEDIA_PER_CASE
      /\ Registered(deployment) /\ (door = "draft" => Automatic(deployment))
      /\ row \in {"absent", "screening"}
    BY <1>1, NoSystemReason DEF IInv, Underway, Shown, Troubled, Known, Working
<1>3. /\ content.inline \in Nat /\ content.refs \in Nat /\ MAX_MEDIA_PER_CASE \in Nat \ {0}
      /\ settings.enabled \in BOOLEAN
    BY LadderBoundAssumption, SettingAssumption DEF IInv, TypeOK, Content
<1>4. CASE RuleHits(deployment, content.matching) # {}
    <2>1. /\ result' = [decision |-> FirstHit(deployment, content.matching).decision, source |-> "rule"]
          /\ pc' = "judged" /\ look' = look
        BY <1>4 DEF RunsRules
    <2>2. PICK r \in content.matching :
             /\ At(deployment.rules, r) \in RuleEntry /\ At(deployment.rules, r).pattern = "valid"
             /\ FirstHit(deployment, content.matching) = At(deployment.rules, r)
        BY <1>4, SettingMeans, FirstHitIsAHit
    <2>3. result'.source = "rule" /\ result'.decision = At(deployment.rules, r).decision
        BY <2>1, <2>2
    <2>4. result'.decision \in Decision /\ result' \in Result
        BY <2>1, <2>2, <2>3 DEF RuleEntry, Decision, Result
    <2>5. TypeOK'
        BY <1>1, <2>1, <2>4 DEF IInv, TypeOK, Phase
    <2>6. Underway' /\ Known' /\ Troubled'
        BY <1>1, <1>2, <2>1 DEF IInv, Underway, Known, Troubled, Working, Automatic
    <2>7. Shown'
        BY <1>1, <1>2, <2>1, <2>3 DEF IInv, Shown, Working, Unlooked
    <2>8. Grounded'
        BY <1>1, <2>1, <2>2, <2>3, <2>4 DEF Grounded
    <2>9. Kept'
        BY <1>1, <1>2, <2>1, <2>3
        DEF Kept, UnavailableIsNoPermission, Permitted, NoBlindVerdict, RefusalIsOnRecord,
            OnlyOutagesClimb, MissingOriginIsSaid, FormIsHonoured, Unlooked
    <2> QED BY <2>5, <2>6, <2>7, <2>8, <2>9 DEF IInv
<1>5. CASE RuleHits(deployment, content.matching) = {}
    <2> DEFINE todo == IF media /\ inline = 0 THEN Min({content.refs, MAX_MEDIA_PER_CASE}) ELSE 0
    <2>1. /\ look' = [todo |-> todo, images |-> inline, missed |-> {}]
          /\ pc' = "photos" /\ result' = result
        BY <1>5 DEF RunsRules
    <2>2. /\ Min({content.refs, MAX_MEDIA_PER_CASE}) \in 0..MAX_MEDIA_PER_CASE
          /\ Min({content.refs, MAX_MEDIA_PER_CASE}) <= content.refs
        <3>1. /\ Min({content.refs, MAX_MEDIA_PER_CASE}) \in {content.refs, MAX_MEDIA_PER_CASE}
              /\ Min({content.refs, MAX_MEDIA_PER_CASE}) <= MAX_MEDIA_PER_CASE
              /\ Min({content.refs, MAX_MEDIA_PER_CASE}) <= content.refs
            BY <1>3, MinIsLeast
        <3> QED BY <1>3, <3>1
    <2>3. /\ todo \in 0..MAX_MEDIA_PER_CASE /\ inline \in 0..MAX_MEDIA_PER_CASE
          /\ inline + todo <= MAX_MEDIA_PER_CASE
          /\ media \/ todo = 0
          /\ ~media \/ content.inline <= 0 \/ (inline = content.inline /\ todo = 0)
          /\ ~media \/ content.inline > 0 \/ inline + todo <= content.refs
        <3> HIDE DEF media
        <3>1. CASE media /\ content.inline > 0
            BY <1>2, <1>3, <3>1
        <3>2. CASE media /\ ~(content.inline > 0)
            <4>1. inline = 0 /\ todo = Min({content.refs, MAX_MEDIA_PER_CASE})
                BY <1>3, <3>2
            <4> HIDE DEF todo, inline
            <4> QED BY <1>3, <2>2, <3>2, <4>1
        <3>3. CASE ~media
            <4>1. inline = 0 /\ todo = 0
                BY <3>3
            <4> HIDE DEF todo, inline
            <4> QED BY <1>3, <3>3, <4>1
        <3> QED BY <3>1, <3>2, <3>3
    <2> HIDE DEF todo, inline
    <2>4. look'.todo = todo /\ look'.images = inline /\ look'.missed = {} /\ look' \in Look
        BY <2>1, <2>3 DEF Look
    <2>5. TypeOK'
        BY <1>1, <2>1, <2>4 DEF IInv, TypeOK, Phase
    <2>6. Underway' /\ Known' /\ Troubled'
        BY <1>1, <1>2, <2>1 DEF IInv, Underway, Known, Troubled, Working, Automatic
    <2>7. Shown'
        <3>1. PolicyOf(deployment)' = PolicyOf(deployment) /\ content' = content /\ result' = NoResult
            BY <1>1, <1>2, <2>1 DEF PolicyOf
        <3>2. ~media \/ IF content.inline > 0 THEN look'.images = content.inline /\ look'.todo = 0
                        ELSE look'.images + look'.todo <= content.refs
            <4> HIDE DEF media
            <4>1. CASE content.inline > 0
                <5>1. ~(content.inline <= 0)
                    BY <1>3, <4>1
                <5> QED BY <2>3, <2>4, <4>1, <5>1
            <4>2. CASE ~(content.inline > 0)
                <5>1. look'.images + look'.todo = inline + todo
                    BY <2>4
                <5> QED BY <2>3, <4>2, <5>1
            <4> QED BY <4>1, <4>2
        <3>3. look'.images + look'.todo <= MAX_MEDIA_PER_CASE /\ (media \/ look'.todo = 0)
            <4> HIDE DEF media
            <4>1. look'.images + look'.todo = inline + todo
                BY <2>4
            <4> QED BY <2>3, <2>4, <4>1
        <3> QED BY <1>2, <2>1, <2>4, <3>1, <3>2, <3>3 DEF Shown, Working, NoResult
    <2>8. Grounded'
        BY <1>1, <1>2, <2>1 DEF Grounded, NoResult
    <2>9. Kept'
        BY <1>1, <1>2, <2>1, <2>4
        DEF Kept, UnavailableIsNoPermission, Permitted, NoBlindVerdict, RefusalIsOnRecord,
            OnlyOutagesClimb, MissingOriginIsSaid, FormIsHonoured, NoResult
    <2> QED BY <2>5, <2>6, <2>7, <2>8, <2>9 DEF IInv
<1> QED BY <1>4, <1>5

\* While a screener is at work its request has no answer and no result.
LEMMA AtWork ==
    ASSUME IInv, pc \in {"photos", "model", "judged", "failed"}
    PROVE  /\ answer = "none" /\ row \in {"absent", "screening"}
           /\ door = "draft" => row = "absent"
           /\ door = "report" => row = "screening"
           /\ code \notin SystemReason
           /\ trouble \notin {"UnknownReason", "ReasonNotApplicable"}
           /\ Registered(deployment) /\ (door = "draft" => Automatic(deployment))
           /\ settings.enabled \in BOOLEAN
           /\ content.inline \in Nat /\ content.refs \in Nat
           /\ look.todo \in Nat /\ look.images \in Nat
           /\ look.todo + look.images <= MAX_MEDIA_PER_CASE
           /\ MAX_MEDIA_PER_CASE \in Nat
           /\ look = [todo |-> look.todo, images |-> look.images, missed |-> look.missed]
           /\ look.missed \subseteq Miss
<1>1. /\ answer = "none" /\ row \in {"absent", "screening"}
      /\ door = "draft" => row = "absent"
      /\ door = "report" => row = "screening"
    BY DEF IInv, Underway
<1>2. code \notin SystemReason /\ trouble \notin {"UnknownReason", "ReasonNotApplicable"}
    BY NoSystemReason DEF IInv, Troubled
<1>3. Registered(deployment) /\ (door = "draft" => Automatic(deployment))
    BY DEF IInv, Known, Working
<1>4. settings.enabled \in BOOLEAN
    BY SettingAssumption DEF IInv, TypeOK
<1>5. content.inline \in Nat /\ content.refs \in Nat
    BY LadderBoundAssumption DEF IInv, TypeOK, Content
<1>6. /\ look.todo \in Nat /\ look.images \in Nat /\ MAX_MEDIA_PER_CASE \in Nat
      /\ look = [todo |-> look.todo, images |-> look.images, missed |-> look.missed]
      /\ look.missed \subseteq Miss
    BY LadderBoundAssumption DEF IInv, TypeOK, Look
<1>7. look.todo + look.images <= MAX_MEDIA_PER_CASE
    BY <1>6 DEF IInv, Shown
<1> QED BY <1>1, <1>2, <1>3, <1>4, <1>5, <1>6, <1>7

LEMMA LooksAtStep ==
    ASSUME IInv, NEW p \in Photo, LooksAt(p)
    PROVE  IInv'
<1>1. /\ pc = "photos" /\ look.todo > 0 /\ pc' = pc
      /\ UNCHANGED <<deployment, settings, door, code, owner, content, told, trouble, tries, result, row, answer>>
    BY DEF LooksAt, ends
<1>2. result = NoResult /\ trouble = "none"
    BY <1>1 DEF IInv, Underway, Troubled
<1> DEFINE todo == look.todo - 1
           images == IF Seen(p) = "image" THEN look.images + 1 ELSE look.images
           missed == IF Seen(p) = "image" THEN look.missed ELSE look.missed \cup {Seen(p)}
<1>3. look' = [todo |-> todo, images |-> images, missed |-> missed]
    <2>1. look' = IF Seen(p) = "image"
                  THEN [look EXCEPT !.todo = look.todo - 1, !.images = look.images + 1]
                  ELSE [look EXCEPT !.todo = look.todo - 1, !.missed = look.missed \cup {Seen(p)}]
        BY DEF LooksAt
    <2> QED BY <1>1, <2>1, AtWork
<1>4. /\ Seen(p) \in Miss \cup {"image"}
      /\ Seen(p) = "no_origin" => ~settings.base
    BY DEF Seen, HasUrl, Miss
<1>5. PolicyOf(deployment).media
    <2>1. ~PolicyOf(deployment).media => look.todo = 0
        BY <1>1 DEF IInv, Shown
    <2> QED BY <1>1, <2>1
<1>6. /\ todo \in 0..MAX_MEDIA_PER_CASE /\ images \in 0..MAX_MEDIA_PER_CASE /\ missed \subseteq Miss
      /\ images + todo <= MAX_MEDIA_PER_CASE /\ images >= look.images
      /\ "no_origin" \in missed => ~settings.base
    <2>1. "no_origin" \in look.missed => ~settings.base
        BY DEF IInv, Shown
    <2> QED BY <1>1, <1>4, <2>1, AtWork
<1> HIDE DEF todo, images, missed
<1>7. look'.todo = todo /\ look'.images = images /\ look'.missed = missed /\ look' \in Look
    BY <1>3, <1>6 DEF Look
<1>8. TypeOK'
    BY <1>1, <1>7 DEF IInv, TypeOK, Phase
<1>9. Underway' /\ Known' /\ Troubled'
    BY <1>1 DEF IInv, Underway, Known, Troubled, Working, Automatic
<1>10. Shown'
    <2>1. /\ content.inline <= MAX_MEDIA_PER_CASE
          /\ IF content.inline > 0 THEN look.todo = 0 ELSE look.images + look.todo <= content.refs
        BY <1>1, <1>5 DEF IInv, Shown, Working
    <2>2. ~(content.inline > 0) /\ images + todo <= content.refs
        BY <1>1, <2>1, AtWork DEF images, todo
    <2> QED BY <1>1, <1>2, <1>5, <1>6, <1>7, <2>1, <2>2, AtWork DEF Shown, Working, NoResult
<1>11. Grounded'
    BY <1>1, <1>2 DEF Grounded, NoResult
<1>12. Kept'
    <2>1. MissingOriginIsSaid'
        BY <1>1, <1>5, <1>6, <1>7 DEF MissingOriginIsSaid, MissingOrigin, Automatic
    <2> QED BY <1>1, <1>2, <2>1, AtWork
        DEF Kept, UnavailableIsNoPermission, Permitted, NoBlindVerdict, RefusalIsOnRecord,
            OnlyOutagesClimb, FormIsHonoured, NoResult
<1> QED BY <1>8, <1>9, <1>10, <1>11, <1>12 DEF IInv

LEMMA LinesUpStep ==
    ASSUME IInv, LinesUp
    PROVE  IInv'
<1>1. /\ pc = "photos" /\ look.todo = 0
      /\ UNCHANGED <<deployment, settings, door, code, owner, content, look, told, tries, result, row, answer>>
      /\ IF Unresolvable THEN pc' = "failed" /\ trouble' = "MediaUnresolvable"
         ELSE pc' = "model" /\ UNCHANGED trouble
    BY DEF LinesUp, world
<1>2. result = NoResult /\ trouble = "none"
    BY <1>1 DEF IInv, Underway, Troubled
<1>3. TypeOK'
    BY <1>1 DEF IInv, TypeOK, Phase
<1>4. Underway' /\ Known' /\ Troubled'
    BY <1>1, <1>2 DEF IInv, Underway, Known, Troubled, Working, Automatic
<1>5. Shown'
    <2>1. ~Unresolvable /\ PolicyOf(deployment).media => (content.refs > 0 => look.images > 0)
        BY <1>1, AtWork DEF Unresolvable
    <2> QED BY <1>1, <1>2, <2>1 DEF IInv, Shown, Working, NoResult
<1>6. Grounded'
    BY <1>1, <1>2 DEF Grounded, NoResult
<1>7. Kept'
    BY <1>1, <1>2, AtWork
    DEF IInv, Kept, UnavailableIsNoPermission, Permitted, NoBlindVerdict, RefusalIsOnRecord,
        OnlyOutagesClimb, MissingOriginIsSaid, MissingOrigin, Automatic, FormIsHonoured, NoResult
<1> QED BY <1>3, <1>4, <1>5, <1>6, <1>7 DEF IInv

LEMMA AsksModelStep ==
    ASSUME IInv, NEW a \in ModelAnswer \cup {Silent}, AsksModel(a)
    PROVE  IInv'
<1>1. /\ pc = "model" /\ told' = a
      /\ UNCHANGED <<deployment, settings, door, code, owner, content, look, tries, row, answer>>
      /\ IF a = Silent THEN pc' = "failed" /\ trouble' = "ScreeningUnavailable" /\ UNCHANGED result
         ELSE pc' = "judged" /\ result' = Judgement(a) /\ UNCHANGED trouble
    BY DEF AsksModel
<1>2. result = NoResult /\ trouble = "none"
    BY <1>1 DEF IInv, Underway, Troubled
<1>3. /\ content.inline <= MAX_MEDIA_PER_CASE
      /\ PolicyOf(deployment).media =>
            /\ content.refs > 0 => look.images > 0
            /\ IF content.inline > 0 THEN look.images = content.inline /\ look.todo = 0
               ELSE look.images + look.todo <= content.refs
    BY <1>1 DEF IInv, Shown, Working
<1>4. a # Silent => /\ a \in ModelAnswer /\ Judgement(a) \in Result
                    /\ Judgement(a).source = "llm" /\ Judgement(a).decision \in Decision
    BY DEF ModelAnswer, Judgement, Result, Decision
<1>5. TypeOK'
    BY <1>1, <1>4 DEF IInv, TypeOK, Phase
<1>6. Underway' /\ Known' /\ Troubled'
    BY <1>1, <1>2 DEF IInv, Underway, Known, Troubled, Working, Automatic
<1>7. Shown'
    BY <1>1, <1>3 DEF IInv, Shown, Working
<1>8. Grounded'
    BY <1>1, <1>2, <1>4 DEF Grounded, NoResult
<1>9. Kept'
    <2>1. NoBlindVerdict'
        BY <1>1, <1>3, AtWork DEF NoBlindVerdict
    <2>2. MissingOriginIsSaid'
        BY <1>1 DEF IInv, Kept, MissingOriginIsSaid, MissingOrigin, Automatic
    <2> QED BY <1>1, <1>2, <2>1, <2>2, AtWork
        DEF Kept, UnavailableIsNoPermission, Permitted, RefusalIsOnRecord, OnlyOutagesClimb, FormIsHonoured
<1> QED BY <1>5, <1>6, <1>7, <1>8, <1>9 DEF IInv

-----------------------------------------------------------------------------
(* The steps after it.                                                     *)

LEMMA ConcludesStep ==
    ASSUME IInv, Concludes
    PROVE  IInv'
<1>1. /\ pc = "judged"
      /\ UNCHANGED <<deployment, settings, door, code, owner, content, look, told, trouble, tries>>
    BY DEF Concludes, world
<1>2. /\ result.source \in {"rule", "llm"} /\ result.decision \in Decision /\ trouble = "none"
      /\ result.source = "rule" =>
            \E r \in content.matching :
                LET rule == At(deployment.rules, r)
                IN rule \in RuleEntry /\ rule.pattern = "valid" /\ rule.decision = result.decision
      /\ result.source = "llm" => told \in ModelAnswer /\ result = Judgement(told)
    BY <1>1 DEF IInv, Grounded, Troubled
<1>3. result \in Result
    BY <1>2 DEF IInv, TypeOK, NoResult
<1>4. /\ pc' = "done" /\ result' = result
      /\ answer' \in {"rejected", "allowed", "held", "verdict"}
      /\ row' \in {"absent", "queued", "resolved"}
      /\ RefusalIsOnRecord'
      /\ answer' = "allowed" => result.decision = "approved"
    <2>1. CASE door = "draft" /\ AnswersDraft(FALSE, result)
        <3>1. Fallback' = Fallback
            BY <1>1 DEF Fallback, Automatic
        <3> QED BY <1>2, <1>3, <2>1, <3>1, DraftAnswers
    <2>2. CASE /\ door = "report" /\ row' = RowAfter(result) /\ answer' = "verdict"
               /\ pc' = "done" /\ result' = result
        BY <1>1, <2>2 DEF RowAfter, RefusalIsOnRecord
    <2> QED BY <1>1, <2>1, <2>2 DEF Concludes
<1>5. TypeOK'
    BY <1>1, <1>3, <1>4 DEF IInv, TypeOK, Phase
<1>6. Underway' /\ Known' /\ Troubled'
    BY <1>1, <1>2, <1>4 DEF IInv, Underway, Known, Troubled, Working
<1>7. Shown' /\ Grounded'
    BY <1>1, <1>2, <1>4 DEF IInv, Shown, Grounded, Working
<1>8. UnavailableIsNoPermission'
    <2> SUFFICES ASSUME result.decision = "approved"
                 PROVE  CASE result.source = "rule" ->
                                \E r \in content.matching :
                                    LET rule == At(deployment.rules, r)
                                    IN rule \in RuleEntry /\ rule.pattern = "valid" /\ rule.decision = "approved"
                          [] result.source = "llm" -> told = [decision |-> "approved", sure |-> TRUE]
                          [] OTHER -> TRUE
        BY <1>1, <1>2, <1>4 DEF UnavailableIsNoPermission, Permitted
    <2>1. CASE result.source = "rule"
        BY <1>2, <2>1
    <2>2. CASE result.source = "llm"
        <3>1. told \in ModelAnswer /\ result = Judgement(told)
            BY <1>2, <2>2
        <3>2. told = [decision |-> told.decision, sure |-> told.sure] /\ told.sure \in BOOLEAN
            BY <3>1 DEF ModelAnswer
        <3>3. told.sure = TRUE /\ told.decision = "approved"
            BY <3>1, <3>2 DEF Judgement
        <3> QED BY <2>2, <3>2, <3>3
    <2> QED BY <1>2, <2>1, <2>2
<1>9. Kept'
    <2>1. NoBlindVerdict'
        BY <1>1, <1>4, AtWork DEF IInv, Shown, NoBlindVerdict
    <2>2. MissingOriginIsSaid'
        BY <1>1, <1>4 DEF IInv, Kept, MissingOriginIsSaid, MissingOrigin, Automatic
    <2>3. OnlyOutagesClimb' /\ FormIsHonoured'
        BY <1>1, <1>2, <1>4, AtWork DEF OnlyOutagesClimb, FormIsHonoured
    <2> QED BY <1>4, <1>8, <2>1, <2>2, <2>3 DEF Kept
<1> QED BY <1>5, <1>6, <1>7, <1>9 DEF IInv

LEMMA FailsDraftStep ==
    ASSUME IInv, FailsDraft
    PROVE  IInv'
<1>1. /\ pc = "failed" /\ door = "draft"
      /\ UNCHANGED <<deployment, settings, door, code, owner, content, look, told, trouble, tries>>
    BY DEF FailsDraft, world
<1>2. result = NoResult /\ row = "absent"
    BY <1>1 DEF IInv, Underway
<1>3. CASE trouble # "ScreeningUnavailable"
    <2>1. answer' = "raised" /\ pc' = "done" /\ UNCHANGED <<result, row>>
        BY <1>3 DEF FailsDraft
    <2>2. TypeOK'
        BY <1>1, <2>1 DEF IInv, TypeOK, Phase
    <2>3. Underway' /\ Known' /\ Troubled'
        BY <1>1, <1>2, <2>1 DEF IInv, Underway, Known, Troubled, Working
    <2>4. Shown' /\ Grounded'
        BY <1>1, <1>2, <2>1 DEF IInv, Shown, Grounded, Working, NoResult
    <2>5. MissingOriginIsSaid'
        BY <1>1 DEF IInv, Kept, MissingOriginIsSaid, MissingOrigin, Automatic
    <2>6. RefusalIsOnRecord'
        BY <1>1, <1>2, <2>1 DEF RefusalIsOnRecord, Spelled, NoResult
    <2>7. Kept'
        BY <1>1, <1>2, <2>1, <2>5, <2>6, AtWork
        DEF Kept, UnavailableIsNoPermission, Permitted, NoBlindVerdict,
            OnlyOutagesClimb, FormIsHonoured, NoResult
    <2> QED BY <2>2, <2>3, <2>4, <2>7 DEF IInv
<1>4. CASE trouble = "ScreeningUnavailable"
    <2> DEFINE r == Spelled(settings.onFailure)
    <2>1. AnswersDraft(TRUE, r)
        BY <1>4 DEF FailsDraft, DraftFallback
    <2>2. /\ r \in Result /\ r.decision \in Decision /\ r.source = "policy_default"
          /\ r.decision = "approved" <=> settings.onFailure = "approve"
          /\ r = Spelled(Fallback) /\ Fallback' = Fallback
        BY <1>1, AtWork, SettingMeans, SpelledMeans DEF Fallback, Automatic
    <2> HIDE DEF r
    <2>3. /\ pc' = "done" /\ result' = r
          /\ answer' \in {"rejected", "allowed", "held"} /\ row' \in {"absent", "queued", "resolved"}
          /\ answer' = "allowed" => r.decision = "approved"
          /\ row' = "resolved" => r.decision = "rejected"
          /\ RefusalIsOnRecord'
        BY <2>1, <2>2, DraftAnswers
    <2>4. TypeOK'
        BY <1>1, <2>2, <2>3 DEF IInv, TypeOK, Phase
    <2>5. Underway' /\ Known' /\ Troubled'
        BY <1>1, <1>2, <2>3 DEF IInv, Underway, Known, Troubled, Working
    <2>6. Shown' /\ Grounded'
        BY <1>1, <1>2, <2>2, <2>3 DEF IInv, Shown, Grounded, Working
    <2>7. UnavailableIsNoPermission'
        BY <1>1, <2>2, <2>3, AtWork DEF UnavailableIsNoPermission, Permitted, Automatic
    <2>8. MissingOriginIsSaid'
        BY <1>1 DEF IInv, Kept, MissingOriginIsSaid, MissingOrigin, Automatic
    <2>9. NoBlindVerdict' /\ OnlyOutagesClimb' /\ FormIsHonoured'
        BY <1>1, <2>2, <2>3, AtWork DEF NoBlindVerdict, OnlyOutagesClimb, FormIsHonoured
    <2> QED BY <2>3, <2>4, <2>5, <2>6, <2>7, <2>8, <2>9 DEF IInv, Kept
<1> QED BY <1>3, <1>4

LEMMA FailsTaskStep ==
    ASSUME IInv, FailsTask
    PROVE  IInv'
<1>1. /\ pc = "failed" /\ door = "report"
      /\ UNCHANGED <<deployment, settings, door, code, owner, content, look, told, trouble, tries, result>>
      /\ IF Climbs(trouble) THEN pc' = "climbing" /\ UNCHANGED <<row, answer>>
         ELSE /\ row' = IF settings.onMedia = "review" THEN "queued" ELSE "dlq"
              /\ answer' = "parked" /\ pc' = "done"
    BY DEF FailsTask, world
<1>2. /\ result = NoResult
      /\ \/ trouble = "MediaUnresolvable"
         \/ trouble = "ScreeningUnavailable" /\ told = Silent
    BY <1>1 DEF IInv, Underway, Troubled
<1>3. pc' = "climbing" => trouble = "ScreeningUnavailable" /\ told = Silent
    BY <1>1, <1>2 DEF Climbs
<1>4. TypeOK'
    BY <1>1 DEF IInv, TypeOK, Phase
<1>5. Underway' /\ Known' /\ Troubled'
    BY <1>1, <1>2 DEF IInv, Underway, Known, Troubled, Working
<1>6. Shown' /\ Grounded'
    BY <1>1, <1>2 DEF IInv, Shown, Grounded, Working, NoResult
<1>7. MissingOriginIsSaid'
    BY <1>1 DEF IInv, Kept, MissingOriginIsSaid, MissingOrigin, Automatic
<1>8. Kept'
    BY <1>1, <1>2, <1>3, <1>7, AtWork
    DEF Kept, UnavailableIsNoPermission, Permitted, NoBlindVerdict, RefusalIsOnRecord,
        OnlyOutagesClimb, FormIsHonoured, NoResult
<1> QED BY <1>4, <1>5, <1>6, <1>8 DEF IInv

LEMMA RetriesStep ==
    ASSUME IInv, Retries
    PROVE  IInv'
<1>1. /\ pc = "climbing" /\ tries < SCREEN_MAX_ATTEMPTS /\ pc' = "task"
      /\ owner' = Unasked /\ content' = NoContent /\ look' = Unlooked /\ told' = NoResult
      /\ trouble' = "none"
      /\ UNCHANGED <<deployment, settings, door, code, tries, result, row, answer>>
    BY DEF Retries
<1>2. /\ result = NoResult /\ door = "report" /\ row = "screening" /\ answer = "none"
      /\ code \notin SystemReason
    BY <1>1, NoSystemReason DEF IInv, Underway
<1>3. TypeOK'
    <2>1. NoContent \in Content /\ Unlooked \in Look
        BY LadderBoundAssumption DEF NoContent, Content, Unlooked, Look
    <2> QED BY <1>1, <2>1 DEF IInv, TypeOK, Phase
<1>4. Underway' /\ Known' /\ Troubled'
    BY <1>1, <1>2 DEF IInv, Underway, Known, Troubled, Working
<1>5. Shown' /\ Grounded'
    BY <1>1, <1>2, LadderBoundAssumption DEF Shown, Grounded, Working, Unlooked, NoResult
<1>6. Kept'
    BY <1>1, <1>2
    DEF Kept, UnavailableIsNoPermission, Permitted, NoBlindVerdict, RefusalIsOnRecord,
        OnlyOutagesClimb, MissingOriginIsSaid, FormIsHonoured, NoResult, Unlooked
<1> QED BY <1>3, <1>4, <1>5, <1>6 DEF IInv

LEMMA GivesUpStep ==
    ASSUME IInv, GivesUp
    PROVE  IInv'
<1> DEFINE r == Spelled(settings.onFailure)
<1>1. /\ pc = "climbing" /\ pc' = "done" /\ answer' = "exhausted"
      /\ IF r.decision = "needs_review" THEN row' = "dlq" /\ UNCHANGED result
         ELSE row' = "resolved" /\ result' = r
      /\ UNCHANGED <<deployment, settings, door, code, owner, content, look, told, trouble, tries>>
    BY DEF GivesUp, world
<1>2. /\ result = NoResult /\ door = "report" /\ code \notin SystemReason
      /\ trouble \notin {"UnknownReason", "ReasonNotApplicable"}
    BY <1>1, NoSystemReason DEF IInv, Underway, Troubled
<1>3. /\ r \in Result /\ r.source = "policy_default"
      /\ r.decision = "approved" <=> settings.onFailure = "approve"
    BY SettingMeans, SpelledMeans
<1> HIDE DEF r
<1>4. TypeOK'
    BY <1>1, <1>3 DEF IInv, TypeOK, Phase
<1>5. Underway' /\ Known' /\ Troubled'
    BY <1>1 DEF IInv, Underway, Known, Troubled, Working
<1>6. Shown' /\ Grounded'
    BY <1>1, <1>2, <1>3 DEF IInv, Shown, Grounded, Working, NoResult
<1>7. UnavailableIsNoPermission'
    BY <1>1, <1>2, <1>3 DEF UnavailableIsNoPermission, Permitted, NoResult
<1>8. MissingOriginIsSaid'
    BY <1>1 DEF IInv, Kept, MissingOriginIsSaid, MissingOrigin, Automatic
<1>9. NoBlindVerdict' /\ RefusalIsOnRecord' /\ OnlyOutagesClimb' /\ FormIsHonoured'
    BY <1>1, <1>2, <1>3 DEF NoBlindVerdict, RefusalIsOnRecord, OnlyOutagesClimb, FormIsHonoured, NoResult
<1> QED BY <1>4, <1>5, <1>6, <1>7, <1>8, <1>9 DEF IInv, Kept

LEMMA RedeploysStep ==
    ASSUME IInv, NEW d \in Deployment, Redeploys(d)
    PROVE  IInv'
<1>1. /\ pc = "task" /\ deployment' = d
      /\ UNCHANGED <<settings, door, pc, code, owner, content, look, told, trouble, tries, result, row, answer>>
    BY DEF Redeploys, world, ends
<1>2. /\ result = NoResult /\ look = Unlooked /\ trouble = "none" /\ answer = "none"
      /\ door = "report" /\ row = "screening" /\ code \notin SystemReason
    BY <1>1, NoSystemReason DEF IInv, Underway, Shown, Troubled
<1>3. TypeOK' /\ Underway' /\ Known' /\ Troubled'
    BY <1>1 DEF IInv, TypeOK, Underway, Known, Troubled, Working
<1>4. Shown' /\ Grounded'
    BY <1>1, <1>2 DEF IInv, Shown, Grounded, Working, Unlooked, NoResult
<1>5. Kept'
    BY <1>1, <1>2
    DEF Kept, UnavailableIsNoPermission, Permitted, NoBlindVerdict, RefusalIsOnRecord,
        OnlyOutagesClimb, MissingOriginIsSaid, FormIsHonoured, NoResult, Unlooked
<1> QED BY <1>3, <1>4, <1>5 DEF IInv

-----------------------------------------------------------------------------

LEMMA Inductive == (Init => IInv) /\ (IInv /\ [Next]_vars => IInv')
<1>1. Init => IInv
    <2> SUFFICES ASSUME Init PROVE IInv
        OBVIOUS
    <2>1. NoContent \in Content /\ Unlooked \in Look /\ 0 \in 0..SCREEN_MAX_ATTEMPTS
        BY LadderBoundAssumption DEF NoContent, Content, Unlooked, Look
    <2>2. TypeOK
        BY <2>1 DEF Init, TypeOK, Phase
    <2>3. Underway /\ Known /\ Troubled
        BY DEF Init, Underway, Known, Troubled, Working
    <2>4. Shown /\ Grounded
        BY LadderBoundAssumption DEF Init, Shown, Grounded, Working, Unlooked, NoResult
    <2>5. Kept
        BY RegistryAssumption
        DEF Init, Kept, UnavailableIsNoPermission, Permitted, NoBlindVerdict, RefusalIsOnRecord,
            OnlyOutagesClimb, MissingOriginIsSaid, FormIsHonoured, NoResult, Unlooked
    <2> QED BY <2>2, <2>3, <2>4, <2>5 DEF IInv
<1>2. ASSUME IInv, UNCHANGED vars PROVE IInv'
    <2>1. /\ UNCHANGED <<deployment, settings, door, pc, code, owner, content, look, told>>
          /\ UNCHANGED <<trouble, tries, result, row, answer>>
        BY <1>2 DEF vars, world, ends
    <2>2. TypeOK' /\ Underway' /\ Known' /\ Troubled'
        BY <1>2, <2>1 DEF IInv, TypeOK, Underway, Known, Troubled, Automatic
    <2>3. Shown' /\ Grounded'
        BY <1>2, <2>1 DEF IInv, Shown, Grounded
    <2>4. UnavailableIsNoPermission'
        BY <1>2, <2>1 DEF IInv, Kept, UnavailableIsNoPermission, Permitted, Automatic
    <2>5. NoBlindVerdict' /\ RefusalIsOnRecord' /\ OnlyOutagesClimb' /\ FormIsHonoured'
        <3>1. Fallback' = Fallback
            BY <2>1 DEF Fallback, Automatic
        <3> QED BY <1>2, <2>1, <3>1
                DEF IInv, Kept, NoBlindVerdict, RefusalIsOnRecord, Spelled, OnlyOutagesClimb, FormIsHonoured
    <2>6. MissingOriginIsSaid'
        BY <1>2, <2>1 DEF IInv, Kept, MissingOriginIsSaid, MissingOrigin, Automatic
    <2> QED BY <2>2, <2>3, <2>4, <2>5, <2>6 DEF IInv, Kept
<1>3. IInv /\ [Next]_vars => IInv'
    BY <1>2, SubmitsStep, BeginsStep, ComposesStep, RunsRulesStep, LooksAtStep, LinesUpStep,
       AsksModelStep, ConcludesStep, FailsDraftStep, FailsTaskStep, RetriesStep, GivesUpStep,
       RedeploysStep DEF Next
<1> QED BY <1>1, <1>3

LEMMA Invariant == Spec => []IInv
BY Inductive, PTL DEF Spec

\* Every variable of a screened request keeps its type.
THEOREM LadderTypes == Spec => []TypeOK
<1>1. IInv => TypeOK
    BY DEF IInv
<1> QED BY <1>1, Invariant, PTL

\* Nothing is published on an outage or a hesitation, unless the deployment
\* chose that for this very failure.
THEOREM OutagesPermitNothing == Spec => []UnavailableIsNoPermission
<1>1. IInv => UnavailableIsNoPermission
    BY DEF IInv, Kept
<1> QED BY <1>1, Invariant, PTL

\* The model judges beside photos where there are any to judge: every image a
\* draft carries inline or, of a content without inline images, one of its refs
\* at least (run_llm, _media_images).
THEOREM VerdictsAreSighted == Spec => []NoBlindVerdict
<1>1. IInv => NoBlindVerdict
    BY DEF IInv, Kept
<1> QED BY <1>1, Invariant, PTL

\* A draft has a case if and only if it was told "rejected", which a fallback
\* tells it only where its own setting says so (screen_draft, _draft_fallback).
THEOREM RefusalsAreOnRecord == Spec => []RefusalIsOnRecord
<1>1. IInv => RefusalIsOnRecord
    BY DEF IInv, Kept
<1> QED BY <1>1, Invariant, PTL

\* The retry ladder is climbed for outages, and only a target that is gone
\* closes its case unseen.
THEOREM ClimbsAreOutages == Spec => []OnlyOutagesClimb
<1>1. IInv => OnlyOutagesClimb
    BY DEF IInv, Kept
<1> QED BY <1>1, Invariant, PTL

\* A photo dropped for want of an origin is one W007 warned of.
THEOREM MissingOriginsAreSaid == Spec => []MissingOriginIsSaid
<1>1. IInv => MissingOriginIsSaid
    BY DEF IInv, Kept
<1> QED BY <1>1, Invariant, PTL

\* What the form offers is not refused for its reason, and no system reason is
\* accepted, whatever the host registers.
THEOREM FormsAreHonoured == Spec => []FormIsHonoured
<1>1. IInv => FormIsHonoured
    BY DEF IInv, Kept
<1> QED BY <1>1, Invariant, PTL

-----------------------------------------------------------------------------
(* ScreeningLadder implements CaseDecision.                                *)

\* What a step may do to the case: nothing anybody sees, open it, close it with a
\* terminal verdict, or leave it to people with another.
StillUnseen ==
    /\ row' = row \/ {row, row'} \subseteq {"screening", "queued", "dlq"}
    /\ row' # "absent" /\ pc' = "done" => result' = NoResult

OpensIt ==
    /\ row = "absent" /\ row' \in {"screening", "queued"}
    /\ pc' = "done" => result' = NoResult

DecidesIt ==
    /\ row' = "resolved" /\ pc' = "done" /\ result' \in Result
    /\ result'.decision \in {"approved", "rejected", "dismissed"}

AbstainsOnIt ==
    /\ row # "resolved" /\ row' = "queued" /\ pc' = "done" /\ result' \in Result
    /\ result'.decision = "needs_review"

CaseMoves == StillUnseen \/ OpensIt \/ DecidesIt \/ AbstainsOnIt

\* A result that closes or queues its case is a verdict on it.
LEMMA VerdictMoves ==
    ASSUME result' \in Result, result'.decision \in Decision,
           row' = RowAfter(result'), pc' = "done", row # "resolved"
    PROVE  CaseMoves
BY DEF RowAfter, CaseMoves, DecidesIt, AbstainsOnIt, Decision

\* So is the answer to a draft that is written down, and any other leaves no case.
LEMMA DraftMoves ==
    ASSUME NEW failed \in BOOLEAN, NEW r \in Result, r.decision \in Decision,
           row = "absent", AnswersDraft(failed, r)
    PROVE  CaseMoves
<1>1. /\ pc' = "done" /\ result' = r
      /\ row' = IF WrittenDown(failed, r) THEN RowAfter(r) ELSE "absent"
    BY DEF AnswersDraft
<1>2. CASE WrittenDown(failed, r)
    BY <1>1, <1>2, VerdictMoves
<1>3. CASE ~WrittenDown(failed, r)
    BY <1>1, <1>3 DEF CaseMoves, StillUnseen
<1> QED BY <1>2, <1>3

\* Every step of a request that has not ended does one of these to its case.
LEMMA CaseStep ==
    ASSUME IInv, Next
    PROVE  pc # "done" /\ CaseMoves
<1>0. /\ Underway /\ TypeOK
      /\ settings.onFailure \in {"hold", "approve", "reject"}
      /\ settings.onUnavailable \in {"hold", "approve", "reject"}
    BY SettingMeans DEF IInv
<1>1. ASSUME NEW r \in Report, Submits(r) PROVE pc # "done" /\ CaseMoves
    <2>1. pc = "new" /\ result' = result /\ (row' = row \/ row' \in {"screening", "queued"})
        BY <1>1 DEF Submits, Refused
    <2>2. row = "absent" /\ result = NoResult
        BY <1>0, <2>1 DEF Underway
    <2> QED BY <2>1, <2>2 DEF CaseMoves, StillUnseen, OpensIt
<1>2. ASSUME NEW o \in OwnerAnswer, NEW attested \in BOOLEAN, NEW c \in Fetchable, Begins(o, attested, c)
      PROVE  pc # "done" /\ CaseMoves
    <2>1. pc = "task" /\ row = "screening" /\ result = NoResult
        BY <1>0, <1>2 DEF Begins, Underway
    <2>2. \/ row' = row /\ result' = result
          \/ /\ Registered(deployment) /\ Fetched(PolicyOf(deployment), attested, o) = "TargetNotFound"
             /\ result' = [decision |-> "dismissed", source |-> "policy_default"]
             /\ row' = "resolved"
             /\ pc' = CASE Fetched(PolicyOf(deployment), attested, o) = "content" -> "rules"
                        [] Fetched(PolicyOf(deployment), attested, o) = "TargetNotFound" -> "done"
                        [] Fetched(PolicyOf(deployment), attested, o) = "ContentUnavailable" -> "climbing"
        BY <1>2 DEF Begins
    <2>3. CASE row' = row /\ result' = result
        BY <2>1, <2>3 DEF CaseMoves, StillUnseen
    <2>4. CASE /\ result' = [decision |-> "dismissed", source |-> "policy_default"]
               /\ row' = "resolved" /\ pc' = "done"
        BY <2>1, <2>4 DEF CaseMoves, DecidesIt, Result
    <2> QED BY <2>1, <2>2, <2>3, <2>4
<1>3. ASSUME NEW c \in Content, Composes(c) PROVE pc # "done" /\ CaseMoves
    <2>1. pc = "new" /\ row = "absent" /\ result = NoResult
        BY <1>0, <1>3 DEF Composes, Underway
    <2>2. CASE AnswersDraft(TRUE, Spelled(DraftFallback(TRUE)))
        <3>1. DraftFallback(TRUE) \in {"hold", "approve", "reject"}
            BY <1>0 DEF DraftFallback
        <3>2. Spelled(DraftFallback(TRUE)) \in Result /\ Spelled(DraftFallback(TRUE)).decision \in Decision
            BY <3>1, SpelledMeans
        <3> QED BY <2>1, <2>2, <3>2, DraftMoves
    <2>3. CASE row' = row /\ result' = result
        BY <2>1, <2>3 DEF CaseMoves, StillUnseen
    <2> QED BY <1>3, <2>1, <2>2, <2>3 DEF Composes, Refused, ends
<1>4. CASE RunsRules
    <2>1. pc = "rules" /\ pc' \in {"judged", "photos"} /\ row' = row
        BY <1>4 DEF RunsRules
    <2> QED BY <2>1 DEF CaseMoves, StillUnseen
<1>5. ASSUME NEW p \in Photo, LooksAt(p) PROVE pc # "done" /\ CaseMoves
    <2>1. pc = "photos" /\ pc' = pc /\ row' = row
        BY <1>5 DEF LooksAt, ends
    <2> QED BY <2>1 DEF CaseMoves, StillUnseen
<1>6. CASE LinesUp
    <2>1. pc = "photos" /\ pc' \in {"failed", "model"} /\ row' = row
        BY <1>6 DEF LinesUp
    <2> QED BY <2>1 DEF CaseMoves, StillUnseen
<1>7. ASSUME NEW a \in ModelAnswer \cup {Silent}, AsksModel(a) PROVE pc # "done" /\ CaseMoves
    <2>1. pc = "model" /\ pc' \in {"failed", "judged"} /\ row' = row
        BY <1>7 DEF AsksModel
    <2> QED BY <2>1 DEF CaseMoves, StillUnseen
<1>8. CASE Concludes
    <2>1. pc = "judged" /\ row # "resolved" /\ (door = "draft" => row = "absent")
        BY <1>0, <1>8 DEF Concludes, Underway
    <2>2. result \in Result /\ result.decision \in Decision
        BY <1>0, <2>1 DEF IInv, Grounded, TypeOK, NoResult
    <2>3. CASE door = "draft" /\ AnswersDraft(FALSE, result)
        BY <2>1, <2>2, <2>3, DraftMoves
    <2>4. CASE row' = RowAfter(result) /\ pc' = "done" /\ result' = result
        BY <2>1, <2>2, <2>4, VerdictMoves
    <2> QED BY <1>8, <2>1, <2>3, <2>4 DEF Concludes
<1>9. CASE FailsDraft
    <2>1. pc = "failed" /\ row = "absent"
        BY <1>0, <1>9 DEF FailsDraft, Underway
    <2>2. CASE AnswersDraft(TRUE, Spelled(DraftFallback(FALSE)))
        <3>1. DraftFallback(FALSE) \in {"hold", "approve", "reject"}
            BY <1>0 DEF DraftFallback
        <3>2. Spelled(DraftFallback(FALSE)) \in Result /\ Spelled(DraftFallback(FALSE)).decision \in Decision
            BY <3>1, SpelledMeans
        <3> QED BY <2>1, <2>2, <3>2, DraftMoves
    <2>3. CASE row' = row
        BY <2>1, <2>3 DEF CaseMoves, StillUnseen
    <2> QED BY <1>9, <2>1, <2>2, <2>3 DEF FailsDraft
<1>10. CASE FailsTask
    <2>1. pc = "failed" /\ row = "screening" /\ result = NoResult
        BY <1>0, <1>10 DEF FailsTask, Underway
    <2>2. result' = result /\ row' \in {"screening", "queued", "dlq"}
        BY <1>10, <2>1 DEF FailsTask
    <2> QED BY <2>1, <2>2 DEF CaseMoves, StillUnseen
<1>11. CASE Retries
    <2>1. pc = "climbing" /\ pc' = "task" /\ row' = row
        BY <1>11 DEF Retries
    <2> QED BY <2>1 DEF CaseMoves, StillUnseen
<1>12. CASE GivesUp
    <2> DEFINE r == Spelled(settings.onFailure)
    <2>1. pc = "climbing" /\ row = "screening" /\ result = NoResult
        BY <1>0, <1>12 DEF GivesUp, Underway
    <2>2. r \in Result /\ r.decision \in Decision
        BY <1>0, SpelledMeans
    <2>3. /\ pc' = "done"
          /\ IF r.decision = "needs_review" THEN row' = "dlq" /\ result' = result
             ELSE row' = "resolved" /\ result' = r
        BY <1>12 DEF GivesUp
    <2> HIDE DEF r
    <2>4. CASE r.decision = "needs_review"
        BY <2>1, <2>3, <2>4 DEF CaseMoves, StillUnseen
    <2>5. CASE r.decision # "needs_review"
        <3>1. row' = "resolved" /\ result' = r /\ pc' = "done"
            BY <2>3, <2>5
        <3>2. r.decision \in {"approved", "rejected", "dismissed"}
            BY <2>2, <2>5 DEF Decision
        <3> QED BY <2>1, <2>2, <3>1, <3>2 DEF CaseMoves, DecidesIt
    <2> QED BY <2>1, <2>4, <2>5
<1>13. ASSUME NEW d \in Deployment, Redeploys(d) PROVE pc # "done" /\ CaseMoves
    <2>1. pc = "task" /\ pc' = pc /\ row' = row
        BY <1>13 DEF Redeploys, ends
    <2> QED BY <2>1 DEF CaseMoves, StillUnseen
<1> QED BY <1>1, <1>2, <1>3, <1>4, <1>5, <1>6, <1>7, <1>8, <1>9, <1>10, <1>11, <1>12, <1>13 DEF Next

\* However the task is retried, redeployed under, parked or given up, and through
\* whichever door the content came, its case moves as CaseDecision lets it:
\* services.resolve_case, queue_for_review and park_in_dlq are reached in an order
\* that decides once, with the verdict, or leaves the case undecided.
THEOREM LadderImplementsDecision == Spec => ImplementsDecision
<1>v. /\ Lifecycle!NoVerdict = NoResult
      /\ Result \subseteq Lifecycle!Verdict
      /\ \A d : d \in Lifecycle!TERMINAL_DECISIONS <=> d \in {"approved", "rejected", "dismissed"}
    BY DEF Lifecycle!NoVerdict, NoResult, Result, Decision, Lifecycle!Verdict, Lifecycle!VerdictDecision,
           Lifecycle!VerdictSource, Lifecycle!TERMINAL_DECISIONS
<1>1. Init => Lifecycle!Init
    BY <1>v DEF Init, Lifecycle!Init, CaseStatus, CaseVerdict
<1>2. ASSUME IInv, Next PROVE [Lifecycle!Next]_<<CaseStatus, CaseVerdict>>
    <2>0. pc # "done" /\ CaseMoves
        BY <1>2, CaseStep
    <2>1. CaseVerdict[TheCase] = NoResult /\ CaseVerdict = [c \in {TheCase} |-> NoResult]
        BY <2>0 DEF CaseVerdict
    <2>2. TheCase \in {TheCase} /\ row \in {"absent", "screening", "queued", "dlq", "resolved"}
        BY <1>2 DEF IInv, TypeOK
    <2>3. CASE StillUnseen
        <3>1. CaseStatus' = CaseStatus
            BY <2>3 DEF StillUnseen, CaseStatus
        <3>2. CaseVerdict' = CaseVerdict
            BY <2>1, <2>3 DEF StillUnseen, CaseVerdict
        <3> QED BY <3>1, <3>2
    <2>4. CASE OpensIt
        <3>1. CaseStatus[TheCase] = "none" /\ CaseStatus' = [CaseStatus EXCEPT ![TheCase] = "undecided"]
            BY <2>4 DEF OpensIt, CaseStatus
        <3>2. CaseVerdict' = CaseVerdict
            BY <2>1, <2>4 DEF OpensIt, CaseVerdict
        <3> QED BY <3>1, <3>2 DEF Lifecycle!Next, Lifecycle!File
    <2>5. CASE DecidesIt
        <3>1. CaseStatus' = [CaseStatus EXCEPT ![TheCase] = "decided"]
            BY <2>5 DEF DecidesIt, CaseStatus
        <3>2. CaseVerdict' = [CaseVerdict EXCEPT ![TheCase] = result']
            BY <2>5 DEF DecidesIt, CaseVerdict
        <3>3. result' \in Lifecycle!Verdict /\ result'.decision \in Lifecycle!TERMINAL_DECISIONS
            BY <1>v, <2>5 DEF DecidesIt
        <3> QED BY <3>1, <3>2, <3>3 DEF Lifecycle!Next, Lifecycle!Decide
    <2>6. CASE AbstainsOnIt
        <3>1. CaseStatus' = [CaseStatus EXCEPT ![TheCase] = "undecided"]
            BY <2>6 DEF AbstainsOnIt, CaseStatus
        <3>2. CaseVerdict' = [CaseVerdict EXCEPT ![TheCase] = result']
            BY <2>6 DEF AbstainsOnIt, CaseVerdict
        <3>3. result' \in Lifecycle!Verdict /\ result'.decision \notin Lifecycle!TERMINAL_DECISIONS
            BY <1>v, <2>6 DEF AbstainsOnIt
        <3> QED BY <3>1, <3>2, <3>3 DEF Lifecycle!Next, Lifecycle!Abstain
    <2> QED BY <2>0, <2>3, <2>4, <2>5, <2>6 DEF CaseMoves
<1>3. UNCHANGED vars => UNCHANGED <<CaseStatus, CaseVerdict>>
    BY DEF vars, ends, CaseStatus, CaseVerdict
<1>4. Spec => Lifecycle!Init /\ [][Lifecycle!Next]_<<CaseStatus, CaseVerdict>>
    <2>1. IInv /\ [Next]_vars => [Lifecycle!Next]_<<CaseStatus, CaseVerdict>>
        BY <1>2, <1>3
    <2> QED BY <1>1, <2>1, Invariant, PTL DEF Spec
<1> QED BY <1>4 DEF ImplementsDecision, Lifecycle!Spec

=============================================================================
