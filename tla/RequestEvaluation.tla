-------------------------- MODULE RequestEvaluation --------------------------
(***************************************************************************)
(* PermissionRequestEvaluationService._run_evaluation: a request's text is *)
(* parsed, with an LLM's answer as a hint, and then evaluated by the       *)
(* policy, whose result says which permission is suggested and who has to  *)
(* approve it.  (EvaluateRequest of PermissionRequests leaves this result  *)
(* open.)                                                                  *)
(***************************************************************************)
EXTENDS RequestParser

CONSTANTS
  Texts,         \* the texts of requests
  Departments,   \* the requesters' departments; None is an unknown one
  Answers        \* what the LLM may answer to any text

\* Every answer has the fields of one, if only as None.
ASSUME AnswersHaveFields == \A answer \in Answers : DOMAIN answer = DOMAIN Empty

VARIABLES
  request,       \* a request's text and its requester's department
  evaluations    \* its evaluation, once it has been made

vars == <<request, evaluations>>

-----------------------------------------------------------------------------
\* Faulty: the raw text, without the parser's reading of it.
RawText(text, parsed) == text

\* _build_policy_request_text: what the parser takes for read-only is said so
\* in the terms of the policy.
PolicyRequestText(text, parsed) ==
  text \cup IF parsed.action = "read" /\ parsed.readOnly THEN {"readonly"} ELSE {}

\* Faulty: the parser's value of a field before the rule's.
ParsedFirst(mapping, field, parsed) ==
  IF parsed[field] # None \/ mapping = {} THEN parsed[field]
  ELSE (CHOOSE m \in mapping : TRUE)[field]

\* The field of the mapping rule if there is one, of the parsed request if not.
FieldOf(mapping, field, parsed) ==
  IF mapping = {} THEN parsed[field] ELSE (CHOOSE m \in mapping : TRUE)[field]

\* Faulty: a resource is enough, whether or not it has the action.
NoMapping(mapping, action) == mapping = {}

\* fallback_to_safe_path: the rule has no permission for the action.
Unresolved(mapping, action) == ~ \E m \in mapping : action \in m.permissions

\* PolicyEngine.evaluate
EvaluatePolicy(text, parsed, department) ==
  LET action   == ResolveAction(text, parsed.action)
      mapping  == ResolveMapping(text, parsed.key, parsed.type)
      target   == FieldOf(mapping, "department", parsed)
      sensitivity == FieldOf(mapping, "sensitivity", parsed)
      cross    == department # None /\ target # None /\ department # target
      fallback == Unresolved(mapping, action)
      level    == RiskLevel(action, sensitivity, cross, fallback)
      rule     == ApprovalRuleFor(level, action, sensitivity, cross, fallback)
  IN  [key |-> FieldOf(mapping, "key", parsed), action |-> action,
       suggested |-> ~fallback, level |-> level,
       required |-> rule.required, route |-> rule.route]

\* _run_evaluation
RunEvaluation(text, department, answer) ==
  LET parsed == Parse(text, answer) IN
  EvaluatePolicy(PolicyRequestText(text, parsed), parsed, department)

-----------------------------------------------------------------------------
Init ==
  /\ request \in [text : Texts, department : Departments]
  /\ evaluations = <<>>

Evaluate ==
  /\ evaluations = <<>>
  /\ \E answer \in Answers :
       evaluations' = <<[answer |-> answer,
                         result |-> RunEvaluation(request.text, request.department, answer)]>>
  /\ UNCHANGED request

Next == Evaluate

Spec == Init /\ [][Next]_vars

-----------------------------------------------------------------------------
\* The evaluation made, as a set with at most one element.
Made == {evaluations[i] : i \in DOMAIN evaluations}

\* The rule of a resource in the policy bundle.
RuleOf(key) == {Mappings[i] : i \in {j \in DOMAIN Mappings : Mappings[j].key = key}}

Harmless == {"low", "internal"}

\* Sends whatever has no permission to suggest to somebody.
CatchesUnresolved(rule) ==
  /\ rule.required /\ TRUE \in rule.fallback /\ rule.cross = BOOLEAN
  /\ rule.levels = {} /\ rule.actions = {} /\ rule.sensitivities = {}

\* Lets through only reads of what is harmless, within the department.
WaivesOnlyHarmless(rule) ==
  /\ rule.actions = {"read"} /\ rule.cross = {FALSE}
  /\ rule.sensitivities # {} /\ rule.sensitivities \subseteq Harmless

\* What a bundle needs for UnreviewedIsHarmless, in each of its rules that
\* waive the approval, and for ReadOnlyTextReads: nothing checks it when a
\* bundle is loaded.
GuardedBundle ==
  /\ \A m \in Range(Mappings) : m.department # None
  /\ \A i \in DOMAIN ApprovalRules : ~ApprovalRules[i].required =>
       /\ WaivesOnlyHarmless(ApprovalRules[i])
       /\ \E j \in 1 .. i - 1 : CatchesUnresolved(ApprovalRules[j])
  /\ "readonly" \in ReadOnlyTerms

Escalated == DefaultManualReview.route

\* What a bundle needs for EscalatedWhenRisky: a risk rule that makes high
\* whatever is asked of each sensitive resource, the full route for whatever
\* is not within the low levels or has nothing to suggest, and the manager for
\* every change.
EscalatingBundle ==
  /\ \A m \in Range(Mappings) : m.sensitivity \notin Harmless =>
       \E i \in DOMAIN RiskRules :
         /\ RiskRules[i].minimum >= High /\ m.sensitivity \in RiskRules[i].sensitivities
         /\ RiskRules[i].cross = BOOLEAN /\ RiskRules[i].fallback = BOOLEAN
  /\ \A i \in DOMAIN ApprovalRules :
       /\ \/ ApprovalRules[i].route = Escalated
          \/ /\ ApprovalRules[i].levels # {}
             /\ ApprovalRules[i].levels \subseteq {Low, Medium}
             /\ \E j \in 1 .. i - 1 : CatchesUnresolved(ApprovalRules[j])
       /\ \/ "manager" \in Range(ApprovalRules[i].route)
          \/ ApprovalRules[i].actions = {"read"}

\* Sets of values that a rule names, none for any, have one in common.
Compatible(s, t) == s = {} \/ t = {} \/ s \cap t # {}

\* A request may meet this rule at home and the other one from another
\* department, where its risk is no lower.
MeetByCrossing(rule, other) ==
  /\ FALSE \in rule.cross /\ TRUE \in other.cross
  /\ FALSE \in rule.fallback /\ FALSE \in other.fallback
  /\ Compatible(rule.actions, other.actions)
  /\ Compatible(rule.sensitivities, other.sensitivities)
  /\ \E low, high \in Low .. Critical :
       /\ low <= high
       /\ rule.levels = {} \/ low \in rule.levels
       /\ other.levels = {} \/ high \in other.levels

\* What a bundle needs for CrossingNeverHelps: a resource has one rule; no risk
\* rule is for the own department alone or takes off for crossing; whatever is
\* suggested meets an approval rule at home; and no route is longer than those
\* that crossing may lead to.
CrossingBundle ==
  /\ \A i, j \in DOMAIN Mappings : Mappings[i].key = Mappings[j].key => i = j
  /\ \A rule \in Range(RiskRules) :
       TRUE \in rule.cross /\ (FALSE \notin rule.cross => rule.delta >= 0)
  /\ \A m \in Range(Mappings) : \A action \in m.permissions :
       \E rule \in Range(ApprovalRules) :
         Matches(rule, RiskLevel(action, m.sensitivity, FALSE, FALSE),
                 action, m.sensitivity, FALSE, FALSE)
  /\ \A rule \in Range(ApprovalRules) :
       /\ IsPrefix(rule.route, Escalated)
       /\ \A other \in Range(ApprovalRules) :
            MeetByCrossing(rule, other) => IsPrefix(rule.route, other.route)

\* A request that nobody has to approve asks to read a resource the policy
\* knows as harmless and, where the requester's department is known, as that
\* department's: whatever the LLM answered for department and sensitivity.
UnreviewedIsHarmless ==
  \A e \in Made : ~e.result.required =>
    /\ e.result.suggested /\ e.result.action = "read"
    /\ \E m \in RuleOf(e.result.key) :
         m.sensitivity \in Harmless /\ request.department \in {None, m.department}

\* Whatever has no permission to suggest, by the result or by the rule of its
\* resource, or asks for a sensitive resource, goes to the manager and to the security administrator; a change
\* at least to the manager.
EscalatedWhenRisky ==
  \A e \in Made :
    /\ \/ ~e.result.suggested
       \/ ~ \E m \in RuleOf(e.result.key) :
              e.result.action \in m.permissions /\ m.sensitivity \in Harmless
       => e.result.route = Escalated
    /\ e.result.action # "read" => "manager" \in Range(e.result.route)

\* Asking from another department than the resource's never lowers the risk
\* and never shortens the approval route, for the same text and LLM answer.
CrossingNeverHelps ==
  \A e \in Made, d \in Departments :
    LET own  == RunEvaluation(request.text, d, e.answer)
        home == \E m \in RuleOf(own.key) : m.department = d
    IN  own.suggested /\ home =>
          /\ own.level <= e.result.level
          /\ IsPrefix(own.route, e.result.route)

\* The LLM's answer on department and sensitivity counts for nothing once the
\* resource is known to the policy.
RulesOutrankAnswer ==
  \A e \in Made : RuleOf(e.result.key) # {} /\ e.result.suggested =>
    \A d \in Departments, s \in {None, "low", "high"} :
      RunEvaluation(request.text, request.department,
        [e.answer EXCEPT !.department = d, !.sensitivity = s]) = e.result

\* Without an LLM's answer a text with any read-only wording, the policy's or
\* the parser's, is never taken to ask for a change.
ReadOnlyTextReads ==
  \A e \in Made :
    HasAny(request.text, ParserReadOnlyTerms) /\ e.answer = Empty
    => e.result.action = "read"

=============================================================================
