-------------------------- MODULE Evaluation_proofs --------------------------
(***************************************************************************)
(* Proofs about the evaluation of requests, for every policy bundle, text  *)
(* and answer of the LLM, or for every bundle with the guards that the     *)
(* deployed one has.                                                       *)
(***************************************************************************)
EXTENDS RequestEvaluation, FiniteSetTheorems, WellFoundedInduction, TLAPS

\* The evaluation, once made, is that of the request and of some answer.
EvaluationInv ==
  \A e \in Made :
    /\ e.answer \in Answers
    /\ e.result = RunEvaluation(request.text, request.department, e.answer)

LEMMA EvaluationInvAlways == Spec => []EvaluationInv
<1>1. Init => EvaluationInv
  BY DEF Init, EvaluationInv, Made
<1>2. EvaluationInv /\ [Next]_vars => EvaluationInv'
  <2> SUFFICES ASSUME EvaluationInv, [Next]_vars PROVE EvaluationInv'
    OBVIOUS
  <2>1. CASE UNCHANGED vars
    BY <2>1 DEF vars, EvaluationInv, Made
  <2>2. CASE Evaluate
    <3>1. PICK answer \in Answers :
            evaluations' = <<[answer |-> answer,
                              result |-> RunEvaluation(request.text, request.department, answer)]>>
      BY <2>2 DEF Evaluate
    <3>2. UNCHANGED request
      BY <2>2 DEF Evaluate
    <3> QED
      BY <3>1, <3>2 DEF EvaluationInv, Made
  <2> QED
    BY <2>1, <2>2 DEF Next
<1> QED
  BY <1>1, <1>2, PTL DEF Spec

-----------------------------------------------------------------------------
(***************************************************************************)
(* The first of a set of indices.                                          *)
(***************************************************************************)
LEMMA FirstOf ==
  ASSUME NEW I \in SUBSET Nat, I # {}
  PROVE  Min(I) \in I /\ \A i \in I : Min(I) <= i
<1>1. PICK m \in I : \A i \in I : ~(<<i, m>> \in OpToRel(<, Nat))
  BY NatLessThanWellFounded, WFMin, Zenon
<1>2. \A i \in I : ~(i < m)
  BY <1>1, Zenon DEF OpToRel
<1>3. \A i \in I : m <= i
  BY <1>2
<1> QED
  BY <1>3 DEF Min

\* Rule i is the first whose conditions all hold.
FirstMatch(i, level, action, sensitivity, cross, fallback) ==
  /\ Matches(ApprovalRules[i], level, action, sensitivity, cross, fallback)
  /\ \A j \in 1 .. i - 1 :
       ~Matches(ApprovalRules[j], level, action, sensitivity, cross, fallback)

\* _select_approval_rule: the first rule whose conditions hold, or the manual
\* review.
LEMMA FirstMatchDecides ==
  ASSUME NEW level, NEW action, NEW sensitivity, NEW cross, NEW fallback
  PROVE  LET chosen == ApprovalRuleFor(level, action, sensitivity, cross, fallback) IN
         \/ /\ chosen = DefaultManualReview
            /\ \A i \in DOMAIN ApprovalRules :
                 ~Matches(ApprovalRules[i], level, action, sensitivity, cross, fallback)
         \/ \E i \in DOMAIN ApprovalRules :
              /\ chosen.required = ApprovalRules[i].required
              /\ chosen.route = ApprovalRules[i].route
              /\ FirstMatch(i, level, action, sensitivity, cross, fallback)
<1> DEFINE I == {k \in 1 .. Len(ApprovalRules) :
                   Matches(ApprovalRules[k], level, action, sensitivity, cross, fallback)}
           i == IF I # {} THEN Min(I) ELSE 0
           chosen == ApprovalRuleFor(level, action, sensitivity, cross, fallback)
<1>1. chosen = IF i = 0 THEN DefaultManualReview
               ELSE [required |-> ApprovalRules[i].required, route |-> ApprovalRules[i].route]
  BY DEF ApprovalRuleFor, SelectInSeq
<1>4. DOMAIN ApprovalRules = 1 .. Len(ApprovalRules) /\ Len(ApprovalRules) \in Nat
  BY BundleIsLoaded DEF BundleLoads
<1>6. I = {} => \A k \in DOMAIN ApprovalRules :
        ~Matches(ApprovalRules[k], level, action, sensitivity, cross, fallback)
  BY <1>4
<1> SUFFICES ASSUME I # {}
             PROVE  /\ i # 0 /\ i \in DOMAIN ApprovalRules
                    /\ FirstMatch(i, level, action, sensitivity, cross, fallback)
  <2>1. I = {} => i = 0
    OBVIOUS
  <2> HIDE DEF i, chosen, I
  <2> QED
    BY <1>1, <1>6, <2>1 DEF chosen
<1>2. I \in SUBSET Nat
  OBVIOUS
<1>3. i \in I /\ \A k \in I : i <= k
  BY <1>2, FirstOf
<1>5. ASSUME NEW j \in 1 .. i - 1
      PROVE  ~Matches(ApprovalRules[j], level, action, sensitivity, cross, fallback)
  <2>1. j \in 1 .. Len(ApprovalRules) /\ ~(i <= j)
    BY <1>3, <1>4
  <2> QED
    BY <2>1, <1>3
<1> QED
  BY <1>3, <1>4, <1>5 DEF FirstMatch

\* A guarded bundle waives the approval of reads of what is harmless, within
\* the department, and only where there is a permission to suggest.
LEMMA WaivedIsHarmless ==
  ASSUME NEW level, NEW action, NEW sensitivity, NEW cross \in BOOLEAN,
         NEW fallback \in BOOLEAN, GuardedBundle,
         ~ApprovalRuleFor(level, action, sensitivity, cross, fallback).required
  PROVE  action = "read" /\ sensitivity \in Harmless /\ ~cross /\ ~fallback
<1>1. PICK i \in DOMAIN ApprovalRules :
        /\ ~ApprovalRules[i].required
        /\ Matches(ApprovalRules[i], level, action, sensitivity, cross, fallback)
        /\ \A j \in 1 .. i - 1 :
             ~Matches(ApprovalRules[j], level, action, sensitivity, cross, fallback)
  BY FirstMatchDecides DEF DefaultManualReview, FirstMatch
<1>2. PICK j \in 1 .. i - 1 : CatchesUnresolved(ApprovalRules[j])
  BY <1>1 DEF GuardedBundle
<1>3. WaivesOnlyHarmless(ApprovalRules[i])
  BY <1>1 DEF GuardedBundle
<1>4. action = "read" /\ sensitivity \in Harmless /\ ~cross
  BY <1>1, <1>3 DEF WaivesOnlyHarmless, Matches, Applies
<1>5. ~fallback
  BY <1>1, <1>2 DEF CatchesUnresolved, Matches, Applies
<1> QED
  BY <1>4, <1>5

\* _resolve_mapping takes its rule from the bundle.
LEMMA MappingsAreRules ==
  ASSUME NEW text, NEW key, NEW type,
         NEW m \in ResolveMapping(text, key, type)
  PROVE  m \in RuleOf(m.key) /\ m \in Range(Mappings)
<1> DEFINE fitting == {i \in DOMAIN Mappings : TypeFits(Mappings[i], type)}
           named   == {i \in fitting : Mappings[i].key = key}
           matched == {i \in fitting : HasAny(text, Mappings[i].terms)}
           best    == {i \in matched : \A j \in matched :
                    /\ ~Outweighs(Mappings[j], Mappings[i], text)
                    /\ j < i => Outweighs(Mappings[i], Mappings[j], text)}
           chosen  == IF named # {} THEN {Min(named)} ELSE best
<1>1. m \in {Mappings[i] : i \in chosen}
  BY DEF ResolveMapping
<1>2. DOMAIN Mappings \in SUBSET Nat
  BY BundleIsLoaded DEF BundleLoads
<1>3. ASSUME named # {} PROVE Min(named) \in DOMAIN Mappings
  <2>1. named \in SUBSET Nat
    BY <1>2
  <2> HIDE DEF named
  <2>2. Min(named) \in named
    BY <2>1, <1>3, FirstOf
  <2> QED
    BY <2>2 DEF named
<1>4. chosen \subseteq DOMAIN Mappings
  BY <1>3
<1> HIDE DEF chosen
<1>5. PICK i \in DOMAIN Mappings : m = Mappings[i]
  BY <1>1, <1>4
<1> QED
  BY <1>5 DEF RuleOf, Range

\* What a result says of its resource, with the rule of the bundle if there
\* is one.
LEMMA RuleOfResult ==
  ASSUME NEW text, NEW parsed, NEW department, NEW mapping,
         mapping = ResolveMapping(text, parsed.key, parsed.type), mapping # {}
  PROVE  \E m \in mapping :
           /\ m \in RuleOf(EvaluatePolicy(text, parsed, department).key)
           /\ m \in Range(Mappings)
           /\ FieldOf(mapping, "department", parsed) = m.department
           /\ FieldOf(mapping, "sensitivity", parsed) = m.sensitivity
<1> DEFINE m == CHOOSE n \in mapping : TRUE
<1>1. m \in mapping
  OBVIOUS
<1>2. \A field : FieldOf(mapping, field, parsed) = m[field]
  BY DEF FieldOf
<1>3. EvaluatePolicy(text, parsed, department).key = FieldOf(mapping, "key", parsed)
  BY DEF EvaluatePolicy
<1>4. m \in RuleOf(m.key) /\ m \in Range(Mappings)
  BY <1>1, MappingsAreRules
<1> QED
  BY <1>1, <1>2, <1>3, <1>4

\* One evaluation of a guarded bundle that nobody has to approve.
LEMMA UnreviewedResult ==
  ASSUME NEW text, NEW parsed, NEW department, GuardedBundle,
         ~EvaluatePolicy(text, parsed, department).required
  PROVE  LET result == EvaluatePolicy(text, parsed, department) IN
         /\ result.suggested /\ result.action = "read"
         /\ \E m \in RuleOf(result.key) :
              m.sensitivity \in Harmless /\ department \in {None, m.department}
<1> DEFINE action   == ResolveAction(text, parsed.action)
           mapping  == ResolveMapping(text, parsed.key, parsed.type)
           target   == FieldOf(mapping, "department", parsed)
           sensitivity == FieldOf(mapping, "sensitivity", parsed)
           cross    == department # None /\ target # None /\ department # target
           fallback == Unresolved(mapping, action)
           level    == RiskLevel(action, sensitivity, cross, fallback)
           result   == EvaluatePolicy(text, parsed, department)
<1>1. /\ result.required = ApprovalRuleFor(level, action, sensitivity, cross, fallback).required
      /\ result.suggested = ~fallback
      /\ result.action = action
  BY DEF EvaluatePolicy
<1>2. cross \in BOOLEAN /\ fallback \in BOOLEAN
  BY DEF Unresolved
<1>3. ~ApprovalRuleFor(level, action, sensitivity, cross, fallback).required
  BY <1>1
<1>4. action = "read" /\ sensitivity \in Harmless /\ ~cross /\ ~fallback
  <2> HIDE DEF level, action, sensitivity, cross, fallback
  <2> QED
    BY <1>2, <1>3, WaivedIsHarmless
<1>5. PICK m \in mapping : /\ m \in RuleOf(result.key)
                           /\ m \in Range(Mappings)
                           /\ target = m.department /\ sensitivity = m.sensitivity
  <2>1. mapping # {}
    BY <1>4 DEF Unresolved
  <2> HIDE DEF mapping
  <2>2. mapping = ResolveMapping(text, parsed.key, parsed.type)
    BY DEF mapping
  <2> QED
    BY <2>1, <2>2, RuleOfResult
<1>6. m.department # None
  BY <1>5 DEF GuardedBundle
<1>7. m.sensitivity \in Harmless /\ department \in {None, m.department}
  BY <1>4, <1>5, <1>6
<1> HIDE DEF result
<1>8. result.suggested /\ result.action = "read"
  BY <1>1, <1>4
<1> QED
  BY <1>5, <1>7, <1>8 DEF result

-----------------------------------------------------------------------------
(***************************************************************************)
(* Whatever the texts and the LLM's answers, under a guarded bundle a      *)
(* request that PermissionRequestEvaluationService leaves without an       *)
(* approval asks to read a harmless resource of the bundle, and never one  *)
(* of a department known to be another.                                    *)
(***************************************************************************)
THEOREM UnreviewedRequestsAreHarmless ==
  GuardedBundle => (Spec => []UnreviewedIsHarmless)
<1>1. ASSUME GuardedBundle, EvaluationInv PROVE UnreviewedIsHarmless
  <2> SUFFICES ASSUME NEW e \in Made, ~e.result.required
               PROVE  /\ e.result.suggested /\ e.result.action = "read"
                      /\ \E m \in RuleOf(e.result.key) :
                           /\ m.sensitivity \in Harmless
                           /\ request.department \in {None, m.department}
    BY DEF UnreviewedIsHarmless
  <2> DEFINE parsed == Parse(request.text, e.answer)
             text == PolicyRequestText(request.text, parsed)
  <2>1. e.result = EvaluatePolicy(text, parsed, request.department)
    BY <1>1 DEF EvaluationInv, RunEvaluation
  <2> HIDE DEF parsed, text
  <2> QED
    BY <1>1, <2>1, UnreviewedResult
<1>2. GuardedBundle /\ []EvaluationInv => []UnreviewedIsHarmless
  <2> SUFFICES ASSUME GuardedBundle PROVE []EvaluationInv => []UnreviewedIsHarmless
    OBVIOUS
  <2>1. EvaluationInv => UnreviewedIsHarmless
    BY <1>1
  <2> QED
    BY <2>1, PTL
<1> QED
  BY <1>2, EvaluationInvAlways, PTL

(***************************************************************************)
(* For every bundle: once the resource is one of the bundle's and has the  *)
(* action, neither the department nor the sensitivity that the LLM claims  *)
(* changes anything in the result of PolicyEngine.evaluate.                *)
(***************************************************************************)
THEOREM AnswersCannotOutrankRules == Spec => []RulesOutrankAnswer
<1>1. EvaluationInv => RulesOutrankAnswer
  <2> SUFFICES ASSUME EvaluationInv, NEW e \in Made, e.result.suggested,
                      NEW d \in Departments, NEW s \in {None, "low", "high"}
               PROVE  RunEvaluation(request.text, request.department,
                        [e.answer EXCEPT !.department = d, !.sensitivity = s]) = e.result
    BY DEF RulesOutrankAnswer
  <2> DEFINE other   == [e.answer EXCEPT !.department = d, !.sensitivity = s]
             parsed  == Parse(request.text, e.answer)
             parsed2 == Parse(request.text, other)
             text    == PolicyRequestText(request.text, parsed)
             mapping == ResolveMapping(text, parsed.key, parsed.type)
  <2>1. e.answer \in Answers /\ e.result = EvaluatePolicy(text, parsed, request.department)
    BY DEF EvaluationInv, RunEvaluation
  <2>2. /\ other.key = e.answer.key /\ other.type = e.answer.type
        /\ other.action = e.answer.action /\ other.readOnly = e.answer.readOnly
    BY <2>1, AnswersHaveFields DEF Empty
  <2>3. /\ parsed2.key = parsed.key /\ parsed2.type = parsed.type
        /\ parsed2.action = parsed.action /\ parsed2.readOnly = parsed.readOnly
    <3> HIDE DEF other
    <3> QED
      BY <2>2 DEF Parse
  <2> HIDE DEF parsed, parsed2
  <2>4. PolicyRequestText(request.text, parsed2) = text
    BY <2>3 DEF PolicyRequestText
  <2>5. mapping # {}
    <3>1. EvaluatePolicy(text, parsed, request.department).suggested
            = ~Unresolved(mapping, ResolveAction(text, parsed.action))
      BY DEF EvaluatePolicy
    <3>2. ~Unresolved(mapping, ResolveAction(text, parsed.action))
      BY <2>1, <3>1
    <3> QED
      BY <3>2 DEF Unresolved
  <2>6. ResolveMapping(text, parsed2.key, parsed2.type) = mapping
    BY <2>3
  <2>7. \A field : FieldOf(mapping, field, parsed2) = FieldOf(mapping, field, parsed)
    BY <2>5 DEF FieldOf
  <2> HIDE DEF text
  <2>8. EvaluatePolicy(text, parsed2, request.department)
          = EvaluatePolicy(text, parsed, request.department)
    BY <2>3, <2>6, <2>7, ZenonT(40) DEF EvaluatePolicy
  <2> QED
    BY <2>1, <2>4, <2>8 DEF RunEvaluation, parsed2, text
<1> QED
  BY <1>1, EvaluationInvAlways, PTL

(***************************************************************************)
(* Without an LLM's answer, a text with one of the parser's read-only      *)
(* terms is taken to read, for every bundle whose read-only terms have the *)
(* one that _build_policy_request_text adds.                               *)
(***************************************************************************)
THEOREM ReadOnlyTextsRead == GuardedBundle => (Spec => []ReadOnlyTextReads)
<1>1. ASSUME GuardedBundle, EvaluationInv PROVE ReadOnlyTextReads
  <2> SUFFICES ASSUME NEW e \in Made, e.answer = Empty,
                      HasAny(request.text, ParserReadOnlyTerms)
               PROVE  e.result.action = "read"
    BY DEF ReadOnlyTextReads
  <2> DEFINE parsed == Parse(request.text, Empty)
             text == PolicyRequestText(request.text, parsed)
  <2>1. e.result = EvaluatePolicy(text, parsed, request.department)
    BY <1>1 DEF EvaluationInv, RunEvaluation
  <2>2. parsed.action = "read" /\ parsed.readOnly
    BY DEF Parse, Empty, First, None, InferAction, InferReadOnly
  <2> HIDE DEF parsed
  <2>3. "readonly" \in text \cap ReadOnlyTerms
    BY <1>1, <2>2 DEF PolicyRequestText, GuardedBundle
  <2>4. ResolveAction(text, parsed.action) = "read"
    BY <2>3 DEF ResolveAction, HasAny
  <2> QED
    BY <2>1, <2>4 DEF EvaluatePolicy
<1>2. GuardedBundle /\ []EvaluationInv => []ReadOnlyTextReads
  <2> SUFFICES ASSUME GuardedBundle PROVE []EvaluationInv => []ReadOnlyTextReads
    OBVIOUS
  <2>1. EvaluationInv => ReadOnlyTextReads
    BY <1>1
  <2> QED
    BY <2>1, PTL
<1> QED
  BY <1>2, EvaluationInvAlways, PTL

-----------------------------------------------------------------------------
(***************************************************************************)
(* Escalation.                                                             *)
(***************************************************************************)
LEMMA MaxLevel ==
  ASSUME NEW S, S # {}, S \subseteq Low .. Critical
  PROVE  Max(S) \in S /\ \A x \in S : x <= Max(S)
<1>1. \E x \in S : \A y \in S : x >= y
  <2>1. CASE Critical \in S
    BY <2>1 DEF Low, Critical
  <2>2. CASE Critical \notin S /\ High \in S
    BY <2>2 DEF Low, High, Critical
  <2>3. CASE Critical \notin S /\ High \notin S /\ Medium \in S
    BY <2>3 DEF Low, Medium, High, Critical
  <2>4. CASE Critical \notin S /\ High \notin S /\ Medium \notin S
    <3>1. \A x \in S : x = Low
      BY <2>4 DEF Low, Medium, High, Critical
    <3>2. PICK x \in S : x = Low
      BY <3>1
    <3>3. \A y \in S : x >= y
      BY <3>1, <3>2 DEF Low
    <3> QED
      BY <3>3
  <2> QED
    BY <2>1, <2>2, <2>3, <2>4
<1>2. Max(S) \in S /\ \A y \in S : Max(S) >= y
  BY <1>1, Zenon DEF Max
<1> QED
  BY <1>2 DEF Low, Critical

LEMMA MinimumTyped == \A i \in DOMAIN RiskRules : RiskRules[i].minimum \in Low .. Critical
<1>1. \A i \in DOMAIN RiskRules : RiskRules[i] \in Range(RiskRules)
  BY DEF Range
<1> QED
  BY <1>1, BundleIsLoaded DEF BundleLoads, RiskRuleLoads

LEMMA LevelTyped ==
  ASSUME NEW action, NEW sensitivity, NEW cross, NEW fallback
  PROVE  /\ RiskLevel(action, sensitivity, cross, fallback) \in Low .. Critical
         /\ \A i \in Triggered(sensitivity, cross, fallback) :
              RiskRules[i].minimum <= RiskLevel(action, sensitivity, cross, fallback)
<1> DEFINE rules == Triggered(sensitivity, cross, fallback)
           delta == [k \in DOMAIN RiskRules |-> RiskRules[k].delta]
           score == BaseScores[First(action, "unknown")] + SumFunctionOnSet(delta, rules)
           S     == {LevelOf(score)} \cup {RiskRules[k].minimum : k \in rules}
<1>1. RiskLevel(action, sensitivity, cross, fallback) = Max(S)
  BY DEF RiskLevel
<1>2. LevelOf(score) \in Low .. Critical
  <2> HIDE DEF score
  <2> QED
    BY DEF LevelOf, Low, Medium, High, Critical
<1>3. \A k \in rules : RiskRules[k].minimum \in Low .. Critical
  BY MinimumTyped DEF Triggered
<1> HIDE DEF score, rules
<1>4. S # {} /\ S \subseteq Low .. Critical /\ \A k \in rules : RiskRules[k].minimum \in S
  BY <1>2, <1>3
<1> HIDE DEF S
<1>5. Max(S) \in S /\ \A x \in S : x <= Max(S)
  BY <1>4, MaxLevel
<1> QED
  BY <1>1, <1>4, <1>5 DEF rules

\* _score_risk: no minimum of a rule that applies is undercut, whatever the
\* scores add up to.
LEMMA MinimumKept ==
  ASSUME NEW action, NEW sensitivity, NEW cross, NEW fallback,
         NEW i \in DOMAIN RiskRules, Applies(RiskRules[i], sensitivity, cross, fallback)
  PROVE  RiskRules[i].minimum <= RiskLevel(action, sensitivity, cross, fallback)
BY LevelTyped DEF Triggered

\* One rule is the best match, or the one that is named.
LEMMA OneMapping ==
  ASSUME NEW text, NEW key, NEW type,
         NEW m \in ResolveMapping(text, key, type), NEW n \in ResolveMapping(text, key, type)
  PROVE  m = n
<1> DEFINE fitting == {i \in DOMAIN Mappings : TypeFits(Mappings[i], type)}
           named   == {i \in fitting : Mappings[i].key = key}
           matched == {i \in fitting : HasAny(text, Mappings[i].terms)}
           best    == {i \in matched : \A j \in matched :
                    /\ ~Outweighs(Mappings[j], Mappings[i], text)
                    /\ j < i => Outweighs(Mappings[i], Mappings[j], text)}
<1>1. /\ m \in {Mappings[i] : i \in IF named # {} THEN {Min(named)} ELSE best}
      /\ n \in {Mappings[i] : i \in IF named # {} THEN {Min(named)} ELSE best}
  BY DEF ResolveMapping
<1>2. matched \in SUBSET Nat
  BY BundleIsLoaded DEF BundleLoads
<1>3. ASSUME NEW i \in best, NEW j \in best PROVE i = j
  <2>1. i \in matched /\ j \in matched
    OBVIOUS
  <2>2. ~(i < j) /\ ~(j < i)
    <3> HIDE DEF matched
    <3> QED
      BY <2>1
  <2> HIDE DEF matched
  <2> QED
    BY <1>2, <2>1, <2>2
<1> HIDE DEF named, best
<1> QED
  BY <1>1, <1>3

\* The route of a risk that is high, or of a request with nothing to suggest,
\* is the full one; that of a change has the manager.
LEMMA RouteEscalates ==
  ASSUME NEW level \in Low .. Critical, NEW action, NEW sensitivity, NEW cross \in BOOLEAN,
         NEW fallback \in BOOLEAN, GuardedBundle, EscalatingBundle
  PROVE  LET route == ApprovalRuleFor(level, action, sensitivity, cross, fallback).route IN
         /\ level >= High \/ fallback => route = Escalated
         /\ action # "read" => "manager" \in Range(route)
<1> DEFINE chosen == ApprovalRuleFor(level, action, sensitivity, cross, fallback)
<1>1. CASE chosen = DefaultManualReview
  <2>1. chosen.route = <<"manager", "security_admin">>
    BY <1>1 DEF DefaultManualReview
  <2>2. "manager" \in Range(<<"manager", "security_admin">>)
    <3>1. /\ 1 \in DOMAIN <<"manager", "security_admin">>
          /\ <<"manager", "security_admin">>[1] = "manager"
      OBVIOUS
    <3> QED
      BY <3>1, Zenon DEF Range
  <2> HIDE DEF chosen
  <2>3. chosen.route = Escalated
    BY <1>1 DEF Escalated
  <2> QED
    BY <2>1, <2>2, <2>3 DEF chosen
<1>2. ASSUME NEW i \in DOMAIN ApprovalRules, chosen.route = ApprovalRules[i].route,
             FirstMatch(i, level, action, sensitivity, cross, fallback)
      PROVE  /\ level >= High \/ fallback => chosen.route = Escalated
             /\ action # "read" => "manager" \in Range(chosen.route)
  <2> HIDE DEF chosen
  <2>1. ASSUME action # "read" PROVE "manager" \in Range(chosen.route)
    BY <1>2, <2>1 DEF EscalatingBundle, FirstMatch, Matches
  <2>2. ASSUME chosen.route # Escalated PROVE ~(level >= High) /\ ~fallback
    <3>1. /\ ApprovalRules[i].levels # {} /\ ApprovalRules[i].levels \subseteq {Low, Medium}
          /\ \E j \in 1 .. i - 1 : CatchesUnresolved(ApprovalRules[j])
      BY <1>2, <2>2 DEF EscalatingBundle
    <3>2. level \in {Low, Medium}
      BY <1>2, <3>1 DEF FirstMatch, Matches
    <3>3. ~fallback
      BY <1>2, <3>1 DEF FirstMatch, Matches, Applies, CatchesUnresolved
    <3> QED
      BY <3>2, <3>3 DEF Low, Medium, High
  <2> QED
    BY <2>1, <2>2
<1> QED
  BY <1>1, <1>2, FirstMatchDecides

\* One evaluation with a bundle that is guarded and escalates.
LEMMA EscalatedResult ==
  ASSUME NEW text, NEW parsed, NEW department, GuardedBundle, EscalatingBundle
  PROVE  LET result == EvaluatePolicy(text, parsed, department) IN
         /\ \/ ~result.suggested
            \/ ~ \E m \in RuleOf(result.key) :
                   result.action \in m.permissions /\ m.sensitivity \in Harmless
            => result.route = Escalated
         /\ result.action # "read" => "manager" \in Range(result.route)
<1> DEFINE action   == ResolveAction(text, parsed.action)
           mapping  == ResolveMapping(text, parsed.key, parsed.type)
           target   == FieldOf(mapping, "department", parsed)
           sensitivity == FieldOf(mapping, "sensitivity", parsed)
           cross    == department # None /\ target # None /\ department # target
           fallback == Unresolved(mapping, action)
           level    == RiskLevel(action, sensitivity, cross, fallback)
           result   == EvaluatePolicy(text, parsed, department)
<1>1. /\ result.route = ApprovalRuleFor(level, action, sensitivity, cross, fallback).route
      /\ result.suggested = ~fallback
      /\ result.action = action
  BY DEF EvaluatePolicy
<1>2. cross \in BOOLEAN /\ fallback \in BOOLEAN
  BY DEF Unresolved
<1>3. level \in Low .. Critical
  <2> HIDE DEF action, sensitivity, cross, fallback
  <2> QED
    BY LevelTyped
<1>4. /\ level >= High \/ fallback => result.route = Escalated
      /\ action # "read" => "manager" \in Range(result.route)
  <2> HIDE DEF level, action, sensitivity, cross, fallback, result
  <2> QED
    BY <1>1, <1>2, <1>3, RouteEscalates
<1>5. ASSUME ~fallback,
             ~ \E m \in RuleOf(result.key) :
                 result.action \in m.permissions /\ m.sensitivity \in Harmless
      PROVE  level >= High
  <2>1. PICK n \in mapping : action \in n.permissions
    BY <1>5 DEF Unresolved
  <2>2. PICK m \in mapping : /\ m \in RuleOf(result.key) /\ m \in Range(Mappings)
                             /\ sensitivity = m.sensitivity
    <3>1. mapping # {}
      BY <2>1
    <3> HIDE DEF mapping
    <3>2. mapping = ResolveMapping(text, parsed.key, parsed.type)
      BY DEF mapping
    <3> QED
      BY <3>1, <3>2, RuleOfResult
  <2>3. m = n
    BY OneMapping
  <2>4. m.sensitivity \notin Harmless
    BY <1>1, <1>5, <2>1, <2>2, <2>3
  <2>5. PICK i \in DOMAIN RiskRules :
          /\ RiskRules[i].minimum >= High /\ m.sensitivity \in RiskRules[i].sensitivities
          /\ RiskRules[i].cross = BOOLEAN /\ RiskRules[i].fallback = BOOLEAN
    BY <2>2, <2>4 DEF EscalatingBundle
  <2>6. Applies(RiskRules[i], sensitivity, cross, fallback)
    <3> HIDE DEF cross, fallback, sensitivity
    <3> QED
      BY <1>2, <2>2, <2>5 DEF Applies
  <2>7. RiskRules[i].minimum \in Low .. Critical
    BY MinimumTyped
  <2>8. RiskRules[i].minimum <= level
    <3> HIDE DEF action, sensitivity, cross, fallback
    <3> QED
      BY <2>6, MinimumKept
  <2> HIDE DEF level
  <2> QED
    BY <1>3, <2>5, <2>7, <2>8 DEF Low, High, Critical
<1> HIDE DEF result, level, fallback, action
<1>6. /\ \/ ~result.suggested
         \/ ~ \E m \in RuleOf(result.key) :
                result.action \in m.permissions /\ m.sensitivity \in Harmless
         => result.route = Escalated
      /\ result.action # "read" => "manager" \in Range(result.route)
  BY <1>1, <1>2, <1>4, <1>5
<1> QED
  BY <1>6 DEF result

(***************************************************************************)
(* Whatever the texts and the LLM's answers, under a bundle that is        *)
(* guarded and escalates a request goes to the manager and the security    *)
(* administrator when PolicyEngine.evaluate has no permission to suggest   *)
(* or its resource is sensitive, however the scores add up, and a change   *)
(* goes at least to the manager.                                           *)
(***************************************************************************)
THEOREM RisksAreEscalated ==
  GuardedBundle /\ EscalatingBundle => (Spec => []EscalatedWhenRisky)
<1>1. ASSUME GuardedBundle, EscalatingBundle, EvaluationInv PROVE EscalatedWhenRisky
  <2> SUFFICES ASSUME NEW e \in Made
               PROVE  /\ \/ ~e.result.suggested
                         \/ ~ \E m \in RuleOf(e.result.key) :
                                e.result.action \in m.permissions /\ m.sensitivity \in Harmless
                         => e.result.route = Escalated
                      /\ e.result.action # "read" => "manager" \in Range(e.result.route)
    BY DEF EscalatedWhenRisky
  <2> DEFINE parsed == Parse(request.text, e.answer)
             text == PolicyRequestText(request.text, parsed)
  <2>1. e.result = EvaluatePolicy(text, parsed, request.department)
    BY <1>1 DEF EvaluationInv, RunEvaluation
  <2> HIDE DEF parsed, text
  <2> QED
    BY <1>1, <2>1, EscalatedResult
<1>2. GuardedBundle /\ EscalatingBundle /\ []EvaluationInv => []EscalatedWhenRisky
  <2> SUFFICES ASSUME GuardedBundle, EscalatingBundle
               PROVE  []EvaluationInv => []EscalatedWhenRisky
    OBVIOUS
  <2>1. EvaluationInv => EscalatedWhenRisky
    BY <1>1
  <2> QED
    BY <2>1, PTL
<1> QED
  BY <1>2, EvaluationInvAlways, PTL

-----------------------------------------------------------------------------
(***************************************************************************)
(* Sums over finite sets.                                                  *)
(***************************************************************************)
\* Induction over the subsets of a finite set, for a set of them.
LEMMA EverySubset ==
  ASSUME NEW S, IsFiniteSet(S), NEW P,
         ASSUME NEW s \in SUBSET S, \A t \in SUBSET s : t # s => t \in P PROVE s \in P
  PROVE  \A s \in SUBSET S : s \in P
<1> DEFINE rest == {s \in SUBSET S : s \notin P}
<1>1. SUFFICES ASSUME rest # {} PROVE FALSE
  OBVIOUS
<1>2. IsWellFoundedOn(StrictSubsetOrdering(S), SUBSET S)
  BY FS_StrictSubsetOrderingWellFounded, FS_FiniteSubsetsOfFinite
<1>3. PICK s \in rest : \A t \in rest : ~(<<t, s>> \in StrictSubsetOrdering(S))
  <2> DEFINE all == SUBSET S
             R == StrictSubsetOrdering(S)
  <2>1. rest \subseteq all /\ IsWellFoundedOn(R, all)
    BY <1>2
  <2> HIDE DEF rest, all, R
  <2>2. \E s \in rest : \A t \in rest : ~(<<t, s>> \in R)
    BY <1>1, <2>1, WFMin
  <2> QED
    BY <2>2 DEF R
<1>4. \A t \in SUBSET s : t # s => t \in P
  BY <1>3 DEF StrictSubsetOrdering
<1> QED
  BY <1>4

\* The element that a sum over a set takes out first.
Pick(s) == CHOOSE x \in s : TRUE

LEMMA PickIn == \A s : s # {} => Pick(s) \in s
BY DEF Pick

\* h adds up f over every subset of S.
Sums(f, S, h) ==
  h = [s \in SUBSET S |-> IF s = {} THEN 0 ELSE f[Pick(s)] + h[s \ {Pick(s)}]]

LEMMA SumsStep ==
  ASSUME NEW f, NEW S, NEW h, Sums(f, S, h)
  PROVE  \A s \in SUBSET S :
           /\ s = {} => h[s] = 0
           /\ s # {} => h[s] = f[Pick(s)] + h[s \ {Pick(s)}]
BY DEF Sums

LEMMA SumsAgree ==
  ASSUME NEW f, NEW S, NEW T \in SUBSET S, IsFiniteSet(T), NEW h, NEW k,
         Sums(f, S, h), Sums(f, T, k)
  PROVE  \A t \in SUBSET T : h[t] = k[t]
<1> DEFINE P == {t \in SUBSET T : h[t] = k[t]}
<1>1. ASSUME NEW s \in SUBSET T, \A t \in SUBSET s : t # s => t \in P
      PROVE  s \in P
  <2> DEFINE x == Pick(s)
  <2>1. /\ h[s] = IF s = {} THEN 0 ELSE f[x] + h[s \ {x}]
        /\ k[s] = IF s = {} THEN 0 ELSE f[x] + k[s \ {x}]
    <3>1. s \in SUBSET S
      OBVIOUS
    <3> QED
      BY <3>1, SumsStep
  <2>2. s # {} => s \ {x} \in P
    <3>1. s # {} => s \ {x} \in SUBSET s /\ s \ {x} # s
      BY PickIn
    <3> HIDE DEF P, x
    <3> QED
      BY <1>1, <3>1
  <2> HIDE DEF x
  <2> QED
    BY <2>1, <2>2
<1>2. \A t \in SUBSET T : t \in P
  <2> HIDE DEF P
  <2> QED
    BY <1>1, EverySubset, Zenon
<1> QED
  BY <1>2

LEMMA SumsExist ==
  ASSUME NEW f, NEW S, IsFiniteSet(S)
  PROVE  \E h : Sums(f, S, h)
<1> DEFINE Sum(s) == CHOOSE h : Sums(f, s, h)
           P == {s \in SUBSET S : \E h : Sums(f, s, h)}
<1>1. ASSUME NEW s \in SUBSET S, \A t \in SUBSET s : t # s => t \in P
      PROVE  s \in P
  <2> DEFINE part == [t \in SUBSET s |-> Sum(t)[t]]
             h == [t \in SUBSET s |->
                     IF t = {} THEN 0
                     ELSE f[Pick(t)] + part[t \ {Pick(t)}]]
  <2>1. ASSUME NEW t \in SUBSET s, t # s PROVE Sums(f, t, Sum(t)) /\ IsFiniteSet(t)
    <3>1. \E k : Sums(f, t, k)
      BY <1>1, <2>1
    <3>2. IsFiniteSet(t)
      BY FS_Subset
    <3> QED
      BY <3>1, <3>2, Zenon
  <2> HIDE DEF Sum
  <2>2. ASSUME NEW t \in SUBSET s, t # s PROVE h[t] = part[t]
    <3> DEFINE y == Pick(t)
    <3>1. Sum(t)[t] = IF t = {} THEN 0 ELSE f[y] + Sum(t)[t \ {y}]
      BY <2>1, <2>2, SumsStep
    <3>2. t # {} => Sum(t)[t \ {y}] = Sum(t \ {y})[t \ {y}]
      <4> DEFINE u == t \ {y}
      <4>1. u \in SUBSET t /\ u \in SUBSET s /\ (t # {} => u # s)
        BY PickIn
      <4>2. SUFFICES ASSUME t # {} PROVE Sum(t)[u] = Sum(u)[u]
        OBVIOUS
      <4> HIDE DEF u
      <4>3. Sums(f, u, Sum(u)) /\ IsFiniteSet(u) /\ Sums(f, t, Sum(t))
        BY <2>1, <2>2, <4>1, <4>2
      <4> QED
        BY <4>1, <4>3, SumsAgree
    <3>3. t # {} => part[t \ {y}] = Sum(t \ {y})[t \ {y}]
      OBVIOUS
    <3>4. h[t] = IF t = {} THEN 0 ELSE f[y] + part[t \ {y}]
      BY Zenon
    <3>5. part[t] = Sum(t)[t]
      BY Zenon
    <3> HIDE DEF y, part, h
    <3> QED
      BY <3>1, <3>2, <3>3, <3>4, <3>5
  <2>3. ASSUME NEW t \in SUBSET s, t # {}
        PROVE  part[t \ {Pick(t)}] = h[t \ {Pick(t)}]
    <3> DEFINE u == t \ {Pick(t)}
    <3>1. u \in SUBSET s /\ u # s
      BY <2>3, PickIn
    <3> HIDE DEF u, part, h
    <3>2. h[u] = part[u]
      BY <2>2, <3>1
    <3> QED
      BY <3>2 DEF u
  <2>4. h = [t \in SUBSET s |->
                     IF t = {} THEN 0
                     ELSE f[Pick(t)] + h[t \ {Pick(t)}]]
    <3> DEFINE k == [t \in SUBSET s |->
                     IF t = {} THEN 0
                     ELSE f[Pick(t)] + h[t \ {Pick(t)}]]
    <3>1. \A t \in SUBSET s : h[t] = k[t]
      <4> SUFFICES ASSUME NEW t \in SUBSET s PROVE h[t] = k[t]
        OBVIOUS
      <4> DEFINE y == Pick(t)
      <4>1. h[t] = IF t = {} THEN 0 ELSE f[y] + part[t \ {y}]
        BY Zenon
      <4>2. k[t] = IF t = {} THEN 0 ELSE f[y] + h[t \ {y}]
        BY Zenon
      <4>3. t # {} => part[t \ {y}] = h[t \ {y}]
        BY <2>3, Zenon
      <4> HIDE DEF h, k, part, y
      <4> QED
        BY <4>1, <4>2, <4>3
    <3> QED
      BY <3>1, Zenon
  <2>5. Sums(f, s, h)
    BY <2>4, Zenon DEF Sums
  <2> QED
    BY <2>5
<1>2. \A s \in SUBSET S : s \in P
  <2> HIDE DEF P
  <2> QED
    BY <1>1, EverySubset, Zenon
<1> QED
  BY <1>2

LEMMA SumDef ==
  ASSUME NEW f, NEW S, IsFiniteSet(S)
  PROVE  SumFunctionOnSet(f, S) =
           IF S = {} THEN 0
           ELSE f[Pick(S)] + SumFunctionOnSet(f, S \ {Pick(S)})
<1> DEFINE h == CHOOSE h : Sums(f, S, h)
           x == Pick(S)
           k == CHOOSE k : Sums(f, S \ {x}, k)
<1>1. SumFunctionOnSet(f, S) = h[S] /\ SumFunctionOnSet(f, S \ {x}) = k[S \ {x}]
  BY DEF SumFunctionOnSet, FoldFunctionOnSet, MapThenFoldSet, Sums, Pick
<1>2. IsFiniteSet(S \ {x})
  BY FS_Subset
<1>3. Sums(f, S, h)
  BY SumsExist, Zenon
<1>4. Sums(f, S \ {x}, k)
  BY <1>2, SumsExist, Zenon
<1> HIDE DEF h, k, x
<1>5. h[S] = IF S = {} THEN 0 ELSE f[x] + h[S \ {x}]
  <2>1. S \in SUBSET S
    OBVIOUS
  <2> QED
    BY <1>3, <2>1, SumsStep DEF x
<1>6. h[S \ {x}] = k[S \ {x}]
  <2> DEFINE T == S \ {x}
  <2>1. T \in SUBSET S /\ T \in SUBSET T /\ IsFiniteSet(T) /\ Sums(f, T, k)
    BY <1>2, <1>4
  <2> HIDE DEF T
  <2>2. h[T] = k[T]
    BY <1>3, <2>1, SumsAgree
  <2> QED
    BY <2>2 DEF T
<1> QED
  BY <1>1, <1>5, <1>6 DEF x

LEMMA SumType ==
  ASSUME NEW f, NEW S, IsFiniteSet(S), \A x \in S : f[x] \in Int
  PROVE  \A s \in SUBSET S : SumFunctionOnSet(f, s) \in Int
<1> DEFINE P == {s \in SUBSET S : SumFunctionOnSet(f, s) \in Int}
<1>1. ASSUME NEW s \in SUBSET S, \A t \in SUBSET s : t # s => t \in P
      PROVE  s \in P
  <2> DEFINE rest == s \ {Pick(s)}
  <2>1. IsFiniteSet(s)
    BY FS_Subset
  <2>2. SumFunctionOnSet(f, s) = IF s = {} THEN 0 ELSE f[Pick(s)] + SumFunctionOnSet(f, rest)
    BY <2>1, SumDef
  <2>3. s # {} => rest \in SUBSET s /\ rest # s /\ f[Pick(s)] \in Int
    BY PickIn
  <2> HIDE DEF rest
  <2>4. s # {} => SumFunctionOnSet(f, rest) \in Int
    BY <1>1, <2>3
  <2> QED
    BY <2>2, <2>3, <2>4
<1>2. \A s \in SUBSET S : s \in P
  <2> HIDE DEF P
  <2> QED
    BY <1>1, EverySubset, Zenon
<1> QED
  BY <1>2

\* A sum may take out any of its elements first.
LEMMA SumWithout ==
  ASSUME NEW f, NEW S, IsFiniteSet(S), \A x \in S : f[x] \in Int
  PROVE  \A s \in SUBSET S : \A x \in s :
           SumFunctionOnSet(f, s) = f[x] + SumFunctionOnSet(f, s \ {x})
<1> DEFINE Sum(s) == SumFunctionOnSet(f, s)
           P == {s \in SUBSET S : \A x \in s : Sum(s) = f[x] + Sum(s \ {x})}
<1>1. ASSUME NEW s \in SUBSET S, \A t \in SUBSET s : t # s => t \in P
      PROVE  s \in P
  <2> SUFFICES ASSUME NEW x \in s, Pick(s) # x PROVE Sum(s) = f[x] + Sum(s \ {x})
    <3>1. IsFiniteSet(s)
      BY FS_Subset
    <3>2. s # {} => Sum(s) = f[Pick(s)] + Sum(s \ {Pick(s)})
      BY <3>1, SumDef
    <3> QED
      BY <3>2
  <2> DEFINE y == Pick(s)
             a == s \ {x}
             b == s \ {y}
             c == s \ {x, y}
  <2>1. IsFiniteSet(s) /\ y \in s /\ s # {}
    BY FS_Subset, PickIn
  <2>2. Sum(s) = f[y] + Sum(b)
    BY <2>1, SumDef
  <2>3. a \in SUBSET s /\ a # s /\ y \in a /\ a \ {y} = c
    BY <2>1
  <2>4. b \in SUBSET s /\ b # s /\ x \in b /\ b \ {x} = c /\ c \in SUBSET S
    BY <2>1
  <2>5. f[x] \in Int /\ f[y] \in Int /\ Sum(c) \in Int
    BY <2>1, <2>4, SumType
  <2> HIDE DEF a, b, c, y, Sum
  <2>6. Sum(a) = f[y] + Sum(c)
    BY <1>1, <2>3
  <2>7. Sum(b) = f[x] + Sum(c)
    BY <1>1, <2>4
  <2> QED
    BY <2>2, <2>5, <2>6, <2>7 DEF a
<1>2. \A s \in SUBSET S : s \in P
  <2> HIDE DEF P
  <2> QED
    BY <1>1, EverySubset, Zenon
<1> QED
  BY <1>2

\* Elements that are not negative never lower a sum.
LEMMA SumGrows ==
  ASSUME NEW f, NEW T, IsFiniteSet(T), NEW S \in SUBSET T, \A x \in T : f[x] \in Int,
         \A x \in T \ S : f[x] >= 0
  PROVE  SumFunctionOnSet(f, S) <= SumFunctionOnSet(f, T)
<1> DEFINE Sum(s) == SumFunctionOnSet(f, s)
           P == {t \in SUBSET T : Sum(t \cap S) <= Sum(t)}
<1>1. ASSUME NEW s \in SUBSET T, \A t \in SUBSET s : t # s => t \in P
      PROVE  s \in P
  <2>1. CASE s \subseteq S
    <3>1. s \cap S = s /\ Sum(s) \in Int
      BY <2>1, SumType
    <3> QED
      BY <3>1
  <2>2. CASE ~(s \subseteq S)
    <3>1. PICK x \in s : x \notin S
      BY <2>2
    <3> DEFINE rest == s \ {x}
    <3>2. rest \cap S = s \cap S /\ rest \in SUBSET s /\ rest # s
      BY <3>1
    <3>3. Sum(s) = f[x] + Sum(rest)
      BY SumWithout
    <3>4. Sum(rest) \in Int /\ Sum(s \cap S) \in Int
      BY SumType
    <3>5. f[x] \in Int /\ f[x] >= 0
      BY <3>1
    <3> HIDE DEF rest, Sum
    <3>6. Sum(s \cap S) <= Sum(rest)
      BY <1>1, <3>2
    <3>7. Sum(s \cap S) <= Sum(s)
      BY <3>3, <3>4, <3>5, <3>6
    <3> QED
      BY <3>7
  <2> QED
    BY <2>1, <2>2
<1>2. \A t \in SUBSET T : t \in P
  <2> HIDE DEF P
  <2> QED
    BY <1>1, EverySubset, Zenon
<1>3. T \cap S = S /\ T \in P
  BY <1>2
<1> QED
  BY <1>3

-----------------------------------------------------------------------------
(***************************************************************************)
(* Crossing departments.                                                   *)
(***************************************************************************)
LEMMA LevelOfTyped == \A score : LevelOf(score) \in Low .. Critical
BY DEF LevelOf, Low, Medium, High, Critical

\* _risk_level_from_score: a higher score is never a lower level, in whatever
\* order the thresholds are.
LEMMA LevelOfGrows ==
  ASSUME NEW a \in Int, NEW b \in Int, a <= b
  PROVE  LevelOf(a) <= LevelOf(b)
<1>1. Thresholds.medium \in Int /\ Thresholds.high \in Int /\ Thresholds.critical \in Int
  BY BundleIsLoaded DEF BundleLoads
<1> QED
  BY <1>1 DEF LevelOf, Low, Medium, High, Critical

LEMMA RiskRuleTyped ==
  /\ IsFiniteSet(DOMAIN RiskRules)
  /\ \A i \in DOMAIN RiskRules : RiskRules[i] \in Range(RiskRules) /\ RiskRules[i].delta \in Int
<1>1. DOMAIN RiskRules = 1 .. Len(RiskRules) /\ Len(RiskRules) \in Nat
  BY BundleIsLoaded DEF BundleLoads
<1>2. \A i \in DOMAIN RiskRules : RiskRules[i] \in Range(RiskRules)
  BY DEF Range
<1>3. IsFiniteSet(1 .. Len(RiskRules))
  BY <1>1, FS_Interval
<1> QED
  BY <1>1, <1>2, <1>3, BundleIsLoaded DEF BundleLoads, RiskRuleLoads

\* The level of the rules with these indices, from a base score.
ScoredLevel(base, rules) ==
  LET delta == [k \in DOMAIN RiskRules |-> RiskRules[k].delta] IN
  Max({LevelOf(base + SumFunctionOnSet(delta, rules))} \cup {RiskRules[k].minimum : k \in rules})

\* _score_risk: more rules, of which none takes anything off the score, give no
\* lower level.
LEMMA ScoredLevelGrows ==
  ASSUME NEW base \in Int, NEW there \in SUBSET DOMAIN RiskRules, NEW here \in SUBSET there,
         \A k \in there \ here : RiskRules[k].delta >= 0
  PROVE  ScoredLevel(base, here) <= ScoredLevel(base, there)
<1> DEFINE delta == [k \in DOMAIN RiskRules |-> RiskRules[k].delta]
           lower == base + SumFunctionOnSet(delta, here)
           upper == base + SumFunctionOnSet(delta, there)
           S     == {LevelOf(lower)} \cup {RiskRules[k].minimum : k \in here}
           T     == {LevelOf(upper)} \cup {RiskRules[k].minimum : k \in there}
<1>1. /\ ScoredLevel(base, here) = Max(S)
      /\ ScoredLevel(base, there) = Max(T)
  BY DEF ScoredLevel
<1>2. \A k \in DOMAIN RiskRules : delta[k] = RiskRules[k].delta /\ delta[k] \in Int
  BY RiskRuleTyped
<1> HIDE DEF delta
<1>3. SumFunctionOnSet(delta, here) <= SumFunctionOnSet(delta, there)
  <2>1. IsFiniteSet(there)
    BY RiskRuleTyped, FS_Subset
  <2>2. /\ \A x \in there : delta[x] \in Int
        /\ \A x \in there \ here : delta[x] >= 0
    BY <1>2
  <2> QED
    BY <2>1, <2>2, SumGrows
<1>4. SumFunctionOnSet(delta, here) \in Int /\ SumFunctionOnSet(delta, there) \in Int
  <2>1. \A s \in SUBSET DOMAIN RiskRules : SumFunctionOnSet(delta, s) \in Int
    BY <1>2, RiskRuleTyped, SumType
  <2> QED
    BY <2>1
<1>5. lower \in Int /\ upper \in Int /\ lower <= upper
  BY <1>3, <1>4
<1> HIDE DEF lower, upper
<1>6. LevelOf(lower) <= LevelOf(upper)
  BY <1>5, LevelOfGrows
<1>7. S # {} /\ S \subseteq Low .. Critical /\ T # {} /\ T \subseteq Low .. Critical
  BY LevelOfTyped, MinimumTyped
<1>8. \A x \in S : x = LevelOf(lower) \/ x \in T
  OBVIOUS
<1>9. LevelOf(upper) \in T
  OBVIOUS
<1> HIDE DEF S, T
<1>10. /\ Max(S) \in S
       /\ Max(T) \in T /\ \A x \in T : x <= Max(T)
  BY <1>7, MaxLevel
<1>11. {Max(S), Max(T), LevelOf(upper)} \subseteq Low .. Critical
  BY <1>7, <1>9, <1>10
<1>12. Max(S) <= Max(T)
  <2>1. CASE Max(S) = LevelOf(lower)
    BY <1>6, <1>9, <1>10, <1>11, <2>1 DEF Low, Critical
  <2>2. CASE Max(S) \in T
    BY <1>10, <2>2
  <2> QED
    BY <1>8, <1>10, <2>1, <2>2
<1> QED
  BY <1>1, <1>12

\* _score_risk: asking from another department triggers the same rules and
\* others that take nothing off the score.
LEMMA CrossingRaisesLevel ==
  ASSUME CrossingBundle, NEW action, NEW sensitivity, NEW fallback,
         BaseScores[First(action, "unknown")] \in Int
  PROVE  RiskLevel(action, sensitivity, FALSE, fallback)
           <= RiskLevel(action, sensitivity, TRUE, fallback)
<1> DEFINE here  == Triggered(sensitivity, FALSE, fallback)
           there == Triggered(sensitivity, TRUE, fallback)
           base  == BaseScores[First(action, "unknown")]
<1>1. /\ RiskLevel(action, sensitivity, FALSE, fallback) = ScoredLevel(base, here)
      /\ RiskLevel(action, sensitivity, TRUE, fallback) = ScoredLevel(base, there)
  BY DEF RiskLevel, ScoredLevel
<1>2. here \in SUBSET there /\ there \in SUBSET DOMAIN RiskRules
  BY RiskRuleTyped DEF Triggered, Applies, CrossingBundle
<1>3. \A k \in there \ here : RiskRules[k].delta >= 0
  BY RiskRuleTyped DEF Triggered, Applies, CrossingBundle
<1> HIDE DEF here, there, base
<1>4. ScoredLevel(base, here) <= ScoredLevel(base, there)
  BY <1>2, <1>3, ScoredLevelGrows DEF base
<1> QED
  BY <1>1, <1>4, Zenon

\* _select_approval_rule: what meets a rule at home has no shorter route from
\* another department, where its risk is no lower.
LEMMA CrossingKeepsRoute ==
  ASSUME CrossingBundle, NEW action, NEW sensitivity,
         NEW low \in Low .. Critical, NEW high \in Low .. Critical, low <= high,
         NEW rule \in Range(ApprovalRules),
         Matches(rule, low, action, sensitivity, FALSE, FALSE)
  PROVE  IsPrefix(ApprovalRuleFor(low, action, sensitivity, FALSE, FALSE).route,
                  ApprovalRuleFor(high, action, sensitivity, TRUE, FALSE).route)
<1> DEFINE home == ApprovalRuleFor(low, action, sensitivity, FALSE, FALSE)
           away == ApprovalRuleFor(high, action, sensitivity, TRUE, FALSE)
<1>1. \A i \in DOMAIN ApprovalRules : ApprovalRules[i] \in Range(ApprovalRules)
  BY DEF Range
<1>2. PICK i \in DOMAIN ApprovalRules :
        /\ home.route = ApprovalRules[i].route
        /\ Matches(ApprovalRules[i], low, action, sensitivity, FALSE, FALSE)
  <2>1. \E i \in DOMAIN ApprovalRules :
          Matches(ApprovalRules[i], low, action, sensitivity, FALSE, FALSE)
    BY DEF Range
  <2> HIDE DEF home
  <2> QED
    BY <2>1, FirstMatchDecides DEF home, FirstMatch
<1>3. CASE away = DefaultManualReview
  BY <1>1, <1>2, <1>3 DEF CrossingBundle, Escalated
<1>4. ASSUME NEW j \in DOMAIN ApprovalRules, away.route = ApprovalRules[j].route,
             Matches(ApprovalRules[j], high, action, sensitivity, TRUE, FALSE)
      PROVE  IsPrefix(home.route, away.route)
  <2> HIDE DEF home, away
  <2>1. MeetByCrossing(ApprovalRules[i], ApprovalRules[j])
    BY <1>2, <1>4 DEF MeetByCrossing, Matches, Applies, Compatible
  <2> QED
    BY <1>1, <1>2, <1>4, <2>1 DEF CrossingBundle
<1>5. \/ away = DefaultManualReview
      \/ \E j \in DOMAIN ApprovalRules :
           /\ away.route = ApprovalRules[j].route
           /\ Matches(ApprovalRules[j], high, action, sensitivity, TRUE, FALSE)
  BY FirstMatchDecides DEF FirstMatch
<1> QED
  BY <1>3, <1>4, <1>5

LEMMA RouteIsPrefixOfItself ==
  ASSUME NEW level, NEW action, NEW sensitivity, NEW cross, NEW fallback
  PROVE  LET route == ApprovalRuleFor(level, action, sensitivity, cross, fallback).route IN
         IsPrefix(route, route)
<1> DEFINE chosen == ApprovalRuleFor(level, action, sensitivity, cross, fallback)
           route == chosen.route
<1>1. \A i \in DOMAIN ApprovalRules :
        ApprovalRules[i].route \in Seq(Range(ApprovalRules[i].route))
  <2>1. \A i \in DOMAIN ApprovalRules : ApprovalRules[i] \in Range(ApprovalRules)
    BY DEF Range
  <2> QED
    BY <2>1, BundleIsLoaded DEF BundleLoads, ApprovalRuleLoads
<1>2. \/ route = <<"manager", "security_admin">>
      \/ \E i \in DOMAIN ApprovalRules : route = ApprovalRules[i].route
  BY FirstMatchDecides DEF DefaultManualReview
<1> HIDE DEF chosen, route
<1>3. Len(route) \in Nat
  BY <1>1, <1>2
<1>4. IsPrefix(route, route)
  BY <1>3 DEF IsPrefix
<1> QED
  BY <1>4 DEF route, chosen

\* With one rule for each resource, the rule of a result's resource is the one
\* that _resolve_mapping took.
LEMMA OnlyRuleOfResult ==
  ASSUME CrossingBundle, NEW text, NEW parsed, NEW department,
         NEW m \in RuleOf(EvaluatePolicy(text, parsed, department).key),
         NEW k \in ResolveMapping(text, parsed.key, parsed.type)
  PROVE  k = m
<1> DEFINE mapping == ResolveMapping(text, parsed.key, parsed.type)
<1>1. PICK n \in mapping : n \in RuleOf(EvaluatePolicy(text, parsed, department).key)
  BY RuleOfResult
<1>2. n = m
  BY <1>1 DEF RuleOf, CrossingBundle
<1> QED
  BY <1>1, <1>2, OneMapping

\* One request, from its resource's department and from another one.
LEMMA CrossingResult ==
  ASSUME CrossingBundle, NEW text, NEW parsed, NEW d, NEW department,
         EvaluatePolicy(text, parsed, d).suggested,
         NEW m \in RuleOf(EvaluatePolicy(text, parsed, d).key), m.department = d
  PROVE  LET own    == EvaluatePolicy(text, parsed, d)
             result == EvaluatePolicy(text, parsed, department)
         IN  own.level <= result.level /\ IsPrefix(own.route, result.route)
<1> DEFINE action   == ResolveAction(text, parsed.action)
           mapping  == ResolveMapping(text, parsed.key, parsed.type)
           target   == FieldOf(mapping, "department", parsed)
           sensitivity == FieldOf(mapping, "sensitivity", parsed)
           fallback == Unresolved(mapping, action)
           cross(x) == x # None /\ target # None /\ x # target
           level(x) == RiskLevel(action, sensitivity, cross(x), fallback)
           route(x) == ApprovalRuleFor(level(x), action, sensitivity, cross(x), fallback).route
<1>1. \A x : /\ EvaluatePolicy(text, parsed, x).level = level(x)
             /\ EvaluatePolicy(text, parsed, x).route = route(x)
             /\ EvaluatePolicy(text, parsed, x).suggested = ~fallback
  BY DEF EvaluatePolicy
<1>2. PICK n \in mapping : action \in n.permissions
  BY <1>1 DEF Unresolved
<1>3. fallback = FALSE
  BY <1>2 DEF Unresolved
<1>4. /\ n = m /\ m \in Range(Mappings)
      /\ target = m.department /\ sensitivity = m.sensitivity
  <2> DEFINE result == EvaluatePolicy(text, parsed, d)
  <2>1. mapping # {}
    BY <1>2
  <2> HIDE DEF mapping
  <2>2. mapping = ResolveMapping(text, parsed.key, parsed.type)
    BY DEF mapping
  <2>3. \A k \in mapping : k = m
    BY <2>2, OnlyRuleOfResult
  <2>4. \E k \in mapping : /\ k \in Range(Mappings)
                           /\ target = k.department /\ sensitivity = k.sensitivity
    BY <2>1, <2>2, RuleOfResult
  <2> QED
    BY <1>2, <2>3, <2>4
<1>5. cross(d) = FALSE /\ cross(department) \in BOOLEAN
  BY <1>4
<1>6. BaseScores[First(action, "unknown")] \in Int
  BY <1>2, <1>4, BundleIsLoaded DEF BundleLoads, MappingLoads, First
<1>7. level(d) \in Low .. Critical /\ level(department) \in Low .. Critical
  <2> HIDE DEF action, sensitivity, cross, fallback
  <2> QED
    BY LevelTyped
<1>8. level(d) <= level(department) /\ IsPrefix(route(d), route(department))
  <2>1. PICK rule \in Range(ApprovalRules) :
          Matches(rule, RiskLevel(action, sensitivity, FALSE, FALSE), action, sensitivity, FALSE, FALSE)
    BY <1>2, <1>4 DEF CrossingBundle
  <2> HIDE DEF action, sensitivity, cross, fallback
  <2>2. level(d) = RiskLevel(action, sensitivity, FALSE, FALSE)
    BY <1>3, <1>5
  <2>3. level(d) <= RiskLevel(action, sensitivity, TRUE, FALSE)
    BY <1>3, <1>6, <2>2, CrossingRaisesLevel
  <2>4. level(d) <= level(department)
    <3>1. CASE cross(department) = TRUE
      BY <1>3, <2>3, <3>1
    <3>2. CASE cross(department) = FALSE
      <4>1. level(department) = level(d)
        BY <1>5, <3>2
      <4> HIDE DEF level
      <4> QED
        BY <1>7, <4>1 DEF Low, Critical
    <3> QED
      BY <1>5, <3>1, <3>2
  <2>5. /\ route(d) = ApprovalRuleFor(level(d), action, sensitivity, FALSE, FALSE).route
        /\ route(department)
             = ApprovalRuleFor(level(department), action, sensitivity, cross(department), FALSE).route
    BY <1>3, <1>5
  <2>6. Matches(rule, level(d), action, sensitivity, FALSE, FALSE)
    BY <2>1, <2>2
  <2>7. CASE cross(department) = TRUE
    <3> HIDE DEF level, route
    <3> QED
      BY <1>7, <2>4, <2>5, <2>6, <2>7, CrossingKeepsRoute
  <2>8. CASE cross(department) = FALSE
    <3>1. route(d) = route(department)
      BY <1>5, <2>8
    <3>2. IsPrefix(route(d), route(d))
      <4> HIDE DEF level
      <4> QED
        BY <2>5, RouteIsPrefixOfItself
    <3> HIDE DEF level, route
    <3> QED
      BY <2>4, <3>1, <3>2
  <2> QED
    BY <1>5, <2>7, <2>8
<1> QED
  BY <1>1, <1>8

(***************************************************************************)
(* Whatever the texts, the LLM's answers and the scores, under a bundle    *)
(* whose rules meet CrossingBundle, PolicyEngine.evaluate never gives      *)
(* whoever asks from another department a lower risk or a shorter route    *)
(* than it gives the resource's own department.                            *)
(***************************************************************************)
THEOREM CrossingIsNoHelp == CrossingBundle => (Spec => []CrossingNeverHelps)
<1>1. ASSUME CrossingBundle, EvaluationInv PROVE CrossingNeverHelps
  <2> SUFFICES ASSUME NEW e \in Made, NEW d \in Departments,
                      RunEvaluation(request.text, d, e.answer).suggested,
                      NEW m \in RuleOf(RunEvaluation(request.text, d, e.answer).key),
                      m.department = d
               PROVE  /\ RunEvaluation(request.text, d, e.answer).level <= e.result.level
                      /\ IsPrefix(RunEvaluation(request.text, d, e.answer).route, e.result.route)
    BY Zenon DEF CrossingNeverHelps
  <2> DEFINE parsed == Parse(request.text, e.answer)
             text == PolicyRequestText(request.text, parsed)
  <2>1. e.result = EvaluatePolicy(text, parsed, request.department)
    BY <1>1 DEF EvaluationInv, RunEvaluation
  <2>2. RunEvaluation(request.text, d, e.answer) = EvaluatePolicy(text, parsed, d)
    BY DEF RunEvaluation
  <2> HIDE DEF parsed, text
  <2> QED
    BY <1>1, <2>1, <2>2, CrossingResult
<1>2. CrossingBundle /\ []EvaluationInv => []CrossingNeverHelps
  <2> SUFFICES ASSUME CrossingBundle PROVE []EvaluationInv => []CrossingNeverHelps
    OBVIOUS
  <2>1. EvaluationInv => CrossingNeverHelps
    BY <1>1
  <2> QED
    BY <2>1, PTL
<1> QED
  BY <1>2, EvaluationInvAlways, PTL

=============================================================================
