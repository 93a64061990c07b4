----------------------------- MODULE PolicyRules -----------------------------
(***************************************************************************)
(* PolicyEngine.evaluate: the action and resource a request asks for, its  *)
(* risk and the approval it needs, for any policy bundle.  A text is the   *)
(* set of the known terms it contains; a term never matches in part.       *)
(***************************************************************************)
EXTENDS Integers, FiniteSets, SequencesExt

CONSTANTS
  ReadOnlyTerms,   \* readonly_priority_terms
  ActionTerms,     \* action_terms: the terms of each action
  TermLength,      \* the number of characters of each resource term
  Mappings,        \* permission_mappings, in file order
  BaseScores,      \* base_risk_scores, "unknown" included
  Thresholds,      \* risk_level_thresholds: the least score of each level
  RiskRules,       \* in file order
  ApprovalRules    \* in file order

None == "none"
Actions == {"read", "write", "request_edit"}

\* RiskLevel and _RISK_ORDER.
Low == 0
Medium == 1
High == 2
Critical == 3

\* What a rule's optional Boolean admits: None admits both.
Admitted == {BOOLEAN, {TRUE}, {FALSE}}

MappingLoads(m) == "read" \in m.permissions /\ None \notin m.permissions

RiskRuleLoads(rule) ==
  /\ rule.delta \in Int /\ rule.minimum \in Low .. Critical
  /\ rule.cross \in Admitted /\ rule.fallback \in Admitted

ApprovalRuleLoads(rule) ==
  /\ rule.required \in BOOLEAN /\ rule.route \in Seq(Range(rule.route))
  /\ rule.levels \subseteq Low .. Critical
  /\ rule.cross \in Admitted /\ rule.fallback \in Admitted

\* What load_policy_bundle lets through; "unknown" has the score of every
\* action without one of its own.  (That score and the thresholds are looked
\* up, and missed, only by an evaluation.)
BundleLoads ==
  /\ Mappings \in Seq(Range(Mappings)) /\ \A m \in Range(Mappings) : MappingLoads(m)
  /\ RiskRules \in Seq(Range(RiskRules)) /\ \A rule \in Range(RiskRules) : RiskRuleLoads(rule)
  /\ ApprovalRules \in Seq(Range(ApprovalRules))
  /\ \A rule \in Range(ApprovalRules) : ApprovalRuleLoads(rule)
  /\ \A m \in Range(Mappings) : \A action \in m.permissions : BaseScores[action] \in Int
  /\ {Thresholds.medium, Thresholds.high, Thresholds.critical} \subseteq Int

ASSUME BundleIsLoaded == BundleLoads

First(a, b) == IF a # None THEN a ELSE b

HasAny(text, terms) == text \cap terms # {}

\* _resolve_action: the text decides, in this order; only a text without any
\* of the terms leaves it to the parser.
ResolveAction(text, hinted) ==
  IF HasAny(text, ReadOnlyTerms) THEN "read"
  ELSE IF HasAny(text, ActionTerms["request_edit"]) THEN "request_edit"
  ELSE IF HasAny(text, ActionTerms["write"]) THEN "write"
  ELSE IF HasAny(text, ActionTerms["read"]) THEN "read"
  ELSE hinted

TypeFits(m, type) == type \in {None, m.type}

\* Matched terms count first, their length next.
Weight(m, text) == SumFunctionOnSet(TermLength, m.terms \cap text)
Outweighs(m, n, text) ==
  LET count(x) == Cardinality(x.terms \cap text) IN
  \/ count(m) > count(n)
  \/ count(m) = count(n) /\ Weight(m, text) > Weight(n, text)

\* _resolve_mapping: the rule of the parser's resource, or else the first of
\* those that match the text best: a set with one rule, or without any.
ResolveMapping(text, key, type) ==
  LET fitting == {i \in DOMAIN Mappings : TypeFits(Mappings[i], type)}
      named   == {i \in fitting : Mappings[i].key = key}
      matched == {i \in fitting : HasAny(text, Mappings[i].terms)}
      best    == {i \in matched : \A j \in matched :
                    /\ ~Outweighs(Mappings[j], Mappings[i], text)
                    /\ j < i => Outweighs(Mappings[i], Mappings[j], text)}
  IN  {Mappings[i] : i \in IF named # {} THEN {Min(named)} ELSE best}

\* _risk_rule_matches: a rule names the values it applies to, or it has no
\* such condition (here BOOLEAN, or the empty set of sensitivities).
Applies(rule, sensitivity, cross, fallback) ==
  /\ cross \in rule.cross
  /\ fallback \in rule.fallback
  /\ rule.sensitivities = {} \/ sensitivity \in rule.sensitivities

\* Faulty: stops at the first rule that applies.
FirstTriggered(sensitivity, cross, fallback) ==
  {i \in DOMAIN RiskRules :
     /\ Applies(RiskRules[i], sensitivity, cross, fallback)
     /\ \A j \in 1 .. i - 1 : ~Applies(RiskRules[j], sensitivity, cross, fallback)}

Triggered(sensitivity, cross, fallback) ==
  {i \in DOMAIN RiskRules : Applies(RiskRules[i], sensitivity, cross, fallback)}

\* _risk_level_from_score
LevelOf(score) ==
  IF score >= Thresholds.critical THEN Critical
  ELSE IF score >= Thresholds.high THEN High
  ELSE IF score >= Thresholds.medium THEN Medium
  ELSE Low

\* _score_risk: the triggered rules add up, and none of their minimum levels
\* (Low where the rule has none) is undercut.
RiskLevel(action, sensitivity, cross, fallback) ==
  LET rules == Triggered(sensitivity, cross, fallback)
      delta == [i \in DOMAIN RiskRules |-> RiskRules[i].delta]
      score == BaseScores[First(action, "unknown")] + SumFunctionOnSet(delta, rules)
  IN  Max({LevelOf(score)} \cup {RiskRules[i].minimum : i \in rules})

\* The route taken when no rule matches.
DefaultManualReview == [required |-> TRUE, route |-> <<"manager", "security_admin">>]

\* _approval_rule_matches
Matches(rule, level, action, sensitivity, cross, fallback) ==
  /\ Applies(rule, sensitivity, cross, fallback)
  /\ rule.levels = {} \/ level \in rule.levels
  /\ rule.actions = {} \/ action \in rule.actions

\* _select_approval_rule: the first rule whose conditions all hold.
ApprovalRuleFor(level, action, sensitivity, cross, fallback) ==
  LET holds(rule) == Matches(rule, level, action, sensitivity, cross, fallback)
      i == SelectInSeq(ApprovalRules, holds)
  IN  IF i = 0 THEN DefaultManualReview
      ELSE [required |-> ApprovalRules[i].required, route |-> ApprovalRules[i].route]

=============================================================================
