---------------------------- MODULE RequestParser ----------------------------
(***************************************************************************)
(* PermissionRequestParser.parse: the fields of a request, from the LLM's  *)
(* answer where it has them and from the text where it has not.  Parsing   *)
(* without an LLM, or after it failed, is parsing with an empty answer.    *)
(***************************************************************************)
EXTENDS PolicyRules

\* _READONLY_TERMS.  "no_need_to_change" and "only_view" are those that
\* readonly_priority_terms lacks.
ParserReadOnlyTerms == {"readonly", "no_need_to_change", "only_view"}

\* _RESOURCE_HINTS, a copy of the policy's mappings that the code keeps apart.
ResourceHints ==
  << [key |-> "sales.q3_report", type |-> "report", department |-> "sales",
      sensitivity |-> "internal", terms |-> {"sales", "q3", "report"}],
     [key |-> "finance.payroll", type |-> "report", department |-> "finance",
      sensitivity |-> "high", terms |-> {"payroll", "report"}],
     [key |-> "shared.team_doc", type |-> "doc", department |-> "shared",
      sensitivity |-> "low", terms |-> {"shared_doc", "doc"}] >>

\* No field; as an LLM's answer, and as the hint of a text without terms.
Empty == [key |-> None, type |-> None, action |-> None, readOnly |-> FALSE,
          department |-> None, sensitivity |-> None]

\* _infer_action
InferAction(text) ==
  IF HasAny(text, ParserReadOnlyTerms) THEN "read"
  ELSE IF "request_edit" \in text THEN "request_edit"
  ELSE IF "write" \in text THEN "write"
  ELSE IF "read" \in text THEN "read"
  ELSE None

\* _match_resource_hint: the first with the most terms, their length aside.
MatchResourceHint(text) ==
  LET count(i) == Cardinality(ResourceHints[i].terms \cap text)
      best == {i \in DOMAIN ResourceHints :
                 /\ count(i) > 0
                 /\ \A j \in DOMAIN ResourceHints :
                      count(j) <= count(i) /\ (j < i => count(j) < count(i))}
  IN  IF best = {} THEN Empty ELSE ResourceHints[Min(best)]

\* _infer_resource_type: "report_en" and "doc_en" are no terms of a resource.
InferResourceType(text) ==
  IF HasAny(text, {"report", "report_en"}) THEN "report"
  ELSE IF HasAny(text, {"doc", "doc_en"}) THEN "doc"
  ELSE None

\* _infer_department, by the names of _DEPARTMENT_TERMS
InferDepartment(text) ==
  IF HasAny(text, {"sales", "sales_name"}) THEN "sales"
  ELSE IF "finance_name" \in text THEN "finance"
  ELSE IF HasAny(text, {"shared_doc", "shared_name"}) THEN "shared"
  ELSE IF "security_name" \in text THEN "security"
  ELSE None

\* _infer_constraints.  "only" is the bare character, part of the read-only
\* terms and of other words: with a read it is read-only.
InferReadOnly(text, action) ==
  HasAny(text, ParserReadOnlyTerms) \/ (action = "read" /\ "only" \in text)

\* _normalize_result and _heuristic_parse
Parse(text, llm) ==
  LET hint == MatchResourceHint(text)
      action == First(llm.action, InferAction(text))
  IN
  [key         |-> First(llm.key, hint.key),
   type        |-> First(llm.type, First(hint.type, InferResourceType(text))),
   action      |-> action,
   readOnly    |-> llm.readOnly \/ InferReadOnly(text, action),
   department  |-> First(llm.department, First(hint.department, InferDepartment(text))),
   sensitivity |-> First(llm.sensitivity, hint.sensitivity)]

=============================================================================
