---------------------------- MODULE MCEvaluation ----------------------------
(***************************************************************************)
(* RequestEvaluation with the policy bundle of config/policy and small     *)
(* sets of texts, departments and LLM answers, for TLC.                    *)
(***************************************************************************)
EXTENDS RequestEvaluation, DeployedPolicy

ASSUME DeployedIsGuarded == GuardedBundle /\ EscalatingBundle /\ CrossingBundle

ActionWords ==
  {"readonly", "no_need_to_change", "only_view", "only", "request_edit", "write", "read"}
ResourceWords == {"report", "payroll", "doc", "report_en", "finance_name"}

\* "report" alone fits two resources equally well.  A text that applies for a
\* change, or needs none, contains the word change; the terms for reading only
\* contain the character "only", and two of them at once say no more than one.
SmallTexts ==
  {text \in {a \cup r : a \in SUBSET ActionWords, r \in SUBSET ResourceWords} :
     /\ text \cap {"no_need_to_change", "request_edit"} # {} => "write" \in text
     /\ text \cap {"readonly", "only_view"} # {} => "only" \in text
     /\ ~({"readonly", "only_view"} \subseteq text)
     /\ Cardinality(text \cap ResourceWords) <= 2}

SmallDepartments == {"sales", "finance", None}

\* A resource of the bundle or another, alone or with a claim of department
\* and sensitivity.
SmallAnswers ==
  {[key |-> k, type |-> t, action |-> a, readOnly |-> o,
    department |-> c[1], sensitivity |-> c[2]] :
      k \in {None, "sales.q3_report", "finance.payroll", "crm.accounts"},
      t \in {None, "doc"},
      a \in {None} \cup Actions,
      o \in BOOLEAN,
      c \in {<<None, None>>, <<"finance", "low">>, <<"sales", "restricted">>}}

=============================================================================
