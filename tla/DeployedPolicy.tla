--------------------------- MODULE DeployedPolicy ---------------------------
(***************************************************************************)
(* The policy bundle in config/policy, as values for PolicyRules.  Terms   *)
(* that always occur alike are one term: "write" stands for the words for  *)
(* changing something, "readonly" for those of readonly_priority_terms.    *)
(***************************************************************************)
EXTENDS Integers

DeployedReadOnlyTerms == {"readonly"}

DeployedActionTerms ==
  [read |-> {"read", "only_view"}, write |-> {"write"}, request_edit |-> {"request_edit"}]

\* Characters: the shortest of the words a term stands for.
DeployedTermLength ==
  [sales |-> 3, q3 |-> 2, report |-> 2, payroll |-> 2, shared_doc |-> 4, doc |-> 2]

DeployedMappings ==
  << [key |-> "sales.q3_report", type |-> "report", department |-> "sales",
      sensitivity |-> "internal", terms |-> {"sales", "q3", "report"},
      permissions |-> {"read", "write"}],
     [key |-> "finance.payroll", type |-> "report", department |-> "finance",
      sensitivity |-> "high", terms |-> {"payroll", "report"},
      permissions |-> {"read", "write"}],
     [key |-> "shared.team_doc", type |-> "doc", department |-> "shared",
      sensitivity |-> "low", terms |-> {"shared_doc", "doc"},
      permissions |-> {"read", "write"}] >>

DeployedBaseScores ==
  [read |-> 10, write |-> 40, request_edit |-> 35, unknown |-> 60]

DeployedThresholds == [medium |-> 30, high |-> 60, critical |-> 85]

\* minimum: 0 Low (none given), 1 Medium, 2 High, 3 Critical.
DeployedRiskRules ==
  << [delta |-> 25, minimum |-> 1, cross |-> {TRUE}, fallback |-> BOOLEAN,
      sensitivities |-> {}],
     [delta |-> 30, minimum |-> 2, cross |-> BOOLEAN, fallback |-> BOOLEAN,
      sensitivities |-> {"high", "restricted"}],
     [delta |-> 20, minimum |-> 2, cross |-> BOOLEAN, fallback |-> {TRUE},
      sensitivities |-> {}] >>

DeployedApprovalRules ==
  << [fallback |-> {TRUE}, cross |-> BOOLEAN, levels |-> {}, actions |-> {},
      sensitivities |-> {}, required |-> TRUE, route |-> <<"manager", "security_admin">>],
     [fallback |-> BOOLEAN, cross |-> {FALSE}, levels |-> {0}, actions |-> {"read"},
      sensitivities |-> {"low", "internal"}, required |-> FALSE, route |-> <<>>],
     [fallback |-> BOOLEAN, cross |-> BOOLEAN, levels |-> {1}, actions |-> {},
      sensitivities |-> {}, required |-> TRUE, route |-> <<"manager">>],
     [fallback |-> BOOLEAN, cross |-> BOOLEAN, levels |-> {2, 3}, actions |-> {},
      sensitivities |-> {}, required |-> TRUE, route |-> <<"manager", "security_admin">>] >>

=============================================================================
