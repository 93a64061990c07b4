SPECIFICATION Spec
CONSTANTS
  ReadOnlyTerms <- DeployedReadOnlyTerms
  ActionTerms <- DeployedActionTerms
  TermLength <- DeployedTermLength
  Mappings <- DeployedMappings
  BaseScores <- DeployedBaseScores
  Thresholds <- DeployedThresholds
  RiskRules <- DeployedRiskRules
  ApprovalRules <- DeployedApprovalRules
  Texts <- SmallTexts
  Departments <- SmallDepartments
  Answers <- SmallAnswers
INVARIANTS UnreviewedIsHarmless EscalatedWhenRisky CrossingNeverHelps RulesOutrankAnswer ReadOnlyTextReads
\* A request is evaluated once here: the run ends.
CHECK_DEADLOCK FALSE
