CONSTANTS
  Nil = Nil
  Renewals = {r1, r2}
  AppRoutes <- MCAppRoutes
  Scenarios <- MCScenarios
SPECIFICATION Spec
CHECK_DEADLOCK FALSE
INVARIANTS
  OperatorPoliciesStay
PROPERTIES
  RatioHeals
  EdgeHeals
