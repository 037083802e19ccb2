SPECIFICATION FairSpec
CONSTANTS
  Nil = Nil
  Names = {1, 2}
  Apps = {a1}
  Requests = {r1, r2}
  a1 = a1
  r1 = r1
  r2 = r2
  Scenarios <- MCScenarios
INVARIANTS
  ReadyIsInitialised
  NeverOverPartialData
  UsedServiceStays
  BoundCredentialsWork
PROPERTIES
  ReadyHeals
