SPECIFICATION FairSpec
CONSTANTS
  Nil = Nil
  Secrets = {s1, s2, s3}
  s1 = s1
  s2 = s2
  s3 = s3
  MaxEvents = 2
  Machines <- MCMachines
  Scenarios <- MCScenarios
INVARIANTS
  OkMeansRouted
  CiMatches
  CleanBill
PROPERTY
  InitRecovers
