SPECIFICATION MCFairSpec
CONSTANTS
  Nil = Nil
  d1 = d1
  d2 = d2
  d3 = d3
  t1 = t1
  t2 = t2
  Deploys = {d1, d2, d3}
  Tags = {t1, t2}
  Ports = {1, 2, 3}
  Kinds = {"http", "worker", "pod", "workerpod"}
  Strategies = {"blue-green", "recreate"}
  Routed = TRUE
  RepoConfig = TRUE
  FailingCalls = {}
  DeadlineSteps = {}
  Events = {}
INVARIANTS
  OneDeployAtATime
  RecordedIsHealthy
  CrashRecovers
  DeletedIsGone
PROPERTIES
  RouteHeals
  DeployEnds
