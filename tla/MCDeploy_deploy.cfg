SPECIFICATION MCSpec
CONSTANTS
  Nil = Nil
  d1 = d1
  d2 = d2
  d3 = d3
  t1 = t1
  Deploys = {d1, d2, d3}
  Tags = {t1}
  Ports = {1, 2, 3}
  Kinds = {"http", "worker", "pod", "workerpod"}
  Strategies = {"blue-green", "recreate"}
  Routed = TRUE
  RepoConfig = TRUE
  FailingCalls = {"pull", "config", "create", "health", "exit", "route",
    "stop", "start", "save"}
  DeadlineSteps = {"accepted", "pulling", "configuring", "bg_health",
    "bg_verify"}
SYMMETRY Symmetry
INVARIANTS
  TypeOK
  ZeroDowntime
  OnlyHealthyServe
  NoRunningOrphan
  RecordedRuns
