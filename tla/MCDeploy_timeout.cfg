SPECIFICATION MCFairSpec
CONSTANTS
  Nil = Nil
  d1 = d1
  d2 = d2
  t1 = t1
  t2 = t2
  Deploys = {d1, d2}
  Tags = {t1, t2}
  Ports = {1, 2}
  Kinds = {"http"}
  Strategies = {"blue-green"}
  Routed = TRUE
  RepoConfig = TRUE
  FailingCalls = {}
  DeadlineSteps = {"bg_drain"}
PROPERTIES
  TimeoutKeepsServing
