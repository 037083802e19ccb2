SPECIFICATION Spec
CONSTANTS
  Nil = Nil
  Torn = Torn
  Gens = {g1, g2}
  Values = {v1, v2}
  Requests = {r1, r2}
  g1 = g1
  g2 = g2
  v1 = v1
  v2 = v2
  r1 = r1
  r2 = r2
  Hosts = {hub, ghcr}
  hub = hub
  ghcr = ghcr
  DockerHub = hub
  Tokens <- MCTokens
  Paths <- MCPaths
  Scenarios <- MCScenarios
CHECK_DEADLOCK FALSE
INVARIANTS
  AckedSurvives
  ConfigMatchesLive
  LoginSticks
PROPERTIES
  DurablePassword
