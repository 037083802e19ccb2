SPECIFICATION MCFairSpec
CONSTANTS
  Nil = Nil
  p1 = p1
  d1 = d1
  d2 = d2
  Previews = {p1}
  Deploys = {d1, d2}
  Ports = {1, 2}
  Kinds = {"http", "worker"}
  Ttls = {"live"}
  MaxLimit = 1
  FailingCalls = {"domain", "stop", "exit", "delete"}
  DeadlineSteps = {"evicting", "starting"}
  Events = {"overlap", "crash", "disconnect"}
PROPERTIES
  ExpiredIsReaped
