SPECIFICATION MCSpec
CONSTANTS
  Nil = Nil
  p1 = p1
  p2 = p2
  d1 = d1
  d2 = d2
  d3 = d3
  Previews = {p1, p2}
  Deploys = {d1, d2, d3}
  Ports = {1, 2, 3}
  Kinds = {"http", "pod"}
  Ttls = {"none"}
  MaxLimit = 1
  FailingCalls = {"create", "port", "health", "route", "reply"}
  DeadlineSteps = {"switching"}
  Events = {"restart"}
SYMMETRY Symmetry
INVARIANTS
  RunningServes
  UnitsOwned
  TornDownIsGone
