SPECIFICATION FairSpec
CONSTANTS
  a = a
  b = b
  r1 = r1
  r2 = r2
  r3 = r3
  Reqs = {r1, r2, r3}
  Apps = {a, b}
  Nil = Nil
  MaxInc = 2
  Scenes <- AllScenes
  Digits = {409}
CHECK_DEADLOCK FALSE
INVARIANTS
  StatusIsOfThisApp
  
PROPERTIES
  EveryRequestEnds
