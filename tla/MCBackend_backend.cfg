SPECIFICATION Spec
CONSTANTS
  Callers = {c1, c2}
  Ids = {i1, i2}
  NoId = NoId
  Nil = Nil
  Hole = Hole
  VolumeName <- MCVolumeName
  MaxNow = 1
  MaxFaults = 1
  Retries = 2
  Scenarios <- MCScenarios
  Manifests <- MCManifests
  RenderInputs <- MCRenderInputs
SYMMETRY MCSymmetry
INVARIANTS
  PodIsComplete
PROPERTIES
  KeepsContract
  ExecOkIsDone
