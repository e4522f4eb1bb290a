SPECIFICATION Spec
CONSTANTS
  Downloads = {d1, d2}
  NoJob = NoJob
  Limits = {1}
  MaxSems = 2
  EngineRaises = TRUE
  Restarts = {"quit", "crash"}
  Hours = {0}
SYMMETRY Symmetry
INVARIANTS
  ManagerTypeOK
  OneTask
  PermitsConserved
  StatusTruthful
