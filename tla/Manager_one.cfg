SPECIFICATION Spec
CONSTANTS
  Downloads = {d1}
  NoJob = NoJob
  Limits = {1, 2}
  MaxSems = 3
  EngineRaises = TRUE
  Restarts = {"quit", "crash"}
  Hours = {0, 1}
PROPERTIES
  NeverStuck
