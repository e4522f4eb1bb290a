SPECIFICATION FairSpec
CONSTANTS
  NumSegments = 3
  Layouts = {1, 2}
  NumWorkers = 2
  Places = 2
  WorkersDie = TRUE
  Crashes = TRUE
INVARIANTS
  HlsTypeOK
  
PROPERTIES
  
  RunEnds
CHECK_DEADLOCK FALSE
