SPECIFICATION FairTaskSpec
CONSTANTS
  Size = 3
  MaxSegs = 2
  Connections = 2
  MaxWorkers = 2
  RetryMax = 1
  ChunkMax = 2
  AssistMin = 3
  Speeds = {0, 1}
  Servers = {"ranges"}
  Faults = {"transient"}
  Throttled = FALSE
  DiskErrors = FALSE
  Modes = {TRUE}
  ModeSwitch = FALSE
  Hash = TRUE
  CrashIn = {"analyse", "pool", "trim", "verify"}
  QuitIn = {"analyse", "pool", "trim", "verify"}
INVARIANTS
  TaskTypeOK
  SavedOnDisk
PROPERTIES
  KeepsPromise
  TaskReturns
