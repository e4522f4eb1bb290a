SPECIFICATION TaskSpec
CONSTANTS
  Size = 3
  MaxSegs = 2
  Connections = 2
  MaxWorkers = 2
  RetryMax = 1
  ChunkMax = 2
  AssistMin = 3
  Speeds = {0, 1}
  Servers = {"ranges", "plain", "stream", "chunked"}
  Faults = {"transient"}
  Throttled = FALSE
  DiskErrors = FALSE
  Modes = {FALSE, TRUE}
  ModeSwitch = FALSE
  Hash = FALSE
  CrashIn = {"analyse", "pool", "merge"}
  QuitIn = {"analyse", "pool"}
INVARIANTS
  CompletedWhole
  
