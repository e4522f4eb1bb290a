SPECIFICATION FairPoolSpec
CONSTANTS
  Size = 4
  MaxSegs = 3
  Connections = 2
  MaxWorkers = 2
  RetryMax = 2
  ChunkMax = 2
  AssistMin = 1
  Speeds = {0, 1}
  Servers = {"ranges", "plain"}
  Faults = {"transient", "permanent"}
  Throttled = TRUE
  DiskErrors = TRUE
INVARIANTS
  TypeOK
  RangesTile
  UnsplitWhole
  ProgressOnDisk
PROPERTIES
  PoolTerminates
