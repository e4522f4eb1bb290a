SPECIFICATION ServicesSpec
CONSTANTS
  Paths = {"a"}
  Contents = {1, 2}
  MaxId = 2
  MaxAdds = 2
  MaxOpen = 2
  MaxJobs = 1
  RowIds = {1, 2}
  Threshold = 1
  MaxPosted = 1
  Torrents = {1, 2}
  Hashes = {1, 2}
  MaxPieces = 1
  Heights = {1, 2}
  Videos = {v1, v2}
  MaxTries = 3
  Speeds = {1}
  MaxTests = 2
  MaxNotices = 2
  MaxHistory = 1
  Launches = {1, 2}
  Releases = {1}
  MaxBatches = 2
  MaxSwaps = 2
  Ports = {1, 2}
  MaxTokens = 2
  MaxTasks = 2
  Dialogs = {1, 2}
  Encoders = 2
INVARIANTS
  ServicesTypeOK
  
  
  
  ScanHasReader
  DisabledOnlyWhileTesting
  DeliveredToWindow
  
  DashboardFollowsSetting
  
CHECK_DEADLOCK FALSE
