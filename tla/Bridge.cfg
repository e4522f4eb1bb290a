SPECIFICATION BridgeSpec
CONSTANTS
  Hosts = {h1, h2}
  NumRequests = 1
  NumChunks = 2
  CaptureKeys = {c1}
  MaxAssemblies = 1
  Urls = {1, 2}
  MaxRows = 2
  MaxRequests = 1
  Files = {1, 2}
  MaxAcks = 1
INVARIANTS
  BridgeTypeOK
  
  NobodyOverlooked
  

  
CHECK_DEADLOCK FALSE
