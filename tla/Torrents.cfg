SPECIFICATION Spec
CONSTANTS
  NumTorrents = 2
  Priorities = {0, 1}
  Slots = {1, 2}
  Places = {1, 2}
  Permits = 1
  Restarts = TRUE
INVARIANT TorrentTypeOK
PROPERTY NoIdleSlot
