SPECIFICATION FairSpec
CONSTANTS
  NumTorrents = 2
  Priorities = {0}
  Slots = {1}
  Places = {2}
  Permits = 1
  Restarts = FALSE
PROPERTY RequeuedStarts
CHECK_DEADLOCK FALSE
