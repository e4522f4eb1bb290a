SPECIFICATION Spec
CONSTANTS
  Streams = {s1, s2}
  Nobody = Nobody
  Limits = {1, 2}
  MaxLoops = 1
  Restarts = TRUE
SYMMETRY Symmetry
INVARIANTS
  StreamTypeOK
  NobodyWaitsInVain
PROPERTY StreamNeverStuck
