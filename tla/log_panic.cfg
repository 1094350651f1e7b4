SPECIFICATION LogSpec
CONSTANTS
  LOG_RING_SIZE = 11
  BUF = 4
  HEADER = 1
  PKT = 9
  TMP = 8
  Text = {0, 1, 2, 3}
  MaxCalls = 3
INVARIANTS
  NeverPanics
