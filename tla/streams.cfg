SPECIFICATION StreamsSpec
CONSTANTS
  Byte = {0, 1, 2}
  MAVLINK_MAGIC = 1
  HEADER_LEN = 2
  CRC_LEN = 1
  MAX_FRAME_LEN = 5
  MaxStream = 9
  SbusByte = {"0F", "00", "10", "x"}
  SBUS_HEADER = "0F"
  SBUS_FOOTER = "00"
  Failsafe = {"0F", "10"}
  Sticks = 1
  MaxSbusFrames = 5
  MaxLost = 2
  Candidates = 2
  READ_MAX = 3
  LINE_MAX = 3
  MaxSentences = 3
  MaxCellsLost = 1
  NCycles = 3
  DatasetLen = 3
  StepsPerFrame = 2
INVARIANTS FramesAreCuts QuietResyncs FollowsReceiver FixesAreSent FailsSoftly
