SPECIFICATION UplinkFairSpec
CONSTANTS
  MISSION_MAX = 3
  Waypoint = {w1, w2}
  Unset = unset
  MaxSeq = 4
  MaxPlan = 2
  MaxFaults = 2
  Channel = {ch1, ch3}
  Mode = {"STABILIZE", "LAND"}
  FreshTicks = 2
  TickMod = 3
  Height = 1
  Stick = {0}
  PARAM_COUNT = 2
  Legal = {"d"}
  Default = "d"
  FENCE_MAX = 2
  MaxCount = 3
  Vertex = {"v"}
CHECK_DEADLOCK FALSE
INVARIANTS
  IdleStoresUpload WaitsInOrder AcceptedIsStored
  RecentOverride OnlyPendingUnacknowledged
  GroundKnowsTable StoredIsFetchable PanicOnlyByCount
PROPERTIES
  UploadsRecover
  HoldMovesOnlyAtArming OverrideEnds
  StreamOffersAll StreamEnds
