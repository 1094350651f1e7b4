SPECIFICATION LinkSpec
CONSTANTS
  MISSION_MAX = 3
  Waypoint = {w1, w2}
  Unset = unset
  MaxSeq = 3
  MaxPlan = 2
  MaxFaults = 2

PROPERTIES DownloadIsUpload
