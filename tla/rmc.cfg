SPECIFICATION GpsSpec
CONSTANTS
  Candidates = 2
  READ_MAX = 3
  LINE_MAX = 3
  MaxSentences = 3
  MaxCellsLost = 1
PROPERTIES FixesAreTaken
