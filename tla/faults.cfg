CONSTANTS
  Axes = 2
  MaxLevel = 1
  HeaderMin <- MCHeaderMin
  HeaderMax <- MCHeaderMax
  FaceGap <- TopGap
  Points = {1, 2, 4, 8}
  Start = 0
  HeaderBytes = 4
  InfoBytes = 3
  VlrBytes = 2
  ChunkBytes = {2}
  TrailerBytes = {0}
  TableBytes = 5
  Position <- MCPosition
  GpsTime <- MCGpsTime
  Matching = {1, 2, 4, 8}
  Encodable = {1, 2, 8}
  min_node_size = 1
  max_node_size = 2
  NumPoints = {0}
  ForwardedEvlrs = 1
  F64Min <- MCF64Min
  F64Max <- MCF64Max
  MaxFaults = 1
SPECIFICATION FairSpec
CHECK_DEADLOCK FALSE
INVARIANTS
  ClosedFileOpens
  HeaderCountsPoints
  DropCloses
  NeverTwice
PROPERTIES
  ErrorsSurface
  ClosedIsFinal
  CallsReturn
  TakenPointsReachFile
