CONSTANTS
  Axes = 2
  MaxLevel = 2
  HeaderMin <- MCHeaderMin
  HeaderMax <- MCHeaderMax
  FaceGap <- NoGap
  Points = {1, 2}
  Start = 3
  HeaderBytes = 4
  InfoBytes = 3
  VlrBytes = 2
  ChunkBytes = {2}
  TrailerBytes = {4}
  TableBytes = 5
  Position <- MCPosition
  GpsTime <- MCGpsTime
  Matching = {1, 2}
  Encodable = {1, 2}
  min_node_size = 1
  max_node_size = 2
  NumPoints = {0}
  ForwardedEvlrs = 1
  F64Min <- MCF64Min
  F64Max <- MCF64Max
  MaxFaults = 0
  Scale = 2
  RawMax = 20
  Queries <- MCFullQuery
SPECIFICATION RoundTripSpec
CHECK_DEADLOCK FALSE
INVARIANTS
  WrittenFilesOpen
