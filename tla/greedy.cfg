CONSTANTS
  Axes = 2
  MaxLevel = 2
  HeaderMin <- MCHeaderMin
  HeaderMax <- MCHeaderMax
  FaceGap <- NoGap
  Points = {1, 2, 3, 4, 5, 6, 7}
  Start = 0
  HeaderBytes = 4
  InfoBytes = 3
  VlrBytes = 2
  ChunkBytes = {2}
  TrailerBytes = {0, 4}
  TableBytes = 5
  Position <- MCPosition
  GpsTime <- MCGpsTime
  Matching = {1, 2, 3, 4, 5, 7}
  Encodable = {1, 2, 3, 4, 5, 6, 7}
  min_node_size = 1
  max_node_size = 2
  NumPoints = {0}
  ForwardedEvlrs = 1
  F64Min <- MCF64Min
  F64Max <- MCF64Max
  MaxFaults = 0
SPECIFICATION Spec
CHECK_DEADLOCK FALSE
INVARIANTS
  TypeOK
  EntriesLocateChunks
  EveryPointOnce
  OneEntryPerNode
  ParentsFirst
  ClosedFileOpens
  ResultPrecedence
PROPERTIES
  ImplementsStore
