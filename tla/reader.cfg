CONSTANTS
  Axes = 2
  MaxLevel = 2
  HeaderMin <- MCHeaderMin
  HeaderMax <- MCHeaderMax
  FaceGap <- NoGap
  Points = {1, 4, 5, 6, 8}
  Position <- MCPosition
  Scale = 2
  RawMax = 20
  Files <- MCFiles
  Queries <- MCQueries
  MaxReadFaults = 1
SPECIFICATION FairSpec
CHECK_DEADLOCK FALSE
INVARIANTS
  ReaderTypeOK
  EntriesComplete
  NoGarbage
  QueryIsExact
  IterationIsExact
  CountersAgree
  PointsInBoundsComeBack
PROPERTIES
  ReadsForward
  ReaderReturns
