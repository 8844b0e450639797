CONSTANTS
  Axes = 2
  MaxLevel = 2
  HeaderMin <- MCHeaderMin
  HeaderMax <- MCHeaderMax
  FaceGap <- NoGap
  Points = {1, 4, 5, 6, 8}
  Position <- MCPosition
  Scale = 2
  RawMax = 20
  Files <- PagedFiles
  Queries <- MCClaimQueries
  MaxReadFaults = 0
SPECIFICATION Spec
CHECK_DEADLOCK FALSE
INVARIANTS
  ChildPagesAreFound
