CONSTANTS
  Sizes <- MCSizes
  MIN_NODE_SIZE_DEFAULT = 256
  MAX_NODE_SIZE_DEFAULT = 16384
  MaxRecords = 2
  Counts = {0, 5}
  ExtraBytes = {0, 3}
SPECIFICATION Spec
CHECK_DEADLOCK FALSE
INVARIANTS
  WriterAssumptions
  ReaderFindsOurs
  CrsIsWkt
  PointLengthsAgree
  BytesAreChecked
