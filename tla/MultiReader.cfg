SPECIFICATION Spec
CONSTANTS
  Sessions <- TwoFiles
  MaxFailures = 1
INVARIANTS
  TypeOK
  SummaryIsTheFiles
  FloorResolved
  UnionFloor
  RowsDecode
  CollisionRefused
  MergedInOrder
  VideoNotInterleaved
PROPERTY EveryWaveDescends
