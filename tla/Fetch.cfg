SPECIFICATION AllSpec
CONSTANTS
  MaxRanges = 3
  MaxOffset = 5
  MaxLength = 2
  Inputs <- AllInputs
  CoalesceGaps = {0, 1, 2}
  Thresholds = {0, 2, 3}
INVARIANTS
  TypeOK
  QuietWhenReturned
  RangesLocated
  OversizeIsAtomic
  PlanIsGreedy
  GetCovers
PROPERTIES
  ImplementsFetch
  Returns
  TsImplementsFetch
  TsStopsAfterError
  TsReturns
  PyImplementsFetch
  PyReturns
