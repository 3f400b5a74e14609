SPECIFICATION MCSpec
CONSTANTS
  Contents <- AllContents
  Files <- ContentFiles
  Queries <- AllQueries
  MaxLeft = 1
  Sdks = {"go", "ts", "py"}
INVARIANTS
  TypeOK
  EofMeansAll
  InTimeOrder
  OneItemPerGroup
  DecodableCold
  PlanPrecondition
  PathsAgree
PROPERTY CallsEnd
