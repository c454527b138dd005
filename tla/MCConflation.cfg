CONSTANTS
  MaxBlock = 3
  Callbacks = {c1, c2}
  c1 = c1
  c2 = c2
  NoThread = NoThread
  TraceCounts = {2, 5, 7}
  DataSizes = {1, 3}
  CountersCanFail = TRUE
  TracesLimit = 6
  DataLimit = 5
  BatchBytes = 1
  BlocksLimit = 2
  BatchesLimit = 2
  Targets = {2}
SPECIFICATION Spec
SYMMETRY CallbackSymmetry
INVARIANTS
  TypeOK
  BatchesCutTheChain
  BlobsHoldTheirBatches
  LimitsAreRespected
  AppendsAreAccepted
  TargetsAreBoundaries
CHECK_DEADLOCK FALSE
