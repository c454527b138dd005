CONSTANTS
  MaxBlock = 2
  Callbacks = {c1}
  c1 = c1
  c2 = c2
  NoThread = NoThread
  TraceCounts = {1}
  DataSizes = {1}
  CountersCanFail = FALSE
  TracesLimit = 6
  DataLimit = 5
  BatchBytes = 1
  BlocksLimit = 2
  BatchesLimit = 2
  Targets = {}
SPECIFICATION FairSpec
PROPERTY TimeoutFires
CHECK_DEADLOCK FALSE
