\* The smallest legal budget, with one deposit a block and no failure.
CONSTANTS
  Ids = {i1, i2}
  Window = 1
  Cap = 1
  MaxPerPrefix = 1
  FirstBlock = 1
  CanFail = {}
  LastDepositBlock = 2
  LastBlock = 9
SPECIFICATION FairSpec
PROPERTIES
  BacklogDrains
CHECK_DEADLOCK FALSE
