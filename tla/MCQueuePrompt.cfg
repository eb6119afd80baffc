\* At most three deposits a block against a budget of three, no failure.
CONSTANTS
  Ids = {i1, i2, i3, i4}
  Window = 2
  Cap = 3
  MaxPerPrefix = 3
  FirstBlock = 1
  CanFail = {}
  LastDepositBlock = 5
  LastBlock = 8
SYMMETRY Symmetry
SPECIFICATION Spec
INVARIANTS
  NeverEarly
  PromptFinalization
CHECK_DEADLOCK FALSE
