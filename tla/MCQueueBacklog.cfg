\* Overload: three deposits may share a block while the budget is two, and
\* one record's settlement may fail.  The pallet joins a chain at block 3.
CONSTANTS
  Ids = {i1, i2, i3, i4}
  Window = 1
  Cap = 2
  MaxPerPrefix = 3
  FirstBlock = 3
  CanFail = {i1}
  LastDepositBlock = 5
  LastBlock = 11
SPECIFICATION FairSpec
INVARIANTS
  CursorSound
PROPERTIES
  BacklogDrains
CHECK_DEADLOCK FALSE
