\* Both multipliers: blocks of up to one and a half times the target of M_fast, a window
\* of two days of two blocks, counters that saturate in a busy day and in a
\* busy window.
CONSTANTS
  Scale = 100
  Days = 2
  BlocksPerDay = 2
  FastTarget = 2
  FastRate = 25
  FastMin = 60
  FastMax = 140
  SlowTarget = 2
  SlowRate = 25
  SlowMin = 60
  SlowMax = 150
  CounterMax = 3
  MaxPerBlock = 3
SPECIFICATION Spec
INVARIANTS
  TypeOK
  RoundTrip
  BucketsHoldDays
PROPERTIES
  FastReacts
  SlowFollowsWindow
  DemandForgotten
