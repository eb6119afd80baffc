SPECIFICATION Spec
CONSTANTS
  Signers <- MCSigners
  AutoNonce <- MCAutoNonce
  MaxPrepRetries = 1
  MaxOutside = 1
  SignerCount = 2
  Counts <- MCCounts
  Concurrency <- MCConcurrency
  BatchSize = 2
  FundBatchSize = 1
  AutoFund = TRUE
INVARIANTS
  LandsInOrder
  ReportMatchesChain
  CountsAddUp
PROPERTIES
  RunEnds
CHECK_DEADLOCK FALSE
