\* One account, two records, three payloads the format check accepts and one
\* it refuses, a Treasury below the existential deposit (its first receipts may fail).
CONSTANTS
  alice = alice
  bob = bob
  A = A
  B = B
  None = None
  NoLayer = NoLayer
  Users = {alice}
  Treasury = Treasury
  ED = 4
  MaxRecords = 2
  Payloads <- LedgerPayloads
  ValidPayloads <- LedgerValid
  Signed = {}
  Multipliers <- LedgerMultipliers
  BaseChoices = {1}
  PerByteChoices = {1, 2}
  InitialFree <- LedgerFree
  TransferAmounts = {4}
  MaxRemovalsPerCall = 2
  Window = 2
  Cap = 2
  LastBlock = 4
SPECIFICATION Spec
INVARIANTS
  TypeOK
  HoldsMatchLayers
  IndexesAgree
  QueueMatchesRecords
PROPERTIES
  AttributionImmutable
  QueueRefinement
CHECK_DEADLOCK FALSE
