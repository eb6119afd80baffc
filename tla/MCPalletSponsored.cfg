\* One sponsored record at a time, edited by its owner, its sponsor and
\* governance under changing prices; a Treasury below the existential deposit.
CONSTANTS
  alice = alice
  bob = bob
  A = A
  B = B
  None = None
  NoLayer = NoLayer
  Users = {alice, bob}
  Treasury = Treasury
  ED = 4
  MaxRecords = 1
  Payloads <- SponsorPayloads
  ValidPayloads <- SponsorPayloads
  Signed <- SponsorSigned
  Multipliers <- SponsorMultipliers
  BaseChoices = {1, 3}
  PerByteChoices = {1}
  InitialFree <- SponsorFree
  TransferAmounts = {}
  MaxRemovalsPerCall = 0
  Window = 2
  Cap = 2
  LastBlock = 4
SPECIFICATION Spec
INVARIANTS
  HoldsMatchLayers
  NeverFinalizedEarly
  OwnerLayerIsOwners
PROPERTIES
  FinalizedPermanent
  PremiumSticky
  EditRebases
  SettlementInsulated
  SponsorExposureBounded
CHECK_DEADLOCK FALSE
