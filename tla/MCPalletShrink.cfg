\* One record sponsored by bob for alice: deposited under any of three prices,
\* then updated by alice.
CONSTANTS
  alice = alice
  bob = bob
  A = A
  B = B
  None = None
  NoLayer = NoLayer
  Users = {alice, bob}
  Treasury = Treasury
  ED = 4
  MaxRecords = 1
  Payloads <- SponsorPayloads
  ValidPayloads <- SponsorPayloads
  Signed <- SponsorSigned
  Multipliers <- SponsorMultipliers
  BaseChoices = {1}
  PerByteChoices = {1}
  InitialFree <- SponsorFree
  TransferAmounts = {}
  MaxRemovalsPerCall = 0
  Window = 2
  Cap = 2
  LastBlock = 4
SPECIFICATION Spec
PROPERTIES
  SponsorInsulated
CHECK_DEADLOCK FALSE
