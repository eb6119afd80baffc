SPECIFICATION CatalogSpec
CONSTANTS
  Instances <- MCInstances
  Users = {"owner", "sponsor", "relayer"}
  Items <- MCItems
  Identifier <- MCIdentifier
  Signed <- MCSigned
  OwnCalls <- MCOwnCalls
  NoItem = "none"
  NoId <- MCNoId
  CommitmentWindow = 2
  MaxRecords = 3
  LastBlock <- MCLastBlock
  HashRank <- MCHashRank
  MaxLookupScan = 2
  MaxLookupLimit = 2
  ReadInstance <- MainWorks
  ReadIdentifier = "a"
  Limits = {1, 3}
INVARIANTS
  SignedOnce
  RecordsAsSigned
  ListingComplete
  CountMatchesListing
CHECK_DEADLOCK FALSE
