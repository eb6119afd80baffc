SPECIFICATION Spec
CONSTANTS
  TextMax = 3
  ListMax = 2
  SampleCode <- MCSampleCode
  RawCodes <- MCRawCodes
  Parsed <- ParsedCodes
  RawTexts <- MCRawTexts
  HashSizes = {3}
  Years = {1}
  Bpms = {20}
  Dates <- MCDates
  TrackNumbers = {1}
  MiddsIds = {7}
  SourceLists <- MCSourceLists
  Focuses = {}
  CreatorInputs <- MCCreatorInputs
  PerformerInputs <- MCPerformerInputs
  ProducerInputs <- MCProducerInputs
  Typos = {65}
  FixtureIndices = {0}
  WorkCodes = {0, 7, 8}
  Stems = {5}
  MaxRounds = 1
INVARIANT ParsedIsCanonical
CHECK_DEADLOCK FALSE
