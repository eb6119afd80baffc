SPECIFICATION Spec
CONSTANTS
  TextMax = 3
  ListMax = 2
  SampleCode <- MCSampleCode
  RawCodes <- MCRawCodes
  Parsed <- ParsedCodes
  RawTexts <- MCRawTexts
  HashSizes = {0, 3, 4}
  Years = {0, 1, 2999, 3000}
  Bpms = {19, 20, 301}
  Dates <- MCDates
  TrackNumbers = {0, 1, 2}
  MiddsIds = {7}
  SourceLists <- MCSourceLists
  Focuses <- MCFocuses
  CreatorInputs <- MCCreatorInputs
  PerformerInputs <- MCPerformerInputs
  ProducerInputs <- MCProducerInputs
  Typos = {0, 1, 2, 3, 4, 5, 6, 7, 8, 9, 10, 18, 29, 33, 55, 62, 63, 64}
  FixtureIndices = {0, 3, 10, 99999, 100000, 1000000, 10000000, 99999999}
  WorkCodes = {0, 7, 8}
  Stems = {5}
  MaxRounds = 2
INVARIANTS
  TypeOK
  EveryFaultReported
  BuiltKeepsEveryEntry
  BuiltIsStorable
  FormRefusedForClashes
  FixturesAsIntended
  ParsedIsCanonical
  SlipsAreCaught
CHECK_DEADLOCK FALSE
