SPECIFICATION FairSpec
CONSTANTS
  Scripts <- MCScripts
  Words <- MCWords
  Formats <- AllFormats
  CharsPerDelta = 3
INVARIANT
  TypeOK
  EventOrder
  RecordTruthful
PROPERTY
  AnswerPromise
  EndReachesClient
