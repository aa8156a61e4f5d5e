SPECIFICATION FairSpec
CONSTANTS
  MaxResults = 2
  MaxFields = 2
  MaxRows = 1
  Answers <- MCAnswers
INVARIANTS
  TypeOK
  PointersLive
  ReadsInBounds
  ResultDescribed
  NoLeak
  NoForeignError
  ReadyForNext
  SuccessMeansAllRead
PROPERTIES
  CallsEnd
