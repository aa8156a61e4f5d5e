SPECIFICATION GoFairSpec
CONSTANTS
  MaxResults = 1
  MaxFields = 1
  MaxRows = 0
  Answers <- InsertAnswers
  GENERATE_HOW_MANY = 6
INVARIANTS
  GoTypeOK
  CountedAreStored
  StoredOnce
PROPERTIES
  GoEnds
