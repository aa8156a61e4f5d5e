SPECIFICATION Spec
CONSTANTS
  MaxResults = 1
  MaxFields = 1
  MaxRows = 1
  Answers <- MCAnswers
INVARIANT
  AllResultsProcessed
