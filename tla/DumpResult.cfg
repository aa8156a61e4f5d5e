SPECIFICATION Spec
CONSTANTS
  MaxFields = 2
  MaxRows = 2
  Lengths = {0, 1, 3}
INVARIANTS
  BlockExact
  Readable
