SPECIFICATION FixedSpec
CONSTANTS
  Width = 5
  Height = 12
  Strings <- ShiftedStrings
INVARIANTS
  FixedMazeGood
  ShiftMovesMaze
