SPECIFICATION FairSpec
CONSTANTS
  Width = 3
  Height = 2
PROPERTIES
  MazeGrows
  Termination
