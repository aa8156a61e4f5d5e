SPECIFICATION Spec
CONSTANTS
  Width = 2
  Height = 3
INVARIANTS
  TypeOK
  MazeWellFormed
  CacheCoherent
  SearchExact
  RemovesOwnWall
  WallLimit
  WallsCounted
  IntersectionsExact
  FillAddsNewWalls
  NoWalllessVertexLeft
  BestRouteShortest
  OpposingStepsExact
  StringRoundTrip
