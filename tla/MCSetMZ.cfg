SPECIFICATION FairSpec
CONSTANTS
  Width = 3
  Height = 2
  Strings <- MCStrings
INVARIANTS
  TypeOK
  RoutesCoverVisited
  RoutesShortest
  VisitedExact
  BestRouteShortest
  ThrowsAtGap
PROPERTIES
  Termination
