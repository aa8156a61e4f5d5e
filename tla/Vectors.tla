------------------------------ MODULE Vectors -------------------------------
(***************************************************************************)
(* What an MZ object computes from its matrix of cells (updateVectors and  *)
(* calculateMazeAndRouteStats of MZ.cpp).                                  *)
(***************************************************************************)
EXTENDS Visual, Routes

RightEdge == {c \in Cells : isRightEdge(c)}

LeftEdge == {c \in Cells : isLeftEdge(c)}

\* The members that have no initial value in the code.
Unset == [set |-> FALSE]
-----------------------------------------------------------------------------
\* m_CLWallCount
updateWallCount(M) == [c \in Cells |-> Cardinality({s \in Sides : hasWall(M[c], s)})]

\* The picture, the intersections, the routes and the string, in this order.
\* When the search throws out_of_range the exception leaves the caller too.
updateVectors(M, entrance, exit) ==
  LET V == updateVisual(M)
      S == updateRoutes(M, entrance, exit)
  IN  [set |-> TRUE,
       m_minIntersections |-> minIntersections(V),
       m_vIntersectionProblems |-> intersectionProblems(V),
       m_CLWallCount |-> updateWallCount(M),
       thrown |-> S.thrown,
       m_vBestRoute |-> S.vBestRoute,
       m_bAllCellsReachable |-> allCellsReachable(S),
       mzString |-> [c \in Cells |-> M[c].m_1fchar]]

\* calculateMazeAndRouteStats.  The percentages are kept as the integers
\* they are the quotients of: the length of the route of totalCells cells,
\* the rows it visits of Height rows.
calculateMazeAndRouteStats(route) ==
  [set |-> TRUE,
   routeLength |-> Len(route),
   m_iRowsUtilized |->
     Cardinality({getRowNumber(route[k]) : k \in 1..Len(route)}),
   m_nOpposingSteps |->
     Cardinality({k \in 2..Len(route) : isLeftOf(route[k - 1], route[k])})]
=============================================================================
