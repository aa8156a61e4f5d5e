--------------------------------- MODULE MZ ---------------------------------
(***************************************************************************)
(* The random generation of a maze (MZ::generateMZ in MZ.cpp and what it   *)
(* calls).                                                                 *)
(*                                                                         *)
(* The matrix of cells is the maze; everything else the object keeps about *)
(* it is recomputed from the matrix by updateVectors and may be stale in   *)
(* between.  The random numbers of rand() are choices.                     *)
(***************************************************************************)
EXTENDS Vectors

VARIABLES
  pc,            \* where generateMZ is
  m_CLMatrix,    \* the cells
  m_entrance,
  m_exit,
  m_nWalls,      \* the number of walls, counted as they are added
  m_nMaxWalls,   \* how many walls a cell may get in the current loop
  i,             \* the counter of the current loop
  added,         \* [cell, side]: what addRandomWall reports to its caller
  vectors,       \* what updateVectors has computed
  problemsLeft,  \* the part of m_vIntersectionProblems still to be walled
  stats          \* what calculateMazeAndRouteStats has computed

vars == <<pc, m_CLMatrix, m_entrance, m_exit, m_nWalls, m_nMaxWalls, i,
          added, vectors, problemsLeft, stats>>

mazeVars == <<m_CLMatrix, m_entrance, m_exit, m_nWalls>>

nTries == totalCells \div 2   \* m_nTries

NoAddition == [cell |-> -1, side |-> -1]
-----------------------------------------------------------------------------
\* initializeCLMatrix on a string of '0's, then addRandomEntrance and
\* addRandomExit: the right border is closed but for the entrance, the left
\* border but for the exit.
closedBorders(entrance, exit) ==
  LET rightClosed(c) == IF c \in RightEdge \ {entrance}
                        THEN addWallAtSide(NewCL(0), 1) ELSE NewCL(0)
  IN  [c \in Cells |-> IF c \in LeftEdge \ {exit}
                       THEN addWallAtSide(rightClosed(c), 3)
                       ELSE rightClosed(c)]
-----------------------------------------------------------------------------
(***************************************************************************)
(* The constructor.                                                        *)
(***************************************************************************)
Init ==
  /\ pc = "new"
  /\ m_CLMatrix = << >>
  /\ m_entrance = -1
  /\ m_exit = -1
  /\ m_nWalls = 0
  /\ m_nMaxWalls = 0
  /\ i = 0
  /\ added = NoAddition
  /\ vectors = Unset
  /\ problemsLeft = {}
  /\ stats = Unset

\* generateMZ up to its loops.
StartGeneration ==
  /\ pc = "new"
  /\ \E entrance \in RightEdge, exit \in LeftEdge :
       /\ m_entrance' = entrance
       /\ m_exit' = exit
       /\ m_CLMatrix' = closedBorders(entrance, exit)
       /\ vectors' = updateVectors(closedBorders(entrance, exit), entrance, exit)
  /\ m_nWalls' = 2 * (Height - 1)
  /\ m_nMaxWalls' = 1
  /\ i' = 0
  /\ pc' = "try"
  /\ UNCHANGED <<added, problemsLeft, stats>>
-----------------------------------------------------------------------------
(***************************************************************************)
(* MZ::addRandomWall for the random cell r.  Its four outcomes return to   *)
(* the loop, which then looks at m_bAllCellsReachable.                     *)
(***************************************************************************)

\* Cell r has its share of walls already.
CellIsFull(r) == getNumberOfWalls(m_CLMatrix[r]) >= m_nMaxWalls

\* The wall drawn for r would close the border.
IsBorder(r, s) == (isRightEdge(r) /\ s = 1) \/ (isLeftEdge(r) /\ s = 3)

\* Mutation: one wall more allowed.
Mut_NeighBourOverfull(M, n) == getNumberOfWalls(M[n]) > m_nMaxWalls + 1

\* The neighbour n has got one wall too many in M.
NeighBourOverfull(M, n) == getNumberOfWalls(M[n]) > m_nMaxWalls

\* The matrix once wall s of r is added on both of its sides.
withWall(M, r, s) ==
  [[M EXCEPT ![r] = addWallAtSide(@, s)]
     EXCEPT ![neighBour(r, s)] = addWallAtSide(@, mirroredWall(s))]

withoutWall(M, r, s, n) ==
  [[M EXCEPT ![r] = removeWallAt(@, s)]
     EXCEPT ![n] = removeWallAt(@, mirroredWall(s))]

AddRandomWallNone(r) ==
  /\ CellIsFull(r)
  /\ added' = [cell |-> r, side |-> -1]
  /\ vectors' = updateVectors(m_CLMatrix, m_entrance, m_exit)
  /\ UNCHANGED mazeVars

\* Mutation: the early return leaves the wall where it is.
Mut_AddRandomWallBorder(r, s) ==
  /\ ~CellIsFull(r)
  /\ ~hasWall(m_CLMatrix[r], s)
  /\ IsBorder(r, s)
  /\ added' = [cell |-> r, side |-> s]
  /\ m_CLMatrix' = [m_CLMatrix EXCEPT ![r] = addWallAtSide(@, s)]
  /\ UNCHANGED <<m_entrance, m_exit, m_nWalls, vectors>>

\* The early return: the wall is taken back, and updateVectors not called.
AddRandomWallBorder(r, s) ==
  /\ ~CellIsFull(r)
  /\ ~hasWall(m_CLMatrix[r], s)
  /\ IsBorder(r, s)
  /\ added' = [cell |-> r, side |-> s]
  /\ m_CLMatrix' =
       [m_CLMatrix EXCEPT ![r] = removeWallAt(addWallAtSide(@, s), s)]
  /\ UNCHANGED <<m_entrance, m_exit, m_nWalls, vectors>>

\* Mutation: the wall taken back is still counted.
Mut_AddRandomWallRefused(r, s) ==
  LET M == withWall(m_CLMatrix, r, s)
      n == neighBour(r, s)
  IN  /\ ~CellIsFull(r)
      /\ ~hasWall(m_CLMatrix[r], s)
      /\ ~IsBorder(r, s)
      /\ NeighBourOverfull(M, n)
      /\ added' = [cell |-> r, side |-> s]
      /\ m_CLMatrix' = withoutWall(M, r, s, n)
      /\ m_nWalls' = m_nWalls + 1
      /\ vectors' = updateVectors(m_CLMatrix', m_entrance, m_exit)
      /\ UNCHANGED <<m_entrance, m_exit>>

\* The neighbour has too many walls now: both sides are taken back.
AddRandomWallRefused(r, s) ==
  LET M == withWall(m_CLMatrix, r, s)
      n == neighBour(r, s)
  IN  /\ ~CellIsFull(r)
      /\ ~hasWall(m_CLMatrix[r], s)
      /\ ~IsBorder(r, s)
      /\ NeighBourOverfull(M, n)
      /\ added' = [cell |-> r, side |-> s]
      /\ m_CLMatrix' = withoutWall(M, r, s, n)
      /\ vectors' = updateVectors(m_CLMatrix', m_entrance, m_exit)
      /\ UNCHANGED <<m_entrance, m_exit, m_nWalls>>

AddRandomWallAdded(r, s) ==
  LET M == withWall(m_CLMatrix, r, s)
      n == neighBour(r, s)
  IN  /\ ~CellIsFull(r)
      /\ ~hasWall(m_CLMatrix[r], s)
      /\ ~IsBorder(r, s)
      /\ ~NeighBourOverfull(M, n)
      /\ added' = [cell |-> r, side |-> s]
      /\ m_CLMatrix' = M
      /\ m_nWalls' = m_nWalls + 1
      /\ vectors' = updateVectors(M, m_entrance, m_exit)
      /\ UNCHANGED <<m_entrance, m_exit>>

AddRandomWall ==
  /\ pc = "try"
  /\ i < nTries
  /\ \E r \in Cells :
       \/ AddRandomWallNone(r)
       \/ \E s \in Sides : \/ AddRandomWallBorder(r, s)
                           \/ AddRandomWallRefused(r, s)
                           \/ AddRandomWallAdded(r, s)
  /\ pc' = "check"
  /\ UNCHANGED <<m_nMaxWalls, i, problemsLeft, stats>>
-----------------------------------------------------------------------------
(***************************************************************************)
(* The rest of an iteration.                                               *)
(***************************************************************************)
\* Mutation: a wall that had to be removed does not count as a try.
Mut_EndTry ==
  /\ i' = IF vectors.m_bAllCellsReachable THEN i + 1 ELSE i
  /\ pc' = "try"
  /\ added' = NoAddition
  /\ UNCHANGED <<m_entrance, m_exit, m_nMaxWalls, problemsLeft, stats>>

EndTry ==
  /\ i' = i + 1
  /\ pc' = "try"
  /\ added' = NoAddition
  /\ UNCHANGED <<m_entrance, m_exit, m_nMaxWalls, problemsLeft, stats>>

\* Mutation: reachability not looked at.
Mut_KeepWall ==
  /\ pc = "check"
  /\ EndTry
  /\ UNCHANGED <<m_CLMatrix, m_nWalls, vectors>>

KeepWall ==
  /\ pc = "check"
  /\ vectors.m_bAllCellsReachable
  /\ EndTry
  /\ UNCHANGED <<m_CLMatrix, m_nWalls, vectors>>

\* The neighbour removeWallAt takes the wall from.  The variable is not
\* initialised: when no branch assigns it, it can be any cell.
removalNeighBours(c, s) ==
  IF neighBour(c, s) >= 0 THEN {neighBour(c, s)} ELSE Cells

\* Mutation: the routes are not searched again after the removal.
Mut_RemoveWallAt ==
  /\ pc = "check"
  /\ ~vectors.m_bAllCellsReachable
  /\ \E n \in removalNeighBours(added.cell, added.side) :
       m_CLMatrix' = withoutWall(m_CLMatrix, added.cell, added.side, n)
  /\ m_nWalls' = m_nWalls - 1
  /\ UNCHANGED vectors
  /\ EndTry

RemoveWallAt ==
  /\ pc = "check"
  /\ ~vectors.m_bAllCellsReachable
  /\ \E n \in removalNeighBours(added.cell, added.side) :
       m_CLMatrix' = withoutWall(m_CLMatrix, added.cell, added.side, n)
  /\ m_nWalls' = m_nWalls - 1
  /\ vectors' = updateVectors(m_CLMatrix', m_entrance, m_exit)
  /\ EndTry

\* Mutation: a fourth loop.
Mut_NextLoop ==
  /\ pc = "try"
  /\ i = nTries
  /\ m_nMaxWalls <= 3
  /\ m_nMaxWalls' = m_nMaxWalls + 1
  /\ i' = 0
  /\ UNCHANGED <<pc, mazeVars, added, vectors, problemsLeft, stats>>

\* From one loop to the next.
NextLoop ==
  /\ pc = "try"
  /\ i = nTries
  /\ m_nMaxWalls < 3
  /\ m_nMaxWalls' = m_nMaxWalls + 1
  /\ i' = 0
  /\ UNCHANGED <<pc, mazeVars, added, vectors, problemsLeft, stats>>

\* After the last loop.
EndLoops ==
  /\ pc = "try"
  /\ i = nTries
  /\ m_nMaxWalls = 3
  /\ IF vectors.m_minIntersections = 0
     THEN /\ pc' = "fill"
          /\ problemsLeft' = vectors.m_vIntersectionProblems
     ELSE /\ pc' = "stats"
          /\ UNCHANGED problemsLeft
  /\ UNCHANGED <<mazeVars, m_nMaxWalls, i, added, vectors, stats>>
-----------------------------------------------------------------------------
(***************************************************************************)
(* fillWalllessCells: one step per element of m_vIntersectionProblems, and *)
(* updateVectors at the end.  m_nWalls is not counted up.                  *)
(***************************************************************************)
FillWalllessCell ==
  /\ pc = "fill"
  /\ \E v \in problemsLeft :
       /\ \A w \in problemsLeft : v <= w
       /\ m_CLMatrix' =
            [[m_CLMatrix EXCEPT ![cellID(v)] = addWallAtSide(@, 1)]
               EXCEPT ![cellID(v) + 1] = addWallAtSide(@, 3)]
       /\ problemsLeft' = problemsLeft \ {v}
  /\ UNCHANGED <<pc, m_entrance, m_exit, m_nWalls, m_nMaxWalls, i, added,
                 vectors, stats>>

EndFill ==
  /\ pc = "fill"
  /\ problemsLeft = {}
  /\ vectors' = updateVectors(m_CLMatrix, m_entrance, m_exit)
  /\ pc' = "stats"
  /\ UNCHANGED <<mazeVars, m_nMaxWalls, i, added, problemsLeft, stats>>

CalculateStats ==
  /\ pc = "stats"
  /\ stats' = calculateMazeAndRouteStats(vectors.m_vBestRoute)
  /\ pc' = "done"
  /\ UNCHANGED <<mazeVars, m_nMaxWalls, i, added, vectors, problemsLeft>>

\* The generated maze is only read from here on.
Done == pc = "done" /\ UNCHANGED vars

Next ==
  \/ StartGeneration
  \/ AddRandomWall
  \/ KeepWall
  \/ RemoveWallAt
  \/ NextLoop
  \/ EndLoops
  \/ FillWalllessCell
  \/ EndFill
  \/ CalculateStats
  \/ Done

Spec == Init /\ [][Next]_vars

\* The thread that runs generateMZ is not stopped: it takes steps for ever
\* or until it is done.  Some step is possible in every state (the runs look
\* for deadlocks), so that this is weak fairness of Next; it is written
\* without ENABLED, which TLC would evaluate by searching all routes again.
FairSpec == Spec /\ (<>[](pc = "done") \/ []<><<pc # "done">>_vars)
=============================================================================
