---------------------------- MODULE MZProperties ----------------------------
(***************************************************************************)
(* The properties of the generation of a maze (MZ.tla).                    *)
(***************************************************************************)
EXTENDS MZ, Walls

\* The updateVectors data has been computed and is not about to be
\* recomputed: fillWalllessCells changes the matrix without recomputing.
Settled == pc \in {"try", "check", "stats", "done"}

\* The two characters of a cell always agree.
CLType == {cl \in [m_char : Int, m_1fchar : Int] :
             cl.m_1fchar = internalTohumanReadableChar(cl.m_char)}

\* The values the members of an MZ object and the locals of generateMZ take.
TypeOK ==
  /\ pc \in {"new", "try", "check", "fill", "stats", "done"}
  /\ pc # "new" => /\ m_CLMatrix \in [Cells -> CLType]
                   /\ m_entrance \in RightEdge
                   /\ m_exit \in LeftEdge
                   /\ m_nMaxWalls \in 1..3
                   /\ vectors.m_bAllCellsReachable \in BOOLEAN
                   /\ vectors.m_vIntersectionProblems \subseteq Vertices
  /\ m_nWalls \in Int
  /\ i \in 0..nTries
  /\ pc = "check" => i < nTries
  /\ added \in [cell : Cells \cup {-1}, side : Sides \cup {-1}]
  /\ problemsLeft \subseteq Vertices

\* Every cell keeps a character of the documented range '0'..'?' and the
\* matching hexadecimal digit, both sides of every inner wall agree, and the
\* borders are closed but for the entrance and the exit.
WellFormed(M, entrance, exit) ==
  /\ M \in [Cells -> ValidCL]
  /\ checkEdgeCompatibility(M)
  /\ \A c \in RightEdge : hasRightWall(M[c]) <=> c # entrance
  /\ \A c \in LeftEdge : hasLeftWall(M[c]) <=> c # exit

\* The maze is well formed at every step of the generation, although walls are
\* added to and subtracted from a character without looking at it: the checks
\* checkEdgeCompatibility, checkOneEntrance and checkOneExit, which generateMZ
\* never runs on its own result, would pass.
MazeWellFormed == pc # "new" => WellFormed(m_CLMatrix, m_entrance, m_exit)

\* What updateVectors leaves in the object (the fewest intersections and their
\* problems, the wall counts, the best route, reachability and the string) is that
\* of the matrix whenever it is read, although addRandomWall's early return leaves
\* without recomputing it.
CacheCoherent ==
  Settled => vectors = updateVectors(m_CLMatrix, m_entrance, m_exit)

\* m_bAllCellsReachable says whether the maze is connected, for the maze
\* with the wall just tried, too, and the search never indexes m_vVisited with
\* the -1 that neighBourRight and neighBourLeft return at a border.
SearchExact ==
  /\ Settled => (vectors.m_bAllCellsReachable <=> Connected(wallsOf(m_CLMatrix)))
  /\ vectors.set => ~vectors.thrown

\* The loop calls removeWallAt because of a flag, not because a wall was
\* added: whenever it does, the wall it names was added in this iteration, on
\* both sides, so that removeWallAt finds the neighbour and takes away no
\* other wall.
RemovesOwnWall ==
  pc = "check" /\ ~vectors.m_bAllCellsReachable =>
    /\ added.side \in Sides
    /\ neighBour(added.cell, added.side) \in Cells
    /\ hasWall(m_CLMatrix[added.cell], added.side)
    /\ hasWall(m_CLMatrix[neighBour(added.cell, added.side)],
               mirroredWall(added.side))

\* While the loops run no cell has more walls than the loop allows, be it
\* the cell drawn or its neighbour, and the two ways of counting the walls of
\* a cell (getNumberOfWalls and updateWallCount) agree.
WallLimit ==
  /\ Width > 1 /\ pc \in {"try", "check"} =>
       \A c \in Cells : vectors.m_CLWallCount[c] <= m_nMaxWalls
  /\ Settled => \A c \in Cells :
       vectors.m_CLWallCount[c] = getNumberOfWalls(m_CLMatrix[c])

\* The walls m_nWalls has to count: the inner ones and those of the borders.
nWallsOf(M) ==
  Cardinality(wallsOf(M)) + Cardinality({c \in RightEdge : hasRightWall(M[c])})
                          + Cardinality({c \in LeftEdge : hasLeftWall(M[c])})

\* m_nWalls, which is counted up and down in five places, is the number of
\* walls throughout the loops; fillWalllessCells adds walls it does not count.
WallsCounted ==
  /\ pc \in {"try", "check"} => nWallsOf(m_CLMatrix) = m_nWalls
  /\ pc = "fill" =>
       nWallsOf(m_CLMatrix) = m_nWalls
         + Cardinality(vectors.m_vIntersectionProblems \ problemsLeft)

\* The number of walls that meet at vertex v, by the cells around it.
wallsMeeting(W, v) ==
  LET x == vertexColumn(v)
      y == vertexRow(v)
      above == (y - 1 + Height) % Height
      cell(col, row) == col + row * Width
      vertical(row) ==
        CASE x = 0 -> hasLeftWall(m_CLMatrix[cell(0, row)])
          [] x = Width -> hasRightWall(m_CLMatrix[cell(Width - 1, row)])
          [] OTHER -> <<cell(x - 1, row), 1>> \in W
      horizontal(col) == col \in 0..(Width - 1) /\ <<cell(col, above), 2>> \in W
  IN  Cardinality({n \in 1..4 : CASE n = 1 -> vertical(above)
                                  [] n = 2 -> vertical(y)
                                  [] n = 3 -> horizontal(x - 1)
                                  [] n = 4 -> horizontal(x)})

\* The index arithmetic of updateVisual and updateIntersections, wraparound
\* of the first row included, finds at every vertex the walls that meet there.
IntersectionsExact ==
  Settled =>
    \A v \in Vertices : nIntersections(updateVisual(m_CLMatrix), v)
                          = wallsMeeting(wallsOf(m_CLMatrix), v)

\* fillWalllessCells adds without looking: the wall of every problem still
\* to be fixed is an inner one and not there yet, on neither side, whatever
\* the walls added before it, and no two problems are fixed by the same wall.
FillAddsNewWalls ==
  pc = "fill" =>
    /\ \A v \in problemsLeft :
         /\ cellID(v) \in Cells \ RightEdge
         /\ ~hasRightWall(m_CLMatrix[cellID(v)])
         /\ ~hasLeftWall(m_CLMatrix[cellID(v) + 1])
    /\ \A v, w \in problemsLeft : cellID(v) = cellID(w) => v = w

\* When the generation is over a wall meets at every vertex below the first
\* row: filling fixes all problems it lists and the list misses none.
NoWalllessVertexLeft ==
  pc \in {"stats", "done"} =>
    \A v \in Vertices : vertexRow(v) > 0 => wallsMeeting(wallsOf(m_CLMatrix), v) > 0

\* The best route is an open path from the entrance to the exit, and no
\* route is shorter.
BestRouteShortest ==
  Settled /\ m_entrance # m_exit /\ vectors.m_bAllCellsReachable =>
    LET route == vectors.m_vBestRoute
        W == wallsOf(m_CLMatrix)
    IN  /\ Len(route) > 0
        /\ route[1] = m_entrance
        /\ route[Len(route)] = m_exit
        /\ isPath(W, route)
        /\ m_exit \notin cellsAfter(W, m_entrance)[Len(route) - 2]

\* From the right border to the left one a route makes Width - 1 steps to
\* the left, and one more for every opposing step: the steps that are left
\* over change the row.
OpposingStepsExact ==
  pc = "done" /\ m_entrance # m_exit =>
    LET route == vectors.m_vBestRoute
        rowChanges == {k \in 2..Len(route) :
                         getRowNumber(route[k - 1]) # getRowNumber(route[k])}
    IN  stats.routeLength - 1
          = Cardinality(rowChanges) + Width - 1 + 2 * stats.m_nOpposingSteps

\* The string that is stored for a maze has one hexadecimal digit per cell
\* and is read back (by initializeCLMatrix) as the same maze.
StringRoundTrip ==
  pc = "done" =>
    /\ \A c \in Cells : vectors.mzString[c] \in (0..9) \cup (49..54)
    /\ [c \in Cells |-> NewCL(vectors.mzString[c])] = m_CLMatrix
-----------------------------------------------------------------------------
\* The walls of the maze as generateMZ's caller may rely on them: a wall that
\* is being tried does not count yet.
settledWalls ==
  IF pc = "new" THEN {}
  ELSE wallsOf(m_CLMatrix) \
         (IF pc = "check" /\ neighBour(added.cell, added.side) \in Cells
          THEN {wallAt(added.cell, added.side)} ELSE {})

Growth == INSTANCE Maze
            WITH walls <- settledWalls, entrance <- m_entrance, exit <- m_exit

\* The generation only ever adds inner walls and never cuts cells off, the
\* walls fillWalllessCells adds without a check included: it implements Maze.
MazeGrows == Growth!Spec

\* The generation of a maze comes to its end.
Termination == <>(pc = "done")
=============================================================================
