------------------------------- MODULE SetMZ --------------------------------
(***************************************************************************)
(* A maze read from a string (MZ::setMZ in MZ.cpp), with the search for    *)
(* routes one route at a time.                                             *)
(*                                                                         *)
(* setMZ checks the length of the string and that both sides of every      *)
(* inner wall agree.  It does not check the borders: the calls of          *)
(* checkOneEntrance and checkOneExit are commented out.                    *)
(***************************************************************************)
EXTENDS Vectors

CONSTANT Strings   \* the strings setMZ is called with

VARIABLES
  pc,           \* where setMZ is, or how it has ended
  mzString,     \* the string given, as a sequence of characters
  m_entrance,
  m_exit,
  m_CLMatrix,
  picture,      \* what updateVectors computes before it searches
  search,       \* the variables of updateRoutes (see Routes.tla)
  nRoutes,      \* the number of routes when the round began
  k,            \* the route of this round to be extended next
  stats

vars == <<pc, mzString, m_entrance, m_exit, m_CLMatrix, picture, search, nRoutes,
          k, stats>>

input == <<mzString, m_entrance, m_exit>>

matrix == <<m_CLMatrix, picture>>

Init ==
  /\ pc = "start"
  /\ mzString \in Strings
  /\ m_entrance \in RightEdge
  /\ m_exit \in LeftEdge
  /\ m_CLMatrix = << >>
  /\ picture = Unset
  /\ search = startSearch(m_entrance)
  /\ nRoutes = 0
  /\ k = 0
  /\ stats = Unset

\* Mutation: the exit is not moved.
Mut_shiftDown(maze, offset) ==
  LET n == (offset % Height) * Width
      s == maze.mzString
  IN  [mzString |-> SubSeq(s, totalCells - n + 1, totalCells)
                    \o SubSeq(s, 1, totalCells - n),
       m_entrance |-> (maze.m_entrance + n) % totalCells,
       m_exit |-> maze.m_exit]

\* The last rows become the first.  The call in setMZ is commented out.
shiftDown(maze, offset) ==
  LET n == (offset % Height) * Width
      s == maze.mzString
  IN  [mzString |-> SubSeq(s, totalCells - n + 1, totalCells)
                    \o SubSeq(s, 1, totalCells - n),
       m_entrance |-> (maze.m_entrance + n) % totalCells,
       m_exit |-> (maze.m_exit + n) % totalCells]

checkMZ == Len(mzString) # 0 /\ Len(mzString) = totalCells

\* Positions of a string count from 1 in TLA+.
initializeCLMatrix(s) == [c \in Cells |-> NewCL(s[c + 1])]

RejectLength ==
  /\ pc = "start"
  /\ ~checkMZ
  /\ pc' = "rejected"
  /\ UNCHANGED <<input, matrix, search, nRoutes, k, stats>>

\* checkStuff
RejectEdges ==
  /\ pc = "start"
  /\ checkMZ
  /\ m_CLMatrix' = initializeCLMatrix(mzString)
  /\ ~checkEdgeCompatibility(m_CLMatrix')
  /\ pc' = "rejected"
  /\ UNCHANGED <<input, picture, search, nRoutes, k, stats>>

\* setMZ up to the loop of updateRoutes.
Accept ==
  /\ pc = "start"
  /\ checkMZ
  /\ m_CLMatrix' = initializeCLMatrix(mzString)
  /\ checkEdgeCompatibility(m_CLMatrix')
  /\ LET V == updateVisual(m_CLMatrix')
     IN  picture' = [set |-> TRUE,
                     m_minIntersections |-> minIntersections(V),
                     m_vIntersectionProblems |-> intersectionProblems(V),
                     m_CLWallCount |-> updateWallCount(m_CLMatrix')]
  /\ nRoutes' = 1
  /\ k' = 1
  /\ pc' = "search"
  /\ UNCHANGED <<input, search, stats>>

\* One turn of the inner loop.  An exception ends the program.
ExtendRoute ==
  /\ pc = "search"
  /\ k <= nRoutes
  /\ search' = extendRoute(m_CLMatrix, m_entrance, m_exit, search, k)
  /\ k' = k + 1
  /\ pc' = IF search'.thrown THEN "thrown" ELSE pc
  /\ UNCHANGED <<input, matrix, nRoutes, stats>>

\* Mutation: the list of routes to erase outlives its round.
Mut_EndRoundKeeps ==
  /\ pc = "search"
  /\ k > nRoutes
  /\ search.bErase # << >>
  /\ search' = eraseRoutes(search)
  /\ nRoutes' = Len(search'.vRoutes)
  /\ k' = 1
  /\ UNCHANGED <<pc, input, matrix, stats>>

\* Mutation: another round although nothing was extended.
Mut_EndRoundAgain ==
  /\ pc = "search"
  /\ k > nRoutes
  /\ search' = [eraseRoutes(search) EXCEPT !.bErase = << >>]
  /\ nRoutes' = Len(search'.vRoutes)
  /\ k' = 1
  /\ UNCHANGED <<pc, input, matrix, stats>>

\* The end of a round in which some route was extended.
EndRound ==
  /\ pc = "search"
  /\ k > nRoutes
  /\ search.bErase # << >>
  /\ search' = [eraseRoutes(search) EXCEPT !.bErase = << >>]
  /\ nRoutes' = Len(search'.vRoutes)
  /\ k' = 1
  /\ UNCHANGED <<pc, input, matrix, stats>>

\* updateMZString
stringOfMatrix == [p \in 1..totalCells |-> m_CLMatrix[p - 1].m_1fchar]

\* Mutation: the search stops when the exit is found.
Mut_EndSearch ==
  /\ pc = "search"
  /\ k > nRoutes
  /\ search.bErase = << >> \/ search.bFound
  /\ stats' = calculateMazeAndRouteStats(search.vBestRoute)
  /\ mzString' = stringOfMatrix
  /\ pc' = "done"
  /\ UNCHANGED <<m_entrance, m_exit, matrix, search, nRoutes, k>>

\* The end of the last round, and of setMZ.
EndSearch ==
  /\ pc = "search"
  /\ k > nRoutes
  /\ search.bErase = << >>
  /\ stats' = calculateMazeAndRouteStats(search.vBestRoute)
  /\ mzString' = stringOfMatrix
  /\ pc' = "done"
  /\ UNCHANGED <<m_entrance, m_exit, matrix, search, nRoutes, k>>

\* setMZ has returned or thrown.
Ended == pc \in {"rejected", "thrown", "done"} /\ UNCHANGED vars

Next ==
  \/ RejectLength
  \/ RejectEdges
  \/ Accept
  \/ ExtendRoute
  \/ EndRound
  \/ EndSearch
  \/ Ended

Spec == Init /\ [][Next]_vars

\* The thread that runs setMZ is not stopped; as in MZ.tla this is weak
\* fairness of Next, said without ENABLED.
FairSpec ==
  Spec /\ (<>[](pc \in {"rejected", "thrown", "done"}) \/ []<><<TRUE>>_vars)
-----------------------------------------------------------------------------
Accepted == pc \in {"search", "thrown", "done"}

passes(c, d) == canStep(m_CLMatrix, m_entrance, m_exit, c, d)

\* The cells that can be reached in at most n steps, as a function of n.
reachableWithin == cellsWithin(m_CLMatrix, m_entrance, m_exit)

\* A cell that can be reached at all can be reached without visiting any cell
\* twice.
reachable == reachableWithin[totalCells]

\* The values every variable of setMZ and updateRoutes may take: positions to
\* be erased are positions of routes of this round, in increasing order.
TypeOK ==
  /\ pc \in {"start", "rejected", "search", "thrown", "done"}
  /\ Accepted => DOMAIN m_CLMatrix = Cells
  /\ search.vVisited \subseteq Cells
  /\ \A j \in 1..Len(search.vRoutes) : search.vRoutes[j] \in Seq(Cells)
  /\ nRoutes \in 0..Len(search.vRoutes)
  /\ k \in 0..(nRoutes + 1)
  /\ \A j \in 1..Len(search.bErase) : search.bErase[j] \in 1..(k - 1)
  /\ \A j \in 2..Len(search.bErase) : search.bErase[j - 1] < search.bErase[j]

\* The routes are open paths from the entrance to different cells, at every
\* moment of the search, and their cells are the visited ones: erasing the
\* routes that were extended loses no cell.
RoutesCoverVisited ==
  Accepted =>
    LET R == search.vRoutes
    IN  /\ \A j \in 1..Len(R) :
             /\ R[j][1] = m_entrance
             /\ \A n \in 2..Len(R[j]) : passes(R[j][n - 1], R[j][n])
             /\ \A n, m \in 1..Len(R[j]) : R[j][n] = R[j][m] => n = m
        /\ search.vVisited = UNION {{R[j][n] : n \in 1..Len(R[j])} : j \in 1..Len(R)}

\* Every route in the list, not only the one to the exit, is a shortest route to
\* each of its cells, at every moment of the search, also in the middle of a
\* round, when routes of two lengths are in the list: no route ever arrives at a
\* cell later than another one would have.
RoutesShortest ==
  Accepted =>
    LET R == search.vRoutes
    IN  \A j \in 1..Len(R) : \A n \in 2..Len(R[j]) :
          R[j][n] \notin reachableWithin[n - 2]

\* When no exception ends it, the search has visited exactly the cells that
\* can be reached.
VisitedExact ==
  /\ Accepted => search.vVisited \subseteq reachable
  /\ pc = "done" => search.vVisited = reachable

\* The first route to arrive at the exit is a shortest one, though the search
\* goes on; without a best route the exit cannot be reached, or is the
\* entrance, of which no route is ever recorded.
BestRouteShortest ==
  Accepted =>
    LET route == search.vBestRoute
    IN  IF search.bFound
        THEN /\ route[1] = m_entrance /\ route[Len(route)] = m_exit
             /\ \A n \in 2..Len(route) : passes(route[n - 1], route[n])
             /\ m_exit \notin reachableWithin[Len(route) - 2]
        ELSE /\ route = << >>
             /\ pc = "done" => m_exit \notin reachable \ {m_entrance}

\* A gap in a border other than the entrance and the exit.
Gap(c) ==
  \/ isRightEdge(c) /\ c # m_entrance /\ ~hasRightWall(m_CLMatrix[c])
  \/ isLeftEdge(c) /\ c # m_exit /\ ~hasLeftWall(m_CLMatrix[c])

\* setMZ ends in an exception exactly when some cell with a gap in the border
\* can be reached, which setMZ would exclude if it called checkOneEntrance and
\* checkOneExit.
ThrowsAtGap ==
  /\ pc = "thrown" => \E c \in reachable : Gap(c)
  /\ pc = "done" => \A c \in reachable : ~Gap(c)

\* Cell c of a maze that is moved down by n cells (n is a number of rows), and
\* a route and the variables of the search there.
movedCell(c, n) == (c + n) % totalCells

movedRoute(route, n) == [j \in 1..Len(route) |-> movedCell(route[j], n)]

movedRoutes(R, n) == [j \in 1..Len(R) |-> movedRoute(R[j], n)]

movedSearch(S, n) ==
  [S EXCEPT !.vRoutes = movedRoutes(@, n),
            !.vVisited = {movedCell(c, n) : c \in @},
            !.vBestRoute = movedRoute(@, n)]

\* A maze wraps around from its last row to its first.  When shiftDown moves
\* the maze that was read down by any number of rows, setMZ accepts it again,
\* and the search takes the same decisions in the same order, one row beside
\* the other: it finds the same routes, moved, the same best route among them,
\* or throws the same exception; and the fewest walls that meet at a vertex are
\* as many as before.
ShiftMovesMaze ==
  pc \in {"thrown", "done"} =>
    \A offset \in 0..Height :
      LET maze == shiftDown([mzString |-> stringOfMatrix,
                             m_entrance |-> m_entrance, m_exit |-> m_exit], offset)
          M == initializeCLMatrix(maze.mzString)
          n == (offset % Height) * Width
      IN  /\ Len(maze.mzString) = totalCells
          /\ checkEdgeCompatibility(M)
          /\ maze.m_entrance \in RightEdge /\ maze.m_exit \in LeftEdge
          /\ updateRoutes(M, maze.m_entrance, maze.m_exit) = movedSearch(search, n)
          /\ picture.m_minIntersections = minIntersections(updateVisual(M))

\* Every call of setMZ comes to an end.
Termination == <>(pc \in {"rejected", "thrown", "done"})
=============================================================================
