------------------------------- MODULE Routes -------------------------------
(***************************************************************************)
(* The search for routes from the entrance (MZ::updateRoutes in MZ.cpp).   *)
(*                                                                         *)
(* The search keeps a list of routes.  In each round every route of the    *)
(* list is extended to the unvisited neighbours of its last cell: each     *)
(* extension is appended to the list, and the routes that were extended    *)
(* are erased from it when the round is over.  A round that extends        *)
(* nothing is the last.  The first route to arrive at the exit is the best *)
(* route.                                                                  *)
(*                                                                         *)
(* The operators below take the matrix M, the entrance and the exit, and a *)
(* record of the search's variables:                                       *)
(*   vRoutes     m_vRoutes                                                 *)
(*   vVisited    m_vVisited, as the set of visited cells                   *)
(*   vBestRoute  m_vBestRoute                                              *)
(*   bFound      bBestRouteFound                                           *)
(*   bErase      the positions in vRoutes of the routes extended so far    *)
(*   thrown      vector::at has thrown out_of_range, nobody catches it     *)
(***************************************************************************)
EXTENDS Grid, SequencesExt

startSearch(entrance) ==
  [vRoutes |-> << <<entrance>> >>, vVisited |-> {entrance},
   vBestRoute |-> << >>, bFound |-> FALSE, bErase |-> << >>, thrown |-> FALSE]

\* Mutation: the search leaves the maze through the entrance.
Mut_canPass(M, entrance, exit, c, s) == ~hasWall(M[c], s) /\ (s = 3 => c # exit)

\* Mutation: the maze ends at its last row.
Mut_canPassSeam(M, entrance, exit, c, s) ==
  /\ ~hasWall(M[c], s)
  /\ s = 1 => c # entrance
  /\ s = 2 => ~isBottomRow(c)
  /\ s = 3 => c # exit

\* The search leaves the maze neither through the entrance nor through the
\* exit; any other gap in the border is not expected.
canPass(M, entrance, exit, c, s) ==
  /\ ~hasWall(M[c], s)
  /\ s = 1 => c # entrance
  /\ s = 3 => c # exit

stepTo(c, s) ==
  CASE s = 0 -> neighBourTop(c)
    [] s = 1 -> neighBourRight(c)
    [] s = 2 -> neighBourBottom(c)
    [] s = 3 -> neighBourLeft(c)

\* Mutation: the best route saved before the exit is appended to it.
Mut_appendRoute(exit, S, k, next) ==
  LET route == S.vRoutes[k]
      arrived == ~S.bFound /\ next = exit
  IN  [S EXCEPT
         !.vRoutes = Append(@, Append(route, next)),
         !.vVisited = @ \cup {next},
         !.bErase = IF @ # << >> /\ @[Len(@)] = k THEN @ ELSE Append(@, k),
         !.bFound = @ \/ arrived,
         !.vBestRoute = IF arrived THEN route ELSE @]

\* Mutation: the cell is not marked as visited.
Mut_appendRouteUnmarked(exit, S, k, next) ==
  LET extended == Append(S.vRoutes[k], next)
      arrived == ~S.bFound /\ next = exit
  IN  [S EXCEPT
         !.vRoutes = Append(@, extended),
         !.bErase = IF @ # << >> /\ @[Len(@)] = k THEN @ ELSE Append(@, k),
         !.bFound = @ \/ arrived,
         !.vBestRoute = IF arrived THEN extended ELSE @]

\* Append route k with the unvisited cell next at its end; k is to be erased.
appendRoute(exit, S, k, next) ==
  LET extended == Append(S.vRoutes[k], next)
      arrived == ~S.bFound /\ next = exit
  IN  [S EXCEPT
         !.vRoutes = Append(@, extended),
         !.vVisited = @ \cup {next},
         !.bErase = IF @ # << >> /\ @[Len(@)] = k THEN @ ELSE Append(@, k),
         !.bFound = @ \/ arrived,
         !.vBestRoute = IF arrived THEN extended ELSE @]

\* Extend route k to side s.  m_vVisited.at(-1) throws.
extendTo(M, entrance, exit, S, k, s) ==
  LET current == Last(S.vRoutes[k])
      next == stepTo(current, s)
  IN  IF S.thrown \/ ~canPass(M, entrance, exit, current, s) THEN S
      ELSE IF next = -1 THEN [S EXCEPT !.thrown = TRUE]
      ELSE IF next \in S.vVisited THEN S
      ELSE appendRoute(exit, S, k, next)

\* The body of the inner loop: top, right, bottom, left, in this order.
extendRoute(M, entrance, exit, S, k) ==
  LET To(T, s) == extendTo(M, entrance, exit, T, k, s)
  IN  To(To(To(To(S, 0), 1), 2), 3)

\* Mutation: erased from the first to the last.
Mut_eraseRoutes(S) ==
  LET n == Len(S.bErase)
      erased[e \in 0..n] ==
        IF e = 0 THEN S.vRoutes ELSE RemoveAt(erased[e - 1], S.bErase[e])
  IN  [S EXCEPT !.vRoutes = erased[n]]

\* The extended routes are erased from the last to the first, so that the
\* positions still to be erased stay valid.
eraseRoutes(S) ==
  LET n == Len(S.bErase)
      erased[e \in 0..n] ==
        IF e = 0 THEN S.vRoutes ELSE RemoveAt(erased[e - 1], S.bErase[n + 1 - e])
  IN  [S EXCEPT !.vRoutes = erased[n]]

\* One round of the outer loop, over the routes there were at its start.
searchRound(M, entrance, exit, S) ==
  LET n == Len(S.vRoutes)
      extended[k \in 0..n] ==
        IF k = 0 THEN [S EXCEPT !.bErase = << >>]
        ELSE extendRoute(M, entrance, exit, extended[k - 1], k)
  IN  IF extended[n].thrown THEN extended[n] ELSE eraseRoutes(extended[n])

\* Mutation: the search ends as soon as the exit is found.
Mut_updateRoutes(M, entrance, exit) ==
  LET search[n \in 0..totalCells] ==
        IF n = 0 THEN startSearch(entrance)
        ELSE LET S == search[n - 1]
             IN  IF S.thrown \/ S.bFound \/ (n > 1 /\ S.bErase = << >>) THEN S
                 ELSE searchRound(M, entrance, exit, S)
  IN  search[totalCells]

\* The whole search: rounds until one extends nothing.  Every other round
\* visits a new cell, so that totalCells rounds are enough.
updateRoutes(M, entrance, exit) ==
  LET search[n \in 0..totalCells] ==
        IF n = 0 THEN startSearch(entrance)
        ELSE LET S == search[n - 1]
             IN  IF S.thrown \/ (n > 1 /\ S.bErase = << >>) THEN S
                 ELSE searchRound(M, entrance, exit, S)
  IN  search[totalCells]

\* m_bAllCellsReachable
allCellsReachable(S) == S.vVisited = Cells
-----------------------------------------------------------------------------
(***************************************************************************)
(* What the search is compared with; no code is modelled here.             *)
(***************************************************************************)

\* The search can go from cell c to cell d in one step.
canStep(M, entrance, exit, c, d) ==
  \E s \in Sides : canPass(M, entrance, exit, c, s) /\ d = stepTo(c, s)

\* The cells one step away from the cells of S.
oneStepFrom(M, entrance, exit, S) ==
  {d \in Cells : \E c \in S : canStep(M, entrance, exit, c, d)}

\* The cells that can be reached in at most n steps, as a function of n.
cellsWithin(M, entrance, exit) ==
  LET within[n \in 0..totalCells] ==
        IF n = 0 THEN {entrance}
        ELSE LET S == within[n - 1]
             IN  S \cup oneStepFrom(M, entrance, exit, S)
  IN  within
=============================================================================
