---------------------------- MODULE MCFixedMaze -----------------------------
(***************************************************************************)
(* MZHandler::Go without GENERATE_NEW: the one maze it gives to setMZ, and *)
(* the same maze moved down by any number of rows.                         *)
(***************************************************************************)
EXTENDS SetMZ

Digits == <<3, 6, 7, 5, 13, 13, 9, 10, 2, 6, 3, 6, 9, 12, 13,
            9, 10, 6, 3, 4, 5, 13, 13, 13, 5, 1, 2, 6, 5, 5,
            5, 13, 9, 0, 6, 2, 6, 5, 3, 14, 9, 14, 3, 12, 13,
            1, 10, 10, 6, 1, 1, 10, 8, 10, 4, 5, 9, 0, 12, 7>>

\* The digits as characters: 'a' is 49.
FixedMaze ==
  [mzString |-> [p \in 1..Len(Digits) |-> internalTohumanReadableChar(Digits[p])],
   m_entrance |-> 49,
   m_exit |-> 35]

Offsets == 0..Height

ShiftedStrings == {shiftDown(FixedMaze, n).mzString : n \in Offsets}

FixedInit ==
  /\ Init
  /\ \E n \in Offsets :
       [mzString |-> mzString, m_entrance |-> m_entrance, m_exit |-> m_exit]
         = shiftDown(FixedMaze, n)

FixedSpec == FixedInit /\ [][Next]_vars

\* Go goes on to print the maze: setMZ neither refuses it nor throws, and it is
\* one that Go would store, with every cell reachable, a wall at every vertex
\* and a best route, which is a shortest one, through more than 40 percent of
\* the cells.
FixedMazeGood ==
  /\ pc \notin {"rejected", "thrown"}
  /\ BestRouteShortest
  /\ pc = "done" =>
       /\ allCellsReachable(search)
       /\ picture.m_minIntersections > 0
       /\ 100 * Len(search.vBestRoute) > 40 * totalCells
=============================================================================
