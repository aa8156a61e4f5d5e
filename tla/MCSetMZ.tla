------------------------------ MODULE MCSetMZ -------------------------------
(***************************************************************************)
(* setMZ on all mazes of a small grid.                                     *)
(***************************************************************************)
EXTENDS SetMZ, Walls

BorderWalls == (RightEdge \X {1}) \cup (LeftEdge \X {3})

\* The string of the maze with the walls W, borders included.
stringOf(W) ==
  [p \in 1..totalCells |->
     LET c == p - 1
         walled(s) == IF neighBour(c, s) = -1 THEN <<c, s>> \in W
                                              ELSE wallAt(c, s) \in W
         weight(s) == IF walled(s) THEN WallWeight(s) ELSE 0
     IN  internalTohumanReadableChar(weight(0) + weight(1) + weight(2) + weight(3))]

\* All inner walls; borders with a gap or two.
Mazes == {stringOf(W \cup (BorderWalls \ gaps)) :
            W \in SUBSET InnerWalls, gaps \in {{a, b} : a, b \in BorderWalls}}

\* Strings of another length, and strings whose first cell has walls that its
\* neighbours have not.
Flawed == {<< >>, [p \in 1..(totalCells + 1) |-> 0]}
          \cup {[stringOf({}) EXCEPT ![1] = n] : n \in 1..9}

\* setMZ takes a character that is no digit (55 is 'g') for a cell without
\* walls.
NoDigits == {[p \in 1..totalCells |-> 55]}

MCStrings == Mazes \cup Flawed \cup NoDigits
=============================================================================
