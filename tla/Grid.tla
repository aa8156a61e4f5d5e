-------------------------------- MODULE Grid --------------------------------
(***************************************************************************)
(* The geometry of a maze (the neighbour and edge methods of MZ.cpp).      *)
(*                                                                         *)
(* Cells are numbered row by row.  The maze is a cylinder: the row above   *)
(* the first is the last one, while the left and the right border are      *)
(* real borders.  The entrance is an opening of the right border, the exit *)
(* one of the left border.                                                 *)
(***************************************************************************)
EXTENDS CL

CONSTANTS Width, Height   \* m_width, m_height

\* The smallest grid for which the code's divisions are defined.
ASSUME SizeAssumption == Width \in Nat \ {0} /\ Height \in Nat \ {0}

totalCells == Width * Height   \* m_totalCells

Cells == 0..(totalCells - 1)

isLeftEdge(c) == c % Width = 0

isRightEdge(c) == (c + 1) % Width = 0

isBottomRow(c) == c >= totalCells - Width

getRowNumber(c) == c \div Width

neighBourTop(c) == (c - Width + totalCells) % totalCells

neighBourBottom(c) == (c + Width) % totalCells

neighBourRight(c) == IF isRightEdge(c) THEN -1 ELSE c + 1

neighBourLeft(c) == IF isLeftEdge(c) THEN -1 ELSE c - 1

\* Mutation: the cells confused.
Mut_isLeftOf(c, d) == getRowNumber(c) = getRowNumber(d) /\ d = c - 1

isLeftOf(c, d) == getRowNumber(c) = getRowNumber(d) /\ c = d - 1

\* Mutation: the same side of the neighbour.
Mut_mirroredWall(s) == s

\* mirroredWall in addRandomWall and removeWallAt.
mirroredWall(s) == (s + 2) % 4

\* The cell on the other side of wall s of cell c, as addRandomWall and
\* removeWallAt compute it; -1 when no branch of theirs applies.
neighBour(c, s) ==
  CASE s = 0 -> neighBourTop(c)
    [] s = 1 /\ ~isRightEdge(c) -> c + 1
    [] s = 2 -> neighBourBottom(c)
    [] s = 3 /\ ~isLeftEdge(c) -> c - 1
    [] OTHER -> -1

\* Both sides of every inner wall agree.
checkEdgeCompatibility(M) ==
  \A c \in Cells :
    /\ ~isLeftEdge(c)
         => (hasLeftWall(M[c]) <=> hasRightWall(M[neighBourLeft(c)]))
    /\ ~isRightEdge(c)
         => (hasRightWall(M[c]) <=> hasLeftWall(M[neighBourRight(c)]))
    /\ hasTopWall(M[c]) <=> hasBottomWall(M[neighBourTop(c)])
    /\ hasBottomWall(M[c]) <=> hasTopWall(M[neighBourBottom(c)])
=============================================================================
