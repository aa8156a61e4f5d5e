------------------------------- MODULE Walls --------------------------------
(***************************************************************************)
(* What a maze is, apart from how the program stores it: the set of its    *)
(* inner walls.  The definitions here are the reference the program's      *)
(* computations are compared with; none of them models code.               *)
(***************************************************************************)
EXTENDS Grid, FiniteSets, Sequences

\* A pair <<c, s>> is the wall at side s of cell c.  Every inner wall is the
\* right or the bottom wall of exactly one cell.
InnerWalls == {w \in Cells \X {1, 2} : w[2] = 1 => ~isRightEdge(w[1])}

\* The inner wall at any side s of cell c (c has a neighbour there).
wallAt(c, s) ==
  CASE s \in {1, 2} -> <<c, s>>
    [] s = 0 -> <<neighBour(c, 0), 2>>
    [] s = 3 -> <<neighBour(c, 3), 1>>

\* The inner walls of a matrix of cells, as the cell left of or above a
\* wall sees them.
wallsOf(M) == {w \in InnerWalls : hasWall(M[w[1]], w[2])}

\* No set of cells is walled off from the others (from cell 0 among them).
Connected(W) ==
  \A S \in SUBSET (Cells \ {0}) :
    S # {} =>
      \E w \in InnerWalls \ W : (w[1] \in S) # (neighBour(w[1], w[2]) \in S)

\* The cells one can reach from cell c in at most n moves between cells not
\* separated by a wall of W, as a function of n.
cellsAfter(W, c) ==
  LET beside(S) == {d \in Cells : \E w \in InnerWalls \ W :
                      \/ w[1] = d /\ neighBour(w[1], w[2]) \in S
                      \/ w[1] \in S /\ neighBour(w[1], w[2]) = d}
      within[n \in 0..totalCells] ==
        IF n = 0 THEN {c} ELSE within[n - 1] \cup beside(within[n - 1])
  IN  within

\* A sequence of different cells, each beside the next with no wall of W in
\* between.
isPath(W, route) ==
  /\ \A j, k \in 1..Len(route) : route[j] = route[k] => j = k
  /\ \A k \in 2..Len(route) :
       \E w \in InnerWalls \ W :
         {w[1], neighBour(w[1], w[2])} = {route[k - 1], route[k]}
=============================================================================
