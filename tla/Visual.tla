------------------------------- MODULE Visual -------------------------------
(***************************************************************************)
(* The picture of a maze and its wall intersections (updateVisual and      *)
(* updateIntersections of MZ.cpp).                                         *)
(*                                                                         *)
(* The picture has 2 * Width + 1 columns and Height + 1 rows.  Odd columns *)
(* hold horizontal walls, even columns vertical walls; the vertical walls  *)
(* of cell row y are in picture row y + 1.  A vertex is a corner of cells; *)
(* vertex x + y * (Width + 1) is the upper left corner of the cell in      *)
(* column x of row y (or, for x = Width, on the right border).             *)
(***************************************************************************)
EXTENDS Grid, FiniteSets

\* The side of the array the picture is drawn in.
BIG_NUMBER == 100

widthVisual == 2 * Width + 1

heightVisual == Height + 1

\* A larger maze is drawn outside of the array.
ASSUME VisualAssumption ==
  widthVisual <= BIG_NUMBER /\ heightVisual <= BIG_NUMBER

xOdd(c) == (2 * c + 1) % (2 * Width)

xEven(c) == (2 * c) % (2 * Width)

\* The points <<x, y>> of the array that are set to 1.
updateVisual(M) ==
       {<<xOdd(c), getRowNumber(c)>> : c \in {d \in Cells : hasTopWall(M[d])}}
  \cup {<<xOdd(c), getRowNumber(c) + 1>> :
          c \in {d \in Cells : isBottomRow(d) /\ hasBottomWall(M[d])}}
  \cup {<<xEven(c), getRowNumber(c) + 1>> :
          c \in {d \in Cells : hasLeftWall(M[d])}}
  \cup {<<xEven(c) + 2, getRowNumber(c) + 1>> :
          c \in {d \in Cells : isRightEdge(d) /\ hasRightWall(M[d])}}

\* m_CLMatrixVisual: the picture copied row by row into one vector.
CLMatrixVisual(V, index) ==
  <<index % widthVisual, index \div widthVisual>> \in V

Vertices == 0..(Height * (Width + 1) - 1)

vertexColumn(v) == v % (Width + 1)

vertexRow(v) == v \div (Width + 1)

\* Mutation: the wraparound of the first row in every row.
Mut_vertexWalls(V, v) ==
  LET x == vertexColumn(v)
      total == heightVisual * widthVisual
      visualIndex == 2 * x + vertexRow(v) * widthVisual
  IN  {n \in {"left", "right", "bottom", "top", "self"} :
         CASE n = "left" -> x # 0 /\ CLMatrixVisual(V, visualIndex - 1)
           [] n = "right" -> x # Width /\ CLMatrixVisual(V, visualIndex + 1)
           [] n = "bottom" ->
                CLMatrixVisual(V, (visualIndex + widthVisual) % total)
           [] n = "top" ->
                CLMatrixVisual(V, (visualIndex - widthVisual + total) % total)
           [] n = "self" -> CLMatrixVisual(V, visualIndex)}

\* The walls that meet at vertex v, by the places of the picture that are
\* looked at.  The first row looks at the last row of the picture for the
\* wall above it; the other rows find that wall at the vertex itself.
vertexWalls(V, v) ==
  LET x == vertexColumn(v)
      y == vertexRow(v)
      total == heightVisual * widthVisual
      visualIndex == 2 * x + y * widthVisual
  IN  {n \in {"left", "right", "bottom", "top", "self"} :
         CASE n = "left" -> x # 0 /\ CLMatrixVisual(V, visualIndex - 1)
           [] n = "right" -> x # Width /\ CLMatrixVisual(V, visualIndex + 1)
           [] n = "bottom" ->
                CLMatrixVisual(V, (visualIndex + widthVisual) % total)
           [] n = "top" ->
                /\ y = 0
                /\ CLMatrixVisual(V, (visualIndex - widthVisual + total) % total)
           [] n = "self" -> CLMatrixVisual(V, visualIndex)}

nIntersections(V, v) == Cardinality(vertexWalls(V, v))

\* m_minIntersections starts at 5, more than any vertex can have.
minIntersections(V) ==
  LET counts == {5} \cup {nIntersections(V, v) : v \in Vertices}
  IN  CHOOSE n \in counts : \A k \in counts : n <= k

\* Mutation: the cell above and to the right.
Mut_cellID(v) == (vertexRow(v) - 1) * Width + vertexColumn(v)

\* The cell whose right wall is to be added for a vertex without walls: the
\* one above and to the left of it.
cellID(v) == (vertexRow(v) - 1) * Width + (vertexColumn(v) - 1)

\* Mutation: cell 0 taken for no cell.
Mut_intersectionProblems(V) ==
  {v \in Vertices : vertexWalls(V, v) = {} /\ cellID(v) > 0}

\* m_vIntersectionProblems, as the set of the vertices it is made from; the
\* vector lists cellID(v) for them in increasing order of v.
intersectionProblems(V) ==
  {v \in Vertices : vertexWalls(V, v) = {} /\ cellID(v) >= 0}
=============================================================================
