--------------------------- MODULE VectorsProofs ----------------------------
(***************************************************************************)
(* What an MZ object computes from its matrix of cells, on a grid of any   *)
(* size: the cylinder of cells, the picture and the walls found in it, and *)
(* the search for routes, which finds what can be reached.  The invariant  *)
(* of the search's two nested loops is kept by the extension of a route to *)
(* one side, by the erasure of the extended routes, and by the rounds of   *)
(* the whole search.                                                       *)
(***************************************************************************)
EXTENDS Vectors, FiniteSetTheorems, SequenceTheorems, TLAPS

(***************************************************************************)
(* The geometry of the cylinder.                                           *)
(***************************************************************************)

\* The arithmetic of row-wise numbering.
LEMMA DivMod ==
  ASSUME NEW W \in Nat \ {0}, NEW q \in Int, NEW r \in 0..(W - 1)
  PROVE  /\ (q * W + r) % W = r
         /\ (q * W + r) \div W = q
<1>1. (q * W + r) % W = r BY Z3
<1>2. (q * W + r) \div W = q BY Z3
<1>. QED BY <1>1, <1>2

\* The wraparound of the first and the last row.
LEMMA Wraparound ==
  ASSUME NEW N \in Nat \ {0}, NEW W \in 1..N, NEW a \in 0..(N - 1)
  PROVE  /\ (a - W + N) % N = IF a < W THEN a - W + N ELSE a - W
         /\ (a + W) % N = IF a + W < N THEN a + W ELSE a + W - N
<1>1. CASE a < W
  <2>1. a - W + N \in 0..(N - 1) BY <1>1
  <2>. QED BY <1>1, <2>1, Z3
<1>2. CASE ~(a < W)
  <2>1. a - W \in 0..(N - 1) BY <1>2
  <2>. QED BY <1>2, <2>1, Z3
<1>. QED BY <1>1, <1>2

\* The size of the grid as the proofs use it.
LEMMA SizeFacts ==
  /\ Width \in Nat \ {0} /\ Height \in Nat \ {0}
  /\ totalCells \in Nat \ {0}
  /\ Width <= totalCells
  /\ totalCells % Width = 0
<1>1. Width \in Nat \ {0} /\ Height \in Nat \ {0}
  BY SizeAssumption
<1>2. totalCells \in Nat \ {0}
  BY <1>1, Z3 DEF totalCells
<1>3. Width <= totalCells
  BY <1>1, Z3 DEF totalCells
<1>4. totalCells % Width = 0
  BY <1>1, Z3 DEF totalCells
<1>. QED BY <1>1, <1>2, <1>3, <1>4

\* The cell on the other side of a wall that is not on the border, seen from
\* there: neighBour (in addRandomWall and removeWallAt) and mirroredWall are
\* inverse to each other.
LEMMA NeighBours ==
  ASSUME NEW c \in Cells, NEW s \in Sides,
         s = 1 => ~isRightEdge(c), s = 3 => ~isLeftEdge(c)
  PROVE  /\ mirroredWall(s) \in Sides
         /\ mirroredWall(mirroredWall(s)) = s
         /\ neighBour(c, s) \in Cells
         /\ mirroredWall(s) = 1 => ~isRightEdge(neighBour(c, s))
         /\ mirroredWall(s) = 3 => ~isLeftEdge(neighBour(c, s))
         /\ neighBour(neighBour(c, s), mirroredWall(s)) = c
<1>. DEFINE N == totalCells
            W == Width
            top(a) == (a - W + N) % N
            bottom(a) == (a + W) % N
<1>1. N \in Nat \ {0} /\ W \in Nat \ {0} /\ W <= N /\ N % W = 0
  BY SizeFacts
<1>2. c \in 0..(N - 1)
  BY DEF Cells
<1>3. \A a \in 0..(N - 1) : top(a) = IF a < W THEN a - W + N ELSE a - W
  BY <1>1, Wraparound
<1>4. \A a \in 0..(N - 1) : bottom(a) = IF a + W < N THEN a + W ELSE a + W - N
  BY <1>1, Wraparound
<1>5. mirroredWall(s) \in Sides /\ mirroredWall(mirroredWall(s)) = s
  BY DEF mirroredWall, Sides
<1>6. CASE s = 0
  <2>1. mirroredWall(s) = 2
    BY <1>6 DEF mirroredWall
  <2>2. neighBour(c, s) = top(c)
    BY <1>6 DEF neighBour, neighBourTop
  <2>3. top(c) \in 0..(N - 1)
    <3>. HIDE DEF top, N, W
    <3>. QED BY <1>1, <1>2, <1>3
  <2>5. bottom(top(c)) = c
    <3>. HIDE DEF top, bottom, N, W
    <3>. QED BY <1>1, <1>2, <1>3, <1>4, <2>3
  <2>6. neighBour(top(c), 2) = bottom(top(c))
    BY DEF neighBour, neighBourBottom
  <2>. QED BY <1>5, <2>1, <2>2, <2>3, <2>5, <2>6 DEF Cells
<1>7. CASE s = 2
  <2>1. mirroredWall(s) = 0
    BY <1>7 DEF mirroredWall
  <2>2. neighBour(c, s) = bottom(c)
    BY <1>7 DEF neighBour, neighBourBottom
  <2>3. bottom(c) \in 0..(N - 1)
    <3>. HIDE DEF bottom, N, W
    <3>. QED BY <1>1, <1>2, <1>4
  <2>5. top(bottom(c)) = c
    <3>. HIDE DEF top, bottom, N, W
    <3>. QED BY <1>1, <1>2, <1>3, <1>4, <2>3
  <2>6. neighBour(bottom(c), 0) = top(bottom(c))
    BY DEF neighBour, neighBourTop
  <2>. QED BY <1>5, <2>1, <2>2, <2>3, <2>5, <2>6 DEF Cells
<1>8. CASE s = 1
  <2>1. mirroredWall(s) = 3
    BY <1>8 DEF mirroredWall
  <2>2. neighBour(c, s) = c + 1 /\ (c + 1) % W # 0
    BY <1>8 DEF neighBour, isRightEdge
  <2>3. c + 1 \in 0..(N - 1)
    BY <1>1, <1>2, <2>2
  <2>4. ~isLeftEdge(c + 1)
    BY <2>2 DEF isLeftEdge
  <2>5. neighBour(c + 1, 3) = c
    <3>. DEFINE d == c + 1
    <3>1. d - 1 = c /\ ~isLeftEdge(d)
      BY <1>2, <2>4
    <3>. HIDE DEF d
    <3>2. neighBour(d, 3) = d - 1
      BY <3>1 DEF neighBour
    <3>. QED BY <3>1, <3>2 DEF d
  <2>. QED BY <1>2, <1>5, <2>1, <2>2, <2>3, <2>4, <2>5 DEF Cells
<1>9. CASE s = 3
  <2>1. mirroredWall(s) = 1
    BY <1>9 DEF mirroredWall
  <2>2. neighBour(c, s) = c - 1 /\ c % W # 0
    BY <1>9 DEF neighBour, isLeftEdge
  <2>3. c # 0
    BY <1>1, <2>2
  <2>4. ~isRightEdge(c - 1)
    BY <1>2, <2>2 DEF isRightEdge
  <2>5. neighBour(c - 1, 1) = c
    <3>. DEFINE d == c - 1
    <3>1. d + 1 = c /\ ~isRightEdge(d)
      BY <1>2, <2>4
    <3>. HIDE DEF d
    <3>2. neighBour(d, 1) = d + 1
      BY <3>1 DEF neighBour
    <3>. QED BY <3>1, <3>2 DEF d
  <2>. QED BY <1>1, <1>2, <1>5, <2>1, <2>2, <2>3, <2>4, <2>5 DEF Cells
<1>. QED BY <1>6, <1>7, <1>8, <1>9 DEF Sides

(***************************************************************************)
(* Columns, rows and vertices, and what the list of vertices without walls *)
(* (updateIntersections) says about the cells.                             *)
(***************************************************************************)

\* The cell in column x of row y.
cellAt(x, y) == y * Width + x

LEMMA CellAt ==
  ASSUME NEW x \in 0..(Width - 1), NEW y \in 0..(Height - 1)
  PROVE  /\ cellAt(x, y) \in Cells
         /\ getRowNumber(cellAt(x, y)) = y
         /\ xEven(cellAt(x, y)) = 2 * x
         /\ xOdd(cellAt(x, y)) = 2 * x + 1
         /\ isLeftEdge(cellAt(x, y)) <=> x = 0
         /\ isRightEdge(cellAt(x, y)) <=> x = Width - 1
         /\ isBottomRow(cellAt(x, y)) <=> y = Height - 1
<1>. DEFINE W == Width
            H == Height
            c == y * W + x
<1>1. W \in Nat \ {0} /\ H \in Nat \ {0}
  BY SizeFacts
<1>. HIDE DEF W, H
<1>2. x \in 0..(W - 1) /\ y \in 0..(H - 1)
  BY DEF W, H
<1>3. c \in Nat
  BY <1>1, <1>2, Z3
<1>4. c <= W * H - 1
  <2>1. y * W <= (H - 1) * W
    BY <1>1, <1>2, Z3
  <2>. QED BY <1>1, <1>2, <2>1, Z3
<1>5. c % W = x /\ c \div W = y
  BY <1>1, <1>2, DivMod
<1>6. ASSUME NEW o \in 0..1 PROVE (2 * c + o) % (2 * W) = 2 * x + o
  <2>. DEFINE D == 2 * W
              r == 2 * x + o
  <2>1. D \in Nat \ {0} /\ r \in 0..(D - 1)
    BY <1>1, <1>2
  <2>2. 2 * c + o = y * D + r
    BY <1>1, <1>2, Z3
  <2>. HIDE DEF D, r
  <2>3. (y * D + r) % D = r
    BY <1>2, <2>1, DivMod
  <2>. QED BY <2>2, <2>3 DEF D, r
<1>7. (c + 1) % W = 0 <=> x = W - 1
  <2>1. CASE x = W - 1
    <3>1. c + 1 = (y + 1) * W + 0
      BY <1>1, <1>2, <2>1, Z3
    <3>2. ((y + 1) * W + 0) % W = 0
      BY <1>1, <1>2, DivMod
    <3>. QED BY <2>1, <3>1, <3>2
  <2>2. CASE x # W - 1
    <3>. DEFINE r == x + 1
    <3>1. r \in 0..(W - 1) /\ r # 0 /\ c + 1 = y * W + r
      BY <1>1, <1>2, <2>2, Z3
    <3>2. y \in Int
      BY <1>2
    <3>3. (y * W + r) % W = r
      <4>. HIDE DEF r
      <4>. QED BY <1>1, <3>1, <3>2, DivMod
    <3>. QED BY <2>2, <3>1, <3>3
  <2>. QED BY <2>1, <2>2
<1>8. c >= W * H - W <=> y = H - 1
  <2>1. CASE y = H - 1
    BY <1>1, <1>2, <2>1, Z3
  <2>2. CASE y # H - 1
    <3>1. y * W <= (H - 2) * W
      BY <1>1, <1>2, <2>2, Z3
    <3>2. (H - 2) * W = W * H - 2 * W
      BY <1>1, Z3
    <3>. QED BY <1>1, <1>2, <2>2, <3>1, <3>2, Z3
  <2>. QED BY <2>1, <2>2
<1>9. cellAt(x, y) = c /\ c \in Cells
  BY <1>1, <1>3, <1>4 DEF cellAt, Cells, totalCells, W, H
<1>. HIDE DEF c
<1>10. getRowNumber(c) = y /\ (isLeftEdge(c) <=> x = 0)
  BY <1>5 DEF getRowNumber, isLeftEdge, W
<1>11. xEven(c) = 2 * x /\ xOdd(c) = 2 * x + 1
  <2>1. (2 * c + 0) % (2 * W) = 2 * x + 0 /\ (2 * c + 1) % (2 * W) = 2 * x + 1
    BY <1>6
  <2>2. 2 * c + 0 = 2 * c /\ 2 * x + 0 = 2 * x
    BY <1>2, <1>3
  <2>. QED BY <2>1, <2>2 DEF xEven, xOdd, W
<1>12. isRightEdge(c) <=> x = W - 1
  BY <1>7 DEF isRightEdge, W
<1>13. isBottomRow(c) <=> y = H - 1
  BY <1>8 DEF isBottomRow, totalCells, W, H
<1>. QED BY <1>9, <1>10, <1>11, <1>12, <1>13 DEF W, H

\* Every cell is in a column and in a row.
LEMMA CellsAre ==
  ASSUME NEW c \in Cells
  PROVE  \E x \in 0..(Width - 1), y \in 0..(Height - 1) : c = cellAt(x, y)
<1>. DEFINE W == Width
            H == Height
            x == c % W
            y == c \div W
<1>1. W \in Nat \ {0} /\ H \in Nat \ {0} /\ c \in 0..(W * H - 1) /\ c \in Nat
  BY SizeFacts DEF Cells, totalCells
<1>. HIDE DEF W, H
<1>2. x \in 0..(W - 1) /\ y \in Int /\ c = y * W + x
  BY <1>1, Z3
<1>. HIDE DEF x, y
<1>3. y >= 0
  BY <1>1, <1>2, Z3
<1>4. y < H
  <2>. SUFFICES ASSUME y >= H PROVE FALSE
    BY <1>1, <1>2
  <2>1. y * W >= H * W
    BY <1>1, <1>2, Z3
  <2>. QED BY <1>1, <1>2, <2>1, Z3
<1>5. y \in 0..(H - 1)
  BY <1>1, <1>2, <1>3, <1>4
<1>6. c = cellAt(x, y)
  BY <1>2 DEF cellAt, W
<1>. QED BY <1>2, <1>5, <1>6 DEF W, H

\* A cell is in one column and one row only.
LEMMA CellsDiffer ==
  ASSUME NEW x \in 0..(Width - 1), NEW y \in Int,
         NEW z \in 0..(Width - 1), NEW u \in Int, cellAt(x, y) = cellAt(z, u)
  PROVE  x = z /\ y = u
<1>1. /\ (y * Width + x) % Width = x /\ (y * Width + x) \div Width = y
      /\ (u * Width + z) % Width = z /\ (u * Width + z) \div Width = u
  BY SizeFacts, DivMod
<1>. QED BY <1>1 DEF cellAt

\* The rows around a row.
rowAbove(y) == IF y = 0 THEN Height - 1 ELSE y - 1

rowBelow(y) == IF y = Height - 1 THEN 0 ELSE y + 1

LEMMA CellsAround ==
  ASSUME NEW x \in 0..(Width - 1), NEW y \in 0..(Height - 1)
  PROVE  /\ rowAbove(y) \in 0..(Height - 1)
         /\ rowBelow(y) \in 0..(Height - 1)
         /\ neighBourTop(cellAt(x, y)) = cellAt(x, rowAbove(y))
         /\ neighBourBottom(cellAt(x, y)) = cellAt(x, rowBelow(y))
         /\ cellAt(x, y) + 1 = cellAt(x + 1, y)
<1>. DEFINE W == Width
            H == Height
            N == W * H
            c == y * W + x
<1>1. W \in Nat \ {0} /\ H \in Nat \ {0} /\ N \in Nat \ {0} /\ W <= N
  BY SizeFacts DEF totalCells
<1>2. c \in 0..(N - 1)
  BY CellAt DEF cellAt, Cells, totalCells
<1>3. y >= H - 1 <=> c + W >= N
  <2>1. isBottomRow(c) <=> y = H - 1
    BY CellAt DEF cellAt
  <2>2. isBottomRow(c) <=> c >= N - W
    BY DEF isBottomRow, totalCells
  <2>. HIDE DEF N, c, W, H
  <2>3. y \in 0..(H - 1)
    BY DEF H
  <2>. QED BY <1>1, <1>2, <2>1, <2>2, <2>3
<1>. HIDE DEF W, H
<1>4. x \in 0..(W - 1) /\ y \in 0..(H - 1)
  BY DEF W, H
<1>5. y = 0 <=> c < W
  <2>1. CASE y = 0
    BY <1>1, <1>4, <2>1
  <2>2. CASE y # 0
    <3>1. y * W >= W
      BY <1>1, <1>4, <2>2, Z3
    <3>. QED BY <1>1, <1>4, <2>2, <3>1, Z3
  <2>. QED BY <2>1, <2>2
<1>6. /\ (c - W + N) % N = IF c < W THEN c - W + N ELSE c - W
      /\ (c + W) % N = IF c + W < N THEN c + W ELSE c + W - N
  <2>. HIDE DEF c, N
  <2>1. W \in 1..N
    BY <1>1
  <2>. QED BY <1>1, <1>2, <2>1, Wraparound
<1>7. (c - W + N) % N = rowAbove(y) * W + x
  <2>1. CASE y = 0
    <3>1. c - W + N = (H - 1) * W + x
      BY <1>1, <1>4, <2>1, Z3
    <3>. QED BY <1>5, <1>6, <2>1, <3>1 DEF rowAbove, H
  <2>2. CASE y # 0
    <3>1. c - W = (y - 1) * W + x
      BY <1>1, <1>4, Z3
    <3>. QED BY <1>5, <1>6, <2>2, <3>1 DEF rowAbove
  <2>. QED BY <2>1, <2>2
<1>8. (c + W) % N = rowBelow(y) * W + x
  <2>1. CASE y = H - 1
    <3>1. c + W - N = 0 * W + x
      BY <1>1, <1>4, <2>1, Z3
    <3>2. ~(c + W < N)
      BY <1>1, <1>2, <1>3, <1>4, <2>1
    <3>. QED BY <1>6, <2>1, <3>1, <3>2 DEF rowBelow, H
  <2>2. CASE y # H - 1
    <3>1. c + W = (y + 1) * W + x
      BY <1>1, <1>4, Z3
    <3>2. c + W < N
      BY <1>1, <1>2, <1>3, <1>4, <2>2
    <3>. QED BY <1>6, <2>2, <3>1, <3>2 DEF rowBelow, H
  <2>. QED BY <2>1, <2>2
<1>9. rowAbove(y) \in 0..(H - 1) /\ rowBelow(y) \in 0..(H - 1)
  BY <1>1, <1>4 DEF rowAbove, rowBelow, H
<1>10. c + 1 = y * W + (x + 1)
  BY <1>1, <1>4, Z3
<1>. QED BY <1>7, <1>8, <1>9, <1>10
     DEF neighBourTop, neighBourBottom, cellAt, totalCells, W, H

(***************************************************************************)
(* The picture: what updateVisual draws and where updateIntersections      *)
(* looks for it.                                                           *)
(***************************************************************************)

\* There is a wall in row y left of column x, for x = Width the right border.
verticalWall(M, x, y) ==
  IF x = Width THEN hasRightWall(M[cellAt(Width - 1, y)]) ELSE hasLeftWall(M[cellAt(x, y)])

\* The vertical walls are in the even columns.
LEMMA VerticalsDrawn ==
  ASSUME NEW M, NEW x \in 0..Width, NEW y \in Int
  PROVE  <<2 * x, y>> \in updateVisual(M) <=> y \in 1..Height /\ verticalWall(M, x, y - 1)
<1>. DEFINE row(u) == u - 1
<1>1. Width \in Nat \ {0} /\ Height \in Nat \ {0} /\ Width - 1 \in 0..(Width - 1)
  BY SizeFacts
<1>2. \A z \in 0..(Width - 1), u \in 0..(Height - 1) :
        /\ 2 * x # xOdd(cellAt(z, u))
        /\ getRowNumber(cellAt(z, u)) = u /\ u + 1 \in 1..Height
        /\ 2 * x = xEven(cellAt(z, u)) <=> x = z
        /\ isRightEdge(cellAt(z, u)) <=> z = Width - 1
        /\ 2 * x = xEven(cellAt(z, u)) + 2 <=> x = z + 1
  BY <1>1, CellAt
<1>3. ASSUME <<2 * x, y>> \in updateVisual(M)
      PROVE  y \in 1..Height /\ verticalWall(M, x, y - 1)
  <2>1. PICK c \in Cells :
          \/ 2 * x = xOdd(c)
          \/ hasLeftWall(M[c]) /\ 2 * x = xEven(c) /\ y = getRowNumber(c) + 1
          \/ /\ isRightEdge(c) /\ hasRightWall(M[c])
             /\ 2 * x = xEven(c) + 2 /\ y = getRowNumber(c) + 1
    BY <1>3 DEF updateVisual
  <2>2. PICK z \in 0..(Width - 1), u \in 0..(Height - 1) : c = cellAt(z, u)
    BY CellsAre
  <2>3. \/ hasLeftWall(M[cellAt(z, u)]) /\ x = z /\ y = u + 1
        \/ hasRightWall(M[cellAt(z, u)]) /\ z = Width - 1 /\ x = z + 1 /\ y = u + 1
    BY <1>2, <2>1, <2>2
  <2>4. y \in 1..Height /\ u = y - 1
    BY <1>1, <1>2, <2>3
  <2>5. CASE hasLeftWall(M[cellAt(z, u)]) /\ x = z
    BY <1>1, <2>4, <2>5 DEF verticalWall
  <2>6. CASE hasRightWall(M[cellAt(z, u)]) /\ z = Width - 1 /\ x = z + 1
    BY <1>1, <2>4, <2>6 DEF verticalWall
  <2>. QED BY <2>3, <2>4, <2>5, <2>6
<1>4. ASSUME y \in 1..Height, verticalWall(M, x, y - 1)
      PROVE  <<2 * x, y>> \in updateVisual(M)
  <2>. DEFINE u == y - 1
              z == IF x = Width THEN Width - 1 ELSE x
              c == cellAt(z, u)
  <2>1. u \in 0..(Height - 1) /\ z \in 0..(Width - 1) /\ u + 1 = y
    BY <1>1, <1>4
  <2>2. IF x = Width THEN hasRightWall(M[c]) ELSE hasLeftWall(M[c])
    BY <1>4 DEF verticalWall
  <2>3. x = Width => x = z + 1 /\ z = Width - 1
    BY <1>1
  <2>4. x # Width => x = z
    OBVIOUS
  <2>5. c \in Cells
    <3>. HIDE DEF z, u
    <3>. QED BY <2>1, CellAt
  <2>. HIDE DEF z, u
  <2>6. /\ getRowNumber(c) = u
        /\ x # Width => 2 * x = xEven(c)
        /\ x = Width => isRightEdge(c) /\ 2 * x = xEven(c) + 2
    BY <1>2, <2>1, <2>3, <2>4
  <2>. HIDE DEF c
  <2>7. CASE x = Width
    <3>1. <<xEven(c) + 2, getRowNumber(c) + 1>> \in updateVisual(M)
      BY <2>2, <2>5, <2>6, <2>7 DEF updateVisual
    <3>. QED BY <2>1, <2>6, <2>7, <3>1
  <2>8. CASE x # Width
    <3>1. <<xEven(c), getRowNumber(c) + 1>> \in updateVisual(M)
      BY <2>2, <2>5, <2>6, <2>8 DEF updateVisual
    <3>. QED BY <2>1, <2>6, <2>8, <3>1
  <2>. QED BY <2>7, <2>8
<1>. QED BY <1>3, <1>4

\* The horizontal walls above the rows are in the odd columns.
LEMMA HorizontalsDrawn ==
  ASSUME NEW M, NEW x \in 0..(Width - 1), NEW y \in 0..(Height - 1)
  PROVE  <<2 * x + 1, y>> \in updateVisual(M) <=> hasTopWall(M[cellAt(x, y)])
<1>1. Width \in Nat \ {0} /\ Height \in Nat \ {0}
  BY SizeFacts
<1>2. \A z \in 0..(Width - 1), u \in 0..(Height - 1) :
        /\ 2 * x + 1 # xEven(cellAt(z, u)) /\ 2 * x + 1 # xEven(cellAt(z, u)) + 2
        /\ getRowNumber(cellAt(z, u)) = u
        /\ 2 * x + 1 = xOdd(cellAt(z, u)) <=> x = z
        /\ isBottomRow(cellAt(z, u)) => y # u + 1
  BY <1>1, CellAt
<1>3. ASSUME <<2 * x + 1, y>> \in updateVisual(M)
      PROVE  hasTopWall(M[cellAt(x, y)])
  <2>1. PICK c \in Cells :
          \/ hasTopWall(M[c]) /\ 2 * x + 1 = xOdd(c) /\ y = getRowNumber(c)
          \/ isBottomRow(c) /\ y = getRowNumber(c) + 1
          \/ 2 * x + 1 = xEven(c)
          \/ 2 * x + 1 = xEven(c) + 2
    BY <1>3 DEF updateVisual
  <2>2. PICK z \in 0..(Width - 1), u \in 0..(Height - 1) : c = cellAt(z, u)
    BY CellsAre
  <2>. QED BY <1>2, <2>1, <2>2
<1>4. ASSUME hasTopWall(M[cellAt(x, y)])
      PROVE  <<2 * x + 1, y>> \in updateVisual(M)
  <2>. DEFINE c == cellAt(x, y)
  <2>1. c \in Cells /\ xOdd(c) = 2 * x + 1 /\ getRowNumber(c) = y
    BY CellAt
  <2>2. hasTopWall(M[c])
    BY <1>4
  <2>. HIDE DEF c
  <2>3. <<xOdd(c), getRowNumber(c)>> \in updateVisual(M)
    BY <2>1, <2>2 DEF updateVisual
  <2>. QED BY <2>1, <2>3
<1>. QED BY <1>3, <1>4

\* The place of the picture with a given index of m_CLMatrixVisual.
LEMMA PictureAt ==
  ASSUME NEW V, NEW x \in 0..(2 * Width), NEW y \in Nat
  PROVE  CLMatrixVisual(V, x + y * widthVisual) <=> <<x, y>> \in V
<1>. DEFINE D == widthVisual
<1>1. D \in Nat \ {0} /\ x \in 0..(D - 1)
  BY SizeFacts DEF widthVisual
<1>. HIDE DEF D
<1>2. x + y * D = y * D + x
  BY <1>1, Z3
<1>3. (y * D + x) % D = x /\ (y * D + x) \div D = y
  BY <1>1, DivMod
<1>. QED BY <1>2, <1>3 DEF CLMatrixVisual, D

\* The column and the row of a vertex.
LEMMA VertexAt ==
  ASSUME NEW v \in Vertices
  PROVE  /\ vertexColumn(v) \in 0..Width
         /\ vertexRow(v) \in 0..(Height - 1)
         /\ v = vertexRow(v) * (Width + 1) + vertexColumn(v)
<1>. DEFINE H == Height
            D == Width + 1
<1>1. D \in Nat \ {0} /\ H \in Nat \ {0} /\ v \in 0..(H * D - 1) /\ D - 1 = Width
  BY SizeFacts DEF Vertices
<1>. HIDE DEF D, H
<1>2. v % D \in 0..(D - 1) /\ v = (v \div D) * D + (v % D) /\ v \div D \in Int
  BY <1>1, Z3
<1>3. v \div D >= 0
  BY <1>1, <1>2, Z3
<1>4. v \div D < H
  <2>. SUFFICES ASSUME v \div D >= H PROVE FALSE
    BY <1>1, <1>2
  <2>1. (v \div D) * D >= H * D
    BY <1>1, <1>2, Z3
  <2>. QED BY <1>1, <1>2, <2>1, Z3
<1>. QED BY <1>1, <1>2, <1>3, <1>4 DEF vertexColumn, vertexRow, D, H

\* The indices at which updateIntersections looks below and, in the first row,
\* above a vertex.
LEMMA VertexIndices ==
  ASSUME NEW x \in 0..Width, NEW y \in 0..(Height - 1)
  PROVE  LET total == heightVisual * widthVisual
             index == 2 * x + y * widthVisual
         IN  /\ (index + widthVisual) % total = 2 * x + (y + 1) * widthVisual
             /\ y = 0 => (index - widthVisual + total) % total
                           = 2 * x + Height * widthVisual
<1>. DEFINE D == widthVisual
            H == Height
            total == heightVisual * D
            index == 2 * x + y * D
<1>1. D = 2 * Width + 1 /\ heightVisual = H + 1 /\ Width \in Nat /\ H \in Nat \ {0}
  BY SizeFacts DEF widthVisual, heightVisual
<1>2. D \in Nat \ {0} /\ 2 * x \in 0..(D - 1)
  BY <1>1
<1>. HIDE DEF D, H
<1>3. y \in 0..(H - 1)
  BY DEF H
<1>4. total = H * D + D /\ total \in Nat \ {0}
  BY <1>1, <1>2, Z3
<1>5. ASSUME NEW r \in 0..H PROVE (2 * x + r * D) % total = 2 * x + r * D
  <2>. DEFINE b == 2 * x + r * D
  <2>1. r * D <= H * D /\ r * D \in Nat
    BY <1>1, <1>2, Z3
  <2>2. b \in 0..(total - 1)
    <3>. DEFINE rD == r * D
                HD == H * D
    <3>1. HD \in Nat
      BY <1>1, <1>2, Z3
    <3>. HIDE DEF rD, HD, total
    <3>. QED BY <1>2, <1>4, <2>1, <3>1 DEF rD, HD
  <2>. HIDE DEF b, total
  <2>3. b % total = b
    BY <1>4, <2>2, Z3
  <2>. QED BY <2>3 DEF b
<1>6. index + D = 2 * x + (y + 1) * D
  BY <1>2, <1>3, Z3
<1>7. (index + D) % total = 2 * x + (y + 1) * D
  <2>. DEFINE r == y + 1
  <2>1. r \in 0..H
    BY <1>1, <1>3
  <2>. HIDE DEF r, total, index
  <2>. QED BY <1>5, <1>6, <2>1 DEF r
<1>8. ASSUME y = 0 PROVE (index - D + total) % total = 2 * x + H * D
  <2>1. index - D + total = 2 * x + H * D
    BY <1>1, <1>2, <1>4, <1>8, Z3
  <2>2. H \in 0..H
    BY <1>1
  <2>. HIDE DEF total, index
  <2>. QED BY <1>5, <2>1, <2>2
<1>. QED BY <1>7, <1>8 DEF D, H

\* The walls that updateIntersections finds at a vertex are those of the cells
\* around it.
LEMMA WallsAtVertex ==
  ASSUME NEW M, NEW v \in Vertices, NEW x, NEW y,
         x = vertexColumn(v), y = vertexRow(v)
  PROVE  /\ "left" \in vertexWalls(updateVisual(M), v)
              <=> x # 0 /\ hasTopWall(M[cellAt(x - 1, y)])
         /\ "right" \in vertexWalls(updateVisual(M), v)
              <=> x # Width /\ hasTopWall(M[cellAt(x, y)])
         /\ "bottom" \in vertexWalls(updateVisual(M), v) <=> verticalWall(M, x, y)
         /\ "top" \in vertexWalls(updateVisual(M), v)
              <=> y = 0 /\ verticalWall(M, x, Height - 1)
         /\ "self" \in vertexWalls(updateVisual(M), v)
              <=> y # 0 /\ verticalWall(M, x, y - 1)
<1>. DEFINE V == updateVisual(M)
            D == widthVisual
            total == heightVisual * D
            index == 2 * x + y * D
<1>1. /\ Width \in Nat \ {0} /\ Height \in Nat \ {0}
      /\ x \in 0..Width /\ y \in 0..(Height - 1)
  BY SizeFacts, VertexAt
<1>2. /\ "left" \in vertexWalls(V, v) <=> x # 0 /\ CLMatrixVisual(V, index - 1)
      /\ "right" \in vertexWalls(V, v) <=> x # Width /\ CLMatrixVisual(V, index + 1)
      /\ "bottom" \in vertexWalls(V, v) <=> CLMatrixVisual(V, (index + D) % total)
      /\ "top" \in vertexWalls(V, v)
           <=> y = 0 /\ CLMatrixVisual(V, (index - D + total) % total)
      /\ "self" \in vertexWalls(V, v) <=> CLMatrixVisual(V, index)
  BY DEF vertexWalls
<1>3. /\ (index + D) % total = 2 * x + (y + 1) * D
      /\ y = 0 => (index - D + total) % total = 2 * x + Height * D
  BY <1>1, VertexIndices
<1>4. D = 2 * Width + 1
  BY DEF widthVisual
<1>5. \A r \in Nat : CLMatrixVisual(V, 2 * x + r * D)
                       <=> r \in 1..Height /\ verticalWall(M, x, r - 1)
  <2>. SUFFICES ASSUME NEW r \in Nat
                PROVE  CLMatrixVisual(V, 2 * x + r * D)
                         <=> r \in 1..Height /\ verticalWall(M, x, r - 1)
    OBVIOUS
  <2>1. 2 * x \in 0..(2 * Width)
    BY <1>1
  <2>2. CLMatrixVisual(V, 2 * x + r * D) <=> <<2 * x, r>> \in V
    <3>. DEFINE z == 2 * x
    <3>. HIDE DEF z, V
    <3>. QED BY <2>1, PictureAt DEF z
  <2>. QED BY <1>1, <2>2, VerticalsDrawn
<1>6. ASSUME NEW z \in 0..(Width - 1)
      PROVE  CLMatrixVisual(V, 2 * z + 1 + y * D) <=> hasTopWall(M[cellAt(z, y)])
  <2>. DEFINE o == 2 * z + 1
  <2>1. o \in 0..(2 * Width) /\ y \in Nat
    BY <1>1
  <2>2. CLMatrixVisual(V, o + y * D) <=> <<o, y>> \in V
    <3>. HIDE DEF o, V
    <3>. QED BY <2>1, PictureAt
  <2>. QED BY <1>1, <2>2, HorizontalsDrawn
<1>7. "left" \in vertexWalls(V, v) <=> x # 0 /\ hasTopWall(M[cellAt(x - 1, y)])
  <2>1. ASSUME x # 0 PROVE x - 1 \in 0..(Width - 1) /\ 2 * (x - 1) + 1 + y * D = index - 1
    BY <1>1, <1>4, <2>1, Z3
  <2>. HIDE DEF V, D, total, index
  <2>. QED BY <1>2, <1>6, <2>1
<1>8. "right" \in vertexWalls(V, v) <=> x # Width /\ hasTopWall(M[cellAt(x, y)])
  <2>1. ASSUME x # Width PROVE x \in 0..(Width - 1) /\ 2 * x + 1 + y * D = index + 1
    <3>1. x \in 0..(Width - 1)
      BY <1>1, <2>1
    <3>. HIDE DEF D
    <3>2. 2 * x + 1 + y * D = index + 1
      BY <1>1, <1>4, Z3
    <3>. QED BY <3>1, <3>2
  <2>. HIDE DEF V, D, total, index
  <2>. QED BY <1>2, <1>6, <2>1
<1>9. "bottom" \in vertexWalls(V, v) <=> verticalWall(M, x, y)
  <2>. DEFINE r == y + 1
  <2>1. r \in Nat /\ r \in 1..Height /\ r - 1 = y
    BY <1>1
  <2>2. "bottom" \in vertexWalls(V, v) <=> CLMatrixVisual(V, 2 * x + r * D)
    BY <1>2, <1>3
  <2>. HIDE DEF V, D, r
  <2>. QED BY <1>5, <2>1, <2>2
<1>10. "top" \in vertexWalls(V, v) <=> y = 0 /\ verticalWall(M, x, Height - 1)
  <2>1. Height \in Nat /\ Height \in 1..Height
    BY <1>1
  <2>2. "top" \in vertexWalls(V, v) <=> y = 0 /\ CLMatrixVisual(V, 2 * x + Height * D)
    BY <1>2, <1>3
  <2>. HIDE DEF V, D
  <2>. QED BY <1>5, <2>1, <2>2
<1>11. "self" \in vertexWalls(V, v) <=> y # 0 /\ verticalWall(M, x, y - 1)
  <2>1. y \in Nat /\ (y \in 1..Height <=> y # 0)
    BY <1>1
  <2>. HIDE DEF V, D
  <2>. QED BY <1>2, <1>5, <2>1 DEF index
<1>. QED BY <1>7, <1>8, <1>9, <1>10, <1>11

(***************************************************************************)
(* Induction and recursion over the natural numbers, for sets instead of   *)
(* predicates.                                                             *)
(***************************************************************************)

\* A set that contains 0 and with every number the next contains all
\* numbers: otherwise take the shortest interval 1..n with n outside.
LEMMA NatSetInduction ==
  ASSUME NEW S, 0 \in S, \A n \in Nat : n \in S => n + 1 \in S
  PROVE  Nat \subseteq S
<1>. DEFINE R == StrictSubsetOrdering(Nat)
            T == {1..n : n \in Nat \ S}
<1>1. SUFFICES ASSUME NEW a \in Nat, a \notin S PROVE FALSE
  OBVIOUS
<1>2. IsWellFoundedOn(R, FiniteSubsetsOf(Nat))
  BY FS_StrictSubsetOrderingWellFounded
<1>3. T \subseteq FiniteSubsetsOf(Nat) /\ T # {}
  <2>1. ASSUME NEW n \in Nat PROVE IsFiniteSet(1..n) /\ 1..n \in SUBSET Nat
    BY FS_Interval
  <2>. QED BY <1>1, <2>1 DEF FiniteSubsetsOf
<1>4. \E I \in T : \A J \in T : ~(<<J, I>> \in R)
  <2>. HIDE DEF R, T
  <2>. QED BY <1>2, <1>3, WFMin
<1>5. PICK n \in Nat \ S : \A J \in T : ~(<<J, 1..n>> \in R)
  <2>. HIDE DEF R
  <2>. QED BY <1>4
<1>6. n # 0 /\ n - 1 \in Nat /\ n - 1 + 1 = n
  OBVIOUS
<1>7. n - 1 \notin S
  BY <1>6
<1>8. 1..(n - 1) \in T
  BY <1>6, <1>7
<1>9. 1..(n - 1) \subseteq 1..n /\ n \in 1..n /\ n \notin 1..(n - 1)
  BY <1>6
<1>10. <<1..(n - 1), 1..n>> \in R
  <2>. DEFINE A == 1..(n - 1)
              B == 1..n
  <2>1. A \in SUBSET Nat /\ B \in SUBSET Nat
    OBVIOUS
  <2>2. A \subseteq B /\ A # B
    BY <1>9
  <2>. HIDE DEF A, B
  <2>. QED BY <2>1, <2>2 DEF StrictSubsetOrdering
<1>. QED BY <1>5, <1>8, <1>10

\* step[n] takes the members of D[n - 1] to members of D[n].
HandsOn(step, D, N) == \A n \in 1..N : \A x \in D[n - 1] : step[n][x] \in D[n]

\* f is defined by recursion over 0..N.
IsRecursion(f, b, step, N) ==
  /\ f = [n \in 0..N |-> f[n]]
  /\ f[0] = b
  /\ \A n \in 1..N : f[n] = step[n][f[n - 1]]

\* A function that is defined by recursion over 0..N exists, and what every
\* step hands on to the next holds of all of its values.
LEMMA Recursion ==
  ASSUME NEW N \in Nat, NEW D, NEW b \in D[0], NEW step, HandsOn(step, D, N)
  PROVE  \E f : IsRecursion(f, b, step, N) /\ \A n \in 0..N : f[n] \in D[n]
<1>. DEFINE Good(f, m) == /\ f = [n \in 0..m |-> f[n]]
                          /\ f[0] = b
                          /\ \A n \in 1..m : f[n] = step[n][f[n - 1]]
                          /\ \A n \in 0..m : f[n] \in D[n]
            S == {m \in Nat : m <= N => \E f : Good(f, m)}
<1>1. 0 \in S
  <2>. DEFINE f == [n \in 0..0 |-> b]
  <2>1. Good(f, 0)
    OBVIOUS
  <2>. QED BY <2>1
<1>2. ASSUME NEW m \in Nat, m \in S PROVE m + 1 \in S
  <2>1. SUFFICES ASSUME m + 1 <= N PROVE \E f : Good(f, m + 1)
    OBVIOUS
  <2>2. PICK f : Good(f, m)
    BY <1>2, <2>1
  <2>. DEFINE g == [n \in 0..(m + 1) |-> IF n = m + 1 THEN step[n][f[m]] ELSE f[n]]
  <2>3. /\ \A n \in 0..m : g[n] = f[n]
        /\ g[m + 1] = step[m + 1][f[m]]
        /\ g = [n \in 0..(m + 1) |-> g[n]]
    OBVIOUS
  <2>. HIDE DEF g
  <2>4. /\ 0 \in 0..m /\ m \in 0..m /\ m + 1 - 1 = m /\ m + 1 \in 1..N
        /\ \A n \in 1..m : n \in 0..m /\ n - 1 \in 0..m
        /\ \A n \in 1..(m + 1) : n \in 1..m \/ n = m + 1
        /\ \A n \in 0..(m + 1) : n \in 0..m \/ n = m + 1
    BY <2>1
  <2>5. g[0] = b /\ g[m] = f[m]
    BY <2>2, <2>3, <2>4
  <2>6. \A n \in 1..(m + 1) : g[n] = step[n][g[n - 1]]
    <3>1. \A n \in 1..m : g[n] = step[n][g[n - 1]]
      BY <2>2, <2>3, <2>4
    <3>2. g[m + 1] = step[m + 1][g[m + 1 - 1]]
      BY <2>3, <2>4, <2>5
    <3>. QED BY <2>4, <3>1, <3>2
  <2>7. \A n \in 0..(m + 1) : g[n] \in D[n]
    <3>1. f[m] \in D[m + 1 - 1]
      BY <2>2, <2>4
    <3>2. step[m + 1][f[m]] \in D[m + 1]
      BY <2>4, <3>1 DEF HandsOn
    <3>3. g[m + 1] \in D[m + 1]
      BY <2>3, <3>2
    <3>. QED BY <2>2, <2>3, <2>4, <3>3
  <2>8. Good(g, m + 1)
    BY <2>3, <2>5, <2>6, <2>7
  <2>. QED BY <2>8
<1>3. Nat \subseteq S
  <2>. HIDE DEF S
  <2>. QED BY <1>1, <1>2, NatSetInduction
<1>4. \E f : Good(f, N)
  <2>. HIDE DEF Good
  <2>. QED BY <1>3
<1>. QED BY <1>4 DEF IsRecursion

\* What holds of f[0] and is handed on from value to value holds of all.
LEMMA StepInduction ==
  ASSUME NEW N \in Nat, NEW f, NEW D, f[0] \in D[0],
         \A n \in 1..N : f[n - 1] \in D[n - 1] => f[n] \in D[n]
  PROVE  \A n \in 0..N : f[n] \in D[n]
<1>. DEFINE S == {n \in Nat : n <= N => f[n] \in D[n]}
<1>1. 0 \in S
  OBVIOUS
<1>2. ASSUME NEW n \in Nat, n \in S PROVE n + 1 \in S
  <2>1. SUFFICES ASSUME n + 1 <= N PROVE f[n + 1] \in D[n + 1]
    OBVIOUS
  <2>2. n + 1 \in 1..N /\ n + 1 - 1 = n /\ f[n] \in D[n]
    BY <1>2, <2>1
  <2>. QED BY <2>2
<1>3. Nat \subseteq S
  <2>. HIDE DEF S
  <2>. QED BY <1>1, <1>2, NatSetInduction
<1>. QED BY <1>3
-----------------------------------------------------------------------------
(***************************************************************************)
(* The cells that can be reached.                                          *)
(***************************************************************************)

\* A step leads to a cell or through a gap in the border (neighBourTop and the
\* other methods for the neighbours).
LEMMA StepToType ==
  ASSUME NEW c \in Cells, NEW s \in Sides
  PROVE  /\ stepTo(c, s) \in Cells \cup {-1}
         /\ stepTo(c, s) = -1 <=> \/ s = 1 /\ isRightEdge(c)
                                  \/ s = 3 /\ isLeftEdge(c)
         /\ stepTo(c, s) # -1 => stepTo(c, s) = neighBour(c, s)
<1>1. -1 \notin Cells
  BY DEF Cells
<1>2. CASE s = 0
  <2>1. stepTo(c, s) = neighBour(c, s)
    BY <1>2 DEF stepTo, neighBour
  <2>. QED BY <1>1, <1>2, <2>1, NeighBours
<1>3. CASE s = 2
  <2>1. stepTo(c, s) = neighBour(c, s)
    BY <1>3 DEF stepTo, neighBour
  <2>. QED BY <1>1, <1>3, <2>1, NeighBours
<1>4. CASE s = 1
  <2>1. CASE isRightEdge(c)
    BY <1>4, <2>1 DEF stepTo, neighBourRight
  <2>2. CASE ~isRightEdge(c)
    <3>1. stepTo(c, s) = neighBour(c, s)
      BY <1>4, <2>2 DEF stepTo, neighBourRight, neighBour
    <3>. QED BY <1>1, <1>4, <2>2, <3>1, NeighBours
  <2>. QED BY <2>1, <2>2
<1>5. CASE s = 3
  <2>1. CASE isLeftEdge(c)
    BY <1>5, <2>1 DEF stepTo, neighBourLeft
  <2>2. CASE ~isLeftEdge(c)
    <3>1. stepTo(c, s) = neighBour(c, s)
      BY <1>5, <2>2 DEF stepTo, neighBourLeft, neighBour
    <3>. QED BY <1>1, <1>5, <2>2, <3>1, NeighBours
  <2>. QED BY <2>1, <2>2
<1>. QED BY <1>2, <1>3, <1>4, <1>5 DEF Sides

\* cellsWithin is defined by recursion: one step more reaches the neighbours
\* of what was reached.
LEMMA WithinDef ==
  ASSUME NEW M, NEW entrance \in Cells, NEW exit
  PROVE  LET W == cellsWithin(M, entrance, exit)
         IN  /\ W[0] = {entrance}
             /\ \A n \in 1..totalCells :
                  W[n] = W[n - 1] \cup oneStepFrom(M, entrance, exit, W[n - 1])
             /\ \A n \in 0..totalCells : W[n] \subseteq Cells
<1>. DEFINE more(S) == S \cup oneStepFrom(M, entrance, exit, S)
            N == totalCells
            W == cellsWithin(M, entrance, exit)
            D == [n \in 0..N |-> SUBSET Cells]
            step == [n \in 1..N |-> [S \in SUBSET Cells |-> more(S)]]
<1>1. N \in Nat
  BY SizeFacts
<1>2. PICK f : IsRecursion(f, {entrance}, step, N) /\ \A n \in 0..N : f[n] \in D[n]
  <2>1. \A S \in SUBSET Cells : more(S) \in SUBSET Cells
    BY DEF oneStepFrom
  <2>2. \A n \in 1..N : n - 1 \in 0..N /\ n \in 0..N
    BY <1>1
  <2>. HIDE DEF more, N
  <2>3. HandsOn(step, D, N)
    BY <2>1, <2>2 DEF HandsOn
  <2>4. {entrance} \in D[0]
    BY <1>1
  <2>. HIDE DEF D, step
  <2>. QED BY <1>1, <2>3, <2>4, Recursion
<1>3. f = [n \in 0..N |-> IF n = 0 THEN {entrance} ELSE more(f[n - 1])]
  <2>. HIDE DEF more, N
  <2>1. ASSUME NEW n \in 1..N PROVE f[n] = more(f[n - 1])
    <3>1. n - 1 \in 0..N
      BY <1>1
    <3>2. f[n - 1] \in SUBSET Cells
      BY <1>2, <3>1
    <3>3. step[n][f[n - 1]] = more(f[n - 1])
      BY <3>2
    <3>. QED BY <1>2, <3>3 DEF IsRecursion
  <2>2. \A n \in 0..N : f[n] = IF n = 0 THEN {entrance} ELSE more(f[n - 1])
    <3>1. \A n \in 0..N : n = 0 \/ n \in 1..N
      BY <1>1
    <3>2. \A n \in 1..N : n # 0
      OBVIOUS
    <3>. HIDE DEF step
    <3>. QED BY <1>2, <2>1, <3>1, <3>2 DEF IsRecursion
  <2>. HIDE DEF step
  <2>. QED BY <1>2, <2>2, Zenon DEF IsRecursion
<1>4. W = CHOOSE g : g = [n \in 0..N |-> IF n = 0 THEN {entrance} ELSE more(g[n - 1])]
  BY DEF cellsWithin
<1>5. W = [n \in 0..N |-> IF n = 0 THEN {entrance} ELSE more(W[n - 1])]
  <2>. HIDE DEF W, more, N
  <2>. QED BY <1>3, <1>4, Zenon
<1>6. W[0] = {entrance} /\ \A n \in 1..N : W[n] = more(W[n - 1])
  <2>. HIDE DEF W, more, N
  <2>1. \A n \in 0..N : W[n] = IF n = 0 THEN {entrance} ELSE more(W[n - 1])
    BY <1>5, Zenon
  <2>2. 0 \in 0..N /\ \A n \in 1..N : n \in 0..N /\ n # 0
    BY <1>1
  <2>. QED BY <2>1, <2>2
<1>7. \A n \in 1..N : W[n] = W[n - 1] \cup oneStepFrom(M, entrance, exit, W[n - 1])
  BY <1>6
<1>8. \A n \in 0..N : W[n] \subseteq Cells
  <2>1. W[0] \in D[0]
    <3>. HIDE DEF W, N
    <3>. QED BY <1>1, <1>6
  <2>2. \A n \in 1..N : W[n - 1] \in D[n - 1] => W[n] \in D[n]
    <3>. HIDE DEF W, N
    <3>. QED BY <1>1, <1>7 DEF oneStepFrom
  <2>3. \A n \in 0..N : W[n] \in D[n]
    <3>. HIDE DEF W, N, D
    <3>. QED BY <1>1, <2>1, <2>2, StepInduction
  <2>. HIDE DEF W, N
  <2>. QED BY <2>3
<1>. QED BY <1>6, <1>7, <1>8

LEMMA WithinStep ==
  ASSUME NEW M, NEW entrance \in Cells, NEW exit, NEW l \in 0..(totalCells - 1)
  PROVE  LET W == cellsWithin(M, entrance, exit)
         IN  W[l + 1] = W[l] \cup oneStepFrom(M, entrance, exit, W[l])
<1>. DEFINE W == cellsWithin(M, entrance, exit)
            x == l + 1
<1>1. \A n \in 1..totalCells : W[n] = W[n - 1] \cup oneStepFrom(M, entrance, exit, W[n - 1])
  BY WithinDef
<1>2. x \in 1..totalCells /\ x - 1 = l
  BY SizeFacts
<1>. HIDE DEF W, x
<1>3. W[x] = W[x - 1] \cup oneStepFrom(M, entrance, exit, W[x - 1])
  BY <1>1, <1>2
<1>4. W[x] = W[l] \cup oneStepFrom(M, entrance, exit, W[l])
  BY <1>2, <1>3
<1>. QED BY <1>4 DEF W, x

\* More steps reach more.
LEMMA WithinMonotone ==
  ASSUME NEW M, NEW entrance \in Cells, NEW exit,
         NEW m \in 0..totalCells, NEW n \in m..totalCells
  PROVE  cellsWithin(M, entrance, exit)[m] \subseteq cellsWithin(M, entrance, exit)[n]
<1>. DEFINE W == cellsWithin(M, entrance, exit)
            N == totalCells
            S == {k \in Nat : m + k <= N => W[m] \subseteq W[m + k]}
<1>1. N \in Nat /\ \A k \in 1..N : W[k - 1] \subseteq W[k]
  <2>1. N \in Nat /\ \A k \in 1..N : W[k] = W[k - 1] \cup oneStepFrom(M, entrance, exit, W[k - 1])
    BY SizeFacts, WithinDef
  <2>. HIDE DEF W, N
  <2>. QED BY <2>1
<1>. HIDE DEF W, N
<1>2. 0 \in S
  BY DEF N
<1>3. ASSUME NEW k \in Nat, k \in S PROVE k + 1 \in S
  <2>1. SUFFICES ASSUME m + (k + 1) <= N PROVE W[m] \subseteq W[m + (k + 1)]
    OBVIOUS
  <2>2. W[m] \subseteq W[m + k]
    BY <1>1, <1>3, <2>1 DEF N
  <2>. DEFINE p == m + (k + 1)
  <2>3. p \in 1..N /\ p - 1 = m + k
    BY <1>1, <2>1 DEF N
  <2>. HIDE DEF p
  <2>4. W[p - 1] \subseteq W[p]
    BY <1>1, <2>3
  <2>. QED BY <2>2, <2>3, <2>4 DEF p
<1>4. Nat \subseteq S
  <2>. HIDE DEF S
  <2>. QED BY <1>2, <1>3, NatSetInduction
<1>5. n - m \in Nat /\ m + (n - m) = n /\ n <= N
  BY <1>1 DEF N
<1>6. W[m] \subseteq W[m + (n - m)]
  BY <1>4, <1>5
<1>. QED BY <1>5, <1>6 DEF W

\* A set of cells that no step leaves contains what is reached from one of its
\* cells.
LEMMA WithinClosed ==
  ASSUME NEW M, NEW entrance \in Cells, NEW exit, NEW X, entrance \in X,
         \A c \in X, d \in Cells : canStep(M, entrance, exit, c, d) => d \in X
  PROVE  \A n \in 0..totalCells : cellsWithin(M, entrance, exit)[n] \subseteq X
<1>. DEFINE W == cellsWithin(M, entrance, exit)
            N == totalCells
            D == [n \in 0..N |-> SUBSET X]
<1>1. /\ N \in Nat
      /\ W[0] = {entrance}
      /\ \A n \in 1..N : W[n] = W[n - 1] \cup oneStepFrom(M, entrance, exit, W[n - 1])
  BY SizeFacts, WithinDef
<1>. HIDE DEF W, N
<1>2. W[0] \in D[0]
  BY <1>1
<1>3. ASSUME NEW n \in 1..N, W[n - 1] \in D[n - 1] PROVE W[n] \in D[n]
  <2>1. n - 1 \in 0..N /\ n \in 0..N
    BY <1>1
  <2>2. W[n - 1] \subseteq X
    BY <1>3, <2>1
  <2>3. W[n] \subseteq X
    BY <1>1, <2>2 DEF oneStepFrom
  <2>. QED BY <2>1, <2>3
<1>4. \A n \in 0..N : W[n] \in D[n]
  <2>. HIDE DEF D
  <2>. QED BY <1>1, <1>2, <1>3, StepInduction
<1>. QED BY <1>4 DEF W, N

\* An open path of different cells that begins at the entrance.
IsRoute(M, entrance, exit, r) ==
  /\ r \in Seq(Cells)
  /\ Len(r) > 0
  /\ r[1] = entrance
  /\ \A n \in 2..Len(r) : canStep(M, entrance, exit, r[n - 1], r[n])
  /\ \A n, m \in 1..Len(r) : r[n] = r[m] => n = m

LEMMA CellsFinite == IsFiniteSet(Cells) /\ Cardinality(Cells) = totalCells
<1>. DEFINE N == totalCells
<1>1. N \in Nat \ {0}
  BY SizeFacts
<1>. HIDE DEF N
<1>2. /\ IsFiniteSet(0..(N - 1))
      /\ Cardinality(0..(N - 1)) = IF 0 > N - 1 THEN 0 ELSE N - 1 - 0 + 1
  BY <1>1, FS_Interval
<1>3. IsFiniteSet(0..(N - 1)) /\ Cardinality(0..(N - 1)) = N
  BY <1>1, <1>2
<1>. QED BY <1>3 DEF Cells, N

\* A route is not longer than there are cells.
LEMMA RouteLength ==
  ASSUME NEW M, NEW entrance, NEW exit, NEW r, IsRoute(M, entrance, exit, r)
  PROVE  Len(r) \in 1..totalCells
<1>1. r \in Seq(Cells) /\ Len(r) \in Nat /\ Len(r) > 0 /\ totalCells \in Nat
  BY SizeFacts DEF IsRoute
<1>2. SUFFICES ASSUME Len(r) > totalCells PROVE FALSE
  BY <1>1
<1>. DEFINE I == 1..Len(r)
<1>3. IsFiniteSet(I) /\ Cardinality(I) = Len(r)
  BY <1>1, FS_Interval
<1>4. r \in [I -> Cells]
  BY <1>1
<1>5. \E x, y \in I : x # y /\ r[x] = r[y]
  <2>. HIDE DEF I
  <2>. QED BY <1>2, <1>3, <1>4, CellsFinite, FS_PigeonHole
<1>. QED BY <1>5 DEF IsRoute

\* The cell in place n of a route is reached in n - 1 steps.
LEMMA RouteWithin ==
  ASSUME NEW M, NEW entrance \in Cells, NEW exit, NEW r, IsRoute(M, entrance, exit, r)
  PROVE  \A n \in 1..Len(r) : r[n] \in cellsWithin(M, entrance, exit)[n - 1]
<1>. DEFINE W == cellsWithin(M, entrance, exit)
            N == totalCells
            L == Len(r)
            S == {n \in Nat : n < L => r[n + 1] \in W[n]}
<1>1. /\ W[0] = {entrance}
      /\ \A n \in 1..N : W[n] = W[n - 1] \cup oneStepFrom(M, entrance, exit, W[n - 1])
  BY WithinDef
<1>2. L \in 1..N /\ N \in Nat
  BY RouteLength, SizeFacts
<1>3. /\ r \in [1..L -> Cells]
      /\ r[1] = entrance
      /\ \A n \in 2..L : canStep(M, entrance, exit, r[n - 1], r[n])
  BY DEF IsRoute
<1>. HIDE DEF W, N, L
<1>4. 0 \in S
  BY <1>1, <1>3
<1>5. ASSUME NEW n \in Nat, n \in S PROVE n + 1 \in S
  <2>1. SUFFICES ASSUME n + 1 < L PROVE r[n + 1 + 1] \in W[n + 1]
    OBVIOUS
  <2>2. n + 1 \in 1..N /\ n + 1 - 1 = n /\ n + 1 + 1 \in 2..L /\ n + 1 + 1 - 1 = n + 1
    BY <1>2, <2>1
  <2>3. r[n + 1] \in W[n]
    BY <1>2, <1>5, <2>1
  <2>4. canStep(M, entrance, exit, r[n + 1], r[n + 1 + 1]) /\ r[n + 1 + 1] \in Cells
    <3>1. n + 1 + 1 \in 1..L
      BY <2>2
    <3>. QED BY <1>3, <2>2, <3>1
  <2>. QED BY <1>1, <2>2, <2>3, <2>4 DEF oneStepFrom
<1>6. Nat \subseteq S
  <2>. HIDE DEF S
  <2>. QED BY <1>4, <1>5, NatSetInduction
<1>7. ASSUME NEW n \in 1..L PROVE r[n] \in W[n - 1]
  <2>1. n - 1 \in Nat /\ n - 1 < L /\ n - 1 + 1 = n
    BY <1>2
  <2>. QED BY <1>6, <2>1
<1>. QED BY <1>7 DEF W, L
-----------------------------------------------------------------------------
(***************************************************************************)
(* The invariant of the search.  It speaks of the inner loop (extendRoute  *)
(* of route after route): n routes were there when the round began, the    *)
(* routes to be erased are among the first a, all routes before route b    *)
(* are extended to all sides, and the round is the one after l rounds that *)
(* visited new cells.                                                      *)
(***************************************************************************)
SearchStates ==
  [vRoutes : Seq(Seq(Cells)), vVisited : SUBSET Cells, vBestRoute : Seq(Cells),
   bFound : BOOLEAN, bErase : Seq(Nat), thrown : BOOLEAN]

\* Whatever is one step away from cell c is visited, and no gap in the border
\* is passed there.
finished(M, entrance, exit, V, c) ==
  \A s \in Sides : canPass(M, entrance, exit, c, s) => stepTo(c, s) \in V

\* The routes are paths, and their cells are the visited ones.
Paths(M, entrance, exit, S) ==
  /\ entrance \in S.vVisited
  /\ \A j \in 1..Len(S.vRoutes) : IsRoute(M, entrance, exit, S.vRoutes[j])
  /\ \A j \in 1..Len(S.vRoutes) :
       \A m \in 1..Len(S.vRoutes[j]) : S.vRoutes[j][m] \in S.vVisited
  /\ \A c \in S.vVisited :
       \E j \in 1..Len(S.vRoutes) :
         \E m \in 1..Len(S.vRoutes[j]) : S.vRoutes[j][m] = c

\* The routes to be erased are listed in increasing order, and each lives on in
\* one of the routes appended in this round.
Erasure(S, n, a) ==
  /\ \A e \in 1..Len(S.bErase) : S.bErase[e] \in 1..a
  /\ \A e \in 2..Len(S.bErase) : S.bErase[e - 1] < S.bErase[e]
  /\ \A e \in 1..Len(S.bErase) :
       \E j \in (n + 1)..Len(S.vRoutes) :
         \A m \in 1..Len(S.vRoutes[S.bErase[e]]) :
           \E p \in 1..Len(S.vRoutes[j]) :
             S.vRoutes[j][p] = S.vRoutes[S.bErase[e]][m]
  /\ S.bErase = << >> => Len(S.vRoutes) = n

\* A visited cell is finished or is still to be looked at, as the end of a
\* route; an exception comes from a gap at a visited cell.
Frontier(M, entrance, exit, S, b) ==
  /\ ~S.thrown =>
       /\ \A j \in 1..(b - 1) :
            finished(M, entrance, exit, S.vVisited, Last(S.vRoutes[j]))
       /\ \A c \in S.vVisited :
            \/ finished(M, entrance, exit, S.vVisited, c)
            \/ \E j \in b..Len(S.vRoutes) : Last(S.vRoutes[j]) = c
  /\ S.thrown =>
       \E c \in S.vVisited, s \in Sides :
         canPass(M, entrance, exit, c, s) /\ stepTo(c, s) = -1

\* What can be reached in l steps is visited; only routes of l + 1 cells can
\* still be extended, and the routes appended in this round are one longer.
Levels(M, entrance, exit, S, n, l) ==
  /\ cellsWithin(M, entrance, exit)[l] \subseteq S.vVisited
  /\ \A j \in 1..n :
       \/ Len(S.vRoutes[j]) = l + 1
       \/ finished(M, entrance, exit, S.vVisited, Last(S.vRoutes[j]))
  /\ \A j \in (n + 1)..Len(S.vRoutes) :
       /\ Len(S.vRoutes[j]) = l + 2
       /\ Last(S.vRoutes[j]) \notin cellsWithin(M, entrance, exit)[l]

\* The best route leads to the exit, which cannot be reached in fewer steps.
Best(M, entrance, exit, S) ==
  IF S.bFound
  THEN /\ IsRoute(M, entrance, exit, S.vBestRoute)
       /\ Len(S.vBestRoute) >= 2
       /\ Last(S.vBestRoute) = exit
       /\ exit \notin cellsWithin(M, entrance, exit)[Len(S.vBestRoute) - 2]
  ELSE /\ S.vBestRoute = << >>
       /\ exit \notin S.vVisited \ {entrance}

SearchInv(M, entrance, exit, S, n, a, b, l) ==
  /\ S \in SearchStates
  /\ n \in 0..Len(S.vRoutes)
  /\ l \in 0..(totalCells - 1)
  /\ Paths(M, entrance, exit, S)
  /\ Erasure(S, n, a)
  /\ Frontier(M, entrance, exit, S, b)
  /\ Levels(M, entrance, exit, S, n, l)
  /\ Best(M, entrance, exit, S)

\* A finished cell stays finished.
LEMMA FinishedMonotone ==
  ASSUME NEW M, NEW entrance, NEW exit, NEW V, NEW U, V \subseteq U, NEW c,
         finished(M, entrance, exit, V, c)
  PROVE  finished(M, entrance, exit, U, c)
BY DEF finished

LEMMA AppendNotEmpty ==
  ASSUME NEW X, NEW s \in Seq(X), NEW x \in X
  PROVE  Append(s, x) # << >>
BY AppendProperties

\* Route k is extended to the unvisited cell next (the end of extendTo).
LEMMA ExtendedInv ==
  ASSUME NEW M, NEW entrance \in Cells, NEW exit, NEW S, NEW n, NEW l,
         NEW k \in 1..n, NEW next \in Cells,
         SearchInv(M, entrance, exit, S, n, k, k, l), ~S.thrown,
         next \notin S.vVisited,
         canStep(M, entrance, exit, Last(S.vRoutes[k]), next),
         NEW T, T \in SearchStates, T.thrown = FALSE,
         T.vRoutes = Append(S.vRoutes, Append(S.vRoutes[k], next)),
         T.vVisited = S.vVisited \cup {next},
         T.bErase = IF S.bErase # << >> /\ S.bErase[Len(S.bErase)] = k
                    THEN S.bErase ELSE Append(S.bErase, k),
         T.bFound = (S.bFound \/ next = exit),
         T.vBestRoute = IF ~S.bFound /\ next = exit
                        THEN Append(S.vRoutes[k], next) ELSE S.vBestRoute
  PROVE  SearchInv(M, entrance, exit, T, n, k, k, l)
<1>. DEFINE R == S.vRoutes
            Q == T.vRoutes
            V == S.vVisited
            U == T.vVisited
            N == Len(R)
            r == R[k]
            x == Append(r, next)
            L == Len(r)
            B == S.bErase
            C == T.bErase
            W == cellsWithin(M, entrance, exit)
<1>1. /\ S \in SearchStates /\ n \in 0..N /\ l \in 0..(totalCells - 1)
      /\ Paths(M, entrance, exit, S)
      /\ Erasure(S, n, k)
      /\ Frontier(M, entrance, exit, S, k)
      /\ Levels(M, entrance, exit, S, n, l)
      /\ Best(M, entrance, exit, S)
  BY DEF SearchInv
<1>2. /\ R \in Seq(Seq(Cells)) /\ N \in Nat /\ V \subseteq Cells /\ B \in Seq(Nat)
      /\ k \in 1..N
  <2>1. R \in Seq(Seq(Cells)) /\ V \subseteq Cells /\ B \in Seq(Nat)
    BY <1>1 DEF SearchStates
  <2>2. N \in Nat
    <3>. HIDE DEF R
    <3>. QED BY <2>1
  <2>. HIDE DEF R, N, V, B
  <2>. QED BY <1>1, <2>1, <2>2
<1>3. IsRoute(M, entrance, exit, r)
  BY <1>1, <1>2 DEF Paths
<1>4. r \in Seq(Cells) /\ L \in Nat /\ L > 0 /\ L \in 1..L
  BY <1>3 DEF IsRoute
<1>5. /\ x \in Seq(Cells) /\ Len(x) = L + 1 /\ x[L + 1] = next
      /\ \A m \in 1..L : x[m] = r[m]
  <2>. HIDE DEF r
  <2>. QED BY <1>4, AppendProperties
<1>6. /\ Len(Q) = N + 1 /\ Q[N + 1] = x /\ Q \in Seq(Seq(Cells))
      /\ \A j \in 1..N : Q[j] = R[j]
  <2>. HIDE DEF R, r, x
  <2>1. Q = Append(R, x)
    BY DEF R, x, r
  <2>. QED BY <1>2, <1>5, <2>1, AppendProperties
<1>7. U = V \cup {next} /\ V \subseteq U
  OBVIOUS
<1>8. \A m \in 1..L : r[m] \in V
  BY <1>1, <1>2 DEF Paths
<1>9. Last(x) = next /\ Last(r) = r[L]
  BY <1>5 DEF Last
<1>10. canStep(M, entrance, exit, r[L], next)
  BY <1>9
<1>. HIDE DEF R, Q, V, U, N, r, x, L, B, C, W
<1>11. IsRoute(M, entrance, exit, x)
  <2>1. x[1] = entrance
    BY <1>3, <1>4, <1>5 DEF IsRoute, L
  <2>2. ASSUME NEW m \in 2..Len(x) PROVE canStep(M, entrance, exit, x[m - 1], x[m])
    <3>1. CASE m = L + 1
      BY <1>4, <1>5, <1>10, <3>1
    <3>2. CASE m # L + 1
      <4>1. m \in 2..L /\ m \in 1..L /\ m - 1 \in 1..L
        BY <1>4, <1>5, <3>2
      <4>2. canStep(M, entrance, exit, r[m - 1], r[m])
        BY <1>3, <4>1 DEF IsRoute, L
      <4>. QED BY <1>5, <4>1, <4>2
    <3>. QED BY <3>1, <3>2
  <2>3. ASSUME NEW m \in 1..Len(x), NEW p \in 1..Len(x), x[m] = x[p] PROVE m = p
    <3>1. \A q \in 1..Len(x) : q \in 1..L \/ q = L + 1
      BY <1>4, <1>5
    <3>2. \A q \in 1..L : x[q] \in V /\ x[q] # next
      BY <1>5, <1>8 DEF V
    <3>3. \A p1, p2 \in 1..L : r[p1] = r[p2] => p1 = p2
      BY <1>3 DEF IsRoute, L
    <3>. QED BY <1>5, <2>3, <3>1, <3>2, <3>3
  <2>. QED BY <1>4, <1>5, <2>1, <2>2, <2>3 DEF IsRoute
<1>12. \A j \in 1..Len(Q) : \/ j \in 1..N /\ Q[j] = R[j]
                            \/ j = N + 1 /\ Q[j] = x
  <2>1. \A j \in 1..Len(Q) : j \in 1..N \/ j = N + 1
    BY <1>2, <1>6
  <2>. QED BY <1>6, <2>1
<1>13. 1..N \subseteq 1..Len(Q) /\ N + 1 \in 1..Len(Q) /\ n <= N /\ n \in Nat
  <2>1. n \in 0..N
    BY <1>1 DEF N, R
  <2>. QED BY <1>2, <1>6, <2>1
<1>14. Paths(M, entrance, exit, T)
  <2>1. entrance \in U
    BY <1>1, <1>7 DEF Paths, V
  <2>2. \A j \in 1..Len(Q) : IsRoute(M, entrance, exit, Q[j])
    BY <1>1, <1>11, <1>12 DEF Paths, N, R
  <2>3. ASSUME NEW j \in 1..Len(Q), NEW m \in 1..Len(Q[j]) PROVE Q[j][m] \in U
    <3>1. CASE j \in 1..N /\ Q[j] = R[j]
      BY <1>1, <1>7, <3>1 DEF Paths, N, R, V
    <3>2. CASE j = N + 1 /\ Q[j] = x
      BY <1>4, <1>5, <1>7, <1>8, <3>2
    <3>. QED BY <1>12, <3>1, <3>2
  <2>4. ASSUME NEW c \in U
        PROVE  \E j \in 1..Len(Q) : \E m \in 1..Len(Q[j]) : Q[j][m] = c
    <3>1. CASE c \in V
      <4>1. PICK j \in 1..N : \E m \in 1..Len(R[j]) : R[j][m] = c
        BY <1>1, <3>1 DEF Paths, N, R, V
      <4>. QED BY <1>6, <1>13, <4>1
    <3>2. CASE c = next
      <4>1. L + 1 \in 1..Len(x)
        BY <1>4, <1>5
      <4>. QED BY <1>5, <1>6, <1>13, <3>2, <4>1
    <3>. QED BY <1>7, <3>1, <3>2
  <2>. QED BY <2>1, <2>2, <2>3, <2>4 DEF Paths, Q, U
<1>15. Erasure(T, n, k)
  <2>. DEFINE E == Len(B)
  <2>1. E \in Nat /\ \A e \in 1..E : B[e] \in 1..k
    BY <1>1, <1>2 DEF Erasure, B
  <2>2. \A e \in 2..E : B[e - 1] < B[e]
    BY <1>1 DEF Erasure, B
  <2>. DEFINE lives(p, j) == \A m \in 1..Len(R[p]) : \E q \in 1..Len(Q[j]) : Q[j][q] = R[p][m]
  <2>3. \A e \in 1..E : \E j \in (n + 1)..Len(Q) : lives(B[e], j)
    <3>1. ASSUME NEW e \in 1..E PROVE \E j \in (n + 1)..Len(Q) : lives(B[e], j)
      <4>1. PICK j \in (n + 1)..N : \A m \in 1..Len(R[B[e]]) : \E q \in 1..Len(R[j]) : R[j][q] = R[B[e]][m]
        BY <1>1 DEF Erasure, B, R, N
      <4>2. j \in (n + 1)..Len(Q) /\ Q[j] = R[j]
        BY <1>2, <1>6, <1>13
      <4>3. lives(B[e], j)
        BY <4>1, <4>2
      <4>. QED BY <4>2, <4>3
    <3>. QED BY <3>1
  <2>4. N + 1 \in (n + 1)..Len(Q) /\ lives(k, N + 1)
    <3>1. N + 1 \in (n + 1)..Len(Q)
      BY <1>2, <1>6, <1>13
    <3>2. \A m \in 1..Len(R[k]) : m \in 1..Len(Q[N + 1]) /\ Q[N + 1][m] = R[k][m]
      <4>1. ASSUME NEW m \in 1..L PROVE m \in 1..(L + 1) /\ x[m] = r[m]
        BY <1>4, <1>5
      <4>. QED BY <1>5, <1>6, <4>1 DEF r, L
    <3>3. lives(k, N + 1)
      BY <3>2
    <3>. QED BY <3>1, <3>3
  <2>5. \A p \in 1..k : Q[p] = R[p]
    BY <1>2, <1>6
  <2>6. C # << >>
    <3>1. B # << >> => C = B \/ C = Append(B, k)
      BY DEF C, B
    <3>2. B = << >> => C = Append(B, k)
      BY DEF C, B
    <3>3. Append(B, k) # << >>
      <4>1. k \in Nat
        BY <1>2
      <4>. QED BY <1>2, <4>1, AppendNotEmpty
    <3>. QED BY <3>1, <3>2, <3>3
  <2>7. CASE B # << >> /\ B[E] = k
    <3>1. C = B
      BY <2>7 DEF B, C
    <3>. HIDE DEF lives
    <3>2. \A e \in 1..Len(C) : \E j \in (n + 1)..Len(Q) : lives(C[e], j) /\ Q[C[e]] = R[C[e]]
      BY <2>1, <2>3, <2>5, <3>1
    <3>3. \A e \in 1..Len(C) : \E j \in (n + 1)..Len(Q) :
            \A m \in 1..Len(Q[C[e]]) : \E q \in 1..Len(Q[j]) : Q[j][q] = Q[C[e]][m]
      <4>1. ASSUME NEW e \in 1..Len(C)
            PROVE  \E j \in (n + 1)..Len(Q) :
                     \A m \in 1..Len(Q[C[e]]) : \E q \in 1..Len(Q[j]) : Q[j][q] = Q[C[e]][m]
        <5>1. PICK j \in (n + 1)..Len(Q) : lives(C[e], j) /\ Q[C[e]] = R[C[e]]
          BY <3>2
        <5>2. \A m \in 1..Len(Q[C[e]]) : \E q \in 1..Len(Q[j]) : Q[j][q] = Q[C[e]][m]
          BY <5>1 DEF lives
        <5>. QED BY <5>2
      <4>. QED BY <4>1
    <3>. QED BY <2>1, <2>2, <2>6, <3>1, <3>3 DEF Erasure, Q, C
  <2>8. CASE ~(B # << >> /\ B[E] = k)
    <3>1. C = Append(B, k)
      BY <2>8 DEF B, C
    <3>2. /\ Len(C) = E + 1 /\ C[E + 1] = k
          /\ \A e \in 1..E : C[e] = B[e]
      BY <1>2, <2>1, <3>1, AppendProperties
    <3>3. \A e \in 1..Len(C) : e \in 1..E \/ e = E + 1
      BY <2>1, <3>2
    <3>4. ASSUME NEW e \in 2..Len(C) PROVE C[e - 1] < C[e]
      <4>1. CASE e = E + 1
        <5>1. e - 1 = E /\ E \in 1..E /\ B # << >>
          BY <1>2, <2>1, <3>2, <4>1
        <5>2. B[E] # k /\ B[E] \in 1..k
          BY <2>1, <2>8, <5>1
        <5>. QED BY <3>2, <4>1, <5>1, <5>2
      <4>2. CASE e # E + 1
        <5>1. e \in 2..E /\ e \in 1..E /\ e - 1 \in 1..E
          BY <2>1, <3>2, <4>2
        <5>. QED BY <2>2, <3>2, <5>1
      <4>. QED BY <4>1, <4>2
    <3>5. \A e \in 1..Len(C) : C[e] \in 1..k
      BY <2>1, <3>2, <3>3
    <3>. HIDE DEF lives
    <3>6. \A e \in 1..Len(C) : \E j \in (n + 1)..Len(Q) : lives(C[e], j) /\ Q[C[e]] = R[C[e]]
      <4>1. ASSUME NEW e \in 1..Len(C) PROVE \E j \in (n + 1)..Len(Q) : lives(C[e], j)
        <5>1. CASE e \in 1..E
          BY <2>3, <3>2, <5>1
        <5>2. CASE e = E + 1
          BY <2>4, <3>2, <5>2
        <5>. QED BY <3>3, <5>1, <5>2
      <4>. QED BY <2>5, <3>5, <4>1
    <3>7. \A e \in 1..Len(C) : \E j \in (n + 1)..Len(Q) :
            \A m \in 1..Len(Q[C[e]]) : \E q \in 1..Len(Q[j]) : Q[j][q] = Q[C[e]][m]
      <4>1. ASSUME NEW e \in 1..Len(C)
            PROVE  \E j \in (n + 1)..Len(Q) :
                     \A m \in 1..Len(Q[C[e]]) : \E q \in 1..Len(Q[j]) : Q[j][q] = Q[C[e]][m]
        <5>1. PICK j \in (n + 1)..Len(Q) : lives(C[e], j) /\ Q[C[e]] = R[C[e]]
          BY <3>6
        <5>2. \A m \in 1..Len(Q[C[e]]) : \E q \in 1..Len(Q[j]) : Q[j][q] = Q[C[e]][m]
          BY <5>1 DEF lives
        <5>. QED BY <5>2
      <4>. QED BY <4>1
    <3>. QED BY <2>6, <3>4, <3>5, <3>7 DEF Erasure, Q, C
  <2>. QED BY <2>7, <2>8
<1>16. \A c : finished(M, entrance, exit, V, c) => finished(M, entrance, exit, U, c)
  BY <1>7, FinishedMonotone
<1>17. Frontier(M, entrance, exit, T, k)
  <2>1. \A j \in 1..(k - 1) : finished(M, entrance, exit, U, Last(Q[j]))
    <3>1. \A j \in 1..(k - 1) : finished(M, entrance, exit, V, Last(R[j])) /\ Q[j] = R[j]
      <4>1. \A j \in 1..(k - 1) : j \in 1..N
        BY <1>2
      <4>. QED BY <1>1, <1>6, <4>1 DEF Frontier, V, R
    <3>. QED BY <1>16, <3>1
  <2>2. ASSUME NEW c \in U
        PROVE  \/ finished(M, entrance, exit, U, c)
               \/ \E j \in k..Len(Q) : Last(Q[j]) = c
    <3>1. CASE c = next
      BY <1>2, <1>6, <1>9, <3>1
    <3>2. CASE c \in V
      <4>1. CASE \E j \in k..N : Last(R[j]) = c
        BY <1>2, <1>6, <4>1
      <4>. QED BY <1>1, <1>16, <3>2, <4>1 DEF Frontier, V, R, N
    <3>. QED BY <1>7, <3>1, <3>2
  <2>. QED BY <2>1, <2>2 DEF Frontier, Q, U
<1>18. next \notin W[l]
  BY <1>1 DEF Levels, W
<1>19. L = l + 1
  <2>1. ~finished(M, entrance, exit, V, Last(r))
    BY DEF canStep, finished, V, r, R
  <2>. QED BY <1>1, <2>1 DEF Levels, L, r, R, V
<1>20. Levels(M, entrance, exit, T, n, l)
  <2>1. W[l] \subseteq U
    BY <1>1, <1>7 DEF Levels, W, V
  <2>2. \A j \in 1..n : \/ Len(Q[j]) = l + 1
                         \/ finished(M, entrance, exit, U, Last(Q[j]))
    <3>1. \A j \in 1..n : Q[j] = R[j]
      <4>1. \A j \in 1..n : j \in 1..N
        BY <1>2, <1>13
      <4>. QED BY <1>6, <4>1
    <3>. QED BY <1>1, <1>16, <3>1 DEF Levels, V, R
  <2>3. ASSUME NEW j \in (n + 1)..Len(Q)
        PROVE  Len(Q[j]) = l + 2 /\ Last(Q[j]) \notin W[l]
    <3>1. CASE j = N + 1
      <4>1. Q[j] = x
        BY <1>6, <3>1
      <4>2. Len(x) = l + 2
        BY <1>1, <1>5, <1>19
      <4>. QED BY <1>9, <1>18, <4>1, <4>2
    <3>2. CASE j # N + 1
      <4>1. j \in (n + 1)..(N + 1)
        BY <1>6
      <4>2. j \in (n + 1)..N /\ j \in 1..N
        BY <1>2, <1>13, <3>2, <4>1
      <4>3. Q[j] = R[j]
        BY <1>6, <4>2
      <4>4. Len(R[j]) = l + 2 /\ Last(R[j]) \notin W[l]
        BY <1>1, <4>2 DEF Levels, N, R, W
      <4>. QED BY <4>3, <4>4
    <3>. QED BY <3>1, <3>2
  <2>. QED BY <2>1, <2>2, <2>3 DEF Levels, Q, U, W
<1>21. Best(M, entrance, exit, T)
  <2>1. CASE S.bFound
    BY <1>1, <2>1 DEF Best
  <2>2. CASE ~S.bFound /\ next = exit
    <3>1. T.bFound = TRUE /\ T.vBestRoute = x
      BY <2>2 DEF x, r, R
    <3>2. Len(x) >= 2 /\ Len(x) - 2 = l
      BY <1>1, <1>5, <1>19
    <3>. QED BY <1>9, <1>11, <1>18, <2>2, <3>1, <3>2 DEF Best, W
  <2>3. CASE ~S.bFound /\ next # exit
    <3>1. T.bFound = FALSE /\ T.vBestRoute = S.vBestRoute
      BY <2>3
    <3>. QED BY <1>1, <1>7, <2>3, <3>1 DEF Best, U, V
  <2>. QED BY <2>1, <2>2, <2>3
<1>22. n \in 0..Len(Q)
  BY <1>2, <1>6, <1>13
<1>. QED BY <1>1, <1>14, <1>15, <1>17, <1>20, <1>21, <1>22 DEF SearchInv, Q

\* What the extension of route k to side s does to the search.
Extends(M, entrance, exit, S, T, k, s) ==
  /\ T.vRoutes[k] = S.vRoutes[k]
  /\ S.vVisited \subseteq T.vVisited
  /\ S.thrown => T.thrown
  /\ ~T.thrown =>
       (canPass(M, entrance, exit, Last(S.vRoutes[k]), s)
          => stepTo(Last(S.vRoutes[k]), s) \in T.vVisited)

LEMMA ExtendToInv ==
  ASSUME NEW M, NEW entrance \in Cells, NEW exit, NEW S, NEW n, NEW l,
         NEW k \in 1..n, NEW s \in Sides, SearchInv(M, entrance, exit, S, n, k, k, l)
  PROVE  LET T == extendTo(M, entrance, exit, S, k, s)
         IN  SearchInv(M, entrance, exit, T, n, k, k, l) /\ Extends(M, entrance, exit, S, T, k, s)
<1>. DEFINE route == S.vRoutes[k]
            current == Last(route)
            next == stepTo(current, s)
            T == extendTo(M, entrance, exit, S, k, s)
            pass == canPass(M, entrance, exit, current, s)
            E == appendRoute(exit, S, k, next)
<1>1. T = IF S.thrown \/ ~pass THEN S
          ELSE IF next = -1 THEN [S EXCEPT !.thrown = TRUE]
          ELSE IF next \in S.vVisited THEN S
          ELSE E
  BY Zenon DEF extendTo
<1>2. /\ S \in SearchStates /\ n \in 0..Len(S.vRoutes) /\ l \in 0..(totalCells - 1)
      /\ Paths(M, entrance, exit, S)
      /\ Erasure(S, n, k)
      /\ Frontier(M, entrance, exit, S, k)
      /\ Levels(M, entrance, exit, S, n, l)
      /\ Best(M, entrance, exit, S)
  BY DEF SearchInv
<1>3. /\ S.vRoutes \in Seq(Seq(Cells)) /\ S.vVisited \subseteq Cells
      /\ S.bErase \in Seq(Nat) /\ S.bFound \in BOOLEAN /\ S.thrown \in BOOLEAN
      /\ S.vBestRoute \in Seq(Cells)
  BY <1>2 DEF SearchStates
<1>4. k \in 1..Len(S.vRoutes) /\ k \in Nat /\ Len(S.vRoutes) \in Nat
  BY <1>2, <1>3
<1>5. IsRoute(M, entrance, exit, route)
  BY <1>2, <1>4 DEF Paths
<1>6. route \in Seq(Cells) /\ Len(route) \in 1..Len(route)
  BY <1>5 DEF IsRoute
<1>7. current \in S.vVisited /\ current \in Cells
  BY <1>2, <1>3, <1>4, <1>6 DEF Paths, Last
<1>8. next \in Cells \cup {-1}
  BY <1>7, StepToType
<1>. HIDE DEF current, next, T, pass, E
<1>9. CASE T = S /\ (S.thrown \/ ~pass \/ next \in S.vVisited)
  <2>1. SearchInv(M, entrance, exit, T, n, k, k, l)
    BY <1>9
  <2>2. Extends(M, entrance, exit, S, T, k, s)
    BY <1>7, <1>9 DEF Extends, pass, next, current
  <2>. QED BY <2>1, <2>2 DEF T
<1>10. CASE ~S.thrown /\ pass /\ next = -1 /\ T = [S EXCEPT !.thrown = TRUE]
  <2>1. /\ T.vRoutes = S.vRoutes /\ T.vVisited = S.vVisited /\ T.bErase = S.bErase
        /\ T.bFound = S.bFound /\ T.vBestRoute = S.vBestRoute /\ T.thrown = TRUE
        /\ T \in SearchStates
    BY <1>2, <1>10 DEF SearchStates
  <2>2. Paths(M, entrance, exit, T)
    BY <1>2, <2>1 DEF Paths
  <2>3. Erasure(T, n, k)
    BY <1>2, <2>1 DEF Erasure
  <2>4. Frontier(M, entrance, exit, T, k)
    BY <1>7, <1>10, <2>1 DEF Frontier, pass, next, current
  <2>5. Levels(M, entrance, exit, T, n, l)
    BY <1>2, <2>1 DEF Levels
  <2>6. Best(M, entrance, exit, T)
    BY <1>2, <2>1 DEF Best
  <2>7. SearchInv(M, entrance, exit, T, n, k, k, l)
    BY <1>2, <2>1, <2>2, <2>3, <2>4, <2>5, <2>6 DEF SearchInv
  <2>8. Extends(M, entrance, exit, S, T, k, s)
    BY <2>1 DEF Extends
  <2>. QED BY <2>7, <2>8 DEF T
<1>11. CASE ~S.thrown /\ pass /\ next # -1 /\ next \notin S.vVisited /\ T = E
  <2>1. next \in Cells
    BY <1>8, <1>11
  <2>2. /\ T.thrown = FALSE
        /\ T.vRoutes = Append(S.vRoutes, Append(S.vRoutes[k], next))
        /\ T.vVisited = S.vVisited \cup {next}
        /\ T.bErase = IF S.bErase # << >> /\ S.bErase[Len(S.bErase)] = k
                      THEN S.bErase ELSE Append(S.bErase, k)
        /\ T.bFound = (S.bFound \/ next = exit)
        /\ T.vBestRoute = IF ~S.bFound /\ next = exit
                          THEN Append(S.vRoutes[k], next) ELSE S.vBestRoute
    BY <1>2, <1>3, <1>11 DEF SearchStates, E, appendRoute
  <2>3. T \in SearchStates
    <3>. DEFINE x == Append(S.vRoutes[k], next)
    <3>1. x \in Seq(Cells)
      BY <1>6, <2>1, AppendProperties
    <3>2. Append(S.vRoutes, x) \in Seq(Seq(Cells))
      <4>. HIDE DEF x
      <4>. QED BY <1>3, <3>1, AppendProperties
    <3>3. Append(S.bErase, k) \in Seq(Nat)
      BY <1>3, <1>4, AppendProperties
    <3>4. T.bErase \in Seq(Nat)
      <4>1. T.bErase = S.bErase \/ T.bErase = Append(S.bErase, k)
        BY <2>2
      <4>. QED BY <1>3, <3>3, <4>1
    <3>5. T.vBestRoute \in Seq(Cells)
      <4>1. T.vBestRoute = S.vBestRoute \/ T.vBestRoute = x
        BY <2>2
      <4>. QED BY <1>3, <3>1, <4>1
    <3>6. T = [S EXCEPT !.vRoutes = T.vRoutes, !.vVisited = T.vVisited, !.bErase = T.bErase,
                        !.bFound = T.bFound, !.vBestRoute = T.vBestRoute]
      BY <1>2, <1>11, <2>2 DEF E, appendRoute, SearchStates
    <3>7. T.vRoutes \in Seq(Seq(Cells)) /\ T.vVisited \in SUBSET Cells /\ T.bFound \in BOOLEAN
      BY <1>3, <2>1, <2>2, <3>2
    <3>. HIDE DEF x
    <3>. QED BY <1>2, <3>4, <3>5, <3>6, <3>7 DEF SearchStates
  <2>4. canStep(M, entrance, exit, Last(S.vRoutes[k]), next)
    BY <1>7, <1>11 DEF canStep, pass, next, current
  <2>5. SearchInv(M, entrance, exit, T, n, k, k, l)
    BY <1>11, <2>1, <2>2, <2>3, <2>4, ExtendedInv
  <2>6. T.vRoutes[k] = S.vRoutes[k]
    <3>. DEFINE x == Append(S.vRoutes[k], next)
    <3>1. x \in Seq(Cells)
      BY <1>6, <2>1, AppendProperties
    <3>. HIDE DEF x
    <3>2. Append(S.vRoutes, x)[k] = S.vRoutes[k]
      BY <1>3, <1>4, <3>1, AppendProperties
    <3>. QED BY <2>2, <3>2 DEF x
  <2>7. Extends(M, entrance, exit, S, T, k, s)
    <3>1. stepTo(Last(S.vRoutes[k]), s) = next
      BY DEF next, current
    <3>. QED BY <1>11, <2>2, <2>6, <3>1 DEF Extends
  <2>. QED BY <2>5, <2>7 DEF T
<1>. QED BY <1>1, <1>9, <1>10, <1>11 DEF T

\* A route is extended to all sides (extendRoute).
LEMMA ExtendRouteInv ==
  ASSUME NEW M, NEW entrance \in Cells, NEW exit, NEW S, NEW n, NEW l,
         NEW k \in 1..n, SearchInv(M, entrance, exit, S, n, k - 1, k, l)
  PROVE  LET T == extendRoute(M, entrance, exit, S, k)
         IN  SearchInv(M, entrance, exit, T, n, k, k + 1, l) /\ (S.thrown => T.thrown)
<1>1. SearchInv(M, entrance, exit, S, n, k, k, l)
  <2>1. n \in Nat
    BY DEF SearchInv, SearchStates
  <2>2. 1..(k - 1) \subseteq 1..k
    BY <2>1
  <2>3. Erasure(S, n, k - 1) => Erasure(S, n, k)
    BY <2>2 DEF Erasure
  <2>. QED BY <2>3 DEF SearchInv
<1>. DEFINE To(U, s) == extendTo(M, entrance, exit, U, k, s)
            T0 == To(S, 0)
            T1 == To(T0, 1)
            T2 == To(T1, 2)
            T == To(T2, 3)
            Inv(U) == SearchInv(M, entrance, exit, U, n, k, k, l)
            Ext(U, W, s) == Extends(M, entrance, exit, U, W, k, s)
<1>2. \A s \in Sides : \A U : Inv(U) => Inv(To(U, s)) /\ Ext(U, To(U, s), s)
  BY ExtendToInv
<1>3. Sides = {0, 1, 2, 3}
  BY DEF Sides
<1>4. T = extendRoute(M, entrance, exit, S, k)
  BY DEF extendRoute
<1>. HIDE DEF To, Inv, Ext
<1>5. Inv(T0) /\ Ext(S, T0, 0)
  BY <1>1, <1>2, <1>3 DEF Inv
<1>. HIDE DEF T0
<1>6. Inv(T1) /\ Ext(T0, T1, 1)
  BY <1>2, <1>3, <1>5
<1>. HIDE DEF T1
<1>7. Inv(T2) /\ Ext(T1, T2, 2)
  BY <1>2, <1>3, <1>6
<1>. HIDE DEF T2
<1>8. Inv(T) /\ Ext(T2, T, 3)
  BY <1>2, <1>3, <1>7
<1>. HIDE DEF T
<1>9. S.thrown => T.thrown
  BY <1>5, <1>6, <1>7, <1>8 DEF Ext, Extends
<1>10. ASSUME ~T.thrown PROVE SearchInv(M, entrance, exit, T, n, k, k + 1, l)
  <2>. DEFINE c == Last(T.vRoutes[k])
              V == T.vVisited
              pass(s) == canPass(M, entrance, exit, c, s) => stepTo(c, s) \in V
  <2>1. pass(0) /\ pass(1) /\ pass(2) /\ pass(3)
    <3>1. /\ T.vRoutes[k] = S.vRoutes[k] /\ T.vRoutes[k] = T0.vRoutes[k]
          /\ T.vRoutes[k] = T1.vRoutes[k] /\ T.vRoutes[k] = T2.vRoutes[k]
      BY <1>5, <1>6, <1>7, <1>8 DEF Ext, Extends
    <3>2. ~T2.thrown /\ ~T1.thrown /\ ~T0.thrown
      BY <1>6, <1>7, <1>8, <1>10 DEF Ext, Extends
    <3>3. T0.vVisited \subseteq V /\ T1.vVisited \subseteq V /\ T2.vVisited \subseteq V
      BY <1>6, <1>7, <1>8 DEF Ext, Extends
    <3>4. pass(0)
      BY <1>5, <3>1, <3>2, <3>3 DEF Ext, Extends
    <3>5. pass(1)
      BY <1>6, <3>1, <3>2, <3>3 DEF Ext, Extends
    <3>6. pass(2)
      BY <1>7, <3>1, <3>2, <3>3 DEF Ext, Extends
    <3>7. pass(3)
      BY <1>8, <1>10, <3>1 DEF Ext, Extends
    <3>. QED BY <3>4, <3>5, <3>6, <3>7
  <2>2. finished(M, entrance, exit, V, c)
    BY <1>3, <2>1 DEF finished
  <2>3. Frontier(M, entrance, exit, T, k)
    BY <1>8 DEF Inv, SearchInv
  <2>4. n \in Nat
    BY DEF SearchInv, SearchStates
  <2>. HIDE DEF c, V
  <2>5. \A j \in 1..(k + 1 - 1) : finished(M, entrance, exit, V, Last(T.vRoutes[j]))
    <3>1. \A j \in 1..(k + 1 - 1) : j \in 1..(k - 1) \/ j = k
      BY <2>4
    <3>. QED BY <1>10, <2>2, <2>3, <3>1 DEF Frontier, V, c
  <2>6. ASSUME NEW d \in T.vVisited
        PROVE  \/ finished(M, entrance, exit, V, d)
               \/ \E j \in (k + 1)..Len(T.vRoutes) : Last(T.vRoutes[j]) = d
    <3>1. CASE finished(M, entrance, exit, V, d)
      BY <3>1
    <3>2. CASE \E j \in k..Len(T.vRoutes) : Last(T.vRoutes[j]) = d
      <4>1. PICK j \in k..Len(T.vRoutes) : Last(T.vRoutes[j]) = d
        BY <3>2
      <4>2. Len(T.vRoutes) \in Nat
        BY <1>8 DEF Inv, SearchInv, SearchStates
      <4>3. j = k \/ j \in (k + 1)..Len(T.vRoutes)
        BY <2>4, <4>2
      <4>. QED BY <2>2, <4>1, <4>3 DEF c
    <3>. QED BY <1>10, <2>3, <3>1, <3>2 DEF Frontier, V
  <2>7. Frontier(M, entrance, exit, T, k + 1)
    BY <1>10, <2>5, <2>6 DEF Frontier, V
  <2>. QED BY <1>8, <2>7 DEF Inv, SearchInv
<1>11. ASSUME T.thrown PROVE SearchInv(M, entrance, exit, T, n, k, k + 1, l)
  <2>1. Frontier(M, entrance, exit, T, k) => Frontier(M, entrance, exit, T, k + 1)
    BY <1>11 DEF Frontier
  <2>. QED BY <1>8, <2>1 DEF Inv, SearchInv
<1>. QED BY <1>4, <1>9, <1>10, <1>11
-----------------------------------------------------------------------------
(***************************************************************************)
(* The erasure of the routes that were extended.                           *)
(***************************************************************************)
LEMMA RemoveAtProperties ==
  ASSUME NEW X, NEW s \in Seq(X), NEW i \in 1..Len(s)
  PROVE  /\ RemoveAt(s, i) \in Seq(X)
         /\ Len(RemoveAt(s, i)) = Len(s) - 1
         /\ \A p \in 1..(Len(s) - 1) :
              RemoveAt(s, i)[p] = IF p < i THEN s[p] ELSE s[p + 1]
<1>. DEFINE u == SubSeq(s, 1, i - 1)
            v == SubSeq(s, i + 1, Len(s))
<1>1. RemoveAt(s, i) = u \o v /\ Len(s) \in Nat
  BY DEF RemoveAt
<1>2. /\ u \in Seq(X) /\ Len(u) = i - 1
      /\ \A p \in 1..(i - 1) : u[p] = s[p]
  OBVIOUS
<1>3. /\ v \in Seq(X) /\ Len(v) = Len(s) - i
      /\ \A p \in 1..(Len(s) - i) : v[p] = s[p + i]
  OBVIOUS
<1>. HIDE DEF u, v
<1>4. /\ u \o v \in Seq(X) /\ Len(u \o v) = Len(u) + Len(v)
      /\ \A p \in 1..(Len(u) + Len(v)) :
           (u \o v)[p] = IF p <= Len(u) THEN u[p] ELSE v[p - Len(u)]
  BY <1>2, <1>3, ConcatProperties
<1>. QED BY <1>1, <1>2, <1>3, <1>4

\* A list of numbers that increases from each to the next increases.
LEMMA Increasing ==
  ASSUME NEW N \in Nat, NEW B, \A e \in 1..N : B[e] \in Nat,
         \A e \in 2..N : B[e - 1] < B[e]
  PROVE  \A e, f \in 1..N : e < f => B[e] < B[f]
<1>. DEFINE S == {d \in Nat : \A e \in 1..N : e + d < N => B[e] < B[e + d + 1]}
<1>1. 0 \in S
  <2>1. ASSUME NEW e \in 1..N, e + 0 < N PROVE B[e] < B[e + 0 + 1]
    <3>1. e + 0 + 1 \in 2..N /\ e + 0 + 1 - 1 = e
      BY <2>1
    <3>. QED BY <3>1
  <2>. QED BY <2>1
<1>2. ASSUME NEW d \in Nat, d \in S PROVE d + 1 \in S
  <2>1. ASSUME NEW e \in 1..N, e + (d + 1) < N PROVE B[e] < B[e + (d + 1) + 1]
    <3>. DEFINE p == e + (d + 1) + 1
    <3>1. p \in 2..N /\ p - 1 = e + d + 1 /\ p - 1 \in 1..N /\ p \in 1..N /\ e + d < N
      BY <2>1
    <3>2. B[e] < B[p - 1]
      BY <1>2, <3>1
    <3>. HIDE DEF p
    <3>3. B[p - 1] < B[p] /\ B[p - 1] \in Nat /\ B[p] \in Nat /\ B[e] \in Nat
      BY <3>1
    <3>. QED BY <3>2, <3>3 DEF p
  <2>. QED BY <2>1
<1>3. Nat \subseteq S
  <2>. HIDE DEF S
  <2>. QED BY <1>1, <1>2, NatSetInduction
<1>4. ASSUME NEW e \in 1..N, NEW f \in 1..N, e < f PROVE B[e] < B[f]
  <2>. DEFINE d == f - e - 1
  <2>1. d \in Nat /\ e + d < N /\ e + d + 1 = f
    BY <1>4
  <2>. HIDE DEF d
  <2>2. d \in S
    BY <1>3, <2>1
  <2>. QED BY <2>1, <2>2
<1>. QED BY <1>4

\* After e of the routes R at the positions B are erased, the last of them
\* first: q is the position erased last, the routes before q are as they were,
\* and behind are the routes from q on that are not to be erased.
ErasedFrom(R, B, q, T) ==
  /\ q - 1 <= Len(T)
  /\ \A p \in 1..(q - 1) : T[p] = R[p]
  /\ \A j \in q..Len(R) :
       \/ \E f \in 1..Len(B) : B[f] = j
       \/ \E p \in q..Len(T) : T[p] = R[j]
  /\ \A p \in q..Len(T) :
       \E j \in q..Len(R) : T[p] = R[j] /\ \A f \in 1..Len(B) : B[f] # j

LEMMA EraseOne ==
  ASSUME NEW X, NEW R \in Seq(X), NEW B \in Seq(Nat), NEW T \in Seq(X),
         NEW q \in 1..(Len(R) + 1), ErasedFrom(R, B, q, T),
         NEW i \in 1..(q - 1), NEW e \in 1..Len(B), B[e] = i,
         \A f \in 1..Len(B) : B[f] <= i \/ B[f] >= q
  PROVE  RemoveAt(T, i) \in Seq(X) /\ ErasedFrom(R, B, i, RemoveAt(T, i))
<1>. DEFINE U == RemoveAt(T, i)
            N == Len(T)
<1>1. Len(R) \in Nat /\ N \in Nat /\ i \in 1..N /\ i < q /\ i \in Nat /\ q \in Nat
  BY DEF ErasedFrom
<1>2. /\ U \in Seq(X) /\ Len(U) = N - 1
      /\ \A p \in 1..(N - 1) : U[p] = IF p < i THEN T[p] ELSE T[p + 1]
  BY <1>1, RemoveAtProperties
<1>. HIDE DEF U
<1>3. i - 1 <= Len(U)
  BY <1>1, <1>2
<1>4. ASSUME NEW p \in 1..(i - 1) PROVE U[p] = R[p]
  <2>1. p \in 1..(q - 1) /\ p \in 1..(N - 1) /\ p < i
    BY <1>1
  <2>. QED BY <1>2, <2>1 DEF ErasedFrom
<1>5. ASSUME NEW j \in i..Len(R)
      PROVE  \/ \E f \in 1..Len(B) : B[f] = j
             \/ \E p \in i..Len(U) : U[p] = R[j]
  <2>1. CASE j = i
    BY <2>1
  <2>2. CASE j > i /\ j < q
    <3>1. j - 1 \in i..Len(U) /\ j - 1 \in 1..(N - 1) /\ ~(j - 1 < i) /\ j - 1 + 1 = j
      BY <1>1, <1>2, <2>2 DEF ErasedFrom
    <3>2. T[j] = R[j]
      <4>1. j \in 1..(q - 1)
        BY <1>1, <2>2
      <4>. QED BY <4>1 DEF ErasedFrom
    <3>. QED BY <1>2, <3>1, <3>2
  <2>3. CASE j >= q
    <3>1. j \in q..Len(R)
      BY <1>1, <2>3
    <3>2. CASE \E p \in q..N : T[p] = R[j]
      <4>1. PICK p \in q..N : T[p] = R[j]
        BY <3>2
      <4>2. p - 1 \in i..Len(U) /\ p - 1 \in 1..(N - 1) /\ ~(p - 1 < i) /\ p - 1 + 1 = p
        BY <1>1, <1>2
      <4>. QED BY <1>2, <4>1, <4>2
    <3>. QED BY <3>1, <3>2 DEF ErasedFrom
  <2>. QED BY <1>1, <2>1, <2>2, <2>3
<1>6. ASSUME NEW p \in i..Len(U)
      PROVE  \E j \in i..Len(R) : U[p] = R[j] /\ \A f \in 1..Len(B) : B[f] # j
  <2>1. p \in 1..(N - 1) /\ ~(p < i) /\ p + 1 \in 1..N
    BY <1>1, <1>2
  <2>2. U[p] = T[p + 1]
    BY <1>2, <2>1
  <2>3. CASE p + 1 < q
    <3>1. p + 1 \in i..Len(R) /\ p + 1 \in 1..(q - 1)
      <4>1. p \in Nat /\ p >= i /\ q <= Len(R) + 1
        BY <1>1, <2>1
      <4>. QED BY <1>1, <2>3, <4>1
    <3>2. T[p + 1] = R[p + 1]
      BY <3>1 DEF ErasedFrom
    <3>3. \A f \in 1..Len(B) : B[f] # p + 1
      <4>1. ASSUME NEW f \in 1..Len(B) PROVE B[f] # p + 1
        <5>1. B[f] <= i \/ B[f] >= q
          OBVIOUS
        <5>2. ~(p + 1 <= i) /\ ~(p + 1 >= q)
          BY <1>1, <2>1, <2>3
        <5>. QED BY <5>1, <5>2
      <4>. QED BY <4>1
    <3>. QED BY <2>2, <3>1, <3>2, <3>3
  <2>4. CASE p + 1 >= q
    <3>1. p + 1 \in q..N
      BY <1>1, <2>1, <2>4
    <3>2. PICK j \in q..Len(R) : T[p + 1] = R[j] /\ \A f \in 1..Len(B) : B[f] # j
      BY <3>1 DEF ErasedFrom
    <3>3. j \in i..Len(R)
      BY <1>1
    <3>. QED BY <2>2, <3>2, <3>3
  <2>. QED BY <1>1, <2>1, <2>3, <2>4
<1>. QED BY <1>2, <1>3, <1>4, <1>5, <1>6 DEF ErasedFrom, U

\* The routes while some of them are erased, as a function of how many are.
erasedStates(S) ==
  LET n == Len(S.bErase)
      erased[e \in 0..n] ==
        IF e = 0 THEN S.vRoutes ELSE RemoveAt(erased[e - 1], S.bErase[n + 1 - e])
  IN  erased

\* The position erased last, when e routes are erased.
erasedDownTo(S, e) ==
  IF e = 0 THEN Len(S.vRoutes) + 1 ELSE S.bErase[Len(S.bErase) + 1 - e]

\* The positions are erased in decreasing order, each while it is still that of
\* the route it was noted for.
LEMMA ErasedStates ==
  ASSUME NEW S \in SearchStates,
         \A e \in 1..Len(S.bErase) : S.bErase[e] \in 1..Len(S.vRoutes),
         \A e \in 2..Len(S.bErase) : S.bErase[e - 1] < S.bErase[e]
  PROVE  LET R == S.vRoutes
             B == S.bErase
             n == Len(B)
             E == erasedStates(S)
         IN  /\ eraseRoutes(S) = [S EXCEPT !.vRoutes = E[n]]
             /\ E[0] = R
             /\ \A e \in 1..n : /\ E[e] = RemoveAt(E[e - 1], B[n + 1 - e])
                                /\ B[n + 1 - e] \in 1..Len(E[e - 1])
             /\ \A e \in 0..n : /\ E[e] \in Seq(Seq(Cells))
                                /\ ErasedFrom(R, B, erasedDownTo(S, e), E[e])
<1>. DEFINE R == S.vRoutes
            B == S.bErase
            n == Len(B)
            X == Seq(Cells)
            from(e) == IF e = 0 THEN Len(R) + 1 ELSE B[n + 1 - e]
            after(e) == {T \in Seq(X) : ErasedFrom(R, B, from(e), T)}
            D == [e \in 0..n |-> after(e)]
            step == [e \in 1..n |-> [T \in Seq(X) |-> RemoveAt(T, B[n + 1 - e])]]
            erased == erasedStates(S)
<1>1. R \in Seq(X) /\ B \in Seq(Nat)
  BY DEF SearchStates
<1>2. n \in Nat /\ Len(R) \in Nat
  <2>. HIDE DEF R, B, X
  <2>. QED BY <1>1
<1>3. \A e \in 1..n : B[e] \in 1..Len(R) /\ B[e] \in Nat
  OBVIOUS
<1>4. \A e, f \in 1..n : e < f => B[e] < B[f]
  <2>1. \A e \in 2..n : B[e - 1] < B[e]
    OBVIOUS
  <2>. HIDE DEF B, n
  <2>. QED BY <1>2, <1>3, <2>1, Increasing
<1>5. /\ eraseRoutes(S) = [S EXCEPT !.vRoutes = erased[n]]
      /\ erased = CHOOSE g : g = [e \in 0..n |->
                    IF e = 0 THEN R ELSE RemoveAt(g[e - 1], B[n + 1 - e])]
      /\ \A e : from(e) = erasedDownTo(S, e)
  BY DEF eraseRoutes, erasedStates, erasedDownTo
<1>. HIDE DEF R, B, n, X, erased
<1>6. R \in D[0]
  <2>1. ErasedFrom(R, B, Len(R) + 1, R)
    BY <1>2 DEF ErasedFrom
  <2>. QED BY <1>1, <1>2, <2>1
<1>7. ASSUME NEW e \in 1..n, NEW T \in D[e - 1]
      PROVE  /\ RemoveAt(T, B[n + 1 - e]) \in D[e] /\ T \in Seq(X)
             /\ B[n + 1 - e] \in 1..Len(T)
  <2>. DEFINE i == B[n + 1 - e]
              q == from(e - 1)
  <2>1. e - 1 \in 0..n /\ e \in 0..n /\ e # 0 /\ n + 1 - e \in 1..n
    BY <1>2
  <2>2. T \in Seq(X) /\ ErasedFrom(R, B, q, T)
    BY <2>1
  <2>3. i \in Nat /\ i \in 1..Len(R)
    BY <1>3, <2>1
  <2>4. /\ q \in 1..(Len(R) + 1) /\ i < q
        /\ \A f \in 1..n : B[f] <= i \/ B[f] >= q
    <3>1. CASE e = 1
      <4>1. q = Len(R) + 1 /\ n + 1 - e = n
        BY <1>2, <3>1
      <4>2. \A f \in 1..n : f = n \/ f < n
        BY <1>2
      <4>3. \A f \in 1..n : B[f] <= i
        BY <1>2, <1>3, <1>4, <2>1, <4>1, <4>2
      <4>. QED BY <1>2, <2>3, <4>1, <4>3
    <3>2. CASE e # 1
      <4>1. e - 1 # 0 /\ n + 1 - (e - 1) = n + 2 - e /\ n + 2 - e \in 1..n
        BY <1>2, <3>2
      <4>2. q = B[n + 2 - e]
        BY <4>1
      <4>3. \A f \in 1..n : \/ f < n + 1 - e \/ f = n + 1 - e
                            \/ f = n + 2 - e \/ f > n + 2 - e
        BY <1>2
      <4>4. n + 1 - e < n + 2 - e
        BY <1>2
      <4>. HIDE DEF q
      <4>5. ASSUME NEW f \in 1..n PROVE B[f] <= i \/ B[f] >= q
        <5>1. CASE f < n + 1 - e \/ f = n + 1 - e
          <6>1. B[f] < i \/ B[f] = i
            BY <1>4, <2>1, <5>1
          <6>. QED BY <1>3, <2>3, <6>1
        <5>2. CASE f = n + 2 - e \/ f > n + 2 - e
          <6>1. q < B[f] \/ q = B[f]
            BY <1>4, <4>1, <4>2, <5>2
          <6>. QED BY <1>3, <4>1, <4>2, <6>1
        <5>. QED BY <4>3, <5>1, <5>2
      <4>6. i < q /\ q \in 1..(Len(R) + 1)
        <5>1. i < q
          BY <1>4, <2>1, <4>1, <4>2, <4>4
        <5>2. q \in 1..Len(R)
          BY <1>3, <4>1, <4>2
        <5>. QED BY <1>2, <5>1, <5>2
      <4>. QED BY <4>5, <4>6
    <3>. QED BY <3>1, <3>2
  <2>5. i \in 1..(q - 1)
    BY <1>2, <2>3, <2>4
  <2>6. n = Len(B)
    BY DEF n
  <2>. DEFINE E == n + 1 - e
  <2>7. E \in 1..Len(B) /\ B[E] = i
    BY <2>1, <2>6
  <2>. HIDE DEF q, i, E
  <2>8. RemoveAt(T, i) \in Seq(X) /\ ErasedFrom(R, B, i, RemoveAt(T, i))
    BY <1>1, <2>2, <2>4, <2>5, <2>6, <2>7, EraseOne
  <2>9. from(e) = i
    BY <2>1 DEF i
  <2>10. i \in 1..Len(T)
    <3>1. q \in Nat /\ q - 1 <= Len(T) /\ Len(T) \in Nat
      BY <1>2, <2>2, <2>4 DEF ErasedFrom
    <3>. QED BY <2>5, <3>1
  <2>. QED BY <2>1, <2>2, <2>8, <2>9, <2>10 DEF i
<1>8. PICK f : IsRecursion(f, R, step, n) /\ \A e \in 0..n : f[e] \in D[e]
  <2>1. HandsOn(step, D, n)
    BY <1>7 DEF HandsOn
  <2>. HIDE DEF D, step
  <2>. QED BY <1>2, <1>6, <2>1, Recursion
<1>9. f = [e \in 0..n |-> IF e = 0 THEN R ELSE RemoveAt(f[e - 1], B[n + 1 - e])]
  <2>1. ASSUME NEW e \in 1..n PROVE f[e] = RemoveAt(f[e - 1], B[n + 1 - e])
    <3>1. f[e - 1] \in D[e - 1]
      <4>1. e - 1 \in 0..n
        BY <1>2
      <4>. QED BY <1>8, <4>1
    <3>2. f[e - 1] \in Seq(X)
      BY <1>7, <3>1
    <3>3. step[e][f[e - 1]] = RemoveAt(f[e - 1], B[n + 1 - e])
      BY <3>2
    <3>. QED BY <1>8, <3>3 DEF IsRecursion
  <2>. HIDE DEF step, D
  <2>2. \A e \in 0..n : f[e] = IF e = 0 THEN R ELSE RemoveAt(f[e - 1], B[n + 1 - e])
    <3>1. \A e \in 0..n : e = 0 \/ e \in 1..n
      BY <1>2
    <3>2. \A e \in 1..n : e # 0
      OBVIOUS
    <3>. QED BY <1>8, <2>1, <3>1, <3>2 DEF IsRecursion
  <2>. QED BY <1>8, <2>2, Zenon DEF IsRecursion
<1>. HIDE DEF D, step
<1>10. erased = [e \in 0..n |-> IF e = 0 THEN R ELSE RemoveAt(erased[e - 1], B[n + 1 - e])]
  BY <1>5, <1>9, Zenon
<1>11. \A e \in 0..n : erased[e] \in D[e]
  <2>1. \A e \in 0..n : erased[e] = IF e = 0 THEN R ELSE RemoveAt(erased[e - 1], B[n + 1 - e])
    BY <1>10, Zenon
  <2>2. erased[0] \in D[0]
    BY <1>2, <1>6, <2>1
  <2>3. \A e \in 1..n : erased[e - 1] \in D[e - 1] => erased[e] \in D[e]
    <3>1. \A e \in 1..n : e \in 0..n /\ e # 0
      BY <1>2
    <3>. QED BY <1>7, <2>1, <3>1
  <2>. QED BY <1>2, <2>2, <2>3, StepInduction
<1>12. erased[0] = R /\ \A e \in 1..n : erased[e] = RemoveAt(erased[e - 1], B[n + 1 - e])
  <2>1. \A e \in 0..n : erased[e] = IF e = 0 THEN R ELSE RemoveAt(erased[e - 1], B[n + 1 - e])
    BY <1>10, Zenon
  <2>2. 0 \in 0..n /\ \A e \in 1..n : e \in 0..n /\ e # 0
    BY <1>2
  <2>. QED BY <2>1, <2>2
<1>13. \A e \in 1..n : B[n + 1 - e] \in 1..Len(erased[e - 1])
  <2>1. \A e \in 1..n : e - 1 \in 0..n
    BY <1>2
  <2>. QED BY <1>7, <1>11, <2>1
<1>14. \A e \in 0..n : erased[e] \in Seq(X) /\ ErasedFrom(R, B, from(e), erased[e])
  BY <1>11 DEF D
<1>. HIDE DEF from
<1>. QED BY <1>5, <1>12, <1>13, <1>14 DEF R, B, n, X, erased

\* The routes that are left by eraseRoutes are those that were not extended.
LEMMA EraseRoutes ==
  ASSUME NEW S \in SearchStates,
         \A e \in 1..Len(S.bErase) : S.bErase[e] \in 1..Len(S.vRoutes),
         \A e \in 2..Len(S.bErase) : S.bErase[e - 1] < S.bErase[e]
  PROVE  LET R == S.vRoutes
             B == S.bErase
             T == eraseRoutes(S).vRoutes
         IN  /\ eraseRoutes(S) = [S EXCEPT !.vRoutes = T]
             /\ T \in Seq(Seq(Cells))
             /\ \A j \in 1..Len(R) :
                  (\E f \in 1..Len(B) : B[f] = j) \/ \E p \in 1..Len(T) : T[p] = R[j]
             /\ \A p \in 1..Len(T) :
                  \E j \in 1..Len(R) : T[p] = R[j] /\ \A f \in 1..Len(B) : B[f] # j
             /\ B = << >> => T = R
<1>. DEFINE R == S.vRoutes
            B == S.bErase
            n == Len(B)
            X == Seq(Cells)
            from(e) == IF e = 0 THEN Len(R) + 1 ELSE B[n + 1 - e]
            erased == erasedStates(S)
<1>1. R \in Seq(X) /\ B \in Seq(Nat)
  BY DEF SearchStates
<1>2. n \in Nat /\ Len(R) \in Nat
  <2>. HIDE DEF R, B, X
  <2>. QED BY <1>1
<1>3. \A e \in 1..n : B[e] \in 1..Len(R) /\ B[e] \in Nat
  OBVIOUS
<1>4. \A e, f \in 1..n : e < f => B[e] < B[f]
  <2>1. \A e \in 2..n : B[e - 1] < B[e]
    OBVIOUS
  <2>. HIDE DEF B, n
  <2>. QED BY <1>2, <1>3, <2>1, Increasing
<1>5. /\ eraseRoutes(S) = [S EXCEPT !.vRoutes = erased[n]]
      /\ erased[0] = R
      /\ \A e \in 0..n : erased[e] \in Seq(X) /\ ErasedFrom(R, B, erasedDownTo(S, e), erased[e])
  BY ErasedStates
<1>6. \A e : from(e) = erasedDownTo(S, e)
  BY DEF erasedDownTo
<1>. HIDE DEF R, B, n, X, erased
<1>. DEFINE T == erased[n]
<1>12. eraseRoutes(S) = [S EXCEPT !.vRoutes = T] /\ eraseRoutes(S).vRoutes = T
  BY <1>5 DEF SearchStates
<1>13. T \in Seq(X) /\ ErasedFrom(R, B, from(n), T)
  <2>1. n \in 0..n
    BY <1>2
  <2>. HIDE DEF from
  <2>. QED BY <1>5, <1>6, <2>1
<1>14. n = 0 => T = R
  BY <1>5
<1>15. from(n) \in 1..(Len(R) + 1) /\ \A e \in 1..n : B[e] >= from(n)
  <2>1. CASE n = 0
    BY <1>2, <2>1
  <2>2. CASE n # 0
    <3>1. from(n) = B[1] /\ 1 \in 1..n
      BY <1>2, <2>2
    <3>2. \A e \in 1..n : e = 1 \/ 1 < e
      BY <1>2
    <3>. QED BY <1>2, <1>3, <1>4, <3>1, <3>2
  <2>. QED BY <2>1, <2>2
<1>. DEFINE q == from(n)
<1>16. Len(T) \in Nat /\ q - 1 <= Len(T)
  BY <1>13 DEF ErasedFrom
<1>. HIDE DEF T, q
<1>17. ASSUME NEW j \in 1..Len(R)
       PROVE  (\E g \in 1..n : B[g] = j) \/ \E p \in 1..Len(T) : T[p] = R[j]
  <2>1. CASE j < q
    <3>1. j \in 1..(q - 1) /\ j \in 1..Len(T)
      BY <1>2, <1>15, <1>16, <2>1 DEF q
    <3>. QED BY <1>13, <3>1 DEF ErasedFrom, q
  <2>2. CASE j >= q
    <3>1. j \in q..Len(R) /\ q..Len(T) \subseteq 1..Len(T)
      BY <1>2, <1>15, <1>16, <2>2 DEF q
    <3>. QED BY <1>13, <3>1 DEF ErasedFrom, q, n
  <2>. QED BY <1>2, <1>15, <2>1, <2>2 DEF q
<1>18. ASSUME NEW p \in 1..Len(T)
       PROVE  \E j \in 1..Len(R) : T[p] = R[j] /\ \A g \in 1..n : B[g] # j
  <2>1. CASE p < q
    <3>1. p \in 1..(q - 1) /\ p \in 1..Len(R)
      BY <1>2, <1>15, <1>16, <2>1 DEF q
    <3>2. T[p] = R[p]
      BY <1>13, <3>1 DEF ErasedFrom, q
    <3>3. \A g \in 1..n : B[g] # p
      BY <1>2, <1>3, <1>15, <2>1 DEF q
    <3>. QED BY <3>1, <3>2, <3>3
  <2>2. CASE p >= q
    <3>1. p \in q..Len(T) /\ q..Len(R) \subseteq 1..Len(R)
      BY <1>2, <1>15, <1>16, <2>2 DEF q
    <3>. QED BY <1>13, <3>1 DEF ErasedFrom, q, n
  <2>. QED BY <1>2, <1>15, <2>1, <2>2 DEF q
<1>19. B = << >> => T = R
  BY <1>14 DEF n, T
<1>. QED BY <1>12, <1>13, <1>17, <1>18, <1>19 DEF R, B, n, X
-----------------------------------------------------------------------------
(***************************************************************************)
(* The rounds of the search.                                               *)
(***************************************************************************)

\* A round that extended routes ends: they are erased, and whatever can be
\* reached in one step more has been visited.
LEMMA EndRoundInv ==
  ASSUME NEW M, NEW entrance \in Cells, NEW exit, NEW S, NEW n, NEW l,
         SearchInv(M, entrance, exit, S, n, n, n + 1, l), ~S.thrown, S.bErase # << >>
  PROVE  LET T == [eraseRoutes(S) EXCEPT !.bErase = << >>]
         IN  SearchInv(M, entrance, exit, T, Len(T.vRoutes), 0, 1, l + 1) /\ ~T.thrown
<1>. DEFINE R == S.vRoutes
            B == S.bErase
            V == S.vVisited
            Q == eraseRoutes(S).vRoutes
            T == [eraseRoutes(S) EXCEPT !.bErase = << >>]
            W == cellsWithin(M, entrance, exit)
            N == Len(R)
            fin(c) == finished(M, entrance, exit, V, c)
<1>1. /\ S \in SearchStates /\ n \in 0..N /\ l \in 0..(totalCells - 1)
      /\ Paths(M, entrance, exit, S)
      /\ Erasure(S, n, n)
      /\ Frontier(M, entrance, exit, S, n + 1)
      /\ Levels(M, entrance, exit, S, n, l)
      /\ Best(M, entrance, exit, S)
  BY DEF SearchInv
<1>2. R \in Seq(Seq(Cells)) /\ B \in Seq(Nat) /\ V \subseteq Cells
  BY <1>1 DEF SearchStates
<1>3. N \in Nat /\ n \in Nat /\ n <= N /\ totalCells \in Nat /\ l \in Nat
  <2>1. N \in Nat
    <3>. HIDE DEF R
    <3>. QED BY <1>2
  <2>. QED BY <1>1, <2>1, SizeFacts
<1>4. /\ \A e \in 1..Len(B) : B[e] \in 1..n
      /\ \A e \in 2..Len(B) : B[e - 1] < B[e]
      /\ \A e \in 1..Len(B) :
           \E j \in (n + 1)..N :
             \A m \in 1..Len(R[B[e]]) : \E p \in 1..Len(R[j]) : R[j][p] = R[B[e]][m]
  BY <1>1 DEF Erasure
<1>5. \A e \in 1..Len(B) : B[e] \in 1..N
  <2>1. 1..n \subseteq 1..N
    BY <1>3
  <2>. HIDE DEF B, N
  <2>. QED BY <1>4, <2>1
<1>6. /\ eraseRoutes(S) = [S EXCEPT !.vRoutes = Q]
      /\ Q \in Seq(Seq(Cells))
      /\ \A j \in 1..N : (\E f \in 1..Len(B) : B[f] = j) \/ \E p \in 1..Len(Q) : Q[p] = R[j]
      /\ \A p \in 1..Len(Q) : \E j \in 1..N : Q[p] = R[j] /\ \A f \in 1..Len(B) : B[f] # j
  BY <1>1, <1>4, <1>5, EraseRoutes
<1>7. /\ T.vRoutes = Q /\ T.vVisited = V /\ T.bErase = << >> /\ T.thrown = S.thrown
      /\ T.bFound = S.bFound /\ T.vBestRoute = S.vBestRoute
      /\ T \in SearchStates
  <2>. HIDE DEF Q
  <2>1. T = [S EXCEPT !.vRoutes = Q, !.bErase = << >>]
    BY <1>1, <1>6 DEF SearchStates
  <2>2. << >> \in Seq(Nat)
    OBVIOUS
  <2>. HIDE DEF T
  <2>. QED BY <1>1, <1>6, <2>1, <2>2 DEF SearchStates
<1>8. /\ \A j \in 1..n : fin(Last(R[j]))
      /\ \A c \in V : fin(c) \/ \E j \in (n + 1)..N : Last(R[j]) = c
  BY <1>1, <1>3 DEF Frontier
<1>9. \A j \in (n + 1)..N : Len(R[j]) = l + 2 /\ Last(R[j]) \notin W[l]
  BY <1>1 DEF Levels
<1>10. /\ \A j \in 1..N : IsRoute(M, entrance, exit, R[j])
       /\ \A j \in 1..N : \A m \in 1..Len(R[j]) : R[j][m] \in V
       /\ \A c \in V : \E j \in 1..N : \E m \in 1..Len(R[j]) : R[j][m] = c
       /\ entrance \in V
  BY <1>1 DEF Paths
<1>11. W[l] \subseteq V
  BY <1>1 DEF Levels
<1>. HIDE DEF R, B, V, Q, T, W, N, fin
<1>12. \A j \in (n + 1)..N : j \in 1..N /\ \E p \in 1..Len(Q) : Q[p] = R[j]
  <2>1. ASSUME NEW j \in (n + 1)..N PROVE j \in 1..N /\ \A e \in 1..Len(B) : B[e] # j
    <3>1. j \in 1..N /\ j \notin 1..n
      BY <1>3
    <3>. QED BY <1>4, <3>1
  <2>. QED BY <1>6, <2>1
<1>13. ASSUME NEW c \in V PROVE \E p \in 1..Len(Q) : \E m \in 1..Len(Q[p]) : Q[p][m] = c
  <2>1. PICK j \in 1..N : \E m \in 1..Len(R[j]) : R[j][m] = c
    BY <1>10
  <2>2. CASE \E p \in 1..Len(Q) : Q[p] = R[j]
    BY <2>1, <2>2
  <2>3. CASE \E e \in 1..Len(B) : B[e] = j
    <3>1. PICK e \in 1..Len(B) : B[e] = j
      BY <2>3
    <3>2. PICK i \in (n + 1)..N :
            \A x \in 1..Len(R[B[e]]) : \E p \in 1..Len(R[i]) : R[i][p] = R[B[e]][x]
      BY <1>4
    <3>3. \E p \in 1..Len(R[i]) : R[i][p] = c
      BY <2>1, <3>1, <3>2
    <3>. QED BY <1>12, <3>3
  <2>. QED BY <1>6, <2>2, <2>3
<1>14. ASSUME NEW p \in 1..Len(Q)
       PROVE  /\ IsRoute(M, entrance, exit, Q[p])
              /\ \A m \in 1..Len(Q[p]) : Q[p][m] \in V
              /\ Len(Q[p]) = l + 2 \/ fin(Last(Q[p]))
  <2>1. PICK j \in 1..N : Q[p] = R[j]
    BY <1>6
  <2>2. j \in 1..n \/ j \in (n + 1)..N
    BY <1>3
  <2>. QED BY <1>8, <1>9, <1>10, <2>1, <2>2
<1>15. Paths(M, entrance, exit, T)
  BY <1>7, <1>10, <1>13, <1>14 DEF Paths
<1>16. Len(Q) \in Nat
  BY <1>6
<1>17. Erasure(T, Len(Q), 0)
  BY <1>7, <1>16 DEF Erasure
<1>18. Frontier(M, entrance, exit, T, 1)
  <2>1. \A c \in V : fin(c) \/ \E j \in 1..Len(Q) : Last(Q[j]) = c
    <3>1. ASSUME NEW c \in V, ~fin(c) PROVE \E j \in 1..Len(Q) : Last(Q[j]) = c
      <4>1. PICK j \in (n + 1)..N : Last(R[j]) = c
        BY <1>8, <3>1
      <4>. QED BY <1>12, <4>1
    <3>. QED BY <3>1
  <2>. QED BY <1>7, <2>1 DEF Frontier, fin
<1>19. l + 1 \in 1..(totalCells - 1)
  <2>1. 1 \in 1..Len(B)
    <3>1. Len(B) \in Nat /\ Len(B) # 0
      BY <1>2 DEF B
    <3>. QED BY <3>1
  <2>2. PICK j \in (n + 1)..N : TRUE
    BY <1>4, <2>1
  <2>3. Len(R[j]) = l + 2 /\ IsRoute(M, entrance, exit, R[j])
    BY <1>9, <1>10, <1>12
  <2>4. l + 2 \in 1..totalCells
    BY <2>3, RouteLength
  <2>. QED BY <1>3, <2>4
<1>20. W[l + 1] \subseteq V
  <2>1. l + 1 \in 1..totalCells /\ l + 1 - 1 = l
    BY <1>3, <1>19
  <2>2. W[l + 1] = W[l] \cup oneStepFrom(M, entrance, exit, W[l])
    BY <1>1, WithinStep DEF W
  <2>3. ASSUME NEW c \in W[l], NEW d, canStep(M, entrance, exit, c, d) PROVE d \in V
    <3>1. fin(c)
      BY <1>8, <1>9, <1>11
    <3>. QED BY <2>3, <3>1 DEF fin, finished, canStep
  <2>. QED BY <1>11, <2>2, <2>3 DEF oneStepFrom
<1>21. Levels(M, entrance, exit, T, Len(Q), l + 1)
  <2>1. (Len(Q) + 1)..Len(Q) = {} /\ l + 1 + 1 = l + 2
    BY <1>3, <1>16
  <2>. QED BY <1>7, <1>14, <1>20, <2>1 DEF Levels, W, fin
<1>22. Best(M, entrance, exit, T)
  BY <1>1, <1>7 DEF Best, V
<1>23. Len(Q) \in 0..Len(Q) /\ l + 1 \in 0..(totalCells - 1)
  BY <1>3, <1>16, <1>19
<1>24. SearchInv(M, entrance, exit, T, Len(T.vRoutes), 0, 1, l + 1)
  BY <1>7, <1>15, <1>17, <1>18, <1>21, <1>22, <1>23 DEF SearchInv
<1>. QED BY <1>7, <1>24 DEF T

\* After a round that extended nothing, every visited cell is finished.
LEMMA LastRound ==
  ASSUME NEW M, NEW entrance, NEW exit, NEW S, NEW n, NEW l,
         SearchInv(M, entrance, exit, S, n, n, n + 1, l), ~S.thrown, S.bErase = << >>
  PROVE  \A c \in S.vVisited : finished(M, entrance, exit, S.vVisited, c)
<1>1. S \in SearchStates /\ Len(S.vRoutes) = n
  BY DEF SearchInv, Erasure
<1>2. n \in Nat
  BY <1>1 DEF SearchStates
<1>3. (n + 1)..Len(S.vRoutes) = {}
  BY <1>1, <1>2
<1>. QED BY <1>3 DEF SearchInv, Frontier

\* The states of the search in a round, as a function of the number of routes
\* it has extended.
roundStates(M, entrance, exit, S) ==
  LET n == Len(S.vRoutes)
      extended[k \in 0..n] ==
        IF k = 0 THEN [S EXCEPT !.bErase = << >>]
        ELSE extendRoute(M, entrance, exit, extended[k - 1], k)
  IN  extended

\* S is the search when a round begins.
RoundBegins(M, entrance, exit, S, l) ==
  SearchInv(M, entrance, exit, [S EXCEPT !.bErase = << >>], Len(S.vRoutes), 0, 1, l)

\* U are the states of the round, and the invariant holds in all of them.
IsRound(M, entrance, exit, S, l, U) ==
  LET n == Len(S.vRoutes)
  IN  /\ U[0] = [S EXCEPT !.bErase = << >>]
      /\ \A k \in 1..n : U[k] = extendRoute(M, entrance, exit, U[k - 1], k)
      /\ \A k \in 0..n : SearchInv(M, entrance, exit, U[k], n, k, k + 1, l)

LEMMA RoundStates ==
  ASSUME NEW M, NEW entrance \in Cells, NEW exit, NEW S \in SearchStates, NEW l,
         RoundBegins(M, entrance, exit, S, l)
  PROVE  IsRound(M, entrance, exit, S, l, roundStates(M, entrance, exit, S))
<1>. DEFINE n == Len(S.vRoutes)
            U == roundStates(M, entrance, exit, S)
            ext(T, k) == extendRoute(M, entrance, exit, T, k)
            inv(T, k) == SearchInv(M, entrance, exit, T, n, k, k + 1, l)
            b == [S EXCEPT !.bErase = << >>]
            D == [k \in 0..n |-> {T \in SearchStates : inv(T, k)}]
            step == [k \in 1..n |-> [T \in SearchStates |-> ext(T, k)]]
<1>1. n \in Nat
  BY DEF SearchStates
<1>2. inv(b, 0)
  <2>1. 0 + 1 = 1
    OBVIOUS
  <2>. QED BY <2>1 DEF RoundBegins
<1>3. \A k \in 1..n : \A T : inv(T, k - 1) => inv(ext(T, k), k)
  <2>1. ASSUME NEW k \in 1..n, NEW T, inv(T, k - 1) PROVE inv(ext(T, k), k)
    <3>1. k - 1 + 1 = k
      BY <1>1
    <3>. HIDE DEF n
    <3>2. SearchInv(M, entrance, exit, T, n, k - 1, k, l)
      BY <2>1, <3>1
    <3>. QED BY <3>2, ExtendRouteInv
  <2>. QED BY <2>1
<1>4. \A T, k : inv(T, k) => T \in SearchStates
  BY DEF SearchInv
<1>5. U = CHOOSE g : g = [k \in 0..n |-> IF k = 0 THEN b ELSE ext(g[k - 1], k)]
  BY DEF roundStates
<1>. HIDE DEF n, U, ext, inv, b
<1>6. \A k \in 1..n : k - 1 \in 0..n /\ k \in 0..n /\ k # 0
  BY <1>1
<1>7. \A k \in 0..n : k = 0 \/ k \in 1..n
  BY <1>1
<1>8. PICK f : IsRecursion(f, b, step, n) /\ \A k \in 0..n : f[k] \in D[k]
  <2>1. HandsOn(step, D, n)
    BY <1>3, <1>4, <1>6 DEF HandsOn
  <2>2. b \in D[0]
    BY <1>1, <1>2, <1>4
  <2>. HIDE DEF D, step
  <2>. QED BY <1>1, <2>1, <2>2, Recursion
<1>9. f = [k \in 0..n |-> IF k = 0 THEN b ELSE ext(f[k - 1], k)]
  <2>1. ASSUME NEW k \in 1..n PROVE f[k] = ext(f[k - 1], k)
    <3>1. f[k - 1] \in SearchStates
      BY <1>6, <1>8
    <3>2. step[k][f[k - 1]] = ext(f[k - 1], k)
      BY <3>1
    <3>. QED BY <1>8, <3>2 DEF IsRecursion
  <2>. HIDE DEF step, D
  <2>2. \A k \in 0..n : f[k] = IF k = 0 THEN b ELSE ext(f[k - 1], k)
    BY <1>6, <1>7, <1>8, <2>1 DEF IsRecursion
  <2>. QED BY <1>8, <2>2, Zenon DEF IsRecursion
<1>10. U = [k \in 0..n |-> IF k = 0 THEN b ELSE ext(U[k - 1], k)]
  BY <1>5, <1>9, Zenon
<1>11. \A k \in 0..n : U[k] = IF k = 0 THEN b ELSE ext(U[k - 1], k)
  BY <1>10, Zenon
<1>12. U[0] = b /\ \A k \in 1..n : U[k] = ext(U[k - 1], k)
  BY <1>1, <1>6, <1>11
<1>13. \A k \in 0..n : U[k] \in D[k]
  <2>1. U[0] \in D[0]
    BY <1>1, <1>2, <1>4, <1>12
  <2>2. \A k \in 1..n : U[k - 1] \in D[k - 1] => U[k] \in D[k]
    BY <1>3, <1>4, <1>6, <1>12
  <2>. HIDE DEF D
  <2>. QED BY <1>1, <2>1, <2>2, StepInduction
<1>14. \A k \in 0..n : inv(U[k], k)
  BY <1>13
<1>. QED BY <1>12, <1>14 DEF IsRound, n, U, ext, inv, b

\* A round ends in an exception, without a new cell, or at the beginning of the
\* next round.
LEMMA SearchRound ==
  ASSUME NEW M, NEW entrance \in Cells, NEW exit, NEW S \in SearchStates, NEW l,
         RoundBegins(M, entrance, exit, S, l)
  PROVE  LET n == Len(S.vRoutes)
             T == searchRound(M, entrance, exit, S)
         IN  \/ T.thrown /\ SearchInv(M, entrance, exit, T, n, n, n + 1, l)
             \/ /\ ~T.thrown /\ T.bErase = << >>
                /\ SearchInv(M, entrance, exit, T, n, n, n + 1, l)
             \/ /\ ~T.thrown /\ T.bErase # << >>
                /\ T \in SearchStates /\ RoundBegins(M, entrance, exit, T, l + 1)
<1>. DEFINE n == Len(S.vRoutes)
            U == roundStates(M, entrance, exit, S)[n]
            T == searchRound(M, entrance, exit, S)
<1>1. T = IF U.thrown THEN U ELSE eraseRoutes(U)
  BY Zenon DEF searchRound, roundStates
<1>2. SearchInv(M, entrance, exit, U, n, n, n + 1, l)
  <2>1. n \in 0..n
    BY DEF SearchStates
  <2>. QED BY <2>1, RoundStates DEF IsRound
<1>. HIDE DEF T, U, n
<1>3. CASE U.thrown
  BY <1>1, <1>2, <1>3 DEF T, n
<1>4. CASE ~U.thrown
  <2>1. /\ U \in SearchStates /\ n \in 0..Len(U.vRoutes)
        /\ \A e \in 1..Len(U.bErase) : U.bErase[e] \in 1..n
        /\ \A e \in 2..Len(U.bErase) : U.bErase[e - 1] < U.bErase[e]
    BY <1>2 DEF SearchInv, Erasure
  <2>2. \A e \in 1..Len(U.bErase) : U.bErase[e] \in 1..Len(U.vRoutes)
    <3>1. Len(U.vRoutes) \in Nat
      BY <2>1 DEF SearchStates
    <3>2. 1..n \subseteq 1..Len(U.vRoutes)
      BY <2>1, <3>1
    <3>. QED BY <2>1, <3>2
  <2>. DEFINE Q == T.vRoutes
  <2>3. T = eraseRoutes(U)
    BY <1>1, <1>4
  <2>4. /\ T = [U EXCEPT !.vRoutes = Q] /\ Q \in Seq(Seq(Cells))
        /\ U.bErase = << >> => Q = U.vRoutes
    BY <2>1, <2>2, <2>3, EraseRoutes
  <2>. HIDE DEF Q
  <2>5. T.bErase = U.bErase /\ T.thrown = U.thrown /\ T \in SearchStates /\ T.vRoutes = Q
    BY <2>1, <2>4 DEF SearchStates
  <2>6. CASE U.bErase = << >>
    <3>1. T = U
      BY <2>1, <2>4, <2>6 DEF SearchStates
    <3>. QED BY <1>2, <1>4, <2>6, <3>1 DEF T, n
  <2>7. CASE U.bErase # << >>
    <3>. DEFINE E == [T EXCEPT !.bErase = << >>]
    <3>1. SearchInv(M, entrance, exit, E, Len(E.vRoutes), 0, 1, l + 1)
      BY <1>2, <1>4, <2>3, <2>7, EndRoundInv
    <3>2. E.vRoutes = T.vRoutes
      BY <2>5 DEF SearchStates
    <3>3. RoundBegins(M, entrance, exit, T, l + 1)
      BY <3>1, <3>2 DEF RoundBegins
    <3>. QED BY <1>4, <2>5, <2>7, <3>3 DEF T
  <2>. QED BY <2>6, <2>7
<1>. QED BY <1>3, <1>4

\* The search when it begins (the lines before the loops of updateRoutes).
LEMMA StartInv ==
  ASSUME NEW M, NEW entrance \in Cells, NEW exit
  PROVE  LET S == startSearch(entrance)
         IN  /\ SearchInv(M, entrance, exit, S, 1, 0, 1, 0)
             /\ RoundBegins(M, entrance, exit, S, 0)
             /\ ~S.thrown
<1>. DEFINE S == startSearch(entrance)
            r == <<entrance>>
<1>1. /\ S.vRoutes = <<r>> /\ S.vVisited = {entrance} /\ S.vBestRoute = << >>
      /\ S.bFound = FALSE /\ S.bErase = << >> /\ S.thrown = FALSE
  BY DEF startSearch
<1>2. r \in Seq(Cells) /\ Len(r) = 1 /\ r[1] = entrance
  OBVIOUS
<1>3. IsRoute(M, entrance, exit, r)
  BY DEF IsRoute
<1>4. Last(r) = entrance
  BY DEF Last
<1>. HIDE DEF r
<1>5. <<r>> \in Seq(Seq(Cells)) /\ Len(<<r>>) = 1 /\ <<r>>[1] = r
  BY <1>2
<1>6. S \in SearchStates
  <2>1. S = [vRoutes |-> <<r>>, vVisited |-> {entrance}, vBestRoute |-> << >>,
             bFound |-> FALSE, bErase |-> << >>, thrown |-> FALSE]
    BY DEF startSearch, r
  <2>. HIDE DEF S
  <2>. QED BY <1>5, <2>1 DEF SearchStates
<1>. HIDE DEF S
<1>7. Paths(M, entrance, exit, S)
  BY <1>1, <1>2, <1>3, <1>5 DEF Paths
<1>8. Erasure(S, 1, 0)
  BY <1>1, <1>5 DEF Erasure
<1>9. Frontier(M, entrance, exit, S, 1)
  BY <1>1, <1>4, <1>5 DEF Frontier
<1>10. cellsWithin(M, entrance, exit)[0] = {entrance}
  BY WithinDef
<1>11. Levels(M, entrance, exit, S, 1, 0)
  BY <1>1, <1>2, <1>5, <1>10 DEF Levels
<1>12. Best(M, entrance, exit, S)
  BY <1>1 DEF Best
<1>13. 1 \in 0..Len(S.vRoutes) /\ 0 \in 0..(totalCells - 1)
  BY <1>1, <1>5, SizeFacts
<1>14. SearchInv(M, entrance, exit, S, 1, 0, 1, 0)
  BY <1>6, <1>7, <1>8, <1>9, <1>11, <1>12, <1>13 DEF SearchInv
<1>15. RoundBegins(M, entrance, exit, S, 0)
  <2>1. S = [S EXCEPT !.bErase = << >>]
    BY <1>1, <1>6 DEF SearchStates
  <2>. QED BY <1>1, <1>5, <1>14, <2>1 DEF RoundBegins
<1>. QED BY <1>1, <1>14, <1>15 DEF S

\* The states of the search as a function of the number of rounds.
searchStates(M, entrance, exit) ==
  LET search[n \in 0..totalCells] ==
        IF n = 0 THEN startSearch(entrance)
        ELSE LET S == search[n - 1]
             IN  IF S.thrown \/ (n > 1 /\ S.bErase = << >>) THEN S
                 ELSE searchRound(M, entrance, exit, S)
  IN  search

\* The search has ended.
SearchEnds(M, entrance, exit, S) ==
  /\ S.thrown \/ S.bErase = << >>
  /\ \E m, l \in Nat : SearchInv(M, entrance, exit, S, m, m, m + 1, l)

\* The search after n rounds.
SearchAfter(M, entrance, exit, S, n) ==
  /\ S \in SearchStates
  /\ \/ S.thrown /\ SearchEnds(M, entrance, exit, S)
     \/ n # 0 /\ ~S.thrown /\ S.bErase = << >> /\ SearchEnds(M, entrance, exit, S)
     \/ /\ ~S.thrown /\ (n = 0 \/ S.bErase # << >>)
        /\ RoundBegins(M, entrance, exit, S, n)

LEMMA SearchStep ==
  ASSUME NEW M, NEW entrance \in Cells, NEW exit, NEW n \in Nat, n # 0, NEW S,
         SearchAfter(M, entrance, exit, S, n - 1)
  PROVE  SearchAfter(M, entrance, exit,
           IF S.thrown \/ (n > 1 /\ S.bErase = << >>) THEN S
           ELSE searchRound(M, entrance, exit, S), n)
<1>1. CASE S.thrown
  BY <1>1 DEF SearchAfter
<1>2. CASE ~S.thrown /\ n > 1 /\ S.bErase = << >>
  <2>1. n - 1 # 0
    BY <1>2
  <2>. QED BY <1>2, <2>1 DEF SearchAfter
<1>3. CASE ~S.thrown /\ ~(n > 1 /\ S.bErase = << >>)
  <2>. DEFINE T == searchRound(M, entrance, exit, S)
              m == Len(S.vRoutes)
              l == n - 1
  <2>1. S \in SearchStates /\ l \in Nat /\ l + 1 = n
    BY DEF SearchAfter
  <2>2. m \in Nat
    BY <2>1 DEF SearchStates
  <2>3. RoundBegins(M, entrance, exit, S, l)
    <3>1. n - 1 # 0 => n > 1
      OBVIOUS
    <3>. QED BY <1>3, <3>1 DEF SearchAfter
  <2>. HIDE DEF l
  <2>4. \/ T.thrown /\ SearchInv(M, entrance, exit, T, m, m, m + 1, l)
        \/ /\ ~T.thrown /\ T.bErase = << >>
           /\ SearchInv(M, entrance, exit, T, m, m, m + 1, l)
        \/ /\ ~T.thrown /\ T.bErase # << >>
           /\ T \in SearchStates /\ RoundBegins(M, entrance, exit, T, l + 1)
    BY <2>1, <2>3, SearchRound
  <2>. HIDE DEF T, m
  <2>5. SearchInv(M, entrance, exit, T, m, m, m + 1, l) => T \in SearchStates
    BY DEF SearchInv
  <2>6. SearchAfter(M, entrance, exit, T, n)
    <3>1. CASE T.thrown /\ SearchInv(M, entrance, exit, T, m, m, m + 1, l)
      BY <2>1, <2>2, <2>5, <3>1 DEF SearchAfter, SearchEnds
    <3>2. CASE /\ ~T.thrown /\ T.bErase = << >>
               /\ SearchInv(M, entrance, exit, T, m, m, m + 1, l)
      BY <2>1, <2>2, <2>5, <3>2 DEF SearchAfter, SearchEnds
    <3>3. CASE /\ ~T.thrown /\ T.bErase # << >>
               /\ T \in SearchStates /\ RoundBegins(M, entrance, exit, T, l + 1)
      BY <2>1, <3>3 DEF SearchAfter
    <3>. QED BY <2>4, <3>1, <3>2, <3>3
  <2>. QED BY <1>3, <2>6 DEF T
<1>. QED BY <1>1, <1>2, <1>3

LEMMA SearchStatesAfter ==
  ASSUME NEW M, NEW entrance \in Cells, NEW exit
  PROVE  LET U == searchStates(M, entrance, exit)
         IN  /\ U[0] = startSearch(entrance)
             /\ \A n \in 1..totalCells :
                  U[n] = IF U[n - 1].thrown \/ (n > 1 /\ U[n - 1].bErase = << >>)
                         THEN U[n - 1] ELSE searchRound(M, entrance, exit, U[n - 1])
             /\ \A n \in 0..totalCells : SearchAfter(M, entrance, exit, U[n], n)
<1>. DEFINE N == totalCells
            U == searchStates(M, entrance, exit)
            b == startSearch(entrance)
            next(S, n) == IF S.thrown \/ (n > 1 /\ S.bErase = << >>) THEN S
                          ELSE searchRound(M, entrance, exit, S)
            inv(S, n) == SearchAfter(M, entrance, exit, S, n)
            D == [n \in 0..N |-> {S \in SearchStates : inv(S, n)}]
            step == [n \in 1..N |-> [S \in SearchStates |-> next(S, n)]]
<1>1. N \in Nat
  BY SizeFacts
<1>2. inv(b, 0)
  BY StartInv DEF SearchAfter, RoundBegins, SearchInv
<1>3. \A n \in 1..N : \A S : inv(S, n - 1) => inv(next(S, n), n)
  <2>1. \A n \in 1..N : n \in Nat /\ n # 0
    BY <1>1
  <2>. QED BY <2>1, SearchStep
<1>4. \A S, n : inv(S, n) => S \in SearchStates
  BY DEF SearchAfter
<1>5. U = CHOOSE g : g = [n \in 0..N |-> IF n = 0 THEN b ELSE next(g[n - 1], n)]
  BY DEF searchStates
<1>. HIDE DEF N, U, next, inv, b
<1>6. \A n \in 1..N : n - 1 \in 0..N /\ n \in 0..N /\ n # 0
  BY <1>1
<1>7. \A n \in 0..N : n = 0 \/ n \in 1..N
  BY <1>1
<1>8. PICK f : IsRecursion(f, b, step, N) /\ \A n \in 0..N : f[n] \in D[n]
  <2>1. HandsOn(step, D, N)
    BY <1>3, <1>4, <1>6 DEF HandsOn
  <2>2. b \in D[0]
    BY <1>1, <1>2, <1>4
  <2>. HIDE DEF D, step
  <2>. QED BY <1>1, <2>1, <2>2, Recursion
<1>9. f = [n \in 0..N |-> IF n = 0 THEN b ELSE next(f[n - 1], n)]
  <2>1. ASSUME NEW n \in 1..N PROVE f[n] = next(f[n - 1], n)
    <3>1. f[n - 1] \in SearchStates
      BY <1>6, <1>8
    <3>2. step[n][f[n - 1]] = next(f[n - 1], n)
      BY <3>1
    <3>. QED BY <1>8, <3>2 DEF IsRecursion
  <2>. HIDE DEF step, D
  <2>2. \A n \in 0..N : f[n] = IF n = 0 THEN b ELSE next(f[n - 1], n)
    BY <1>6, <1>7, <1>8, <2>1 DEF IsRecursion
  <2>. QED BY <1>8, <2>2, Zenon DEF IsRecursion
<1>10. U = [n \in 0..N |-> IF n = 0 THEN b ELSE next(U[n - 1], n)]
  BY <1>5, <1>9, Zenon
<1>11. \A n \in 0..N : U[n] = IF n = 0 THEN b ELSE next(U[n - 1], n)
  BY <1>10, Zenon
<1>12. U[0] = b /\ \A n \in 1..N : U[n] = next(U[n - 1], n)
  BY <1>1, <1>6, <1>11
<1>13. \A n \in 0..N : U[n] \in D[n]
  <2>1. U[0] \in D[0]
    BY <1>1, <1>2, <1>4, <1>12
  <2>2. \A n \in 1..N : U[n - 1] \in D[n - 1] => U[n] \in D[n]
    BY <1>3, <1>4, <1>6, <1>12
  <2>. HIDE DEF D
  <2>. QED BY <1>1, <2>1, <2>2, StepInduction
<1>14. \A n \in 0..N : inv(U[n], n)
  BY <1>13
<1>. QED BY <1>12, <1>14 DEF N, U, next, inv, b

\* The search ends within the rounds that updateRoutes allows: each round
\* reaches a new distance from the entrance.
THEOREM SearchEndsInTime ==
  ASSUME NEW M, NEW entrance \in Cells, NEW exit
  PROVE  SearchEnds(M, entrance, exit, updateRoutes(M, entrance, exit))
<1>. DEFINE S == updateRoutes(M, entrance, exit)
            N == totalCells
<1>1. S = searchStates(M, entrance, exit)[N]
  BY Zenon DEF updateRoutes, searchStates
<1>2. N \in Nat \ {0}
  BY SizeFacts
<1>3. SearchAfter(M, entrance, exit, S, N)
  <2>1. N \in 0..N
    BY <1>2
  <2>. QED BY <1>1, <2>1, SearchStatesAfter
<1>4. ~RoundBegins(M, entrance, exit, S, N)
  <2>1. N \notin 0..(totalCells - 1)
    BY <1>2
  <2>. QED BY <2>1 DEF RoundBegins, SearchInv
<1>. QED BY <1>2, <1>3, <1>4 DEF SearchAfter
-----------------------------------------------------------------------------
(***************************************************************************)
(* What the invariant says of the result.                                  *)
(***************************************************************************)

\* Only cells that can be reached are visited; all of them, when every visited
\* cell is finished.
LEMMA VisitedReachable ==
  ASSUME NEW M, NEW entrance \in Cells, NEW exit, NEW S, NEW n, NEW a, NEW b, NEW l,
         SearchInv(M, entrance, exit, S, n, a, b, l)
  PROVE  LET W == cellsWithin(M, entrance, exit)
         IN  /\ S.vVisited \subseteq W[totalCells]
             /\ (\A c \in S.vVisited : finished(M, entrance, exit, S.vVisited, c))
                  => S.vVisited = W[totalCells]
<1>. DEFINE W == cellsWithin(M, entrance, exit)
            V == S.vVisited
            R == S.vRoutes
<1>1. Paths(M, entrance, exit, S)
  BY DEF SearchInv
<1>2. totalCells \in Nat
  BY SizeFacts
<1>3. ASSUME NEW c \in V PROVE c \in W[totalCells]
  <2>1. PICK j \in 1..Len(R) : \E m \in 1..Len(R[j]) : R[j][m] = c
    BY <1>1 DEF Paths
  <2>2. PICK m \in 1..Len(R[j]) : R[j][m] = c
    BY <2>1
  <2>3. IsRoute(M, entrance, exit, R[j])
    BY <1>1 DEF Paths
  <2>4. c \in W[m - 1] /\ Len(R[j]) \in 1..totalCells
    BY <2>2, <2>3, RouteWithin, RouteLength
  <2>5. m - 1 \in 0..totalCells /\ totalCells \in (m - 1)..totalCells
    BY <1>2, <2>4
  <2>. QED BY <2>4, <2>5, WithinMonotone
<1>4. ASSUME \A c \in V : finished(M, entrance, exit, V, c)
      PROVE  W[totalCells] \subseteq V
  <2>1. \A c \in V, d \in Cells : canStep(M, entrance, exit, c, d) => d \in V
    BY <1>4 DEF finished, canStep
  <2>2. entrance \in V
    BY <1>1 DEF Paths
  <2>3. totalCells \in 0..totalCells
    BY <1>2
  <2>. HIDE DEF V
  <2>. QED BY <2>1, <2>2, <2>3, WithinClosed
<1>. QED BY <1>3, <1>4

\* A gap in the border, other than the entrance and the exit.
IsGap(M, entrance, exit, c) ==
  \/ isRightEdge(c) /\ c # entrance /\ ~hasRightWall(M[c])
  \/ isLeftEdge(c) /\ c # exit /\ ~hasLeftWall(M[c])

\* The search passes a gap where it steps to the cell -1.
LEMMA GapStep ==
  ASSUME NEW M, NEW entrance, NEW exit, NEW c \in Cells
  PROVE  /\ IsGap(M, entrance, exit, c) <=>
              \E s \in Sides : canPass(M, entrance, exit, c, s) /\ stepTo(c, s) = -1
         /\ \A V : V \subseteq Cells /\ finished(M, entrance, exit, V, c)
                     => ~IsGap(M, entrance, exit, c)
<1>1. 1 \in Sides /\ 3 \in Sides /\ -1 \notin Cells
  BY DEF Sides, Cells
<1>2. /\ hasWall(M[c], 1) <=> hasRightWall(M[c])
      /\ hasWall(M[c], 3) <=> hasLeftWall(M[c])
  BY DEF hasWall
<1>3. isRightEdge(c) => stepTo(c, 1) = -1
  BY <1>1, StepToType
<1>4. isLeftEdge(c) => stepTo(c, 3) = -1
  BY <1>1, StepToType
<1>5. IsGap(M, entrance, exit, c)
        => \E s \in Sides : canPass(M, entrance, exit, c, s) /\ stepTo(c, s) = -1
  BY <1>1, <1>2, <1>3, <1>4 DEF IsGap, canPass
<1>6. ASSUME NEW s \in Sides, canPass(M, entrance, exit, c, s), stepTo(c, s) = -1
      PROVE  IsGap(M, entrance, exit, c)
  <2>1. (s = 1 /\ isRightEdge(c)) \/ (s = 3 /\ isLeftEdge(c))
    BY <1>6, StepToType
  <2>. QED BY <1>2, <1>6, <2>1 DEF IsGap, canPass
<1>. QED BY <1>1, <1>5, <1>6 DEF finished
-----------------------------------------------------------------------------
(***************************************************************************)
(* From a round of updateRoutes to the next, for the loops that are taken  *)
(* one route at a time (SetMZ.tla).                                        *)
(***************************************************************************)
LEMMA StaysAsItIs ==
  ASSUME NEW N \in Nat, NEW f, NEW j \in 0..N,
         \A i \in (j + 1)..N : f[i - 1] = f[j] => f[i] = f[j]
  PROVE  f[N] = f[j]
<1>. DEFINE S == {d \in Nat : j + d <= N => f[j + d] = f[j]}
<1>1. 0 \in S
  OBVIOUS
<1>2. ASSUME NEW d \in Nat, d \in S PROVE d + 1 \in S
  <2>1. SUFFICES ASSUME j + (d + 1) <= N PROVE f[j + (d + 1)] = f[j]
    OBVIOUS
  <2>. DEFINE i == j + (d + 1)
  <2>2. i \in (j + 1)..N /\ i - 1 = j + d
    BY <2>1
  <2>3. f[j + d] = f[j]
    BY <1>2, <2>1
  <2>. HIDE DEF i
  <2>. QED BY <2>2, <2>3 DEF i
<1>3. Nat \subseteq S
  <2>. HIDE DEF S
  <2>. QED BY <1>1, <1>2, NatSetInduction
<1>4. N - j \in Nat /\ j + (N - j) = N
  OBVIOUS
<1>. DEFINE d == N - j
<1>. HIDE DEF d
<1>5. d \in S
  BY <1>3, <1>4 DEF d
<1>6. f[j + d] = f[j]
  BY <1>4, <1>5 DEF d
<1>. QED BY <1>4, <1>6 DEF d

\* Nothing is extended after an exception.
LEMMA ThrownStays ==
  ASSUME NEW M, NEW entrance \in Cells, NEW exit, NEW S \in SearchStates, NEW l,
         RoundBegins(M, entrance, exit, S, l), NEW j \in 0..Len(S.vRoutes),
         roundStates(M, entrance, exit, S)[j].thrown
  PROVE  roundStates(M, entrance, exit, S)[Len(S.vRoutes)]
           = roundStates(M, entrance, exit, S)[j]
<1>. DEFINE U == roundStates(M, entrance, exit, S)
            N == Len(S.vRoutes)
<1>1. N \in Nat /\ U[j].thrown
  BY DEF SearchStates
<1>2. \A i \in 1..N : U[i] = extendRoute(M, entrance, exit, U[i - 1], i)
  <2>1. IsRound(M, entrance, exit, S, l, U)
    BY RoundStates
  <2>. HIDE DEF U
  <2>. QED BY <2>1 DEF IsRound
<1>3. \A T, i : T.thrown => extendRoute(M, entrance, exit, T, i) = T
  <2>1. \A T, i, s : T.thrown => extendTo(M, entrance, exit, T, i, s) = T
    BY Zenon DEF extendTo
  <2>2. ASSUME NEW T, NEW i, T.thrown PROVE extendRoute(M, entrance, exit, T, i) = T
    <3>. DEFINE To(U1, s) == extendTo(M, entrance, exit, U1, i, s)
    <3>1. To(T, 0) = T /\ To(T, 1) = T /\ To(T, 2) = T /\ To(T, 3) = T
      BY <2>1, <2>2
    <3>2. extendRoute(M, entrance, exit, T, i) = To(To(To(To(T, 0), 1), 2), 3)
      BY DEF extendRoute
    <3>. HIDE DEF To
    <3>. QED BY <3>1, <3>2
  <2>. QED BY <2>2
<1>. HIDE DEF U, N
<1>4. ASSUME NEW i \in (j + 1)..N, U[i - 1] = U[j] PROVE U[i] = U[j]
  <2>1. i \in 1..N
    BY <1>1 DEF N
  <2>. QED BY <1>1, <1>2, <1>3, <1>4, <2>1
<1>5. j \in 0..N
  BY DEF N
<1>6. U[N] = U[j]
  BY <1>1, <1>4, <1>5, StaysAsItIs
<1>. QED BY <1>6 DEF U, N

\* Round l + 1 begins.
AtRound(M, entrance, exit, l) ==
  LET U == searchStates(M, entrance, exit)[l]
  IN  /\ U \in SearchStates
      /\ RoundBegins(M, entrance, exit, U, l)
      /\ ~U.thrown
      /\ l = 0 \/ U.bErase # << >>

LEMMA NextRound ==
  ASSUME NEW M, NEW entrance \in Cells, NEW exit, NEW l \in 0..(totalCells - 1),
         AtRound(M, entrance, exit, l)
  PROVE  LET U == searchStates(M, entrance, exit)
             R == roundStates(M, entrance, exit, U[l])[Len(U[l].vRoutes)]
         IN  U[l + 1] = IF R.thrown THEN R ELSE eraseRoutes(R)
<1>. DEFINE U == searchStates(M, entrance, exit)
            R == roundStates(M, entrance, exit, U[l])[Len(U[l].vRoutes)]
            x == l + 1
<1>1. \A n \in 1..totalCells :
        U[n] = IF U[n - 1].thrown \/ (n > 1 /\ U[n - 1].bErase = << >>)
               THEN U[n - 1] ELSE searchRound(M, entrance, exit, U[n - 1])
  BY SearchStatesAfter
<1>2. x \in 1..totalCells /\ x - 1 = l /\ (x > 1 => l # 0)
  BY SizeFacts
<1>3. ~U[l].thrown /\ (l = 0 \/ U[l].bErase # << >>)
  BY DEF AtRound
<1>4. searchRound(M, entrance, exit, U[l]) = IF R.thrown THEN R ELSE eraseRoutes(R)
  <2>. HIDE DEF U
  <2>. QED BY Zenon DEF searchRound, roundStates
<1>. HIDE DEF U, x, R
<1>5. U[x] = searchRound(M, entrance, exit, U[l])
  <2>1. U[x] = IF U[x - 1].thrown \/ (x > 1 /\ U[x - 1].bErase = << >>)
               THEN U[x - 1] ELSE searchRound(M, entrance, exit, U[x - 1])
    BY <1>1, <1>2
  <2>. QED BY <1>2, <1>3, <2>1
<1>. QED BY <1>4, <1>5 DEF U, x, R

\* After the last round nothing changes any more.
LEMMA SearchStays ==
  ASSUME NEW M, NEW entrance \in Cells, NEW exit, NEW n \in 1..totalCells,
         LET S == searchStates(M, entrance, exit)[n]
         IN  S.thrown \/ S.bErase = << >>
  PROVE  updateRoutes(M, entrance, exit) = searchStates(M, entrance, exit)[n]
<1>. DEFINE U == searchStates(M, entrance, exit)
            N == totalCells
<1>1. updateRoutes(M, entrance, exit) = U[N]
  BY Zenon DEF updateRoutes, searchStates
<1>2. \A i \in 1..N :
        U[i] = IF U[i - 1].thrown \/ (i > 1 /\ U[i - 1].bErase = << >>)
               THEN U[i - 1] ELSE searchRound(M, entrance, exit, U[i - 1])
  BY SearchStatesAfter
<1>3. N \in Nat /\ n \in 0..N
  BY SizeFacts
<1>4. U[n].thrown \/ U[n].bErase = << >>
  OBVIOUS
<1>. HIDE DEF U, N
<1>5. ASSUME NEW i \in (n + 1)..N, U[i - 1] = U[n] PROVE U[i] = U[n]
  <2>1. i \in 1..N /\ i > 1
    BY <1>3 DEF N
  <2>. QED BY <1>2, <1>4, <1>5, <2>1
<1>6. U[N] = U[n]
  BY <1>3, <1>5, StaysAsItIs
<1>. QED BY <1>1, <1>6 DEF U
=============================================================================
