--------------------------- MODULE MZResultProofs ---------------------------
(***************************************************************************)
(* What the generation computes about its maze is right, on a grid of any  *)
(* size: the string, the intersections, the numbers of walls, the best     *)
(* route and its statistics.                                               *)
(***************************************************************************)
EXTENDS MZSafetyProofs

\* A cell of a valid maze is read back from its digit.
LEMMA DigitRoundTrip ==
  ASSUME NEW cl \in ValidCL
  PROVE  cl.m_1fchar \in (0..9) \cup (49..54) /\ NewCL(cl.m_1fchar) = cl
<1>1. PICK k \in 0..15 : cl = WithChar(k)
  BY DEF ValidCL
<1>2. cl.m_char = k /\ cl.m_1fchar = internalTohumanReadableChar(k)
  BY <1>1 DEF WithChar
<1>3. /\ internalTohumanReadableChar(k) \in (0..9) \cup (49..54)
      /\ humanReadableToInternalChar(internalTohumanReadableChar(k)) = k
  BY DEF internalTohumanReadableChar, humanReadableToInternalChar
<1>. QED BY <1>1, <1>2, <1>3 DEF NewCL, WithChar

\* The string stored for a maze on a grid of any size is read back as the same
\* maze.
THEOREM StringCorrect == Spec => []StringRoundTrip
<1>1. SafeInv => StringRoundTrip
  <2>. SUFFICES ASSUME SafeInv, pc = "done"
                PROVE  /\ \A c \in Cells : vectors.mzString[c] \in (0..9) \cup (49..54)
                       /\ [c \in Cells |-> NewCL(vectors.mzString[c])] = m_CLMatrix
    BY DEF StringRoundTrip
  <2>1. m_CLMatrix \in [Cells -> ValidCL]
    BY DEF SafeInv, MazeWellFormed, WellFormed
  <2>2. vectors.mzString = [c \in Cells |-> m_CLMatrix[c].m_1fchar]
    BY DEF SafeInv, CacheCoherent, Settled, updateVectors
  <2>3. \A c \in Cells : /\ vectors.mzString[c] \in (0..9) \cup (49..54)
                         /\ NewCL(vectors.mzString[c]) = m_CLMatrix[c]
    BY <2>1, <2>2, DigitRoundTrip
  <2>. QED BY <2>1, <2>3
<1>. QED BY <1>1, Safe, PTL
-----------------------------------------------------------------------------
(***************************************************************************)
(* The intersections.                                                      *)
(***************************************************************************)

\* A vertical wall left of column x, seen from the cell left of it.
LEMMA VerticalWallIs ==
  ASSUME NEW M, NEW entrance, NEW exit, WellFormed(M, entrance, exit),
         NEW x \in 0..Width, NEW y \in 0..(Height - 1)
  PROVE  verticalWall(M, x, y) <=>
           CASE x = 0 -> hasLeftWall(M[cellAt(0, y)])
             [] x = Width -> hasRightWall(M[cellAt(Width - 1, y)])
             [] OTHER -> <<cellAt(x - 1, y), 1>> \in wallsOf(M)
<1>1. Width \in Nat \ {0}
  BY SizeFacts
<1>2. CASE x = 0 \/ x = Width
  BY <1>1, <1>2 DEF verticalWall
<1>3. CASE x # 0 /\ x # Width
  <2>. DEFINE w == x - 1
              c == cellAt(w, y)
  <2>1. w \in 0..(Width - 1) /\ w # Width - 1 /\ w + 1 = x
    BY <1>1, <1>3
  <2>. HIDE DEF w
  <2>2. c \in Cells /\ ~isRightEdge(c) /\ c + 1 = cellAt(x, y)
    BY <2>1, CellAt, CellsAround
  <2>3. hasRightWall(M[c]) <=> hasLeftWall(M[c + 1])
    BY <2>2 DEF WellFormed, checkEdgeCompatibility, neighBourRight
  <2>4. <<c, 1>> \in wallsOf(M) <=> hasRightWall(M[c])
    BY <2>2 DEF wallsOf, InnerWalls, hasWall
  <2>5. verticalWall(M, x, y) <=> <<c, 1>> \in wallsOf(M)
    BY <1>3, <2>2, <2>3, <2>4 DEF verticalWall
  <2>. QED BY <1>3, <2>5 DEF w
<1>. QED BY <1>2, <1>3

\* A horizontal wall above a cell, seen from the cell above it.
LEMMA HorizontalWallIs ==
  ASSUME NEW M, NEW entrance, NEW exit, WellFormed(M, entrance, exit),
         NEW x \in 0..(Width - 1), NEW y \in 0..(Height - 1)
  PROVE  hasTopWall(M[cellAt(x, y)]) <=> <<cellAt(x, rowAbove(y)), 2>> \in wallsOf(M)
<1>. DEFINE c == cellAt(x, y)
            d == cellAt(x, rowAbove(y))
<1>1. c \in Cells /\ d \in Cells /\ neighBourTop(c) = d
  BY CellAt, CellsAround
<1>. HIDE DEF c, d
<1>2. hasTopWall(M[c]) <=> hasBottomWall(M[d])
  BY <1>1 DEF WellFormed, checkEdgeCompatibility
<1>3. <<d, 2>> \in wallsOf(M) <=> hasBottomWall(M[d])
  BY <1>1 DEF wallsOf, InnerWalls, hasWall
<1>. QED BY <1>2, <1>3 DEF c, d

\* The walls counted at a vertex by the picture and by the cells around it are
\* as many.
LEMMA IntersectionsAre ==
  ASSUME WellFormed(m_CLMatrix, m_entrance, m_exit), NEW v \in Vertices
  PROVE  /\ nIntersections(updateVisual(m_CLMatrix), v)
              = wallsMeeting(wallsOf(m_CLMatrix), v)
         /\ wallsMeeting(wallsOf(m_CLMatrix), v) \in Nat
         /\ wallsMeeting(wallsOf(m_CLMatrix), v) = 0
              <=> vertexWalls(updateVisual(m_CLMatrix), v) = {}
<1>. DEFINE M == m_CLMatrix
            W == wallsOf(m_CLMatrix)
            P == vertexWalls(updateVisual(m_CLMatrix), v)
            x == vertexColumn(v)
            y == vertexRow(v)
            above == (y - 1 + Height) % Height
            cell(col, row) == col + row * Width
            vertical(row) ==
              CASE x = 0 -> hasLeftWall(m_CLMatrix[cell(0, row)])
                [] x = Width -> hasRightWall(m_CLMatrix[cell(Width - 1, row)])
                [] OTHER -> <<cell(x - 1, row), 1>> \in W
            horizontal(col) == col \in 0..(Width - 1) /\ <<cell(col, above), 2>> \in W
            F == {n \in 1..4 : CASE n = 1 -> vertical(above)
                                 [] n = 2 -> vertical(y)
                                 [] n = 3 -> horizontal(x - 1)
                                 [] n = 4 -> horizontal(x)}
<1>1. wallsMeeting(W, v) = Cardinality(F)
  BY DEF wallsMeeting
<1>2. /\ Width \in Nat \ {0} /\ Height \in Nat \ {0}
      /\ x \in 0..Width /\ y \in 0..(Height - 1)
  BY SizeFacts, VertexAt
<1>3. above = rowAbove(y) /\ rowAbove(y) \in 0..(Height - 1)
  <2>. DEFINE H == Height
              a == y - 1 + H
  <2>1. H \in Nat \ {0} /\ y \in 0..(H - 1)
    BY <1>2
  <2>. HIDE DEF H, y
  <2>2. CASE y = 0
    <3>1. a \in 0..(H - 1) /\ a = H - 1
      BY <2>1, <2>2
    <3>2. a % H = a
      <4>. HIDE DEF a
      <4>. QED BY <2>1, <3>1, Z3
    <3>. QED BY <2>1, <2>2, <3>1, <3>2 DEF rowAbove, H
  <2>3. CASE y # 0
    <3>. DEFINE b == y - 1
    <3>1. b \in 0..(H - 1) /\ a = 1 * H + b
      BY <2>1, <2>3
    <3>2. (1 * H + b) % H = b
      <4>. HIDE DEF b
      <4>. QED BY <2>1, <3>1, DivMod
    <3>3. a % H = b
      BY <3>1, <3>2
    <3>. QED BY <2>1, <2>3, <3>1, <3>3 DEF rowAbove, H
  <2>. QED BY <2>2, <2>3
<1>4. ASSUME NEW col \in Int, NEW row \in Int PROVE cell(col, row) = cellAt(col, row)
  <2>. DEFINE p == row * Width
  <2>1. p \in Int
    BY <1>2
  <2>2. col + p = p + col
    <3>. HIDE DEF p
    <3>. QED BY <2>1
  <2>. QED BY <2>2 DEF cellAt
<1>. HIDE DEF above, cell
<1>5. ASSUME NEW row \in 0..(Height - 1) PROVE vertical(row) <=> verticalWall(M, x, row)
  <2>1. /\ cell(0, row) = cellAt(0, row) /\ cell(Width - 1, row) = cellAt(Width - 1, row)
        /\ cell(x - 1, row) = cellAt(x - 1, row)
    BY <1>2, <1>4
  <2>2. verticalWall(M, x, row) <=>
          CASE x = 0 -> hasLeftWall(M[cellAt(0, row)])
            [] x = Width -> hasRightWall(M[cellAt(Width - 1, row)])
            [] OTHER -> <<cellAt(x - 1, row), 1>> \in W
    <3>. HIDE DEF x
    <3>. QED BY <1>2, VerticalWallIs
  <2>. QED BY <2>1, <2>2
<1>6. ASSUME NEW col \in Int
      PROVE  horizontal(col) <=> col \in 0..(Width - 1) /\ hasTopWall(M[cellAt(col, y)])
  <2>1. ASSUME col \in 0..(Width - 1)
        PROVE  hasTopWall(M[cellAt(col, y)]) <=> <<cellAt(col, above), 2>> \in W
    <3>. HIDE DEF y
    <3>. QED BY <1>2, <1>3, <2>1, HorizontalWallIs
  <2>2. cell(col, above) = cellAt(col, above)
    BY <1>2, <1>3, <1>4
  <2>. QED BY <2>1, <2>2
<1>7. /\ 1 \in F <=> verticalWall(M, x, above)
      /\ 2 \in F <=> verticalWall(M, x, y)
      /\ 3 \in F <=> x # 0 /\ hasTopWall(M[cellAt(x - 1, y)])
      /\ 4 \in F <=> x # Width /\ hasTopWall(M[cellAt(x, y)])
  <2>1. /\ 1 \in F <=> vertical(above)
        /\ 2 \in F <=> vertical(y)
        /\ 3 \in F <=> horizontal(x - 1)
        /\ 4 \in F <=> horizontal(x)
    OBVIOUS
  <2>2. /\ x \in Int /\ x - 1 \in Int
        /\ x - 1 \in 0..(Width - 1) <=> x # 0
        /\ x \in 0..(Width - 1) <=> x # Width
    BY <1>2
  <2>. HIDE DEF F, vertical, horizontal, x, y
  <2>. QED BY <1>2, <1>3, <1>5, <1>6, <2>1, <2>2
<1>8. /\ "left" \in P <=> x # 0 /\ hasTopWall(M[cellAt(x - 1, y)])
      /\ "right" \in P <=> x # Width /\ hasTopWall(M[cellAt(x, y)])
      /\ "bottom" \in P <=> verticalWall(M, x, y)
      /\ "top" \in P <=> y = 0 /\ verticalWall(M, x, Height - 1)
      /\ "self" \in P <=> y # 0 /\ verticalWall(M, x, y - 1)
  BY WallsAtVertex
<1>9. P \subseteq {"left", "right", "bottom", "top", "self"}
  BY DEF vertexWalls
<1>10. F \subseteq 1..4
  OBVIOUS
<1>. HIDE DEF F, P, x, y
<1>11. \/ y = 0 /\ (1 \in F <=> "top" \in P) /\ "self" \notin P
       \/ y # 0 /\ (1 \in F <=> "self" \in P) /\ "top" \notin P
  BY <1>3, <1>7, <1>8 DEF rowAbove
<1>12. /\ 2 \in F <=> "bottom" \in P
       /\ 3 \in F <=> "left" \in P
       /\ 4 \in F <=> "right" \in P
  BY <1>7, <1>8
<1>. DEFINE t == IF y = 0 THEN "top" ELSE "self"
            place(n) == CASE n = 1 -> t [] n = 2 -> "bottom" [] n = 3 -> "left" [] n = 4 -> "right"
            g == [n \in F |-> place(n)]
<1>13. g \in Bijection(F, P)
  <2>1. \A n \in F : \/ n = 1 /\ g[n] = t
                     \/ n = 2 /\ g[n] = "bottom"
                     \/ n = 3 /\ g[n] = "left"
                     \/ n = 4 /\ g[n] = "right"
    BY <1>10
  <2>2. t \in {"top", "self"} /\ (1 \in F <=> t \in P) /\ \A p \in P : p \in {"top", "self"} => p = t
    BY <1>11
  <2>. HIDE DEF t, place
  <2>3. g = [n \in F |-> g[n]]
    OBVIOUS
  <2>. HIDE DEF g
  <2>4. g \in [F -> P]
    BY <1>12, <2>1, <2>2, <2>3
  <2>5. \A n, m \in F : g[n] = g[m] => n = m
    BY <2>1, <2>2
  <2>6. \A p \in P : \E n \in F : g[n] = p
    <3>. SUFFICES ASSUME NEW p \in P PROVE \E n \in F : g[n] = p
      OBVIOUS
    <3>1. \/ p = t /\ 1 \in F
          \/ p = "bottom" /\ 2 \in F
          \/ p = "left" /\ 3 \in F
          \/ p = "right" /\ 4 \in F
      BY <1>9, <1>12, <2>2
    <3>2. (1 \in F => g[1] = t) /\ (2 \in F => g[2] = "bottom")
            /\ (3 \in F => g[3] = "left") /\ (4 \in F => g[4] = "right")
      BY <2>1
    <3>. QED BY <3>1, <3>2
  <2>. QED BY <2>4, <2>5, <2>6 DEF Bijection, Injection, IsInjective, Surjection
<1>14. IsFiniteSet(F)
  <2>1. IsFiniteSet(1..4)
    BY 1 \in Int, 4 \in Int, FS_Interval, Zenon
  <2>. QED BY <1>10, <2>1, FS_Subset
<1>15. Cardinality(P) = Cardinality(F) /\ IsFiniteSet(P)
  <2>1. ExistsBijection(F, P)
    BY <1>13 DEF ExistsBijection
  <2>. QED BY <1>14, <2>1, FS_Bijection
<1>16. Cardinality(P) \in Nat /\ (Cardinality(P) = 0 <=> P = {})
  BY <1>15, FS_CardinalityType, FS_EmptySet
<1>. QED BY <1>1, <1>15, <1>16 DEF nIntersections, P

\* The index arithmetic of updateVisual and updateIntersections finds at every
\* vertex the walls that meet there, on a grid of any size.
THEOREM IntersectionsCorrect == Spec => []IntersectionsExact
<1>1. SafeInv => IntersectionsExact
  <2>. SUFFICES ASSUME SafeInv, Settled, NEW v \in Vertices
                PROVE  nIntersections(updateVisual(m_CLMatrix), v)
                         = wallsMeeting(wallsOf(m_CLMatrix), v)
    BY DEF IntersectionsExact
  <2>1. WellFormed(m_CLMatrix, m_entrance, m_exit)
    BY DEF SafeInv, MazeWellFormed, Settled
  <2>. QED BY <2>1, IntersectionsAre
<1>. QED BY <1>1, Safe, PTL
-----------------------------------------------------------------------------
(***************************************************************************)
(* The walls of one cell.  getNumberOfWalls is a table of characters,      *)
(* updateWallCount asks for the four sides; they are compared by what each *)
(* side contributes.                                                       *)
(***************************************************************************)

\* What side s contributes to the size of a set of sides.
share(A, s) == IF s \in A THEN 1 ELSE 0

wallSides(cl) == {s \in Sides : hasWall(cl, s)}

LEMMA SideShares ==
  ASSUME NEW A \in SUBSET Sides
  PROVE  Cardinality(A) = share(A, 0) + share(A, 1) + share(A, 2) + share(A, 3)
<1>. DEFINE upTo(n) == {s \in A : s < n}
<1>1. ASSUME NEW n \in Nat, IsFiniteSet(upTo(n)), Cardinality(upTo(n)) \in Nat
      PROVE  /\ IsFiniteSet(upTo(n + 1))
             /\ Cardinality(upTo(n + 1)) = Cardinality(upTo(n)) + share(A, n)
  <2>1. \A s \in A : s \in Int /\ (s < n + 1 <=> s < n \/ s = n)
    BY DEF Sides
  <2>2. CASE n \in A
    <3>1. ~(n < n)
      OBVIOUS
    <3>2. upTo(n + 1) = upTo(n) \cup {n} /\ n \notin upTo(n)
      BY <2>1, <2>2, <3>1, Zenon
    <3>. HIDE DEF upTo
    <3>. QED BY <1>1, <2>2, <3>2, FS_AddElement DEF share
  <2>3. CASE n \notin A
    <3>1. upTo(n + 1) = upTo(n)
      BY <2>1, <2>3, Zenon
    <3>. HIDE DEF upTo
    <3>. QED BY <1>1, <2>3, <3>1 DEF share
  <2>. QED BY <2>2, <2>3
<1>2. upTo(0) = {} /\ upTo(4) = A
  <2>1. \A s \in A : ~(s < 0) /\ s < 4
    BY DEF Sides
  <2>. QED BY <2>1, Zenon
<1>. HIDE DEF upTo
<1>3. IsFiniteSet(upTo(0)) /\ Cardinality(upTo(0)) = 0
  BY <1>2, FS_EmptySet
<1>4. \A s : share(A, s) \in 0..1
  BY DEF share
<1>5. IsFiniteSet(upTo(1)) /\ Cardinality(upTo(1)) = share(A, 0)
  <2>1. IsFiniteSet(upTo(0 + 1)) /\ Cardinality(upTo(0 + 1)) = 0 + share(A, 0)
    BY <1>1, <1>3
  <2>. QED BY <1>4, <2>1
<1>6. IsFiniteSet(upTo(2)) /\ Cardinality(upTo(2)) = share(A, 0) + share(A, 1)
  <2>1. IsFiniteSet(upTo(1 + 1)) /\ Cardinality(upTo(1 + 1)) = Cardinality(upTo(1)) + share(A, 1)
    BY <1>1, <1>4, <1>5
  <2>. QED BY <1>5, <2>1
<1>7. IsFiniteSet(upTo(3)) /\ Cardinality(upTo(3)) = share(A, 0) + share(A, 1) + share(A, 2)
  <2>1. Cardinality(upTo(2)) \in Nat
    BY <1>4, <1>6
  <2>2. IsFiniteSet(upTo(2 + 1)) /\ Cardinality(upTo(2 + 1)) = Cardinality(upTo(2)) + share(A, 2)
    BY <1>1, <1>6, <2>1
  <2>. QED BY <1>6, <2>2
<1>8. Cardinality(upTo(4)) = share(A, 0) + share(A, 1) + share(A, 2) + share(A, 3)
  <2>1. Cardinality(upTo(3)) \in Nat
    BY <1>4, <1>7
  <2>2. Cardinality(upTo(3 + 1)) = Cardinality(upTo(3)) + share(A, 3)
    BY <1>1, <1>7, <2>1
  <2>. QED BY <1>7, <2>2
<1>. QED BY <1>2, <1>8

\* getNumberOfWalls counts the sides that have a wall.
LEMMA NumberOfWalls ==
  ASSUME NEW cl \in ValidCL
  PROVE  /\ getNumberOfWalls(cl) = Cardinality(wallSides(cl))
         /\ getNumberOfWalls(cl) = share(wallSides(cl), 0) + share(wallSides(cl), 1)
                                     + share(wallSides(cl), 2) + share(wallSides(cl), 3)
<1>1. PICK c \in 0..15 : cl = WithChar(c)
  BY DEF ValidCL
<1>2. cl.m_char = c
  BY <1>1 DEF WithChar
<1>. DEFINE A == wallSides(cl)
<1>3. /\ 0 \in A <=> c \in 8..15
      /\ 1 \in A <=> c \in 4..7 \/ c \in 12..15
      /\ 2 \in A <=> c \in {2, 3, 6, 7, 10, 11, 14, 15}
      /\ 3 \in A <=> c \in {1, 3, 5, 7, 9, 11, 13, 15}
  BY <1>2 DEF wallSides, Sides, hasWall, hasTopWall, hasRightWall, hasBottomWall, hasLeftWall
<1>4. A \subseteq Sides
  BY DEF wallSides
<1>. HIDE DEF A
<1>5. Cardinality(A) = share(A, 0) + share(A, 1) + share(A, 2) + share(A, 3)
  BY <1>4, SideShares
<1>6. getNumberOfWalls(cl) = share(A, 0) + share(A, 1) + share(A, 2) + share(A, 3)
  BY <1>2, <1>3 DEF getNumberOfWalls, share
<1>. QED BY <1>5, <1>6 DEF A

\* A cell that has fewer walls has no more of them.
LEMMA FewerWalls ==
  ASSUME NEW cl \in ValidCL, NEW dl \in ValidCL, NEW k \in Int,
         wallSides(cl) \subseteq wallSides(dl), getNumberOfWalls(dl) <= k
  PROVE  getNumberOfWalls(cl) <= k
<1>1. \A s : /\ share(wallSides(cl), s) \in 0..1 /\ share(wallSides(dl), s) \in 0..1
             /\ share(wallSides(cl), s) <= share(wallSides(dl), s)
  BY DEF share
<1>. QED BY <1>1, NumberOfWalls

\* Adding a wall counts for one.
LEMMA OneWallMore ==
  ASSUME NEW cl \in ValidCL, NEW dl \in ValidCL, NEW s \in Sides, NEW k \in Int,
         wallSides(dl) \subseteq wallSides(cl) \cup {s}, getNumberOfWalls(cl) < k
  PROVE  getNumberOfWalls(dl) <= k
<1>1. \A t : share(wallSides(cl), t) \in 0..1 /\ share(wallSides(dl), t) \in 0..1
  BY DEF share
<1>2. \A t \in Sides \ {s} : share(wallSides(dl), t) <= share(wallSides(cl), t)
  BY DEF share
<1>3. s = 0 \/ s = 1 \/ s = 2 \/ s = 3
  BY DEF Sides
<1>4. 0 \in Sides /\ 1 \in Sides /\ 2 \in Sides /\ 3 \in Sides
  BY DEF Sides
<1>. QED BY <1>1, <1>2, <1>3, <1>4, NumberOfWalls

\* No cell of M has more than k walls.
AtMost(M, k) == \A c \in Cells : getNumberOfWalls(M[c]) <= k

\* The limit of the current loop, in the matrix itself.
LimitInv == Width > 1 /\ pc \in {"try", "check"} => AtMost(m_CLMatrix, m_nMaxWalls)

\* A cell of the maze generateMZ starts from is on one border at most.
LEMMA StartsBelowLimit ==
  ASSUME NEW entrance, NEW exit, Width > 1
  PROVE  AtMost(closedBorders(entrance, exit), 1)
<1>. SUFFICES ASSUME NEW c \in Cells
              PROVE  getNumberOfWalls(closedBorders(entrance, exit)[c]) <= 1
  BY DEF AtMost
<1>. DEFINE cl == closedBorders(entrance, exit)[c]
            A == wallSides(cl)
<1>1. ~(isLeftEdge(c) /\ isRightEdge(c))
  <2>1. PICK x \in 0..(Width - 1), y \in 0..(Height - 1) : c = cellAt(x, y)
    BY CellsAre
  <2>2. (isLeftEdge(c) <=> x = 0) /\ (isRightEdge(c) <=> x = Width - 1)
    BY <2>1, CellAt
  <2>. QED BY <2>2, SizeFacts
<1>2. /\ cl \in ValidCL
      /\ \A t \in A : t \in {1, 3}
      /\ 1 \in A => isRightEdge(c)
      /\ 3 \in A => isLeftEdge(c)
  <2>1. /\ cl \in ValidCL
        /\ \A t \in Sides : hasWall(cl, t) <=> \/ t = 1 /\ c \in RightEdge \ {entrance}
                                               \/ t = 3 /\ c \in LeftEdge \ {exit}
    BY ClosedBordersWalls
  <2>. HIDE DEF cl
  <2>. QED BY <2>1 DEF wallSides, RightEdge, LeftEdge
<1>. HIDE DEF cl
<1>3. share(A, 0) = 0 /\ share(A, 2) = 0 /\ share(A, 1) + share(A, 3) <= 1
  BY <1>1, <1>2 DEF share
<1>4. share(A, 1) \in 0..1 /\ share(A, 3) \in 0..1
  BY DEF share
<1>5. getNumberOfWalls(cl) = share(A, 0) + share(A, 1) + share(A, 2) + share(A, 3)
  BY <1>2, NumberOfWalls
<1>. QED BY <1>3, <1>4, <1>5 DEF cl

\* A wall that addRandomWall leaves where it put it: neither the cell drawn nor
\* its neighbour exceeds the limit.  In a maze of one row they can be the same.
LEMMA AddedBelowLimit ==
  ASSUME NEW M, NEW entrance, NEW exit, WellFormed(M, entrance, exit),
         NEW r \in Cells, NEW s \in Sides, ~IsBorder(r, s), ~hasWall(M[r], s),
         NEW k \in Int, AtMost(M, k), getNumberOfWalls(M[r]) < k,
         getNumberOfWalls(withWall(M, r, s)[neighBour(r, s)]) <= k
  PROVE  AtMost(withWall(M, r, s), k)
<1>. DEFINE M1 == withWall(M, r, s)
            n == neighBour(r, s)
            m == mirroredWall(s)
<1>1. /\ M1 \in [Cells -> ValidCL] /\ M \in [Cells -> ValidCL]
      /\ \A c \in Cells, t \in Sides :
           hasWall(M1[c], t) <=> \/ hasWall(M[c], t)
                                 \/ c = r /\ t = s
                                 \/ c = n /\ t = m
  <2>1. /\ WellFormed(M1, entrance, exit)
        /\ \A c \in Cells, t \in Sides :
             hasWall(M1[c], t) <=> \/ hasWall(M[c], t)
                                   \/ c = r /\ t = s
                                   \/ c = n /\ t = m
    BY WithWallWellFormed
  <2>. HIDE DEF M1, n, m
  <2>. QED BY <2>1 DEF WellFormed
<1>. HIDE DEF M1, n, m
<1>2. \A c \in Cells : M1[c] \in ValidCL /\ M[c] \in ValidCL
  BY <1>1
<1>3. ASSUME NEW c \in Cells, c # r, c # n PROVE getNumberOfWalls(M1[c]) <= k
  <2>1. wallSides(M1[c]) \subseteq wallSides(M[c])
    BY <1>1, <1>3 DEF wallSides
  <2>. QED BY <1>2, <2>1, FewerWalls DEF AtMost
<1>4. ASSUME r # n PROVE getNumberOfWalls(M1[r]) <= k
  <2>1. wallSides(M1[r]) \subseteq wallSides(M[r]) \cup {s}
    BY <1>1, <1>4 DEF wallSides
  <2>. QED BY <1>2, <2>1, OneWallMore
<1>. QED BY <1>3, <1>4 DEF AtMost, M1, n

\* Taking the wall back leaves no cell with more walls.
LEMMA RemovedBelowLimit ==
  ASSUME NEW M, NEW entrance, NEW exit, WellFormed(M, entrance, exit),
         NEW r \in Cells, NEW s \in Sides, ~IsBorder(r, s), ~hasWall(M[r], s),
         NEW k \in Int, AtMost(withWall(M, r, s), k)
  PROVE  AtMost(M, k)
<1>. DEFINE M1 == withWall(M, r, s)
<1>1. /\ M1 \in [Cells -> ValidCL] /\ M \in [Cells -> ValidCL]
      /\ \A c \in Cells, t \in Sides : hasWall(M[c], t) => hasWall(M1[c], t)
  <2>1. /\ WellFormed(M1, entrance, exit)
        /\ \A c \in Cells, t \in Sides :
             hasWall(M1[c], t) <=> \/ hasWall(M[c], t)
                                   \/ c = r /\ t = s
                                   \/ c = neighBour(r, s) /\ t = mirroredWall(s)
    BY WithWallWellFormed
  <2>. HIDE DEF M1
  <2>. QED BY <2>1 DEF WellFormed
<1>. HIDE DEF M1
<1>2. ASSUME NEW c \in Cells PROVE getNumberOfWalls(M[c]) <= k
  <2>1. wallSides(M[c]) \subseteq wallSides(M1[c])
    BY <1>1 DEF wallSides
  <2>2. M1[c] \in ValidCL /\ M[c] \in ValidCL
    BY <1>1
  <2>. QED BY <2>1, <2>2, FewerWalls DEF AtMost, M1
<1>. QED BY <1>2 DEF AtMost

\* A wall is put up by addRandomWall only where it stays.
AddsWall(r, s) ==
  /\ ~IsBorder(r, s)
  /\ ~hasWall(m_CLMatrix[r], s)
  /\ ~CellIsFull(r)
  /\ ~NeighBourOverfull(withWall(m_CLMatrix, r, s), neighBour(r, s))
  /\ m_CLMatrix' = withWall(m_CLMatrix, r, s)
  /\ m_nWalls' = m_nWalls + 1

LEMMA AddRandomWallChanges ==
  SafeInv /\ AddRandomWall => \/ m_CLMatrix' = m_CLMatrix /\ m_nWalls' = m_nWalls
                              \/ \E r \in Cells, s \in Sides : AddsWall(r, s)
<1>. SUFFICES ASSUME SafeInv, AddRandomWall
              PROVE  \/ m_CLMatrix' = m_CLMatrix /\ m_nWalls' = m_nWalls
                     \/ \E r \in Cells, s \in Sides : AddsWall(r, s)
  OBVIOUS
<1>1. /\ m_CLMatrix \in [Cells -> ValidCL]
  BY DEF SafeInv, AddRandomWall, MazeWellFormed, WellFormed
<1>2. PICK r \in Cells :
        \/ AddRandomWallNone(r)
        \/ \E s \in Sides : \/ AddRandomWallBorder(r, s)
                            \/ AddRandomWallRefused(r, s)
                            \/ AddRandomWallAdded(r, s)
  BY DEF AddRandomWall
<1>3. CASE AddRandomWallNone(r)
  BY <1>3 DEF AddRandomWallNone, mazeVars
<1>4. ASSUME NEW s \in Sides, AddRandomWallBorder(r, s)
      PROVE  m_CLMatrix' = m_CLMatrix /\ m_nWalls' = m_nWalls
  <2>1. m_CLMatrix' = m_CLMatrix
    <3>1. m_CLMatrix \in [Cells -> CLType]
      BY DEF SafeInv, AddRandomWall, TypeOK
    <3>. QED BY <1>4, <3>1, BorderTakeBack DEF AddRandomWallBorder
  <2>. QED BY <1>4, <2>1 DEF AddRandomWallBorder
<1>5. ASSUME NEW s \in Sides, AddRandomWallRefused(r, s)
      PROVE  m_CLMatrix' = m_CLMatrix /\ m_nWalls' = m_nWalls
  <2>1. /\ ~IsBorder(r, s) /\ m_nWalls' = m_nWalls
        /\ m_CLMatrix' = withoutWall(withWall(m_CLMatrix, r, s), r, s, neighBour(r, s))
    BY <1>5 DEF AddRandomWallRefused
  <2>. QED BY <1>1, <2>1, WithoutWithWall
<1>6. ASSUME NEW s \in Sides, AddRandomWallAdded(r, s) PROVE AddsWall(r, s)
  BY <1>6 DEF AddRandomWallAdded, AddsWall
<1>. QED BY <1>2, <1>3, <1>4, <1>5, <1>6

LEMMA LimitStep == SafeInv /\ LimitInv /\ [Next]_vars => LimitInv'
<1>. SUFFICES ASSUME SafeInv, LimitInv, [Next]_vars, Width > 1, pc' \in {"try", "check"}
              PROVE  AtMost(m_CLMatrix', m_nMaxWalls')
  BY DEF LimitInv
<1>1. CASE StartGeneration
  BY <1>1, StartsBelowLimit DEF StartGeneration
<1>2. CASE AddRandomWall
  <2>1. /\ m_nMaxWalls' = m_nMaxWalls /\ m_nMaxWalls \in Int
        /\ AtMost(m_CLMatrix, m_nMaxWalls)
        /\ WellFormed(m_CLMatrix, m_entrance, m_exit)
    BY <1>2 DEF AddRandomWall, SafeInv, TypeOK, MazeWellFormed, LimitInv
  <2>2. CASE m_CLMatrix' = m_CLMatrix
    BY <2>1, <2>2
  <2>3. ASSUME NEW r \in Cells, NEW s \in Sides, AddsWall(r, s)
        PROVE  AtMost(m_CLMatrix', m_nMaxWalls)
    <3>1. /\ ~IsBorder(r, s) /\ ~hasWall(m_CLMatrix[r], s)
          /\ m_CLMatrix' = withWall(m_CLMatrix, r, s)
          /\ ~(getNumberOfWalls(m_CLMatrix[r]) >= m_nMaxWalls)
          /\ ~(getNumberOfWalls(withWall(m_CLMatrix, r, s)[neighBour(r, s)]) > m_nMaxWalls)
      BY <2>3 DEF AddsWall, CellIsFull, NeighBourOverfull
    <3>2. neighBour(r, s) \in Cells
      BY <3>1, NeighBours DEF IsBorder
    <3>3. m_CLMatrix[r] \in ValidCL /\ withWall(m_CLMatrix, r, s)[neighBour(r, s)] \in ValidCL
      <4>1. WellFormed(withWall(m_CLMatrix, r, s), m_entrance, m_exit)
        BY <2>1, <3>1, WithWallWellFormed
      <4>. QED BY <2>1, <3>2, <4>1 DEF WellFormed
    <3>4. \A cl \in ValidCL : getNumberOfWalls(cl) \in Int
      <4>1. \A A, t : share(A, t) \in 0..1
        BY DEF share
      <4>. QED BY <4>1, NumberOfWalls
    <3>5. /\ getNumberOfWalls(m_CLMatrix[r]) < m_nMaxWalls
          /\ getNumberOfWalls(withWall(m_CLMatrix, r, s)[neighBour(r, s)]) <= m_nMaxWalls
      BY <2>1, <3>1, <3>3, <3>4
    <3>. QED BY <2>1, <3>1, <3>5, AddedBelowLimit
  <2>. QED BY <1>2, <2>1, <2>2, <2>3, AddRandomWallChanges
<1>3. CASE RemoveWallAt
  <2>1. PICK r \in Cells, s \in Sides : AddedTo(m_CLMatrix', r, s)
    BY <1>3, RemoveRestores
  <2>2. /\ m_nMaxWalls' = m_nMaxWalls /\ m_nMaxWalls \in Int
        /\ AtMost(m_CLMatrix, m_nMaxWalls)
    BY <1>3 DEF RemoveWallAt, EndTry, SafeInv, TypeOK, LimitInv
  <2>. QED BY <2>1, <2>2, RemovedBelowLimit DEF AddedTo
<1>4. CASE NextLoop
  <2>1. /\ m_CLMatrix' = m_CLMatrix /\ m_nMaxWalls' = m_nMaxWalls + 1
        /\ m_nMaxWalls \in Int /\ AtMost(m_CLMatrix, m_nMaxWalls)
        /\ m_CLMatrix \in [Cells -> ValidCL]
    BY <1>4 DEF NextLoop, mazeVars, SafeInv, TypeOK, LimitInv, MazeWellFormed, WellFormed
  <2>2. \A c \in Cells : getNumberOfWalls(m_CLMatrix[c]) \in Int
    <3>1. \A A, t : share(A, t) \in 0..1
      BY DEF share
    <3>. QED BY <2>1, <3>1, NumberOfWalls
  <2>. QED BY <2>1, <2>2 DEF AtMost
<1>5. CASE KeepWall
  BY <1>5 DEF KeepWall, EndTry, LimitInv
<1>6. CASE UNCHANGED vars
  BY <1>6 DEF vars, LimitInv
<1>. QED BY <1>1, <1>2, <1>3, <1>4, <1>5, <1>6
     DEF Next, EndLoops, FillWalllessCell, EndFill, CalculateStats, Done

\* No cell has more walls than the loop allows, and the two ways of counting
\* them agree, on a grid of any size.
THEOREM WallLimitCorrect == Spec => []WallLimit
<1>1. Init => LimitInv
  BY DEF Init, LimitInv
<1>2. SafeInv /\ LimitInv => WallLimit
  <2>. SUFFICES ASSUME SafeInv, LimitInv, Settled
                PROVE  /\ Width > 1 /\ pc \in {"try", "check"} =>
                            \A c \in Cells : vectors.m_CLWallCount[c] <= m_nMaxWalls
                       /\ \A c \in Cells :
                            vectors.m_CLWallCount[c] = getNumberOfWalls(m_CLMatrix[c])
    BY DEF WallLimit, Settled
  <2>1. /\ vectors.m_CLWallCount = updateWallCount(m_CLMatrix)
        /\ m_CLMatrix \in [Cells -> ValidCL]
    BY DEF SafeInv, CacheCoherent, Settled, updateVectors, MazeWellFormed, WellFormed
  <2>2. ASSUME NEW c \in Cells
        PROVE  vectors.m_CLWallCount[c] = getNumberOfWalls(m_CLMatrix[c])
    <3>1. getNumberOfWalls(m_CLMatrix[c]) = Cardinality(wallSides(m_CLMatrix[c]))
      BY <2>1, NumberOfWalls
    <3>. QED BY <2>1, <3>1 DEF updateWallCount, wallSides
  <2>. QED BY <2>2 DEF LimitInv, AtMost
<1>. QED BY <1>1, <1>2, LimitStep, Safe, PTL DEF Spec
-----------------------------------------------------------------------------
(***************************************************************************)
(* fillWalllessCells leaves no vertex below the first row without a wall.  *)
(* It is run only when m_minIntersections is 0, and for the vertices       *)
(* listed; that these are all of them rests on the borders, which have one *)
(* gap each.                                                               *)
(***************************************************************************)

\* A vertex is reported with the walls it had, and with any new ones.
LEMMA WallsAtVertexStay ==
  ASSUME NEW M, NEW N, NEW v \in Vertices,
         \A c \in Cells, t \in Sides : hasWall(M[c], t) => hasWall(N[c], t)
  PROVE  vertexWalls(updateVisual(M), v) \subseteq vertexWalls(updateVisual(N), v)
<1>. DEFINE x == vertexColumn(v)
            y == vertexRow(v)
            P == vertexWalls(updateVisual(M), v)
            Q == vertexWalls(updateVisual(N), v)
<1>1. /\ Width \in Nat \ {0} /\ Height \in Nat \ {0}
      /\ x \in 0..Width /\ y \in 0..(Height - 1)
  BY SizeFacts, VertexAt
<1>2. \A c \in Cells : /\ hasTopWall(M[c]) => hasTopWall(N[c])
                       /\ hasRightWall(M[c]) => hasRightWall(N[c])
                       /\ hasLeftWall(M[c]) => hasLeftWall(N[c])
  <2>1. 0 \in Sides /\ 1 \in Sides /\ 3 \in Sides
    BY DEF Sides
  <2>. QED BY <2>1 DEF hasWall
<1>. HIDE DEF x, y
<1>3. ASSUME NEW u \in 0..(Height - 1), verticalWall(M, x, u) PROVE verticalWall(N, x, u)
  <2>1. CASE x = Width
    <3>1. Width - 1 \in 0..(Width - 1)
      BY <1>1
    <3>2. cellAt(Width - 1, u) \in Cells
      BY <3>1, CellAt
    <3>. QED BY <1>2, <1>3, <2>1, <3>2 DEF verticalWall
  <2>2. CASE x # Width
    <3>1. cellAt(x, u) \in Cells
      BY <1>1, <2>2, CellAt
    <3>. QED BY <1>2, <1>3, <2>2, <3>1 DEF verticalWall
  <2>. QED BY <2>1, <2>2
<1>4. /\ x # 0 => cellAt(x - 1, y) \in Cells
      /\ x # Width => cellAt(x, y) \in Cells
  BY <1>1, CellAt
<1>5. /\ Height - 1 \in 0..(Height - 1)
      /\ y # 0 => y - 1 \in 0..(Height - 1)
  BY <1>1
<1>6. /\ "left" \in P <=> x # 0 /\ hasTopWall(M[cellAt(x - 1, y)])
      /\ "right" \in P <=> x # Width /\ hasTopWall(M[cellAt(x, y)])
      /\ "bottom" \in P <=> verticalWall(M, x, y)
      /\ "top" \in P <=> y = 0 /\ verticalWall(M, x, Height - 1)
      /\ "self" \in P <=> y # 0 /\ verticalWall(M, x, y - 1)
  BY WallsAtVertex DEF x, y
<1>7. /\ "left" \in Q <=> x # 0 /\ hasTopWall(N[cellAt(x - 1, y)])
      /\ "right" \in Q <=> x # Width /\ hasTopWall(N[cellAt(x, y)])
      /\ "bottom" \in Q <=> verticalWall(N, x, y)
      /\ "top" \in Q <=> y = 0 /\ verticalWall(N, x, Height - 1)
      /\ "self" \in Q <=> y # 0 /\ verticalWall(N, x, y - 1)
  BY WallsAtVertex DEF x, y
<1>8. P \subseteq {"left", "right", "bottom", "top", "self"}
  BY DEF vertexWalls
<1>. HIDE DEF P, Q
<1>9. /\ "left" \in P => "left" \in Q
      /\ "right" \in P => "right" \in Q
      /\ "bottom" \in P => "bottom" \in Q
      /\ "top" \in P => "top" \in Q
      /\ "self" \in P => "self" \in Q
  BY <1>1, <1>2, <1>3, <1>4, <1>5, <1>6, <1>7
<1>. QED BY <1>8, <1>9 DEF P, Q

\* A vertex below the first row at which no walls meet is listed: only one at
\* the left border could have no cell above and to the left.
LEMMA WalllessIsListed ==
  ASSUME NEW M, NEW entrance, NEW exit, WellFormed(M, entrance, exit),
         NEW v \in Vertices, vertexRow(v) > 0, vertexWalls(updateVisual(M), v) = {}
  PROVE  v \in intersectionProblems(updateVisual(M))
<1>. DEFINE x == vertexColumn(v)
            y == vertexRow(v)
            W == Width
<1>1. /\ W \in Nat \ {0} /\ Height \in Nat \ {0}
      /\ x \in 0..W /\ y \in 1..(Height - 1) /\ y - 1 \in 0..(Height - 1)
  BY SizeFacts, VertexAt
<1>2. x # 0
  <2>. SUFFICES ASSUME x = 0 PROVE FALSE
    OBVIOUS
  <2>1. "bottom" \notin vertexWalls(updateVisual(M), v) /\ "self" \notin vertexWalls(updateVisual(M), v)
    OBVIOUS
  <2>2. ~verticalWall(M, x, y) /\ ~verticalWall(M, x, y - 1)
    BY <1>1, <2>1, WallsAtVertex
  <2>3. ~hasLeftWall(M[cellAt(0, y)]) /\ ~hasLeftWall(M[cellAt(0, y - 1)])
    BY <1>1, <2>2 DEF verticalWall
  <2>4. 0 \in 0..(Width - 1) /\ y \in 0..(Height - 1) /\ y \in Int /\ y - 1 \in Int /\ y # y - 1
    BY <1>1
  <2>5. cellAt(0, y) \in LeftEdge /\ cellAt(0, y - 1) \in LeftEdge
    BY <1>1, <2>4, CellAt DEF LeftEdge
  <2>6. cellAt(0, y) = cellAt(0, y - 1)
    BY <2>3, <2>5 DEF WellFormed
  <2>. QED BY <2>4, <2>6, CellsDiffer
<1>3. cellID(v) >= 0
  <2>. DEFINE p == y - 1
              q == x - 1
  <2>1. p \in Nat /\ q \in Nat /\ cellID(v) = p * W + q
    BY <1>1, <1>2 DEF cellID
  <2>. HIDE DEF p, q, W
  <2>2. p * W \in Nat
    BY <1>1, <2>1, Z3
  <2>. QED BY <2>1, <2>2
<1>. QED BY <1>3 DEF intersectionProblems

\* m_minIntersections is 0 as soon as one vertex has no walls.
LEMMA MinIsZero ==
  ASSUME NEW V, \A w \in Vertices : nIntersections(V, w) \in Nat,
         NEW v \in Vertices, nIntersections(V, v) = 0
  PROVE  minIntersections(V) = 0
<1>. DEFINE counts == {5} \cup {nIntersections(V, w) : w \in Vertices}
<1>1. 0 \in counts /\ counts \subseteq Nat
  OBVIOUS
<1>2. minIntersections(V) = CHOOSE n \in counts : \A k \in counts : n <= k
  BY DEF minIntersections
<1>. HIDE DEF counts
<1>3. \E n \in counts : \A k \in counts : n <= k
  BY <1>1
<1>. DEFINE least == CHOOSE n \in counts : \A k \in counts : n <= k
<1>4. least \in counts /\ \A k \in counts : least <= k
  BY <1>3
<1>. HIDE DEF least
<1>5. least = 0
  BY <1>1, <1>4
<1>. QED BY <1>2, <1>5 DEF least

HasWalls(M, v) == vertexWalls(updateVisual(M), v) # {}

\* Every vertex below the first row has a wall or is still to be fixed.
FilledInv ==
  /\ pc = "fill" =>
       \A v \in Vertices : vertexRow(v) > 0 => v \in problemsLeft \/ HasWalls(m_CLMatrix, v)
  /\ pc \in {"stats", "done"} =>
       \A v \in Vertices : vertexRow(v) > 0 => HasWalls(m_CLMatrix, v)

LEMMA FilledEndLoops == SafeInv /\ EndLoops => FilledInv'
<1>. SUFFICES ASSUME SafeInv, EndLoops PROVE FilledInv'
  OBVIOUS
<1>. DEFINE V == updateVisual(m_CLMatrix)
<1>1. /\ WellFormed(m_CLMatrix, m_entrance, m_exit)
      /\ vectors = updateVectors(m_CLMatrix, m_entrance, m_exit)
      /\ m_CLMatrix' = m_CLMatrix
  BY DEF SafeInv, EndLoops, MazeWellFormed, CacheCoherent, Settled, mazeVars
<1>2. /\ vectors.m_minIntersections = minIntersections(V)
      /\ vectors.m_vIntersectionProblems = intersectionProblems(V)
  BY <1>1 DEF updateVectors
<1>3. CASE minIntersections(V) = 0
  <2>1. pc' = "fill" /\ problemsLeft' = intersectionProblems(V)
    BY <1>2, <1>3 DEF EndLoops
  <2>2. \A v \in Vertices : vertexRow(v) > 0 => v \in intersectionProblems(V) \/ HasWalls(m_CLMatrix, v)
    BY <1>1, WalllessIsListed DEF HasWalls
  <2>. HIDE DEF V
  <2>. QED BY <1>1, <2>1, <2>2 DEF FilledInv
<1>4. CASE minIntersections(V) # 0
  <2>1. pc' = "stats"
    BY <1>2, <1>4 DEF EndLoops
  <2>2. \A v \in Vertices : nIntersections(V, v) \in Nat /\ (nIntersections(V, v) = 0 <=> ~HasWalls(m_CLMatrix, v))
    BY <1>1, IntersectionsAre DEF HasWalls
  <2>. HIDE DEF V
  <2>3. \A v \in Vertices : nIntersections(V, v) # 0
    BY <1>4, <2>2, MinIsZero
  <2>. QED BY <1>1, <2>1, <2>2, <2>3 DEF FilledInv
<1>. QED BY <1>3, <1>4

LEMMA FilledFillWalllessCell == SafeInv /\ GrowInv /\ FilledInv /\ FillWalllessCell => FilledInv'
<1>. SUFFICES ASSUME SafeInv, GrowInv, FilledInv, FillWalllessCell PROVE FilledInv'
  OBVIOUS
<1>1. /\ pc = "fill" /\ pc' = "fill"
      /\ WellFormed(m_CLMatrix, m_entrance, m_exit)
  BY DEF FillWalllessCell, SafeInv, MazeWellFormed
<1>2. PICK v : FillsAt(v)
  BY FillIsWithWall
<1>3. /\ v \in problemsLeft /\ problemsLeft' = problemsLeft \ {v}
      /\ cellID(v) \in Cells /\ ~IsBorder(cellID(v), 1) /\ ~hasWall(m_CLMatrix[cellID(v)], 1)
      /\ m_CLMatrix' = withWall(m_CLMatrix, cellID(v), 1)
  BY <1>2 DEF FillsAt
<1>4. v \in Vertices /\ IsInside(v)
  BY <1>1, <1>3 DEF GrowInv
<1>5. 1 \in Sides /\ mirroredWall(1) = 3 /\ 3 \in Sides
  BY DEF Sides, mirroredWall
<1>6. \A c \in Cells, t \in Sides :
        hasWall(m_CLMatrix'[c], t) <=> \/ hasWall(m_CLMatrix[c], t)
                                       \/ c = cellID(v) /\ t = 1
                                       \/ c = neighBour(cellID(v), 1) /\ t = 3
  BY <1>1, <1>3, <1>5, WithWallWellFormed
<1>7. ASSUME NEW w \in Vertices, HasWalls(m_CLMatrix, w) PROVE HasWalls(m_CLMatrix', w)
  <2>1. \A c \in Cells, t \in Sides : hasWall(m_CLMatrix[c], t) => hasWall(m_CLMatrix'[c], t)
    BY <1>6
  <2>2. vertexWalls(updateVisual(m_CLMatrix), w) \subseteq vertexWalls(updateVisual(m_CLMatrix'), w)
    BY <2>1, WallsAtVertexStay
  <2>. QED BY <1>7, <2>2 DEF HasWalls
<1>8. HasWalls(m_CLMatrix', v)
  <2>. DEFINE x == vertexColumn(v)
              y == vertexRow(v)
  <2>1. /\ x \in 1..(Width - 1) /\ y \in 1..(Height - 1)
        /\ cellID(v) = cellAt(x - 1, y - 1)
    BY <1>4 DEF IsInside, cellID, cellAt
  <2>2. /\ neighBour(cellID(v), 1) = cellAt(x, y - 1)
        /\ cellAt(x, y - 1) \in Cells
    <3>. HIDE DEF x, y
    <3>. QED BY <2>1, CellsMeeting
  <2>3. hasLeftWall(m_CLMatrix'[cellAt(x, y - 1)])
    BY <1>5, <1>6, <2>2 DEF hasWall
  <2>4. x # Width /\ y # 0
    BY <2>1, SizeFacts
  <2>5. verticalWall(m_CLMatrix', x, y - 1)
    BY <2>3, <2>4 DEF verticalWall
  <2>6. "self" \in vertexWalls(updateVisual(m_CLMatrix'), v)
    BY <1>4, <2>4, <2>5, WallsAtVertex
  <2>. QED BY <2>6 DEF HasWalls
<1>. QED BY <1>1, <1>3, <1>7, <1>8 DEF FilledInv

LEMMA FilledStep == SafeInv /\ GrowInv /\ FilledInv /\ [Next]_vars => FilledInv'
<1>. SUFFICES ASSUME SafeInv, GrowInv, FilledInv, [Next]_vars PROVE FilledInv'
  OBVIOUS
<1>1. CASE EndLoops
  BY <1>1, FilledEndLoops
<1>2. CASE FillWalllessCell
  BY <1>2, FilledFillWalllessCell
<1>3. CASE EndFill
  BY <1>3 DEF EndFill, mazeVars, FilledInv
<1>4. CASE CalculateStats
  BY <1>4 DEF CalculateStats, mazeVars, FilledInv
<1>5. CASE UNCHANGED vars
  BY <1>5 DEF vars, FilledInv
<1>. QED BY <1>1, <1>2, <1>3, <1>4, <1>5
     DEF Next, FilledInv, StartGeneration, AddRandomWall, KeepWall, RemoveWallAt,
         EndTry, NextLoop, Done

\* When the generation is over a wall meets at every vertex below the first
\* row, on a grid of any size.
THEOREM NoWalllessCorrect == Spec => []NoWalllessVertexLeft
<1>1. Init => FilledInv
  BY DEF Init, FilledInv
<1>2. SafeInv /\ FilledInv => NoWalllessVertexLeft
  <2>. SUFFICES ASSUME SafeInv, FilledInv, pc \in {"stats", "done"},
                       NEW v \in Vertices, vertexRow(v) > 0
                PROVE  wallsMeeting(wallsOf(m_CLMatrix), v) > 0
    BY DEF NoWalllessVertexLeft
  <2>1. WellFormed(m_CLMatrix, m_entrance, m_exit) /\ HasWalls(m_CLMatrix, v)
    BY DEF SafeInv, MazeWellFormed, FilledInv
  <2>2. /\ wallsMeeting(wallsOf(m_CLMatrix), v) \in Nat
        /\ wallsMeeting(wallsOf(m_CLMatrix), v) # 0
    BY <2>1, IntersectionsAre DEF HasWalls
  <2>. QED BY <2>2
<1>. QED BY <1>1, <1>2, FilledStep, Safe, Grow, PTL DEF Spec
-----------------------------------------------------------------------------
(***************************************************************************)
(* The best route.  The invariant of the search (VectorsProofs) speaks of  *)
(* the steps the search can take; here they become passages between cells  *)
(* that no wall separates.                                                 *)
(***************************************************************************)

\* The cells that can be reached in n steps are the same for the search and
\* for the walls.
LEMMA AfterIsWithin ==
  ASSUME NEW M, NEW entrance \in RightEdge, NEW exit \in LeftEdge,
         WellFormed(M, entrance, exit), NEW n \in 0..totalCells
  PROVE  cellsAfter(wallsOf(M), entrance)[n] = cellsWithin(M, entrance, exit)[n]
<1>. DEFINE W == wallsOf(M)
            N == totalCells
            beside(S) == {d \in Cells : \E w \in InnerWalls \ W :
                            \/ w[1] = d /\ neighBour(w[1], w[2]) \in S
                            \/ w[1] \in S /\ neighBour(w[1], w[2]) = d}
            more(S) == S \cup beside(S)
            f == cellsWithin(M, entrance, exit)
            h == [k \in 0..N |-> f[k]]
            g == cellsAfter(W, entrance)
<1>1. entrance \in Cells /\ N \in Nat
  BY SizeFacts DEF RightEdge
<1>2. ASSUME NEW S \in SUBSET Cells PROVE beside(S) = oneStepFrom(M, entrance, exit, S)
  <2>1. ASSUME NEW d \in Cells
        PROVE  (\E c \in S : canStep(M, entrance, exit, c, d)) <=> \E c \in S : IsOpen(W, c, d)
    BY StepIsOpen
  <2>2. ASSUME NEW d \in Cells
        PROVE  (\E c \in S : IsOpen(W, c, d)) <=>
                 \E w \in InnerWalls \ W : \/ w[1] = d /\ neighBour(w[1], w[2]) \in S
                                           \/ w[1] \in S /\ neighBour(w[1], w[2]) = d
    <3>. HIDE DEF W
    <3>. QED BY Zenon DEF IsOpen
  <2>. QED BY <2>1, <2>2, Zenon DEF oneStepFrom
<1>3. /\ f[0] = {entrance}
      /\ \A k \in 1..N : f[k] = f[k - 1] \cup oneStepFrom(M, entrance, exit, f[k - 1])
      /\ \A k \in 0..N : f[k] \subseteq Cells
  BY <1>1, WithinDef
<1>4. g = CHOOSE q : q = [k \in 0..N |-> IF k = 0 THEN {entrance} ELSE q[k - 1] \cup beside(q[k - 1])]
  BY DEF cellsAfter
<1>5. \A k \in 1..N : k - 1 \in 0..N /\ k # 0
  BY <1>1
<1>6. \A k \in 0..N : k = 0 \/ k \in 1..N
  BY <1>1
<1>. HIDE DEF f, g, N, beside
<1>7. \A k \in 1..N : f[k] = more(f[k - 1])
  BY <1>2, <1>3, <1>5
<1>8. h = [k \in 0..N |-> IF k = 0 THEN {entrance} ELSE more(h[k - 1])]
  <2>1. \A k \in 0..N : h[k] = f[k]
    OBVIOUS
  <2>2. \A k \in 0..N : h[k] = IF k = 0 THEN {entrance} ELSE more(h[k - 1])
    <3>. HIDE DEF h, more
    <3>. QED BY <1>3, <1>5, <1>6, <1>7, <2>1
  <2>. HIDE DEF more
  <2>3. h = [k \in 0..N |-> h[k]]
    OBVIOUS
  <2>. HIDE DEF h
  <2>. QED BY <2>2, <2>3, Zenon
<1>9. g = [k \in 0..N |-> IF k = 0 THEN {entrance} ELSE more(g[k - 1])]
  <2>. HIDE DEF h
  <2>. QED BY <1>4, <1>8, Zenon
<1>10. g[0] = {entrance} /\ \A k \in 1..N : g[k] = more(g[k - 1])
  <2>. HIDE DEF more
  <2>1. \A k \in 0..N : g[k] = IF k = 0 THEN {entrance} ELSE more(g[k - 1])
    BY <1>9, Zenon
  <2>2. 0 \in 0..N /\ \A k \in 1..N : k \in 0..N
    BY <1>1
  <2>. QED BY <1>5, <2>1, <2>2
<1>. DEFINE D == [k \in 0..N |-> {f[k]}]
<1>11. \A k \in 0..N : g[k] \in D[k]
  <2>. HIDE DEF more
  <2>1. g[0] \in D[0]
    BY <1>1, <1>3, <1>10
  <2>2. \A k \in 1..N : g[k - 1] \in D[k - 1] => g[k] \in D[k]
    <3>1. \A k \in 1..N : k \in 0..N
      BY <1>1
    <3>2. \A k \in 0..N : D[k] = {f[k]}
      OBVIOUS
    <3>. HIDE DEF D
    <3>. QED BY <1>5, <1>7, <1>10, <3>1, <3>2, ZenonT(30)
  <2>. HIDE DEF D
  <2>. QED BY <1>1, <2>1, <2>2, StepInduction
<1>12. g[n] \in D[n] /\ D[n] = {f[n]}
  BY <1>11 DEF N
<1>. QED BY <1>12 DEF f, g, W

\* What the search leaves behind in a maze all of whose cells it reaches.
FoundRoute(M, entrance, exit, r) ==
  /\ IsRoute(M, entrance, exit, r)
  /\ Len(r) >= 2
  /\ Last(r) = exit
  /\ exit \notin cellsWithin(M, entrance, exit)[Len(r) - 2]

LEMMA RouteFound ==
  ASSUME NEW M, NEW entrance \in RightEdge, NEW exit \in LeftEdge, entrance # exit,
         allCellsReachable(updateRoutes(M, entrance, exit))
  PROVE  FoundRoute(M, entrance, exit, updateRoutes(M, entrance, exit).vBestRoute)
<1>. DEFINE S == updateRoutes(M, entrance, exit)
<1>1. entrance \in Cells /\ exit \in Cells
  BY DEF RightEdge, LeftEdge
<1>2. SearchEnds(M, entrance, exit, S) /\ S.vVisited = Cells
  BY <1>1, SearchEndsInTime DEF allCellsReachable
<1>. HIDE DEF S
<1>3. Best(M, entrance, exit, S)
  BY <1>2 DEF SearchEnds, SearchInv
<1>4. S.bFound
  BY <1>1, <1>2, <1>3 DEF Best
<1>. QED BY <1>3, <1>4 DEF Best, FoundRoute, S

\* Whenever it is looked at.
LEMMA SettledRoute ==
  SafeInv /\ Settled /\ m_entrance # m_exit /\ vectors.m_bAllCellsReachable
    => /\ FoundRoute(m_CLMatrix, m_entrance, m_exit, vectors.m_vBestRoute)
       /\ WellFormed(m_CLMatrix, m_entrance, m_exit)
       /\ m_entrance \in RightEdge /\ m_exit \in LeftEdge
<1>. SUFFICES ASSUME SafeInv, Settled, m_entrance # m_exit, vectors.m_bAllCellsReachable
              PROVE  /\ FoundRoute(m_CLMatrix, m_entrance, m_exit, vectors.m_vBestRoute)
                     /\ WellFormed(m_CLMatrix, m_entrance, m_exit)
                     /\ m_entrance \in RightEdge /\ m_exit \in LeftEdge
  OBVIOUS
<1>1. pc # "new"
  BY DEF Settled
<1>2. /\ m_entrance \in RightEdge /\ m_exit \in LeftEdge
      /\ WellFormed(m_CLMatrix, m_entrance, m_exit)
      /\ vectors = updateVectors(m_CLMatrix, m_entrance, m_exit)
  BY <1>1 DEF SafeInv, TypeOK, CacheCoherent, MazeWellFormed
<1>3. /\ allCellsReachable(updateRoutes(m_CLMatrix, m_entrance, m_exit))
      /\ vectors.m_vBestRoute = updateRoutes(m_CLMatrix, m_entrance, m_exit).vBestRoute
  BY <1>2 DEF updateVectors
<1>. QED BY <1>2, <1>3, RouteFound

\* The first route the search finds is an open path from the entrance to the
\* exit, and no route is shorter, on a grid of any size.
THEOREM BestRouteCorrect == Spec => []BestRouteShortest
<1>1. SafeInv => BestRouteShortest
  <2>. DEFINE r == vectors.m_vBestRoute
              M == m_CLMatrix
              W == wallsOf(m_CLMatrix)
  <2>. SUFFICES ASSUME SafeInv, Settled, m_entrance # m_exit, vectors.m_bAllCellsReachable
                PROVE  /\ Len(r) > 0
                       /\ r[1] = m_entrance
                       /\ r[Len(r)] = m_exit
                       /\ isPath(W, r)
                       /\ m_exit \notin cellsAfter(W, m_entrance)[Len(r) - 2]
    BY DEF BestRouteShortest
  <2>1. /\ FoundRoute(M, m_entrance, m_exit, r)
        /\ WellFormed(M, m_entrance, m_exit)
        /\ m_entrance \in RightEdge /\ m_exit \in LeftEdge
    BY SettledRoute
  <2>2. /\ IsRoute(M, m_entrance, m_exit, r) /\ Len(r) >= 2
        /\ r[Len(r)] = m_exit
        /\ m_exit \notin cellsWithin(M, m_entrance, m_exit)[Len(r) - 2]
    BY <2>1 DEF FoundRoute, Last
  <2>. HIDE DEF r
  <2>3. Len(r) \in 2..totalCells /\ totalCells \in Nat
    BY <2>2, RouteLength, SizeFacts
  <2>4. cellsAfter(W, m_entrance)[Len(r) - 2] = cellsWithin(M, m_entrance, m_exit)[Len(r) - 2]
    <3>1. Len(r) - 2 \in 0..totalCells
      BY <2>3
    <3>. QED BY <2>1, <3>1, AfterIsWithin
  <2>5. ASSUME NEW k \in 2..Len(r)
        PROVE  \E w \in InnerWalls \ W :
                 {w[1], neighBour(w[1], w[2])} = {r[k - 1], r[k]}
    <3>1. k \in 1..Len(r) /\ k - 1 \in 1..Len(r)
      BY <2>3
    <3>2. canStep(M, m_entrance, m_exit, r[k - 1], r[k]) /\ r[k - 1] \in Cells /\ r[k] \in Cells
      BY <2>2, <3>1 DEF IsRoute
    <3>3. IsOpen(W, r[k - 1], r[k])
      BY <2>1, <3>2, StepIsOpen
    <3>. HIDE DEF W
    <3>. QED BY <3>3, Zenon DEF IsOpen
  <2>6. isPath(W, r)
    BY <2>2, <2>5 DEF isPath, IsRoute
  <2>. QED BY <2>2, <2>3, <2>4, <2>6 DEF IsRoute
<1>. QED BY <1>1, Safe, PTL
-----------------------------------------------------------------------------
(***************************************************************************)
(* The opposing steps.  Along the best route a step changes the row and    *)
(* keeps the column, or it keeps the row and changes the column by one;    *)
(* the opposing steps are those to the right.                              *)
(***************************************************************************)

column(c) == c % Width

LEMMA ColumnOf ==
  ASSUME NEW x \in 0..(Width - 1), NEW y \in Int
  PROVE  column(cellAt(x, y)) = x
BY SizeFacts, DivMod DEF column, cellAt

\* A step between two different cells.
StepKind(c, d) ==
  \/ getRowNumber(c) # getRowNumber(d) /\ ~isLeftOf(c, d) /\ column(d) = column(c)
  \/ getRowNumber(c) = getRowNumber(d) /\ isLeftOf(c, d) /\ column(d) = column(c) + 1
  \/ getRowNumber(c) = getRowNumber(d) /\ ~isLeftOf(c, d) /\ column(d) = column(c) - 1

LEMMA StepKinds ==
  ASSUME NEW M, NEW entrance \in RightEdge, NEW exit \in LeftEdge,
         NEW c \in Cells, NEW d \in Cells, c # d, canStep(M, entrance, exit, c, d)
  PROVE  StepKind(c, d)
<1>1. PICK s \in Sides : ~IsBorder(c, s) /\ d = neighBour(c, s)
  <2>1. canStep(M, entrance, exit, c, d)
    OBVIOUS
  <2>2. \E s \in Sides : ~IsBorder(c, s) /\ ~hasWall(M[c], s) /\ d = neighBour(c, s)
    BY ONLY <2>1, StepThroughSide, entrance \in RightEdge, exit \in LeftEdge,
            c \in Cells, d \in Cells
  <2>. QED BY <2>2
<1>2. PICK x \in 0..(Width - 1), y \in 0..(Height - 1) : c = cellAt(x, y)
  BY CellsAre
<1>3. Width \in Nat \ {0} /\ Height \in Nat \ {0} /\ x \in Int /\ y \in Int /\ c \in Int /\ d \in Int
  BY SizeFacts DEF Cells
<1>4. column(c) = x /\ getRowNumber(c) = y
  BY <1>2, <1>3, ColumnOf, CellAt
<1>5. /\ isLeftEdge(c) <=> x = 0
      /\ isRightEdge(c) <=> x = Width - 1
  BY <1>2, CellAt
<1>6. ASSUME NEW u \in 0..(Height - 1), d = cellAt(x, u) PROVE StepKind(c, d)
  <2>1. u # y
    BY <1>2, <1>6
  <2>2. column(d) = x /\ getRowNumber(d) = u
    BY <1>3, <1>6, ColumnOf, CellAt
  <2>. QED BY <1>4, <2>1, <2>2 DEF StepKind, isLeftOf
<1>7. CASE s = 0
  <2>1. d = cellAt(x, rowAbove(y))
    BY <1>1, <1>2, <1>7, CellsAround DEF neighBour
  <2>2. rowAbove(y) \in 0..(Height - 1)
    BY <1>3 DEF rowAbove
  <2>. QED BY <1>6, <2>1, <2>2
<1>8. CASE s = 2
  <2>1. d = cellAt(x, rowBelow(y))
    BY <1>1, <1>2, <1>8, CellsAround DEF neighBour
  <2>2. rowBelow(y) \in 0..(Height - 1)
    BY <1>3 DEF rowBelow
  <2>. QED BY <1>6, <2>1, <2>2
<1>9. CASE s = 1
  <2>. DEFINE z == x + 1
  <2>1. d = c + 1 /\ z \in 0..(Width - 1)
    BY <1>1, <1>3, <1>5, <1>9 DEF neighBour, IsBorder
  <2>2. d = cellAt(z, y)
    BY <1>2, <2>1, CellsAround
  <2>3. column(d) = z /\ getRowNumber(d) = y
    <3>. HIDE DEF z
    <3>. QED BY <1>3, <2>1, <2>2, ColumnOf, CellAt
  <2>4. c = d - 1
    BY <1>3, <2>1
  <2>. QED BY <1>4, <2>3, <2>4 DEF StepKind, isLeftOf
<1>10. CASE s = 3
  <2>. DEFINE z == x - 1
  <2>1. d = c - 1 /\ z \in 0..(Width - 1)
    BY <1>1, <1>3, <1>5, <1>10 DEF neighBour, IsBorder
  <2>2. d = cellAt(z, y)
    <3>1. z + 1 = x
      BY <1>3
    <3>. HIDE DEF z
    <3>2. cellAt(z, y) \in Int
      BY <2>1, CellAt DEF Cells
    <3>3. cellAt(z, y) + 1 = c
      BY <1>2, <2>1, <3>1, CellsAround
    <3>. QED BY <2>1, <3>2, <3>3
  <2>3. column(d) = z /\ getRowNumber(d) = y
    <3>. HIDE DEF z
    <3>. QED BY <1>3, <2>1, <2>2, ColumnOf, CellAt
  <2>4. c # d - 1
    BY <1>3, <2>1
  <2>. QED BY <1>4, <2>3, <2>4 DEF StepKind, isLeftOf
<1>. QED BY <1>7, <1>8, <1>9, <1>10 DEF Sides

\* The steps among the first n places of a route that change the row, and those
\* that lead to the right.
rowChangesUpTo(r, n) == {k \in 2..n : getRowNumber(r[k - 1]) # getRowNumber(r[k])}

opposingUpTo(r, n) == {k \in 2..n : isLeftOf(r[k - 1], r[k])}

\* Taking one place more adds it or not.
LEMMA OnePlaceMore ==
  ASSUME NEW A, NEW B, NEW m, m \notin A, IsFiniteSet(A), B = A \/ B = A \cup {m}
  PROVE  /\ IsFiniteSet(B)
         /\ Cardinality(A) \in Nat
         /\ Cardinality(B) = Cardinality(A) + (IF m \in B THEN 1 ELSE 0)
<1>1. Cardinality(A) \in Nat
  BY FS_CardinalityType
<1>2. CASE B = A
  BY <1>1, <1>2
<1>3. CASE B = A \cup {m}
  <2>1. IsFiniteSet(A \cup {m}) /\ Cardinality(A \cup {m}) = Cardinality(A) + 1
    BY FS_AddElement
  <2>. QED BY <1>1, <1>3, <2>1
<1>. QED BY <1>2, <1>3

LEMMA PlacesUpTo ==
  ASSUME NEW r, NEW n \in Nat \ {0}
  PROVE  /\ rowChangesUpTo(r, n + 1) = rowChangesUpTo(r, n) \cup
              (IF getRowNumber(r[n]) # getRowNumber(r[n + 1]) THEN {n + 1} ELSE {})
         /\ opposingUpTo(r, n + 1) = opposingUpTo(r, n) \cup
              (IF isLeftOf(r[n], r[n + 1]) THEN {n + 1} ELSE {})
         /\ n + 1 \notin rowChangesUpTo(r, n)
         /\ n + 1 \notin opposingUpTo(r, n)
         /\ rowChangesUpTo(r, 1) = {} /\ opposingUpTo(r, 1) = {}
<1>1. 2..(n + 1) = (2..n) \cup {n + 1} /\ n + 1 \notin 2..n /\ 2..1 = {} /\ n + 1 - 1 = n
  OBVIOUS
<1>. DEFINE m == n + 1
<1>. HIDE DEF m
<1>2. m = n + 1 /\ 2..m = (2..n) \cup {m} /\ m \notin 2..n /\ m - 1 = n
  BY <1>1 DEF m
<1>3. /\ rowChangesUpTo(r, m) = rowChangesUpTo(r, n) \cup
              (IF getRowNumber(r[n]) # getRowNumber(r[m]) THEN {m} ELSE {})
      /\ m \notin rowChangesUpTo(r, n)
  BY <1>2, Zenon DEF rowChangesUpTo
<1>4. /\ opposingUpTo(r, m) = opposingUpTo(r, n) \cup
              (IF isLeftOf(r[n], r[m]) THEN {m} ELSE {})
      /\ m \notin opposingUpTo(r, n)
  BY <1>2, Zenon DEF opposingUpTo
<1>5. rowChangesUpTo(r, 1) = {} /\ opposingUpTo(r, 1) = {}
  BY <1>1, Zenon DEF rowChangesUpTo, opposingUpTo
<1>. QED BY <1>2, <1>3, <1>4, <1>5

\* Along an open path every step counts: for a row, for the way to the left or,
\* when it leads to the right, twice.
LEMMA StepsCounted ==
  ASSUME NEW M, NEW entrance \in RightEdge, NEW exit \in LeftEdge, NEW r,
         IsRoute(M, entrance, exit, r)
  PROVE  Len(r) - 1 = Cardinality(rowChangesUpTo(r, Len(r)))
                        + (column(r[1]) - column(r[Len(r)]))
                        + 2 * Cardinality(opposingUpTo(r, Len(r)))
<1>. DEFINE L == Len(r)
            R(n) == rowChangesUpTo(r, n)
            O(n) == opposingUpTo(r, n)
            Counted(n) ==
              /\ IsFiniteSet(R(n)) /\ IsFiniteSet(O(n))
              /\ n - 1 = Cardinality(R(n)) + (column(r[1]) - column(r[n]))
                           + 2 * Cardinality(O(n))
            S == {n \in Nat : n < L => Counted(n + 1)}
<1>1. L \in Nat /\ L > 0
  BY DEF IsRoute
<1>2. \A k \in 1..L : r[k] \in Cells /\ column(r[k]) \in Int
  <2>1. \A k \in 1..L : r[k] \in Cells
    BY DEF IsRoute
  <2>2. \A c \in Cells : column(c) \in Int
    BY SizeFacts, ColumnOf, CellsAre
  <2>. QED BY <2>1, <2>2
<1>3. ASSUME NEW n \in Nat \ {0}, n < L PROVE StepKind(r[n], r[n + 1])
  <2>1. n + 1 \in 2..L /\ n + 1 - 1 = n /\ n \in 1..L /\ n + 1 \in 1..L /\ n # n + 1
    BY <1>1, <1>3
  <2>2. canStep(M, entrance, exit, r[n], r[n + 1])
    BY <2>1 DEF IsRoute
  <2>3. r[n] # r[n + 1]
    BY <2>1 DEF IsRoute
  <2>. QED BY <1>2, <2>1, <2>2, <2>3, StepKinds
<1>. HIDE DEF L
<1>4. Counted(1)
  <2>1. R(1) = {} /\ O(1) = {}
    <3>1. 1 \in Nat \ {0}
      OBVIOUS
    <3>. QED BY <3>1, PlacesUpTo
  <2>2. IsFiniteSet({}) /\ Cardinality({}) = 0
    BY FS_EmptySet
  <2>3. column(r[1]) \in Int
    BY <1>1, <1>2
  <2>. QED BY <2>1, <2>2, <2>3
<1>5. ASSUME NEW n \in Nat \ {0}, n < L, Counted(n) PROVE Counted(n + 1)
  <2>. DEFINE m == n + 1
              a == Cardinality(R(n))
              b == Cardinality(O(n))
              x == column(r[1])
              y == column(r[n])
              z == column(r[m])
  <2>1. /\ R(m) = R(n) \cup (IF getRowNumber(r[n]) # getRowNumber(r[m]) THEN {m} ELSE {})
        /\ O(m) = O(n) \cup (IF isLeftOf(r[n], r[m]) THEN {m} ELSE {})
        /\ m \notin R(n) /\ m \notin O(n)
    BY PlacesUpTo
  <2>2. StepKind(r[n], r[m])
    BY <1>3, <1>5
  <2>3. x \in Int /\ y \in Int /\ z \in Int /\ m - 1 = n /\ m \in Nat
    BY <1>1, <1>2, <1>5
  <2>4. /\ IsFiniteSet(R(n)) /\ IsFiniteSet(O(n))
        /\ n - 1 = a + (x - y) + 2 * b
    BY <1>5
  <2>. HIDE DEF m, R, O
  <2>5. /\ IsFiniteSet(R(m)) /\ a \in Nat
        /\ Cardinality(R(m)) = a + (IF getRowNumber(r[n]) # getRowNumber(r[m]) THEN 1 ELSE 0)
    <3>. DEFINE changes == getRowNumber(r[n]) # getRowNumber(r[m])
    <3>. HIDE DEF changes
    <3>1. R(m) = R(n) \/ R(m) = R(n) \cup {m}
      BY <2>1
    <3>2. m \in R(m) <=> changes
      BY <2>1 DEF changes
    <3>3. /\ IsFiniteSet(R(m)) /\ Cardinality(R(n)) \in Nat
          /\ Cardinality(R(m)) = Cardinality(R(n)) + (IF m \in R(m) THEN 1 ELSE 0)
      BY <2>1, <2>4, <3>1, OnePlaceMore
    <3>. QED BY <3>2, <3>3 DEF changes
  <2>6. /\ IsFiniteSet(O(m)) /\ b \in Nat
        /\ Cardinality(O(m)) = b + (IF isLeftOf(r[n], r[m]) THEN 1 ELSE 0)
    <3>. DEFINE changes == isLeftOf(r[n], r[m])
    <3>. HIDE DEF changes
    <3>1. O(m) = O(n) \/ O(m) = O(n) \cup {m}
      BY <2>1
    <3>2. m \in O(m) <=> changes
      BY <2>1 DEF changes
    <3>3. /\ IsFiniteSet(O(m)) /\ Cardinality(O(n)) \in Nat
          /\ Cardinality(O(m)) = Cardinality(O(n)) + (IF m \in O(m) THEN 1 ELSE 0)
      BY <2>1, <2>4, <3>1, OnePlaceMore
    <3>. QED BY <3>2, <3>3 DEF changes
  <2>. HIDE DEF a, b, x, y, z
  <2>7. m - 1 = Cardinality(R(m)) + (x - z) + 2 * Cardinality(O(m))
    <3>1. \/ /\ Cardinality(R(m)) = a + 1 /\ Cardinality(O(m)) = b + 0 /\ z = y
          \/ /\ Cardinality(R(m)) = a + 0 /\ Cardinality(O(m)) = b + 1 /\ z = y + 1
          \/ /\ Cardinality(R(m)) = a + 0 /\ Cardinality(O(m)) = b + 0 /\ z = y - 1
      BY <2>2, <2>5, <2>6 DEF StepKind, y, z
    <3>. QED BY <2>3, <2>4, <2>5, <2>6, <3>1
  <2>8. Counted(m)
    BY <2>5, <2>6, <2>7 DEF x, z
  <2>. QED BY <2>8 DEF m
<1>. HIDE DEF Counted
<1>6. 0 \in S
  <2>1. 0 + 1 = 1
    OBVIOUS
  <2>. QED BY <1>4, <2>1
<1>7. ASSUME NEW n \in Nat, n \in S PROVE n + 1 \in S
  <2>1. n + 1 \in Nat \ {0} /\ (n + 1 < L => n < L)
    BY <1>1
  <2>2. n + 1 < L => Counted(n + 1 + 1)
    BY <1>5, <1>7, <2>1
  <2>. QED BY <2>1, <2>2
<1>8. Nat \subseteq S
  <2>. HIDE DEF S
  <2>. QED BY <1>6, <1>7, NatSetInduction
<1>9. L - 1 \in Nat /\ L - 1 < L /\ L - 1 + 1 = L
  BY <1>1
<1>10. Counted(L)
  BY <1>8, <1>9
<1>. QED BY <1>10 DEF Counted, L

\* The statistics are those of the route that is kept, and the route is one of
\* a maze whose cells are all reachable.
StatsInv == pc = "done" => stats = calculateMazeAndRouteStats(vectors.m_vBestRoute)

LEMMA StatsStep == StatsInv /\ [Next]_vars => StatsInv'
BY DEF StatsInv, Next, vars, StartGeneration, AddRandomWall, KeepWall, RemoveWallAt,
       EndTry, NextLoop, EndLoops, FillWalllessCell, EndFill, CalculateStats, Done

\* A route of minimal length makes Width - 1 steps to the left, one more for
\* each opposing step, and the others change the row, on a grid of any size.
THEOREM OpposingStepsCorrect == Spec => []OpposingStepsExact
<1>1. Init => StatsInv
  BY DEF Init, StatsInv
<1>2. SafeInv /\ GrowInv /\ StatsInv => OpposingStepsExact
  <2>. DEFINE r == vectors.m_vBestRoute
              rowChanges == {k \in 2..Len(r) : getRowNumber(r[k - 1]) # getRowNumber(r[k])}
  <2>. SUFFICES ASSUME SafeInv, GrowInv, StatsInv, pc = "done", m_entrance # m_exit
                PROVE  stats.routeLength - 1
                         = Cardinality(rowChanges) + Width - 1 + 2 * stats.m_nOpposingSteps
    BY DEF OpposingStepsExact
  <2>1. Settled /\ vectors.m_bAllCellsReachable
    <3>1. Settled
      BY DEF Settled
    <3>. QED BY <3>1, SafeSettledSearch DEF SettledSearch, GrowInv
  <2>2. /\ FoundRoute(m_CLMatrix, m_entrance, m_exit, r)
        /\ m_entrance \in RightEdge /\ m_exit \in LeftEdge
    BY <2>1, SettledRoute
  <2>. DEFINE a == Cardinality(rowChangesUpTo(r, Len(r)))
              b == Cardinality(opposingUpTo(r, Len(r)))
  <2>3. stats.routeLength = Len(r) /\ stats.m_nOpposingSteps = b
    BY DEF StatsInv, calculateMazeAndRouteStats, opposingUpTo
  <2>4. rowChanges = rowChangesUpTo(r, Len(r))
    BY DEF rowChangesUpTo
  <2>5. /\ IsRoute(m_CLMatrix, m_entrance, m_exit, r)
        /\ r[1] = m_entrance /\ r[Len(r)] = m_exit
    BY <2>2 DEF FoundRoute, IsRoute, Last
  <2>. HIDE DEF r, rowChanges
  <2>6. Len(r) - 1 = a + (column(m_entrance) - column(m_exit)) + 2 * b
    BY <2>2, <2>5, StepsCounted
  <2>7. column(m_entrance) = Width - 1 /\ column(m_exit) = 0
    <3>1. ASSUME NEW c \in Cells
          PROVE  \E x \in 0..(Width - 1) : /\ column(c) = x
                                           /\ isLeftEdge(c) <=> x = 0
                                           /\ isRightEdge(c) <=> x = Width - 1
      BY CellsAre, CellAt, ColumnOf
    <3>. QED BY <2>2, <3>1 DEF RightEdge, LeftEdge
  <2>8. a \in Nat /\ b \in Nat /\ Width \in Nat
    <3>1. Len(r) \in Nat
      BY <2>5 DEF IsRoute
    <3>2. IsFiniteSet(2..Len(r))
      BY <3>1, FS_Interval
    <3>3. rowChangesUpTo(r, Len(r)) \subseteq 2..Len(r) /\ opposingUpTo(r, Len(r)) \subseteq 2..Len(r)
      BY DEF rowChangesUpTo, opposingUpTo
    <3>. QED BY <3>2, <3>3, FS_Subset, FS_CardinalityType, SizeFacts
  <2>. HIDE DEF a, b
  <2>9. Len(r) - 1 = a + Width - 1 + 2 * b
    BY <2>6, <2>7, <2>8
  <2>. QED BY <2>3, <2>4, <2>9 DEF a
<1>. QED BY <1>1, <1>2, StatsStep, Safe, Grow, PTL DEF Spec
-----------------------------------------------------------------------------
(***************************************************************************)
(* The number of walls.  The borders have all their walls but one each, so *)
(* that only the inner walls change, one at a time.                        *)
(***************************************************************************)

LEMMA EdgeSizes ==
  /\ IsFiniteSet(RightEdge) /\ Cardinality(RightEdge) = Height
  /\ IsFiniteSet(LeftEdge) /\ Cardinality(LeftEdge) = Height
<1>. DEFINE I == 0..(Height - 1)
<1>1. Width \in Nat \ {0} /\ Height \in Nat \ {0} /\ 0 \in 0..(Width - 1) /\ Width - 1 \in 0..(Width - 1)
  BY SizeFacts
<1>2. IsFiniteSet(I) /\ Cardinality(I) = Height
  <2>. DEFINE H == Height
  <2>. HIDE DEF H
  <2>1. /\ IsFiniteSet(0..(H - 1))
        /\ Cardinality(0..(H - 1)) = IF 0 > H - 1 THEN 0 ELSE H - 1 - 0 + 1
    BY <1>1, FS_Interval DEF H
  <2>. QED BY <1>1, <2>1 DEF H
<1>3. ASSUME NEW x \in 0..(Width - 1), NEW E,
             E = {cellAt(x, y) : y \in I}
      PROVE  IsFiniteSet(E) /\ Cardinality(E) = Height
  <2>. DEFINE f == [y \in I |-> cellAt(x, y)]
  <2>1. \A y, u \in I : f[y] = f[u] => y = u
    <3>1. I \subseteq Int
      OBVIOUS
    <3>. HIDE DEF I
    <3>. QED BY <3>1, CellsDiffer
  <2>2. f \in [I -> E] /\ \A c \in E : \E y \in I : f[y] = c
    BY <1>3
  <2>3. f \in Bijection(I, E)
    <3>. HIDE DEF I, f
    <3>. QED BY <2>1, <2>2 DEF Bijection, Injection, IsInjective, Surjection
  <2>4. ExistsBijection(I, E)
    BY <2>3 DEF ExistsBijection
  <2>. HIDE DEF I, f
  <2>. QED BY <1>2, <2>4, FS_Bijection
<1>4. RightEdge = {cellAt(Width - 1, y) : y \in I}
  <2>1. \A y \in I : cellAt(Width - 1, y) \in RightEdge
    BY <1>1, CellAt DEF RightEdge
  <2>2. \A c \in RightEdge : \E y \in I : c = cellAt(Width - 1, y)
    BY <1>1, CellAt, CellsAre DEF RightEdge
  <2>. HIDE DEF I
  <2>. QED BY <2>1, <2>2
<1>5. LeftEdge = {cellAt(0, y) : y \in I}
  <2>1. \A y \in I : cellAt(0, y) \in LeftEdge
    BY <1>1, CellAt DEF LeftEdge
  <2>2. \A c \in LeftEdge : \E y \in I : c = cellAt(0, y)
    BY <1>1, CellAt, CellsAre DEF LeftEdge
  <2>. HIDE DEF I
  <2>. QED BY <2>1, <2>2
<1>. HIDE DEF I
<1>. QED BY <1>1, <1>3, <1>4, <1>5

\* The walls of a well-formed maze.
LEMMA WallsOfSize ==
  ASSUME NEW M, NEW entrance \in RightEdge, NEW exit \in LeftEdge,
         WellFormed(M, entrance, exit)
  PROVE  /\ IsFiniteSet(wallsOf(M)) /\ Cardinality(wallsOf(M)) \in Nat
         /\ nWallsOf(M) = Cardinality(wallsOf(M)) + 2 * (Height - 1)
<1>1. IsFiniteSet(wallsOf(M)) /\ Cardinality(wallsOf(M)) \in Nat
  <2>1. IsFiniteSet({1, 2})
    <3>1. IsFiniteSet(1..2)
      BY 1 \in Int, 2 \in Int, FS_Interval, Zenon
    <3>2. {1, 2} = 1..2
      OBVIOUS
    <3>. QED BY <3>1, <3>2
  <2>2. IsFiniteSet(Cells \X {1, 2})
    BY <2>1, CellsFinite, FS_Product
  <2>3. wallsOf(M) \subseteq Cells \X {1, 2}
    BY DEF wallsOf, InnerWalls
  <2>. QED BY <2>2, <2>3, FS_Subset, FS_CardinalityType
<1>. DEFINE A == {c \in RightEdge : hasRightWall(M[c])}
            B == {c \in LeftEdge : hasLeftWall(M[c])}
<1>2. A = RightEdge \ {entrance} /\ B = LeftEdge \ {exit}
  BY DEF WellFormed
<1>. HIDE DEF A, B
<1>3. Cardinality(A) = Height - 1 /\ Cardinality(B) = Height - 1
  <2>1. /\ Cardinality(RightEdge \ {entrance}) = Cardinality(RightEdge) - 1
        /\ Cardinality(LeftEdge \ {exit}) = Cardinality(LeftEdge) - 1
    BY EdgeSizes, FS_RemoveElement
  <2>. QED BY <1>2, <2>1, EdgeSizes
<1>4. nWallsOf(M) = Cardinality(wallsOf(M)) + Cardinality(A) + Cardinality(B)
  BY DEF nWallsOf, A, B
<1>. QED BY <1>1, <1>3, <1>4, SizeFacts

\* Putting up a wall counts for one.
LEMMA WithWallSize ==
  ASSUME NEW M, NEW entrance \in RightEdge, NEW exit \in LeftEdge,
         WellFormed(M, entrance, exit),
         NEW r \in Cells, NEW s \in Sides, ~IsBorder(r, s), ~hasWall(M[r], s)
  PROVE  nWallsOf(withWall(M, r, s)) = nWallsOf(M) + 1 /\ nWallsOf(M) \in Int
<1>. DEFINE M1 == withWall(M, r, s)
            W == wallsOf(M)
            w == wallAt(r, s)
<1>1. WellFormed(M1, entrance, exit)
  BY WithWallWellFormed
<1>2. w \notin W /\ wallsOf(M1) = W \cup {w}
  BY WallsWithWall
<1>. HIDE DEF M1
<1>3. /\ nWallsOf(M) = Cardinality(W) + 2 * (Height - 1)
      /\ nWallsOf(M1) = Cardinality(wallsOf(M1)) + 2 * (Height - 1)
      /\ IsFiniteSet(W) /\ Cardinality(W) \in Nat
  BY <1>1, WallsOfSize
<1>. HIDE DEF w, W
<1>4. Cardinality(W \cup {w}) = Cardinality(W) + 1
  BY <1>2, <1>3, FS_AddElement
<1>. QED BY <1>2, <1>3, <1>4, SizeFacts DEF M1

\* fillWalllessCells works off the list it was given.
CountInv ==
  /\ WallsCounted
  /\ pc = "fill" => problemsLeft \subseteq vectors.m_vIntersectionProblems

LEMMA CountFill == SafeInv /\ CountInv /\ FillWalllessCell => CountInv'
<1>. SUFFICES ASSUME SafeInv, CountInv, FillWalllessCell PROVE CountInv'
  OBVIOUS
<1>. DEFINE P == vectors.m_vIntersectionProblems
<1>1. /\ pc = "fill" /\ pc' = "fill" /\ vectors' = vectors /\ m_nWalls' = m_nWalls
      /\ WellFormed(m_CLMatrix, m_entrance, m_exit)
      /\ m_entrance \in RightEdge /\ m_exit \in LeftEdge
      /\ problemsLeft \subseteq P /\ P \subseteq Vertices /\ m_nWalls \in Int
  BY DEF FillWalllessCell, SafeInv, MazeWellFormed, TypeOK, CountInv
<1>2. PICK v : FillsAt(v)
  BY FillIsWithWall
<1>3. /\ v \in problemsLeft /\ problemsLeft' = problemsLeft \ {v}
      /\ cellID(v) \in Cells /\ ~IsBorder(cellID(v), 1) /\ ~hasWall(m_CLMatrix[cellID(v)], 1)
      /\ m_CLMatrix' = withWall(m_CLMatrix, cellID(v), 1)
  BY <1>2 DEF FillsAt
<1>4. nWallsOf(m_CLMatrix') = nWallsOf(m_CLMatrix) + 1
  <2>1. 1 \in Sides
    BY DEF Sides
  <2>. QED BY <1>1, <1>3, <2>1, WithWallSize
<1>5. nWallsOf(m_CLMatrix) = m_nWalls + Cardinality(P \ problemsLeft)
  BY <1>1 DEF CountInv, WallsCounted
<1>6. IsFiniteSet(P \ problemsLeft)
  <2>1. IsFiniteSet(Vertices)
    <3>. DEFINE n == Height * (Width + 1) - 1
    <3>1. n \in Int
      BY SizeFacts
    <3>. HIDE DEF n
    <3>2. IsFiniteSet(0..n)
      BY <3>1, FS_Interval
    <3>. QED BY <3>2 DEF n, Vertices
  <2>. QED BY <1>1, <2>1, FS_Subset
<1>. HIDE DEF P
<1>7. P \ problemsLeft' = (P \ problemsLeft) \cup {v} /\ v \notin P \ problemsLeft
  BY <1>1, <1>3
<1>8. /\ Cardinality(P \ problemsLeft') = Cardinality(P \ problemsLeft) + 1
      /\ Cardinality(P \ problemsLeft) \in Nat
  BY <1>6, <1>7, FS_AddElement, FS_CardinalityType
<1>9. nWallsOf(m_CLMatrix') = m_nWalls + Cardinality(P \ problemsLeft')
  BY <1>1, <1>4, <1>5, <1>8
<1>10. nWallsOf(m_CLMatrix)' = nWallsOf(m_CLMatrix')
  BY DEF nWallsOf
<1>. QED BY <1>1, <1>3, <1>9, <1>10 DEF CountInv, WallsCounted, P

LEMMA CountStep == SafeInv /\ CountInv /\ [Next]_vars => CountInv'
<1>. SUFFICES ASSUME SafeInv, CountInv, [Next]_vars PROVE CountInv'
  OBVIOUS
<1>1. CASE StartGeneration
  <2>1. PICK entrance \in RightEdge, exit \in LeftEdge : m_CLMatrix' = closedBorders(entrance, exit)
    BY <1>1 DEF StartGeneration
  <2>2. WellFormed(m_CLMatrix', entrance, exit) /\ wallsOf(m_CLMatrix') = {}
    BY <2>1, ClosedBordersWellFormed, NoInnerWalls
  <2>3. nWallsOf(m_CLMatrix') = 0 + 2 * (Height - 1)
    BY <2>2, WallsOfSize, FS_EmptySet
  <2>4. pc' = "try" /\ m_nWalls' = 2 * (Height - 1)
    BY <1>1 DEF StartGeneration
  <2>. QED BY <2>3, <2>4, SizeFacts DEF CountInv, WallsCounted
<1>2. CASE AddRandomWall
  <2>1. /\ pc = "try" /\ pc' = "check" /\ m_nWalls = nWallsOf(m_CLMatrix)
        /\ WellFormed(m_CLMatrix, m_entrance, m_exit)
        /\ m_entrance \in RightEdge /\ m_exit \in LeftEdge
    BY <1>2 DEF AddRandomWall, CountInv, WallsCounted, SafeInv, MazeWellFormed, TypeOK
  <2>2. nWallsOf(m_CLMatrix') = m_nWalls'
    <3>1. CASE m_CLMatrix' = m_CLMatrix /\ m_nWalls' = m_nWalls
      BY <2>1, <3>1
    <3>2. ASSUME NEW r \in Cells, NEW s \in Sides, AddsWall(r, s)
          PROVE  nWallsOf(m_CLMatrix') = m_nWalls'
      BY <2>1, <3>2, WithWallSize DEF AddsWall
    <3>. QED BY <1>2, <3>1, <3>2, AddRandomWallChanges
  <2>. QED BY <2>1, <2>2 DEF CountInv, WallsCounted
<1>3. CASE RemoveWallAt
  <2>1. PICK r \in Cells, s \in Sides : AddedTo(m_CLMatrix', r, s)
    BY <1>3, RemoveRestores
  <2>2. /\ pc = "check" /\ pc' = "try" /\ m_nWalls' = m_nWalls - 1
        /\ m_nWalls = nWallsOf(m_CLMatrix)
        /\ m_entrance \in RightEdge /\ m_exit \in LeftEdge
    BY <1>3 DEF RemoveWallAt, EndTry, CountInv, WallsCounted, SafeInv, TypeOK
  <2>3. /\ nWallsOf(m_CLMatrix) = nWallsOf(m_CLMatrix') + 1
        /\ nWallsOf(m_CLMatrix') \in Int
    BY <2>1, <2>2, WithWallSize DEF AddedTo
  <2>4. nWallsOf(m_CLMatrix') = m_nWalls'
    BY <2>2, <2>3
  <2>. QED BY <2>2, <2>4 DEF CountInv, WallsCounted
<1>4. CASE EndLoops
  <2>1. /\ m_CLMatrix' = m_CLMatrix /\ m_nWalls' = m_nWalls /\ vectors' = vectors
        /\ m_nWalls = nWallsOf(m_CLMatrix) /\ m_nWalls \in Int
        /\ pc' \in {"fill", "stats"}
        /\ pc' = "fill" => problemsLeft' = vectors.m_vIntersectionProblems
    BY <1>4 DEF EndLoops, mazeVars, CountInv, WallsCounted, SafeInv, TypeOK
  <2>2. Cardinality({}) = 0
    BY FS_EmptySet
  <2>3. pc' = "fill" => vectors'.m_vIntersectionProblems \ problemsLeft' = {}
    BY <2>1
  <2>. QED BY <2>1, <2>2, <2>3 DEF CountInv, WallsCounted
<1>5. CASE FillWalllessCell
  BY <1>5, CountFill
<1>6. CASE KeepWall
  BY <1>6 DEF KeepWall, EndTry, CountInv, WallsCounted
<1>7. CASE NextLoop
  BY <1>7 DEF NextLoop, mazeVars, CountInv, WallsCounted
<1>8. CASE UNCHANGED vars
  BY <1>8 DEF vars, CountInv, WallsCounted
<1>. QED BY <1>1, <1>2, <1>3, <1>4, <1>5, <1>6, <1>7, <1>8
     DEF Next, EndFill, CalculateStats, Done, CountInv, WallsCounted

\* m_nWalls, counted up and down in five places, is the number of walls
\* throughout the loops, on a grid of any size; fillWalllessCells adds the ones
\* it fixes without counting them.
THEOREM WallsCountedCorrect == Spec => []WallsCounted
<1>1. Init => CountInv
  BY DEF Init, CountInv, WallsCounted
<1>2. CountInv => WallsCounted
  BY DEF CountInv
<1>. QED BY <1>1, <1>2, CountStep, Safe, PTL DEF Spec
=============================================================================
