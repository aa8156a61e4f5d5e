--------------------------- MODULE MZSafetyProofs ---------------------------
(***************************************************************************)
(* The generation of a maze is safe on a grid of any size: what it caches  *)
(* is current, the maze stays well formed, a wall is only taken away when  *)
(* it was just added and only added where there is none, the search tells  *)
(* connected mazes from others, and the maze grows as Maze specifies.      *)
(***************************************************************************)
EXTENDS MZProperties, VectorsProofs

(***************************************************************************)
(* What adding and removing a wall does to the two characters of a cell.   *)
(***************************************************************************)

\* Adding a wall that is not there (CL::addWallAtSide, CL::addRandomWall) gives
\* a valid cell with exactly one wall more.
LEMMA AddWall ==
  ASSUME NEW cl \in ValidCL, NEW s \in Sides, ~hasWall(cl, s)
  PROVE  /\ addWallAtSide(cl, s) \in ValidCL
         /\ \A t \in Sides : hasWall(addWallAtSide(cl, s), t) <=> hasWall(cl, t) \/ t = s
<1>1. PICK c \in 0..15 : cl = WithChar(c)
  BY DEF ValidCL
<1>2. cl.m_char = c
  BY <1>1 DEF WithChar
<1>3. addWallAtSide(cl, s) = WithChar(c + WallWeight(s))
  BY <1>2 DEF addWallAtSide
<1>4. (WithChar(c + WallWeight(s))).m_char = c + WallWeight(s)
  BY DEF WithChar
<1>5. c + WallWeight(s) \in 0..15
  BY <1>2 DEF hasWall, hasTopWall, hasRightWall, hasBottomWall, hasLeftWall, WallWeight, Sides
<1>6. addWallAtSide(cl, s) \in ValidCL
  BY <1>3, <1>5 DEF ValidCL
<1>7. ASSUME NEW t \in Sides
      PROVE  hasWall(addWallAtSide(cl, s), t) <=> hasWall(cl, t) \/ t = s
  BY <1>2, <1>3, <1>4 DEF hasWall, hasTopWall, hasRightWall, hasBottomWall, hasLeftWall, WallWeight, Sides
<1>. QED BY <1>6, <1>7

\* Removing the wall that was added last restores the cell, whether the wall
\* was there before or not.
LEMMA RemoveAddedWall ==
  ASSUME NEW cl \in ValidCL, NEW s \in Sides
  PROVE  removeWallAt(addWallAtSide(cl, s), s) = cl
<1>1. PICK c \in 0..15 : cl = WithChar(c)
  BY DEF ValidCL
<1>2. WallWeight(s) \in Int
  BY DEF WallWeight, Sides
<1>. DEFINE d == c + WallWeight(s)
<1>3. addWallAtSide(cl, s) = WithChar(d)
  BY <1>1 DEF addWallAtSide, WithChar
<1>4. (addWallAtSide(cl, s)).m_char = d
  BY <1>3 DEF WithChar
<1>5. d \in Int /\ d - WallWeight(s) = c
  BY <1>2
<1>6. removeWallAt(addWallAtSide(cl, s), s) = WithChar((addWallAtSide(cl, s)).m_char - WallWeight(s))
  BY DEF removeWallAt
<1>. QED BY <1>1, <1>4, <1>5, <1>6

\* The same for a cell that is its own neighbour (a maze of one row): two
\* walls are added and then removed in the same order.
LEMMA RemoveTwoAddedWalls ==
  ASSUME NEW cl \in ValidCL, NEW s \in Sides, NEW t \in Sides
  PROVE  removeWallAt(removeWallAt(addWallAtSide(addWallAtSide(cl, s), t), s), t) = cl
<1>1. PICK c \in 0..15 : cl = WithChar(c)
  BY DEF ValidCL
<1>2. WallWeight(s) \in Int /\ WallWeight(t) \in Int
  BY DEF WallWeight, Sides
<1>. DEFINE a == addWallAtSide(cl, s)
            b == addWallAtSide(a, t)
            d == removeWallAt(b, s)
<1>3. cl.m_char = c
  BY <1>1 DEF WithChar
<1>4. a.m_char = c + WallWeight(s)
  BY <1>3 DEF addWallAtSide, WithChar
<1>5. b.m_char = c + WallWeight(s) + WallWeight(t)
  <2>. HIDE DEF a
  <2>. QED BY <1>4 DEF addWallAtSide, WithChar
<1>6. d.m_char = c + WallWeight(s) + WallWeight(t) - WallWeight(s)
  <2>1. d.m_char = b.m_char - WallWeight(s)
    BY DEF removeWallAt, WithChar
  <2>. HIDE DEF b, d
  <2>. QED BY <1>2, <1>5, <2>1
<1>7. d.m_char - WallWeight(t) = c
  <2>. HIDE DEF d
  <2>. QED BY <1>2, <1>6
<1>8. removeWallAt(d, t) = WithChar(d.m_char - WallWeight(t))
  BY DEF removeWallAt
<1>. QED BY <1>1, <1>7, <1>8

(***************************************************************************)
(* Matrices of cells.                                                      *)
(***************************************************************************)

\* checkEdgeCompatibility, said of all sides at once.
EdgesAgree(M) ==
  \A c \in Cells, s \in Sides :
    ~IsBorder(c, s) => (hasWall(M[c], s) <=> hasWall(M[neighBour(c, s)], mirroredWall(s)))

LEMMA EdgesAgreeEquiv ==
  ASSUME NEW M
  PROVE  checkEdgeCompatibility(M) <=> EdgesAgree(M)
<1>1. ASSUME NEW c \in Cells
      PROVE  /\ hasWall(M[c], 0) <=> hasTopWall(M[c])
             /\ hasWall(M[c], 1) <=> hasRightWall(M[c])
             /\ hasWall(M[c], 2) <=> hasBottomWall(M[c])
             /\ hasWall(M[c], 3) <=> hasLeftWall(M[c])
  BY DEF hasWall
<1>2. ASSUME NEW d
      PROVE  /\ hasWall(M[d], mirroredWall(0)) <=> hasBottomWall(M[d])
             /\ hasWall(M[d], mirroredWall(1)) <=> hasLeftWall(M[d])
             /\ hasWall(M[d], mirroredWall(2)) <=> hasTopWall(M[d])
             /\ hasWall(M[d], mirroredWall(3)) <=> hasRightWall(M[d])
  BY DEF hasWall, mirroredWall
<1>3. ASSUME NEW c \in Cells
      PROVE  /\ neighBour(c, 0) = neighBourTop(c)
             /\ ~isRightEdge(c) => neighBour(c, 1) = neighBourRight(c)
             /\ neighBour(c, 2) = neighBourBottom(c)
             /\ ~isLeftEdge(c) => neighBour(c, 3) = neighBourLeft(c)
  BY DEF neighBour, neighBourRight, neighBourLeft
<1>4. ASSUME checkEdgeCompatibility(M), NEW c \in Cells, NEW s \in Sides, ~IsBorder(c, s)
      PROVE  hasWall(M[c], s) <=> hasWall(M[neighBour(c, s)], mirroredWall(s))
  <2>1. CASE s = 0 BY <1>1, <1>2, <1>3, <1>4, <2>1 DEF checkEdgeCompatibility
  <2>2. CASE s = 1 BY <1>1, <1>2, <1>3, <1>4, <2>2 DEF checkEdgeCompatibility, IsBorder
  <2>3. CASE s = 2 BY <1>1, <1>2, <1>3, <1>4, <2>3 DEF checkEdgeCompatibility
  <2>4. CASE s = 3 BY <1>1, <1>2, <1>3, <1>4, <2>4 DEF checkEdgeCompatibility, IsBorder
  <2>. QED BY <2>1, <2>2, <2>3, <2>4 DEF Sides
<1>5. ASSUME EdgesAgree(M), NEW c \in Cells
      PROVE  /\ ~isLeftEdge(c)
                  => (hasLeftWall(M[c]) <=> hasRightWall(M[neighBourLeft(c)]))
             /\ ~isRightEdge(c)
                  => (hasRightWall(M[c]) <=> hasLeftWall(M[neighBourRight(c)]))
             /\ hasTopWall(M[c]) <=> hasBottomWall(M[neighBourTop(c)])
             /\ hasBottomWall(M[c]) <=> hasTopWall(M[neighBourBottom(c)])
  <2>1. hasTopWall(M[c]) <=> hasBottomWall(M[neighBourTop(c)])
    BY <1>1, <1>2, <1>3, <1>5 DEF EdgesAgree, IsBorder, Sides
  <2>2. hasBottomWall(M[c]) <=> hasTopWall(M[neighBourBottom(c)])
    BY <1>1, <1>2, <1>3, <1>5 DEF EdgesAgree, IsBorder, Sides
  <2>3. ~isLeftEdge(c) => (hasLeftWall(M[c]) <=> hasRightWall(M[neighBourLeft(c)]))
    BY <1>1, <1>2, <1>3, <1>5 DEF EdgesAgree, IsBorder, Sides
  <2>4. ~isRightEdge(c) => (hasRightWall(M[c]) <=> hasLeftWall(M[neighBourRight(c)]))
    BY <1>1, <1>2, <1>3, <1>5 DEF EdgesAgree, IsBorder, Sides
  <2>. QED BY <2>1, <2>2, <2>3, <2>4
<1>. QED BY <1>4, <1>5 DEF checkEdgeCompatibility, EdgesAgree

\* Putting up an inner wall that is not there, on both of its sides, keeps a
\* maze well formed and adds that wall only.
LEMMA WithWallWellFormed ==
  ASSUME NEW M, NEW entrance, NEW exit, WellFormed(M, entrance, exit),
         NEW r \in Cells, NEW s \in Sides, ~IsBorder(r, s), ~hasWall(M[r], s)
  PROVE  /\ WellFormed(withWall(M, r, s), entrance, exit)
         /\ \A c \in Cells, t \in Sides :
              hasWall(withWall(M, r, s)[c], t) <=>
                \/ hasWall(M[c], t)
                \/ c = r /\ t = s
                \/ c = neighBour(r, s) /\ t = mirroredWall(s)
<1>. DEFINE n == neighBour(r, s)
            m == mirroredWall(s)
            M1 == [M EXCEPT ![r] = addWallAtSide(@, s)]
            M2 == withWall(M, r, s)
<1>1. M \in [Cells -> ValidCL] /\ EdgesAgree(M)
  BY EdgesAgreeEquiv DEF WellFormed
<1>2. n \in Cells /\ m \in Sides /\ ~IsBorder(n, m) /\ neighBour(n, m) = r /\ mirroredWall(m) = s
  BY NeighBours DEF IsBorder
<1>3. m # s
  BY DEF mirroredWall, Sides
<1>4. ~hasWall(M[n], m)
  BY <1>1 DEF EdgesAgree
<1>5. M1 \in [Cells -> ValidCL]
  BY <1>1, AddWall
<1>6. \A c \in Cells, t \in Sides : hasWall(M1[c], t) <=> hasWall(M[c], t) \/ (c = r /\ t = s)
  <2>. SUFFICES ASSUME NEW c \in Cells, NEW t \in Sides
                PROVE  hasWall(M1[c], t) <=> hasWall(M[c], t) \/ (c = r /\ t = s)
    OBVIOUS
  <2>1. CASE c = r
    <3>1. M1[c] = addWallAtSide(M[r], s) BY <1>1, <2>1
    <3>. HIDE DEF M1
    <3>. QED BY <1>1, <2>1, <3>1, AddWall
  <2>2. CASE c # r
    <3>1. M1[c] = M[c] BY <1>1, <2>2
    <3>. QED BY <2>2, <3>1
  <2>. QED BY <2>1, <2>2
<1>7. M2 = [M1 EXCEPT ![n] = addWallAtSide(@, m)]
  BY DEF withWall
<1>8. ~hasWall(M1[n], m)
  <2>. HIDE DEF M1, n, m
  <2>. QED BY <1>2, <1>3, <1>4, <1>6
<1>9. M2 \in [Cells -> ValidCL]
  <2>. HIDE DEF M1, M2, n, m
  <2>1. addWallAtSide(M1[n], m) \in ValidCL BY <1>2, <1>5, <1>8, AddWall
  <2>. QED BY <1>5, <1>7, <2>1
<1>10. \A c \in Cells, t \in Sides :
         hasWall(M2[c], t) <=> hasWall(M[c], t) \/ (c = r /\ t = s) \/ (c = n /\ t = m)
  <2>. SUFFICES ASSUME NEW c \in Cells, NEW t \in Sides
                PROVE  hasWall(M2[c], t) <=> hasWall(M1[c], t) \/ (c = n /\ t = m)
    BY <1>6
  <2>. HIDE DEF M1, M2, n, m
  <2>1. CASE c = n
    <3>1. M2[c] = addWallAtSide(M1[n], m) BY <1>2, <1>5, <1>7, <2>1
    <3>. QED BY <1>2, <1>5, <1>8, <2>1, <3>1, AddWall
  <2>2. CASE c # n
    <3>1. M2[c] = M1[c] BY <1>5, <1>7, <2>2
    <3>. QED BY <2>2, <3>1
  <2>. QED BY <2>1, <2>2
<1>11. EdgesAgree(M2)
  <2>. SUFFICES ASSUME NEW c \in Cells, NEW t \in Sides, ~IsBorder(c, t)
                PROVE  hasWall(M2[c], t) <=> hasWall(M2[neighBour(c, t)], mirroredWall(t))
    BY DEF EdgesAgree
  <2>. DEFINE d == neighBour(c, t)
              u == mirroredWall(t)
  <2>1. d \in Cells /\ u \in Sides /\ neighBour(d, u) = c /\ mirroredWall(u) = t
    BY NeighBours DEF IsBorder
  <2>2. hasWall(M[c], t) <=> hasWall(M[d], u)
    BY <1>1 DEF EdgesAgree
  <2>3. (c = r /\ t = s) <=> (d = n /\ u = m)
    BY <1>2, <2>1
  <2>4. (c = n /\ t = m) <=> (d = r /\ u = s)
    BY <1>2, <2>1
  <2>. HIDE DEF d, u, M2, n, m
  <2>5. hasWall(M2[c], t) <=> hasWall(M2[d], u)
    BY <1>10, <2>1, <2>2, <2>3, <2>4
  <2>. QED BY <2>5 DEF d, u
<1>12. \A c \in RightEdge : hasRightWall(M2[c]) <=> c # entrance
  <2>. SUFFICES ASSUME NEW c \in RightEdge PROVE hasRightWall(M2[c]) <=> hasRightWall(M[c])
    BY DEF WellFormed
  <2>1. c \in Cells /\ isRightEdge(c) BY DEF RightEdge
  <2>2. ~(c = r /\ 1 = s) /\ ~(c = n /\ 1 = m) BY <1>2, <2>1 DEF IsBorder
  <2>. HIDE DEF M2, n, m
  <2>3. hasWall(M2[c], 1) <=> hasWall(M[c], 1) BY <1>10, <2>1, <2>2 DEF Sides
  <2>. QED BY <2>3 DEF hasWall
<1>13. \A c \in LeftEdge : hasLeftWall(M2[c]) <=> c # exit
  <2>. SUFFICES ASSUME NEW c \in LeftEdge PROVE hasLeftWall(M2[c]) <=> hasLeftWall(M[c])
    BY DEF WellFormed
  <2>1. c \in Cells /\ isLeftEdge(c) BY DEF LeftEdge
  <2>2. ~(c = r /\ 3 = s) /\ ~(c = n /\ 3 = m) BY <1>2, <2>1 DEF IsBorder
  <2>. HIDE DEF M2, n, m
  <2>3. hasWall(M2[c], 3) <=> hasWall(M[c], 3) BY <1>10, <2>1, <2>2 DEF Sides
  <2>. QED BY <2>3 DEF hasWall
<1>14. WellFormed(M2, entrance, exit)
  <2>. HIDE DEF M2
  <2>. QED BY <1>9, <1>11, <1>12, <1>13, EdgesAgreeEquiv DEF WellFormed
<1>. QED BY <1>10, <1>14

\* Taking the wall back restores the matrix (the take-back of addRandomWall,
\* and removeWallAt for a wall just added).
LEMMA WithoutWithWall ==
  ASSUME NEW M \in [Cells -> ValidCL], NEW r \in Cells, NEW s \in Sides, ~IsBorder(r, s)
  PROVE  withoutWall(withWall(M, r, s), r, s, neighBour(r, s)) = M
<1>. DEFINE n == neighBour(r, s)
            m == mirroredWall(s)
            M2 == withWall(M, r, s)
            M3 == [M2 EXCEPT ![r] = removeWallAt(@, s)]
            M4 == [M3 EXCEPT ![n] = removeWallAt(@, m)]
<1>1. n \in Cells /\ m \in Sides
  BY NeighBours DEF IsBorder
<1>2. withoutWall(M2, r, s, n) = M4
  BY DEF withoutWall
<1>3. M2 = [[M EXCEPT ![r] = addWallAtSide(@, s)] EXCEPT ![n] = addWallAtSide(@, m)]
  BY DEF withWall
<1>. HIDE DEF n, m
<1>4. DOMAIN M4 = Cells /\ M4 = [c \in Cells |-> M4[c]]
  BY <1>3
<1>5. \A c \in Cells \ {r, n} : M4[c] = M[c]
  BY <1>1, <1>3
<1>6. ASSUME n = r
      PROVE  \A c \in Cells : M4[c] = M[c]
  <2>1. M4[r] = removeWallAt(removeWallAt(addWallAtSide(addWallAtSide(M[r], s), m), s), m)
    BY <1>1, <1>3, <1>6
  <2>2. M4[r] = M[r]
    BY <1>1, <2>1, RemoveTwoAddedWalls
  <2>. QED BY <1>5, <1>6, <2>2
<1>7. ASSUME n # r
      PROVE  \A c \in Cells : M4[c] = M[c]
  <2>1. M4[r] = removeWallAt(addWallAtSide(M[r], s), s)
    BY <1>1, <1>3, <1>7
  <2>2. M4[n] = removeWallAt(addWallAtSide(M[n], m), m)
    BY <1>1, <1>3, <1>7
  <2>3. M4[r] = M[r] /\ M4[n] = M[n]
    BY <1>1, <2>1, <2>2, RemoveAddedWall
  <2>. QED BY <1>5, <2>3
<1>8. \A c \in Cells : M4[c] = M[c]
  BY <1>6, <1>7
<1>. HIDE DEF M4
<1>9. M4 = M
  BY <1>4, <1>8
<1>. QED BY <1>2, <1>9 DEF n

\* The maze generateMZ starts from has the walls of its borders and no others.
LEMMA ClosedBordersWalls ==
  ASSUME NEW entrance, NEW exit, NEW c \in Cells
  PROVE  /\ closedBorders(entrance, exit)[c] \in ValidCL
         /\ \A t \in Sides :
              hasWall(closedBorders(entrance, exit)[c], t) <=>
                \/ t = 1 /\ c \in RightEdge \ {entrance}
                \/ t = 3 /\ c \in LeftEdge \ {exit}
<1>. DEFINE M == closedBorders(entrance, exit)
            right(d) == IF d \in RightEdge \ {entrance} THEN addWallAtSide(NewCL(0), 1) ELSE NewCL(0)
<1>1. NewCL(0) \in ValidCL /\ \A t \in Sides : ~hasWall(NewCL(0), t)
  <2>1. NewCL(0) = WithChar(0)
    BY DEF NewCL, WithChar, humanReadableToInternalChar, internalTohumanReadableChar
  <2>2. (NewCL(0)).m_char = 0
    BY <2>1 DEF WithChar
  <2>. QED BY <2>1, <2>2 DEF ValidCL, hasWall, hasTopWall, hasRightWall, hasBottomWall, hasLeftWall
<1>2. /\ right(c) \in ValidCL
      /\ \A t \in Sides : hasWall(right(c), t) <=> t = 1 /\ c \in RightEdge \ {entrance}
  <2>1. 1 \in Sides BY DEF Sides
  <2>. HIDE DEF right
  <2>2. CASE c \in RightEdge \ {entrance}
    <3>1. right(c) = addWallAtSide(NewCL(0), 1) BY <2>2 DEF right
    <3>. QED BY <1>1, <2>1, <2>2, <3>1, AddWall
  <2>3. CASE c \notin RightEdge \ {entrance}
    <3>1. right(c) = NewCL(0) BY <2>3 DEF right
    <3>. QED BY <1>1, <2>3, <3>1
  <2>. QED BY <2>2, <2>3
<1>3. M = [d \in Cells |-> IF d \in LeftEdge \ {exit} THEN addWallAtSide(right(d), 3) ELSE right(d)]
  BY DEF closedBorders
<1>. HIDE DEF M, right
<1>4. /\ M[c] \in ValidCL
      /\ \A t \in Sides : hasWall(M[c], t) <=> (t = 1 /\ c \in RightEdge \ {entrance}) \/ (t = 3 /\ c \in LeftEdge \ {exit})
  <2>1. 3 \in Sides BY DEF Sides
  <2>2. CASE c \in LeftEdge \ {exit}
    <3>1. M[c] = addWallAtSide(right(c), 3) BY <1>3, <2>2
    <3>. QED BY <1>2, <2>1, <2>2, <3>1, AddWall
  <2>3. CASE c \notin LeftEdge \ {exit}
    <3>1. M[c] = right(c) BY <1>3, <2>3
    <3>2. M[c] \in ValidCL BY <1>2, <3>1
    <3>3. ASSUME NEW t \in Sides
          PROVE  hasWall(M[c], t) <=> (t = 1 /\ c \in RightEdge \ {entrance}) \/ (t = 3 /\ c \in LeftEdge \ {exit})
      <4>1. hasWall(right(c), t) <=> t = 1 /\ c \in RightEdge \ {entrance} BY <1>2
      <4>. QED BY <2>3, <3>1, <4>1
    <3>. QED BY <3>2, <3>3
  <2>. QED BY <2>2, <2>3
<1>. QED BY <1>4 DEF M

\* It is well formed.
LEMMA ClosedBordersWellFormed ==
  ASSUME NEW entrance \in RightEdge, NEW exit \in LeftEdge
  PROVE  WellFormed(closedBorders(entrance, exit), entrance, exit)
<1>. DEFINE M == closedBorders(entrance, exit)
<1>1. ASSUME NEW c \in Cells
      PROVE  /\ M[c] \in ValidCL
             /\ \A t \in Sides : hasWall(M[c], t) <=> (t = 1 /\ c \in RightEdge \ {entrance}) \/ (t = 3 /\ c \in LeftEdge \ {exit})
  BY ClosedBordersWalls
<1>2. M = [c \in Cells |-> M[c]]
  BY DEF closedBorders
<1>. HIDE DEF M
<1>3. M \in [Cells -> ValidCL]
  BY <1>2, <1>1
<1>4. EdgesAgree(M)
  <2>. SUFFICES ASSUME NEW c \in Cells, NEW t \in Sides, ~IsBorder(c, t)
                PROVE  ~hasWall(M[c], t) /\ ~hasWall(M[neighBour(c, t)], mirroredWall(t))
    BY DEF EdgesAgree
  <2>1. /\ neighBour(c, t) \in Cells /\ mirroredWall(t) \in Sides
        /\ ~IsBorder(neighBour(c, t), mirroredWall(t))
    BY NeighBours DEF IsBorder
  <2>. QED BY <1>1, <2>1 DEF IsBorder, RightEdge, LeftEdge
<1>5. \A c \in RightEdge : hasRightWall(M[c]) <=> c # entrance
  <2>. SUFFICES ASSUME NEW c \in RightEdge PROVE hasWall(M[c], 1) <=> c # entrance
    BY DEF hasWall
  <2>1. c \in Cells BY DEF RightEdge
  <2>2. 1 \in Sides /\ 1 # 3 BY DEF Sides
  <2>. QED BY <1>1, <2>1, <2>2
<1>6. \A c \in LeftEdge : hasLeftWall(M[c]) <=> c # exit
  <2>. SUFFICES ASSUME NEW c \in LeftEdge PROVE hasWall(M[c], 3) <=> c # exit
    BY DEF hasWall
  <2>1. c \in Cells BY DEF LeftEdge
  <2>2. 3 \in Sides /\ 1 # 3 BY DEF Sides
  <2>. QED BY <1>1, <2>1, <2>2
<1>7. WellFormed(M, entrance, exit)
  BY <1>3, <1>4, <1>5, <1>6, EdgesAgreeEquiv DEF WellFormed
<1>. QED BY <1>7 DEF M
-----------------------------------------------------------------------------
(***************************************************************************)
(* Type correctness.                                                       *)
(***************************************************************************)
\* Adding or removing a wall leaves the characters numbers, also for the side
\* -1 of an iteration that added nothing.
LEMMA CLTypeKept ==
  ASSUME NEW cl \in CLType, NEW s \in Sides \cup {-1}
  PROVE  addWallAtSide(cl, s) \in CLType /\ removeWallAt(cl, s) \in CLType
<1>1. WallWeight(s) \in Int
  <2>1. CASE s = -1 BY <2>1 DEF WallWeight
  <2>2. CASE s \in Sides BY <2>2 DEF WallWeight, Sides
  <2>. QED BY <2>1, <2>2
<1>2. ASSUME NEW c \in Int PROVE WithChar(c) \in CLType
  BY DEF WithChar, CLType, internalTohumanReadableChar
<1>3. cl.m_char + WallWeight(s) \in Int /\ cl.m_char - WallWeight(s) \in Int
  BY <1>1 DEF CLType
<1>. QED BY <1>2, <1>3 DEF addWallAtSide, removeWallAt

\* The types of what updateVectors computes, whatever the matrix.
LEMMA VectorsType ==
  ASSUME NEW M, NEW entrance, NEW exit
  PROVE  /\ (updateVectors(M, entrance, exit)).m_bAllCellsReachable \in BOOLEAN
         /\ (updateVectors(M, entrance, exit)).m_vIntersectionProblems \subseteq Vertices
  BY DEF updateVectors, allCellsReachable, intersectionProblems

\* The matrix generateMZ starts from has the right type.
LEMMA ClosedBordersType ==
  ASSUME NEW entrance, NEW exit
  PROVE  closedBorders(entrance, exit) \in [Cells -> CLType]
<1>1. NewCL(0) \in CLType
  BY DEF NewCL, CLType, humanReadableToInternalChar, internalTohumanReadableChar
<1>2. addWallAtSide(NewCL(0), 1) \in CLType
  BY <1>1, CLTypeKept DEF Sides
<1>3. addWallAtSide(NewCL(0), 3) \in CLType /\ addWallAtSide(addWallAtSide(NewCL(0), 1), 3) \in CLType
  BY <1>1, <1>2, CLTypeKept DEF Sides
<1>. QED BY <1>1, <1>2, <1>3 DEF closedBorders

\* Updating two cells, be they in the matrix or not, keeps its type.
LEMMA TwoUpdates ==
  ASSUME NEW M \in [Cells -> CLType], NEW a, NEW b,
         NEW s \in Sides \cup {-1}, NEW t \in Sides \cup {-1}
  PROVE  /\ [[M EXCEPT ![a] = addWallAtSide(@, s)] EXCEPT ![b] = addWallAtSide(@, t)]
              \in [Cells -> CLType]
         /\ [[M EXCEPT ![a] = removeWallAt(@, s)] EXCEPT ![b] = removeWallAt(@, t)]
              \in [Cells -> CLType]
<1>. DEFINE A == [M EXCEPT ![a] = addWallAtSide(@, s)]
            R == [M EXCEPT ![a] = removeWallAt(@, s)]
<1>1. A \in [Cells -> CLType] /\ R \in [Cells -> CLType]
  BY CLTypeKept
<1>. HIDE DEF A, R
<1>2. [A EXCEPT ![b] = addWallAtSide(@, t)] \in [Cells -> CLType]
  BY <1>1, CLTypeKept
<1>3. [R EXCEPT ![b] = removeWallAt(@, t)] \in [Cells -> CLType]
  BY <1>1, CLTypeKept
<1>. QED BY <1>2, <1>3 DEF A, R

\* Every action keeps the type.
LEMMA TypeStep == TypeOK /\ [Next]_vars => TypeOK'
<1>. SUFFICES ASSUME TypeOK, [Next]_vars PROVE TypeOK'
  OBVIOUS
<1>0. nTries \in Nat
  BY SizeFacts, Z3 DEF nTries
<1>1. CASE StartGeneration
  <2>1. PICK entrance \in RightEdge, exit \in LeftEdge :
          /\ m_entrance' = entrance
          /\ m_exit' = exit
          /\ m_CLMatrix' = closedBorders(entrance, exit)
          /\ vectors' = updateVectors(closedBorders(entrance, exit), entrance, exit)
    BY <1>1 DEF StartGeneration
  <2>2. m_CLMatrix' \in [Cells -> CLType]
    BY <2>1, ClosedBordersType
  <2>3. /\ vectors'.m_bAllCellsReachable \in BOOLEAN
        /\ vectors'.m_vIntersectionProblems \subseteq Vertices
    BY <2>1, VectorsType
  <2>4. m_nWalls' \in Int
    BY <1>1, SizeFacts DEF StartGeneration
  <2>. QED BY <1>0, <1>1, <2>1, <2>2, <2>3, <2>4 DEF StartGeneration, TypeOK
<1>2. CASE AddRandomWall
  <2>1. pc = "try" /\ m_CLMatrix \in [Cells -> CLType] /\ pc' = "check" /\ i < nTries
    BY <1>2 DEF AddRandomWall, TypeOK
  <2>2. UNCHANGED <<m_entrance, m_exit, m_nMaxWalls, i, problemsLeft, stats>>
    BY <1>2 DEF AddRandomWall, AddRandomWallNone, AddRandomWallBorder,
                AddRandomWallRefused, AddRandomWallAdded, mazeVars
  <2>3. PICK r \in Cells :
          \/ AddRandomWallNone(r)
          \/ \E s \in Sides : \/ AddRandomWallBorder(r, s)
                              \/ AddRandomWallRefused(r, s)
                              \/ AddRandomWallAdded(r, s)
    BY <1>2 DEF AddRandomWall
  <2>. DEFINE Kept == /\ m_CLMatrix' \in [Cells -> CLType]
                      /\ m_nWalls' \in Int
                      /\ added' \in [cell : Cells \cup {-1}, side : Sides \cup {-1}]
                      /\ vectors'.m_bAllCellsReachable \in BOOLEAN
                      /\ vectors'.m_vIntersectionProblems \subseteq Vertices
  <2>4. ASSUME AddRandomWallNone(r) PROVE Kept
    BY <2>1, <2>4, VectorsType DEF AddRandomWallNone, TypeOK, mazeVars
  <2>5. ASSUME NEW s \in Sides, AddRandomWallBorder(r, s) PROVE Kept
    <3>1. m_CLMatrix' = [m_CLMatrix EXCEPT ![r] = removeWallAt(addWallAtSide(@, s), s)]
      BY <2>5 DEF AddRandomWallBorder
    <3>2. m_CLMatrix' \in [Cells -> CLType]
      BY <2>1, <3>1, CLTypeKept
    <3>. QED BY <2>1, <2>5, <3>2 DEF AddRandomWallBorder, TypeOK
  <2>6. ASSUME NEW s \in Sides PROVE mirroredWall(s) \in Sides
    BY DEF mirroredWall, Sides
  <2>7. ASSUME NEW s \in Sides PROVE withWall(m_CLMatrix, r, s) \in [Cells -> CLType]
    BY <2>1, <2>6, TwoUpdates DEF withWall
  <2>8. ASSUME NEW s \in Sides, AddRandomWallRefused(r, s) PROVE Kept
    <3>. DEFINE M == withWall(m_CLMatrix, r, s)
                n == neighBour(r, s)
    <3>1. /\ m_CLMatrix' = withoutWall(M, r, s, n)
          /\ vectors' = updateVectors(m_CLMatrix', m_entrance, m_exit)
          /\ added' = [cell |-> r, side |-> s] /\ m_nWalls' = m_nWalls
      BY <2>8 DEF AddRandomWallRefused
    <3>2. M \in [Cells -> CLType]
      BY <2>7
    <3>. HIDE DEF M, n
    <3>3. m_CLMatrix' \in [Cells -> CLType]
      BY <2>6, <3>1, <3>2, TwoUpdates DEF withoutWall
    <3>. QED BY <3>1, <3>3, VectorsType, ZenonT(30) DEF TypeOK
  <2>9. ASSUME NEW s \in Sides, AddRandomWallAdded(r, s) PROVE Kept
    <3>1. /\ m_CLMatrix' = withWall(m_CLMatrix, r, s)
          /\ vectors' = updateVectors(withWall(m_CLMatrix, r, s), m_entrance, m_exit)
          /\ added' = [cell |-> r, side |-> s] /\ m_nWalls' = m_nWalls + 1
      BY <2>9 DEF AddRandomWallAdded
    <3>. QED BY <2>7, <3>1, VectorsType DEF TypeOK
  <2>10. Kept
    <3>. HIDE DEF Kept
    <3>. QED BY <2>3, <2>4, <2>5, <2>8, <2>9
  <2>11. i' \in 0..nTries /\ i' < nTries
    BY <2>1, <2>2 DEF TypeOK, nTries, totalCells
  <2>. QED BY <2>1, <2>2, <2>10, <2>11 DEF TypeOK
<1>3. ASSUME EndTry, pc = "check"
      PROVE  /\ i' \in 0..nTries
             /\ pc' = "try"
             /\ added' \in [cell : Cells \cup {-1}, side : Sides \cup {-1}]
  BY <1>0, <1>3 DEF EndTry, TypeOK, NoAddition
<1>4. CASE KeepWall
  BY <1>3, <1>4 DEF KeepWall, EndTry, TypeOK
<1>5. CASE RemoveWallAt
  <2>1. m_CLMatrix \in [Cells -> CLType] /\ added.side \in Sides \cup {-1}
    BY <1>5 DEF RemoveWallAt, TypeOK
  <2>2. mirroredWall(added.side) \in Sides \cup {-1}
    BY <2>1 DEF mirroredWall, Sides
  <2>3. PICK n : m_CLMatrix' = withoutWall(m_CLMatrix, added.cell, added.side, n)
    BY <1>5 DEF RemoveWallAt
  <2>4. m_CLMatrix' \in [Cells -> CLType]
    <3>. DEFINE c == added.cell
                s == added.side
                t == mirroredWall(added.side)
    <3>1. m_CLMatrix' = [[m_CLMatrix EXCEPT ![c] = removeWallAt(@, s)]
                           EXCEPT ![n] = removeWallAt(@, t)]
      BY <2>3 DEF withoutWall
    <3>2. s \in Sides \cup {-1} /\ t \in Sides \cup {-1}
      BY <2>1, <2>2
    <3>. HIDE DEF c, s, t
    <3>. QED BY <2>1, <3>1, <3>2, TwoUpdates
  <2>5. /\ vectors'.m_bAllCellsReachable \in BOOLEAN
        /\ vectors'.m_vIntersectionProblems \subseteq Vertices
    BY <1>5, VectorsType DEF RemoveWallAt
  <2>. QED BY <1>3, <1>5, <2>4, <2>5 DEF RemoveWallAt, EndTry, TypeOK
<1>6. CASE NextLoop
  BY <1>0, <1>6 DEF NextLoop, TypeOK, mazeVars
<1>7. CASE EndLoops
  BY <1>7 DEF EndLoops, TypeOK, mazeVars
<1>8. CASE FillWalllessCell
  <2>1. m_CLMatrix \in [Cells -> CLType]
    BY <1>8 DEF FillWalllessCell, TypeOK
  <2>2. PICK v \in problemsLeft :
          /\ m_CLMatrix' =
               [[m_CLMatrix EXCEPT ![cellID(v)] = addWallAtSide(@, 1)]
                  EXCEPT ![cellID(v) + 1] = addWallAtSide(@, 3)]
          /\ problemsLeft' = problemsLeft \ {v}
    BY <1>8 DEF FillWalllessCell
  <2>3. 1 \in Sides \cup {-1} /\ 3 \in Sides \cup {-1}
    BY DEF Sides
  <2>4. m_CLMatrix' \in [Cells -> CLType]
    BY <2>1, <2>2, <2>3, TwoUpdates
  <2>. QED BY <1>8, <2>2, <2>4 DEF FillWalllessCell, TypeOK
<1>9. CASE EndFill
  <2>1. /\ vectors'.m_bAllCellsReachable \in BOOLEAN
        /\ vectors'.m_vIntersectionProblems \subseteq Vertices
    BY <1>9, VectorsType DEF EndFill
  <2>. QED BY <1>9, <2>1 DEF EndFill, TypeOK, mazeVars
<1>10. CASE CalculateStats
  BY <1>10 DEF CalculateStats, TypeOK, mazeVars
<1>11. CASE Done \/ UNCHANGED vars
  BY <1>11 DEF Done, TypeOK, vars
<1>. QED BY <1>1, <1>2, <1>4, <1>5, <1>6, <1>7, <1>8, <1>9, <1>10, <1>11 DEF Next

\* The state the constructor leaves has the right type.
LEMMA TypeInit == Init => TypeOK
<1>1. nTries \in Nat
  BY SizeFacts, Z3 DEF nTries
<1>. QED BY <1>1 DEF Init, TypeOK, NoAddition, Sides

\* Every member keeps its type, on a grid of any size: the counters of the
\* loops stay within their bounds and the cells the walls are added to or taken
\* from leave a matrix of cells.
THEOREM TypeCorrect == Spec => []TypeOK
  BY TypeInit, TypeStep, PTL DEF Spec
-----------------------------------------------------------------------------
\* A vertex that updateIntersections lists as a problem is inside the maze: it
\* has a cell on its left and on its right, and a row above it.  On a border
\* there would have to be two gaps.  No wall meets at it.
LEMMA ProblemVertex ==
  ASSUME NEW M, NEW entrance, NEW exit,
         \A c \in Cells : isRightEdge(c) => (hasRightWall(M[c]) <=> c # entrance),
         \A c \in Cells : isLeftEdge(c) => (hasLeftWall(M[c]) <=> c # exit),
         NEW v \in intersectionProblems(updateVisual(M)), NEW x, NEW y,
         x = vertexColumn(v), y = vertexRow(v)
  PROVE  /\ x \in 1..(Width - 1)
         /\ y \in 1..(Height - 1)
         /\ cellID(v) = cellAt(x - 1, y - 1)
         /\ ~hasLeftWall(M[cellAt(x, y - 1)])
         /\ ~hasLeftWall(M[cellAt(x, y)])
         /\ ~hasTopWall(M[cellAt(x - 1, y)])
         /\ ~hasTopWall(M[cellAt(x, y)])
<1>1. /\ Width \in Nat \ {0} /\ Height \in Nat \ {0} /\ v \in Vertices
      /\ x \in 0..Width /\ y \in 0..(Height - 1)
  BY SizeFacts, VertexAt DEF intersectionProblems
<1>2. cellID(v) = cellAt(x - 1, y - 1) /\ cellID(v) >= 0
  BY DEF cellID, cellAt, intersectionProblems
<1>3. y \in 1..(Height - 1)
  <2>. SUFFICES ASSUME y = 0 PROVE FALSE
    BY <1>1
  <2>. DEFINE W == Width
  <2>1. W \in Nat \ {0} /\ x \in 0..W /\ (0 - 1) * W + (x - 1) >= 0
    BY <1>1, <1>2 DEF cellAt
  <2>. HIDE DEF W
  <2>2. (0 - 1) * W = 0 - W
    BY <2>1, Z3
  <2>. QED BY <2>1, <2>2
<1>4. vertexWalls(updateVisual(M), v) = {}
  BY DEF intersectionProblems
<1>5. /\ x # 0 => ~hasTopWall(M[cellAt(x - 1, y)])
      /\ x # Width => ~hasTopWall(M[cellAt(x, y)])
      /\ ~verticalWall(M, x, y)
      /\ ~verticalWall(M, x, y - 1)
  <2>. DEFINE P == vertexWalls(updateVisual(M), v)
  <2>1. "left" \notin P /\ "right" \notin P /\ "bottom" \notin P /\ "self" \notin P
    BY <1>4
  <2>. HIDE DEF P
  <2>2. y # 0
    BY <1>3
  <2>. QED BY <1>1, <2>1, <2>2, WallsAtVertex DEF P
<1>6. y - 1 \in 0..(Height - 1) /\ y - 1 # y /\ y - 1 \in Int /\ y \in Int
  BY <1>1, <1>3
<1>7. ASSUME x = 0 PROVE FALSE
  <2>1. ~hasLeftWall(M[cellAt(0, y)]) /\ ~hasLeftWall(M[cellAt(0, y - 1)])
    BY <1>1, <1>5, <1>7 DEF verticalWall
  <2>2. 0 \in 0..(Width - 1)
    BY <1>1
  <2>3. cellAt(0, y) = exit /\ cellAt(0, y - 1) = exit
    BY <1>1, <1>6, <2>1, <2>2, CellAt
  <2>. QED BY <1>6, <2>2, <2>3, CellsDiffer
<1>8. ASSUME x = Width PROVE FALSE
  <2>. DEFINE z == Width - 1
  <2>1. z \in 0..(Width - 1)
    BY <1>1
  <2>2. ~hasRightWall(M[cellAt(z, y)]) /\ ~hasRightWall(M[cellAt(z, y - 1)])
    BY <1>5, <1>8 DEF verticalWall
  <2>3. cellAt(z, y) = entrance /\ cellAt(z, y - 1) = entrance
    BY <1>1, <1>6, <2>1, <2>2, CellAt
  <2>. HIDE DEF z
  <2>. QED BY <1>6, <2>1, <2>3, CellsDiffer
<1>9. x \in 1..(Width - 1)
  BY <1>1, <1>7, <1>8
<1>10. x # Width /\ x # 0
  BY <1>1, <1>9
<1>. QED BY <1>2, <1>3, <1>5, <1>9, <1>10 DEF verticalWall

\* Two such vertices have different cells.
LEMMA ProblemCellsDiffer ==
  ASSUME NEW v \in Vertices, NEW w \in Vertices,
         vertexColumn(v) \in 1..(Width - 1), vertexRow(v) \in Nat,
         vertexColumn(w) \in 1..(Width - 1), vertexRow(w) \in Nat,
         cellID(v) = cellID(w)
  PROVE  v = w
<1>. DEFINE W == Width
            a == vertexColumn(v) - 1
            b == vertexColumn(w) - 1
            p == vertexRow(v) - 1
            q == vertexRow(w) - 1
<1>1. W \in Nat \ {0} /\ Height \in Nat
  BY SizeFacts
<1>2. a \in 0..(W - 1) /\ b \in 0..(W - 1) /\ p \in Int /\ q \in Int
  BY <1>1
<1>3. p * W + a = q * W + b
  BY DEF cellID
<1>4. a = b /\ p = q
  <2>. HIDE DEF a, b, p, q, W
  <2>1. (p * W + a) % W = a /\ (p * W + a) \div W = p
    BY <1>1, <1>2, DivMod
  <2>2. (q * W + b) % W = b /\ (q * W + b) \div W = q
    BY <1>1, <1>2, DivMod
  <2>. QED BY <1>3, <2>1, <2>2
<1>5. vertexColumn(v) = vertexColumn(w) /\ vertexRow(v) = vertexRow(w)
  BY <1>1, <1>4
<1>6. ASSUME NEW u \in Nat PROVE u = (W + 1) * vertexRow(u) + vertexColumn(u)
  <2>. DEFINE D == W + 1
  <2>1. D \in Nat \ {0}
    BY <1>1
  <2>. HIDE DEF D
  <2>2. u = D * (u \div D) + (u % D)
    BY <2>1, Z3
  <2>. QED BY <2>2 DEF D, vertexRow, vertexColumn
<1>7. v \in Nat /\ w \in Nat
  BY <1>1, Z3 DEF Vertices
<1>. QED BY <1>5, <1>6, <1>7

(***************************************************************************)
(* The search and the walls.  In a well-formed maze the search can step    *)
(* between two cells exactly when no wall separates them, in both          *)
(* directions, so that what it visits is closed under open walls.          *)
(***************************************************************************)

\* No wall of W separates the cells c and d, which are beside each other.
IsOpen(W, c, d) ==
  \E w \in InnerWalls \ W :
    \/ w[1] = c /\ neighBour(w[1], w[2]) = d
    \/ w[1] = d /\ neighBour(w[1], w[2]) = c

\* The search steps through every side without a wall but out of the maze.
LEMMA StepThroughSide ==
  ASSUME NEW M, NEW entrance \in RightEdge, NEW exit \in LeftEdge,
         NEW c \in Cells, NEW d \in Cells
  PROVE  canStep(M, entrance, exit, c, d) <=>
           \E s \in Sides : ~IsBorder(c, s) /\ ~hasWall(M[c], s) /\ d = neighBour(c, s)
<1>1. d # -1
  BY SizeFacts DEF Cells
<1>2. \A s \in Sides : stepTo(c, s) = -1 <=> IsBorder(c, s)
  BY StepToType DEF IsBorder
<1>3. \A s \in Sides : ~IsBorder(c, s) => stepTo(c, s) = neighBour(c, s)
  BY <1>2, StepToType
<1>4. \A s \in Sides : ~IsBorder(c, s) =>
        (canPass(M, entrance, exit, c, s) <=> ~hasWall(M[c], s))
  BY DEF IsBorder, canPass, RightEdge, LeftEdge
<1>. QED BY <1>1, <1>2, <1>3, <1>4 DEF canStep

\* Both sides of a wall agree, so that its name does not matter.
LEMMA StepIsOpen ==
  ASSUME NEW M, NEW entrance \in RightEdge, NEW exit \in LeftEdge,
         WellFormed(M, entrance, exit), NEW c \in Cells, NEW d \in Cells
  PROVE  canStep(M, entrance, exit, c, d) <=> IsOpen(wallsOf(M), c, d)
<1>. DEFINE Through(a, b) ==
       \E s \in Sides : ~IsBorder(a, s) /\ ~hasWall(M[a], s) /\ b = neighBour(a, s)
<1>1. EdgesAgree(M)
  BY EdgesAgreeEquiv DEF WellFormed
<1>2. ASSUME NEW a \in Cells, NEW s \in Sides, ~IsBorder(a, s), ~hasWall(M[a], s)
      PROVE  /\ neighBour(a, s) \in Cells /\ mirroredWall(s) \in Sides
             /\ ~IsBorder(neighBour(a, s), mirroredWall(s))
             /\ ~hasWall(M[neighBour(a, s)], mirroredWall(s))
             /\ neighBour(neighBour(a, s), mirroredWall(s)) = a
  <2>1. /\ neighBour(a, s) \in Cells /\ mirroredWall(s) \in Sides
        /\ ~IsBorder(neighBour(a, s), mirroredWall(s))
        /\ neighBour(neighBour(a, s), mirroredWall(s)) = a
    BY <1>2, NeighBours DEF IsBorder
  <2>2. ~hasWall(M[neighBour(a, s)], mirroredWall(s))
    BY <1>1, <1>2 DEF EdgesAgree
  <2>. QED BY <2>1, <2>2
<1>3. ASSUME NEW a \in Cells, NEW s \in {1, 2}
      PROVE  <<a, s>> \in InnerWalls \ wallsOf(M) <=> ~IsBorder(a, s) /\ ~hasWall(M[a], s)
  BY DEF InnerWalls, wallsOf, IsBorder
<1>4. ASSUME IsOpen(wallsOf(M), c, d) PROVE Through(c, d)
  <2>1. PICK w \in InnerWalls \ wallsOf(M) :
               \/ w[1] = c /\ neighBour(w[1], w[2]) = d
               \/ w[1] = d /\ neighBour(w[1], w[2]) = c
    BY <1>4 DEF IsOpen
  <2>2. PICK a \in Cells, s \in {1, 2} : w = <<a, s>>
    BY <2>1 DEF InnerWalls
  <2>3. s \in Sides /\ ~IsBorder(a, s) /\ ~hasWall(M[a], s)
    <3>1. s \in Sides
      BY DEF Sides
    <3>2. <<a, s>> \in InnerWalls \ wallsOf(M)
      BY <2>2
    <3>. QED BY <1>3, <3>1, <3>2, Zenon
  <2>4. CASE a = c /\ neighBour(a, s) = d
    BY <2>3, <2>4
  <2>5. CASE a = d /\ neighBour(a, s) = c
    BY <1>2, <2>3, <2>5
  <2>. QED BY <2>1, <2>2, <2>4, <2>5
<1>5. ASSUME Through(c, d) PROVE IsOpen(wallsOf(M), c, d)
  <2>1. PICK s \in Sides : ~IsBorder(c, s) /\ ~hasWall(M[c], s) /\ d = neighBour(c, s)
    BY <1>5
  <2>2. CASE s \in {1, 2}
    <3>1. <<c, s>> \in InnerWalls \ wallsOf(M)
      BY <1>3, <2>1, <2>2
    <3>. QED BY <2>1, <3>1 DEF IsOpen
  <2>3. CASE s \notin {1, 2}
    <3>. DEFINE m == mirroredWall(s)
    <3>1. m \in {1, 2}
      BY <2>3 DEF Sides, mirroredWall
    <3>2. ~IsBorder(d, m) /\ ~hasWall(M[d], m) /\ neighBour(d, m) = c
      BY <1>2, <2>1
    <3>. HIDE DEF m
    <3>3. <<d, m>> \in InnerWalls \ wallsOf(M)
      BY <1>3, <3>1, <3>2
    <3>. QED BY <3>2, <3>3 DEF IsOpen
  <2>. QED BY <2>2, <2>3
<1>6. canStep(M, entrance, exit, c, d) <=> Through(c, d)
  BY StepThroughSide
<1>. QED BY <1>4, <1>5, <1>6

\* The search leaves a well-formed maze nowhere, and ends with the cells it
\* can reach.
LEMMA SearchVisits ==
  ASSUME NEW M, NEW entrance \in RightEdge, NEW exit \in LeftEdge,
         WellFormed(M, entrance, exit)
  PROVE  LET S == updateRoutes(M, entrance, exit)
         IN  /\ ~S.thrown
             /\ S.vVisited \subseteq Cells
             /\ entrance \in S.vVisited
             /\ S.vVisited = cellsWithin(M, entrance, exit)[totalCells]
             /\ \A c \in S.vVisited, d \in Cells :
                  canStep(M, entrance, exit, c, d) => d \in S.vVisited
<1>. DEFINE S == updateRoutes(M, entrance, exit)
<1>0. entrance \in Cells
  BY DEF RightEdge
<1>1. SearchEnds(M, entrance, exit, S)
  BY <1>0, SearchEndsInTime
<1>. HIDE DEF S
<1>2. PICK m, l \in Nat : SearchInv(M, entrance, exit, S, m, m, m + 1, l)
  BY <1>1 DEF SearchEnds
<1>3. /\ S \in SearchStates /\ Frontier(M, entrance, exit, S, m + 1)
      /\ entrance \in S.vVisited
  BY <1>2 DEF SearchInv, Paths
<1>4. S.vVisited \subseteq Cells
  BY <1>3 DEF SearchStates
<1>5. \A c \in Cells : ~IsGap(M, entrance, exit, c)
  BY DEF IsGap, WellFormed, RightEdge, LeftEdge
<1>6. ~S.thrown
  <2>. SUFFICES ASSUME S.thrown PROVE FALSE
    OBVIOUS
  <2>1. PICK c \in S.vVisited, s \in Sides :
          canPass(M, entrance, exit, c, s) /\ stepTo(c, s) = -1
    BY <1>3 DEF Frontier
  <2>. QED BY <1>4, <1>5, <2>1, GapStep
<1>7. \A c \in S.vVisited : finished(M, entrance, exit, S.vVisited, c)
  BY <1>1, <1>2, <1>6, LastRound DEF SearchEnds
<1>8. S.vVisited = cellsWithin(M, entrance, exit)[totalCells]
  BY <1>0, <1>2, <1>7, VisitedReachable
<1>9. \A c \in S.vVisited, d \in Cells :
        canStep(M, entrance, exit, c, d) => d \in S.vVisited
  BY <1>7 DEF finished, canStep
<1>. QED BY <1>3, <1>4, <1>6, <1>8, <1>9 DEF S

\* m_bAllCellsReachable says whether the maze is connected.
LEMMA SearchIsConnected ==
  ASSUME NEW M, NEW entrance \in RightEdge, NEW exit \in LeftEdge,
         WellFormed(M, entrance, exit)
  PROVE  allCellsReachable(updateRoutes(M, entrance, exit)) <=> Connected(wallsOf(M))
<1>. DEFINE V == updateRoutes(M, entrance, exit).vVisited
            W == wallsOf(M)
            Steps(c, d) == canStep(M, entrance, exit, c, d)
<1>0. entrance \in Cells /\ 0 \in Cells
  BY SizeFacts DEF RightEdge, Cells
<1>1. /\ V \subseteq Cells /\ entrance \in V
      /\ V = cellsWithin(M, entrance, exit)[totalCells]
      /\ \A c \in V, d \in Cells : Steps(c, d) => d \in V
  BY SearchVisits
<1>2. \A c, d \in Cells : Steps(c, d) <=> IsOpen(W, c, d)
  BY StepIsOpen
<1>3. \A w \in InnerWalls : w[1] \in Cells /\ neighBour(w[1], w[2]) \in Cells
  <2>1. ASSUME NEW w \in InnerWalls PROVE w[1] \in Cells /\ neighBour(w[1], w[2]) \in Cells
    <3>1. PICK a \in Cells, s \in {1, 2} : w = <<a, s>> /\ (s = 1 => ~isRightEdge(a))
      BY DEF InnerWalls
    <3>. QED BY <3>1, NeighBours DEF Sides
  <2>. QED BY <2>1
<1>4. ASSUME NEW X, \E w \in InnerWalls \ W : (w[1] \in X) # (neighBour(w[1], w[2]) \in X)
      PROVE  \E c \in X \cap Cells, d \in Cells \ X : IsOpen(W, c, d) /\ IsOpen(W, d, c)
  BY <1>3, <1>4 DEF IsOpen
<1>5. ASSUME NEW X, NEW c \in X, NEW d, d \notin X, IsOpen(W, c, d) \/ IsOpen(W, d, c)
      PROVE  \E w \in InnerWalls \ W : (w[1] \in X) # (neighBour(w[1], w[2]) \in X)
  BY <1>5 DEF IsOpen
<1>. HIDE DEF V, W, Steps
<1>6. ASSUME V = Cells, NEW X \in SUBSET (Cells \ {0}), X # {}
      PROVE  \E w \in InnerWalls \ W : (w[1] \in X) # (neighBour(w[1], w[2]) \in X)
  <2>. SUFFICES ASSUME ~\E w \in InnerWalls \ W : (w[1] \in X) # (neighBour(w[1], w[2]) \in X)
                PROVE  FALSE
    OBVIOUS
  <2>. DEFINE Y == IF entrance \in X THEN X ELSE Cells \ X
  <2>1. \A c \in Y, d \in Cells : Steps(c, d) => d \in Y
    BY <1>2, <1>5
  <2>2. entrance \in Y
    BY <1>0
  <2>. HIDE DEF Y
  <2>3. cellsWithin(M, entrance, exit)[totalCells] \subseteq Y
    <3>1. totalCells \in 0..totalCells
      BY SizeFacts
    <3>. QED BY <1>0, <2>1, <2>2, <3>1, WithinClosed DEF Steps
  <2>. QED BY <1>0, <1>1, <1>6, <2>3 DEF Y
<1>7. ASSUME V # Cells, Connected(W) PROVE FALSE
  <2>. DEFINE Y == IF 0 \in V THEN Cells \ V ELSE V
  <2>1. Y \in SUBSET (Cells \ {0}) /\ Y # {}
    BY <1>1, <1>7
  <2>2. PICK c \in Y \cap Cells, d \in Cells \ Y : IsOpen(W, c, d) /\ IsOpen(W, d, c)
    <3>. HIDE DEF Y
    <3>. QED BY <1>4, <1>7, <2>1 DEF Connected
  <2>. QED BY <1>1, <1>2, <2>2
<1>8. V = Cells <=> Connected(W)
  BY <1>6, <1>7 DEF Connected
<1>. QED BY <1>8 DEF V, W, allCellsReachable

\* No set of cells is walled off in the maze without inner walls: the least
\* cell of a set has an open side to a lesser one.
LEMMA NoWallsConnected == Connected({})
<1>. SUFFICES ASSUME NEW X \in SUBSET (Cells \ {0}), X # {}
              PROVE  \E w \in InnerWalls : (w[1] \in X) # (neighBour(w[1], w[2]) \in X)
  BY DEF Connected
<1>1. PICK c \in X : \A d \in X : c <= d
  <2>. SUFFICES ASSUME \A d \in X : \E e \in X : ~(d <= e)
                PROVE  FALSE
    OBVIOUS
  <2>. DEFINE T == {n \in Nat : \A d \in X : n < d}
  <2>1. X \subseteq Nat
    BY SizeFacts DEF Cells
  <2>2. 0 \in T
    BY <2>1
  <2>3. ASSUME NEW n \in Nat, n \in T PROVE n + 1 \in T
    <3>1. \A d \in X : n + 1 <= d
      BY <2>1, <2>3
    <3>2. n + 1 \notin X
      BY <3>1
    <3>. QED BY <2>1, <3>1, <3>2
  <2>. HIDE DEF T
  <2>4. Nat \subseteq T
    BY <2>2, <2>3, NatSetInduction
  <2>5. PICK d \in X : TRUE
    OBVIOUS
  <2>. QED BY <2>1, <2>4, <2>5 DEF T
<1>2. c \in Cells /\ c # 0 /\ c \in Nat
  BY SizeFacts DEF Cells
<1>3. PICK s \in {0, 3} : ~IsBorder(c, s) /\ neighBour(c, s) < c
  <2>1. CASE isLeftEdge(c)
    <3>1. c >= Width
      <4>. SUFFICES ASSUME c < Width PROVE FALSE
        BY <1>2, SizeFacts
      <4>1. (0 * Width + c) % Width = c
        BY <1>2, SizeFacts, DivMod
      <4>. QED BY <1>2, <2>1, <4>1, SizeFacts DEF isLeftEdge
    <3>2. neighBourTop(c) = c - Width
      BY <1>2, <3>1, SizeFacts, Wraparound DEF neighBourTop, Cells
    <3>. QED BY <1>2, <3>2, SizeFacts DEF neighBour, IsBorder
  <2>2. CASE ~isLeftEdge(c)
    <3>1. neighBour(c, 3) = c - 1
      BY <2>2 DEF neighBour
    <3>. QED BY <1>2, <2>2, <3>1 DEF IsBorder
  <2>. QED BY <2>1, <2>2
<1>. DEFINE d == neighBour(c, s)
            m == mirroredWall(s)
<1>4. /\ d \in Cells /\ m \in Sides /\ neighBour(d, m) = c
      /\ m = 1 => ~isRightEdge(d)
  <2>1. s \in Sides
    BY DEF Sides
  <2>. QED BY <1>2, <1>3, <2>1, NeighBours DEF IsBorder
<1>5. m \in {1, 2}
  BY DEF mirroredWall
<1>6. d \notin X
  BY <1>1, <1>2, <1>3, <1>4 DEF Cells
<1>. HIDE DEF d, m
<1>7. <<d, m>> \in InnerWalls
  BY <1>4, <1>5 DEF InnerWalls
<1>. QED BY <1>4, <1>6, <1>7

\* The maze generateMZ starts from has no inner walls.
LEMMA NoInnerWalls ==
  ASSUME NEW entrance, NEW exit
  PROVE  wallsOf(closedBorders(entrance, exit)) = {}
<1>. DEFINE M == closedBorders(entrance, exit)
<1>. SUFFICES ASSUME NEW w \in wallsOf(M) PROVE FALSE
  OBVIOUS
<1>1. PICK a \in Cells, s \in {1, 2} :
        w = <<a, s>> /\ (s = 1 => ~isRightEdge(a)) /\ hasWall(M[a], s)
  BY DEF wallsOf, InnerWalls
<1>2. s \in Sides
  BY DEF Sides
<1>. QED BY <1>1, <1>2, ClosedBordersWalls DEF RightEdge

\* All cells of the maze generateMZ starts from are found (updateRoutes).
LEMMA EmptyMazeReachable ==
  ASSUME NEW entrance \in RightEdge, NEW exit \in LeftEdge
  PROVE  (updateVectors(closedBorders(entrance, exit), entrance, exit)).m_bAllCellsReachable
<1>. DEFINE M == closedBorders(entrance, exit)
<1>1. wallsOf(M) = {}
  BY NoInnerWalls
<1>2. allCellsReachable(updateRoutes(M, entrance, exit))
  BY <1>1, ClosedBordersWellFormed, NoWallsConnected, SearchIsConnected
<1>. QED BY <1>2 DEF updateVectors
-----------------------------------------------------------------------------
(***************************************************************************)
(* Vertices without walls.  fillWalllessCells puts a wall above each of    *)
(* them; around its lower end there is a way, so that nothing is cut off.  *)
(***************************************************************************)

\* The vertex v has a row above it and a cell on either side.
IsInside(v) == vertexColumn(v) \in 1..(Width - 1) /\ vertexRow(v) \in 1..(Height - 1)

\* The walls that can meet at such a vertex: above it, the one that is added,
\* below it, left of it and right of it.
wallsAround(v) ==
  LET x == vertexColumn(v)
      y == vertexRow(v)
  IN  {<<cellAt(x - 1, y - 1), 1>>, <<cellAt(x - 1, y), 1>>,
       <<cellAt(x - 1, y - 1), 2>>, <<cellAt(x, y - 1), 2>>}

\* The four cells that meet at such a vertex.
LEMMA CellsMeeting ==
  ASSUME NEW x \in 1..(Width - 1), NEW y \in 1..(Height - 1)
  PROVE  /\ cellAt(x - 1, y - 1) \in Cells /\ cellAt(x, y - 1) \in Cells
         /\ cellAt(x - 1, y) \in Cells /\ cellAt(x, y) \in Cells
         /\ ~isRightEdge(cellAt(x - 1, y - 1)) /\ ~isRightEdge(cellAt(x - 1, y))
         /\ cellAt(x - 1, y - 1) # cellAt(x - 1, y)
         /\ neighBour(cellAt(x - 1, y - 1), 1) = cellAt(x, y - 1)
         /\ neighBour(cellAt(x - 1, y), 1) = cellAt(x, y)
         /\ neighBour(cellAt(x - 1, y - 1), 2) = cellAt(x - 1, y)
         /\ neighBour(cellAt(x, y - 1), 2) = cellAt(x, y)
         /\ cellAt(x, y - 1) = cellAt(x - 1, y - 1) + 1
         /\ cellAt(x, y) = cellAt(x - 1, y) + 1
<1>. DEFINE w == x - 1
            u == y - 1
<1>1. Width \in Nat \ {0} /\ Height \in Nat \ {0}
  BY SizeFacts
<1>2. /\ w \in 0..(Width - 1) /\ x \in 0..(Width - 1) /\ w # Width - 1 /\ w + 1 = x
      /\ u \in 0..(Height - 1) /\ y \in 0..(Height - 1) /\ u # y
      /\ u # Height - 1 /\ u + 1 = y
  BY <1>1
<1>. HIDE DEF w, u
<1>3. /\ cellAt(w, u) \in Cells /\ cellAt(x, u) \in Cells
      /\ cellAt(w, y) \in Cells /\ cellAt(x, y) \in Cells
      /\ ~isRightEdge(cellAt(w, u)) /\ ~isRightEdge(cellAt(w, y))
  BY <1>2, CellAt
<1>4. /\ cellAt(w, u) + 1 = cellAt(x, u) /\ cellAt(w, y) + 1 = cellAt(x, y)
      /\ neighBourBottom(cellAt(w, u)) = cellAt(w, y)
      /\ neighBourBottom(cellAt(x, u)) = cellAt(x, y)
  BY <1>2, CellsAround DEF rowBelow
<1>5. cellAt(w, u) # cellAt(w, y)
  BY <1>2, CellsDiffer
<1>. QED BY <1>3, <1>4, <1>5 DEF neighBour, w, u

\* A wall is put up above a vertex at which no walls meet: whoever used to pass
\* there goes around the vertex.
LEMMA WallAboveVertex ==
  ASSUME NEW v, IsInside(v), NEW W, Connected(W), wallsAround(v) \cap W = {}
  PROVE  /\ <<cellID(v), 1>> \in InnerWalls \ W
         /\ Connected(W \cup {<<cellID(v), 1>>})
<1>. DEFINE x == vertexColumn(v)
            y == vertexRow(v)
            a == cellAt(x - 1, y - 1)
            b == cellAt(x, y - 1)
            c == cellAt(x - 1, y)
            d == cellAt(x, y)
            U == W \cup {<<a, 1>>}
<1>1. cellID(v) = a
  BY DEF cellID, cellAt
<1>2. /\ a \in Cells /\ b \in Cells /\ c \in Cells /\ d \in Cells
      /\ ~isRightEdge(a) /\ ~isRightEdge(c) /\ a # c
      /\ neighBour(a, 1) = b /\ neighBour(c, 1) = d
      /\ neighBour(a, 2) = c /\ neighBour(b, 2) = d
  BY CellsMeeting DEF IsInside
<1>3. wallsAround(v) = {<<a, 1>>, <<c, 1>>, <<a, 2>>, <<b, 2>>}
  BY DEF wallsAround
<1>. HIDE DEF a, b, c, d
<1>4. {<<a, 1>>, <<c, 1>>, <<a, 2>>, <<b, 2>>} \subseteq InnerWalls \ W
  BY <1>2, <1>3 DEF InnerWalls
<1>5. {<<c, 1>>, <<a, 2>>, <<b, 2>>} \subseteq InnerWalls \ U
  BY <1>2, <1>4
<1>6. Connected(U)
  <2>. SUFFICES ASSUME NEW S \in SUBSET (Cells \ {0}), S # {}
                PROVE  \E w \in InnerWalls \ U : (w[1] \in S) # (neighBour(w[1], w[2]) \in S)
    BY DEF Connected
  <2>1. PICK w \in InnerWalls \ W : (w[1] \in S) # (neighBour(w[1], w[2]) \in S)
    BY DEF Connected
  <2>2. CASE w # <<a, 1>>
    BY <2>1, <2>2
  <2>3. CASE w = <<a, 1>>
    <3>1. (a \in S) # (b \in S)
      BY <1>2, <2>1, <2>3
    <3>2. \/ (a \in S) # (c \in S)
          \/ (c \in S) # (d \in S)
          \/ (b \in S) # (d \in S)
      BY <3>1
    <3>. QED BY <1>2, <1>5, <3>2
  <2>. QED BY <2>2, <2>3
<1>. QED BY <1>1, <1>4, <1>6

\* No walls meet at a vertex that updateIntersections lists as a problem.
LEMMA ProblemInside ==
  ASSUME NEW M, NEW entrance, NEW exit, WellFormed(M, entrance, exit),
         NEW v \in intersectionProblems(updateVisual(M))
  PROVE  /\ v \in Vertices /\ IsInside(v)
         /\ wallsAround(v) \cap wallsOf(M) = {}
<1>. DEFINE x == vertexColumn(v)
            y == vertexRow(v)
            a == cellAt(x - 1, y - 1)
            b == cellAt(x, y - 1)
            c == cellAt(x - 1, y)
            d == cellAt(x, y)
<1>1. /\ \A e \in Cells : isRightEdge(e) => (hasRightWall(M[e]) <=> e # entrance)
      /\ \A e \in Cells : isLeftEdge(e) => (hasLeftWall(M[e]) <=> e # exit)
  BY DEF WellFormed, RightEdge, LeftEdge
<1>2. /\ x \in 1..(Width - 1) /\ y \in 1..(Height - 1)
      /\ ~hasLeftWall(M[b]) /\ ~hasLeftWall(M[d])
      /\ ~hasTopWall(M[c]) /\ ~hasTopWall(M[d])
  BY <1>1, ProblemVertex
<1>3. /\ a \in Cells /\ b \in Cells /\ c \in Cells /\ d \in Cells
      /\ ~isRightEdge(a) /\ ~isRightEdge(c)
      /\ neighBour(a, 1) = b /\ neighBour(c, 1) = d
      /\ neighBour(a, 2) = c /\ neighBour(b, 2) = d
  BY <1>2, CellsMeeting
<1>4. wallsAround(v) = {<<a, 1>>, <<c, 1>>, <<a, 2>>, <<b, 2>>}
  BY DEF wallsAround
<1>5. v \in Vertices /\ IsInside(v)
  BY <1>2 DEF intersectionProblems, IsInside
<1>. HIDE DEF a, b, c, d
<1>6. EdgesAgree(M)
  BY EdgesAgreeEquiv DEF WellFormed
<1>7. 1 \in Sides /\ 2 \in Sides /\ mirroredWall(1) = 3 /\ mirroredWall(2) = 0
  BY DEF Sides, mirroredWall
<1>8. /\ hasWall(M[a], 1) <=> hasWall(M[b], 3)
      /\ hasWall(M[c], 1) <=> hasWall(M[d], 3)
      /\ hasWall(M[a], 2) <=> hasWall(M[c], 0)
      /\ hasWall(M[b], 2) <=> hasWall(M[d], 0)
  BY <1>3, <1>6, <1>7 DEF EdgesAgree, IsBorder
<1>9. ~hasWall(M[a], 1) /\ ~hasWall(M[c], 1) /\ ~hasWall(M[a], 2) /\ ~hasWall(M[b], 2)
  BY <1>2, <1>8 DEF hasWall
<1>. QED BY <1>4, <1>5, <1>9 DEF wallsOf
-----------------------------------------------------------------------------
\* The take-back of addRandomWall's early return changes nothing.
LEMMA BorderTakeBack ==
  ASSUME NEW M \in [Cells -> CLType], NEW r \in Cells, NEW s \in Sides
  PROVE  [M EXCEPT ![r] = removeWallAt(addWallAtSide(@, s), s)] = M
<1>1. M[r] \in CLType
  OBVIOUS
<1>2. WallWeight(s) \in Int
  BY DEF WallWeight, Sides
<1>3. ASSUME NEW cl \in CLType PROVE removeWallAt(addWallAtSide(cl, s), s) = cl
  <2>1. (addWallAtSide(cl, s)).m_char = cl.m_char + WallWeight(s)
    BY DEF addWallAtSide, WithChar
  <2>2. removeWallAt(addWallAtSide(cl, s), s)
          = WithChar((addWallAtSide(cl, s)).m_char - WallWeight(s))
    BY DEF removeWallAt
  <2>3. (addWallAtSide(cl, s)).m_char - WallWeight(s) = cl.m_char
    BY <1>2, <2>1 DEF CLType
  <2>4. WithChar(cl.m_char) = cl
    BY DEF CLType, WithChar
  <2>. QED BY <2>2, <2>3, <2>4
<1>. QED BY <1>1, <1>3

\* One step keeps what is cached current (see CacheCoherent).
LEMMA CacheStep ==
  TypeOK /\ CacheCoherent /\ [Next]_vars => CacheCoherent'
<1>. SUFFICES ASSUME TypeOK, CacheCoherent, [Next]_vars PROVE CacheCoherent'
  OBVIOUS
<1>1. CASE StartGeneration
  BY <1>1 DEF StartGeneration, CacheCoherent
<1>2. CASE AddRandomWall
  <2>1. /\ m_CLMatrix \in [Cells -> CLType]
        /\ vectors = updateVectors(m_CLMatrix, m_entrance, m_exit)
    BY <1>2 DEF AddRandomWall, TypeOK, CacheCoherent, Settled
  <2>2. PICK r \in Cells :
          \/ AddRandomWallNone(r)
          \/ \E s \in Sides : \/ AddRandomWallBorder(r, s)
                              \/ AddRandomWallRefused(r, s)
                              \/ AddRandomWallAdded(r, s)
    BY <1>2 DEF AddRandomWall
  <2>3. CASE AddRandomWallNone(r)
    BY <2>3 DEF AddRandomWallNone, mazeVars, CacheCoherent
  <2>4. ASSUME NEW s \in Sides, AddRandomWallBorder(r, s) PROVE CacheCoherent'
    <3>1. m_CLMatrix' = m_CLMatrix
      BY <2>1, <2>4, BorderTakeBack DEF AddRandomWallBorder
    <3>. QED BY <2>1, <2>4, <3>1 DEF AddRandomWallBorder, CacheCoherent
  <2>5. ASSUME NEW s \in Sides, AddRandomWallRefused(r, s) PROVE CacheCoherent'
    BY <2>5 DEF AddRandomWallRefused, CacheCoherent
  <2>6. ASSUME NEW s \in Sides, AddRandomWallAdded(r, s) PROVE CacheCoherent'
    BY <2>6 DEF AddRandomWallAdded, CacheCoherent
  <2>. QED BY <2>2, <2>3, <2>4, <2>5, <2>6
<1>3. CASE KeepWall
  BY <1>3 DEF KeepWall, EndTry, CacheCoherent, Settled
<1>4. CASE RemoveWallAt
  BY <1>4 DEF RemoveWallAt, EndTry, CacheCoherent
<1>5. CASE NextLoop
  BY <1>5 DEF NextLoop, mazeVars, CacheCoherent, Settled
<1>6. CASE EndLoops
  BY <1>6 DEF EndLoops, mazeVars, CacheCoherent, Settled
<1>7. CASE FillWalllessCell
  BY <1>7 DEF FillWalllessCell, CacheCoherent, Settled
<1>8. CASE EndFill
  BY <1>8 DEF EndFill, mazeVars, CacheCoherent
<1>9. CASE CalculateStats
  BY <1>9 DEF CalculateStats, mazeVars, CacheCoherent, Settled
<1>10. CASE Done \/ UNCHANGED vars
  BY <1>10 DEF Done, vars, CacheCoherent, Settled
<1>. QED BY <1>1, <1>2, <1>3, <1>4, <1>5, <1>6, <1>7, <1>8, <1>9, <1>10 DEF Next

\* Whenever the picture, the intersections, the routes or the string are read
\* they are those of the matrix (updateVectors and the early return of
\* addRandomWall), on a grid of any size.
THEOREM CacheCorrect == Spec => []CacheCoherent
<1>1. Init => CacheCoherent
  BY DEF Init, CacheCoherent, Settled
<1>. QED BY <1>1, CacheStep, TypeCorrect, PTL DEF Spec
-----------------------------------------------------------------------------
(***************************************************************************)
(* Well-formedness.  Taking a wall away is safe because every iteration    *)
(* starts from a maze whose cells are all reachable: when they are not at  *)
(* its end, a wall was added in between.  The invariant therefore          *)
(* remembers, while a wall is tried, the maze it was added to.             *)
(***************************************************************************)

\* The wall r, s was added to M0, all of whose cells were reachable.
AddedTo(M0, r, s) ==
  /\ WellFormed(M0, m_entrance, m_exit)
  /\ ~IsBorder(r, s)
  /\ ~hasWall(M0[r], s)
  /\ m_CLMatrix = withWall(M0, r, s)
  /\ (updateVectors(M0, m_entrance, m_exit)).m_bAllCellsReachable
  /\ added = [cell |-> r, side |-> s]

TriedWall ==
  pc = "check" /\ ~vectors.m_bAllCellsReachable =>
    \E M0 : \E r \in Cells, s \in Sides : AddedTo(M0, r, s)

SafeInv ==
  /\ TypeOK
  /\ CacheCoherent
  /\ MazeWellFormed
  /\ pc = "try" => vectors.m_bAllCellsReachable
  /\ TriedWall
  /\ FillAddsNewWalls

\* addRandomWall, whatever its outcome.
LEMMA SafeAddRandomWall == SafeInv /\ AddRandomWall => SafeInv'
<1>. SUFFICES ASSUME SafeInv, AddRandomWall PROVE SafeInv'
  OBVIOUS
<1>1. [Next]_vars
  BY DEF Next
<1>2. TypeOK' /\ CacheCoherent'
  BY <1>1, CacheStep, TypeStep DEF SafeInv
<1>3. /\ pc = "try" /\ pc' = "check" /\ vectors.m_bAllCellsReachable
      /\ m_CLMatrix \in [Cells -> CLType]
      /\ vectors = updateVectors(m_CLMatrix, m_entrance, m_exit)
      /\ WellFormed(m_CLMatrix, m_entrance, m_exit)
  BY DEF SafeInv, AddRandomWall, TypeOK, CacheCoherent, Settled, MazeWellFormed
<1>4. m_entrance' = m_entrance /\ m_exit' = m_exit
  BY DEF AddRandomWall, AddRandomWallNone, AddRandomWallBorder,
         AddRandomWallRefused, AddRandomWallAdded, mazeVars
<1>5. PICK r \in Cells :
        \/ AddRandomWallNone(r)
        \/ \E s \in Sides : \/ AddRandomWallBorder(r, s)
                            \/ AddRandomWallRefused(r, s)
                            \/ AddRandomWallAdded(r, s)
  BY DEF AddRandomWall
<1>. DEFINE Kept == m_CLMatrix' = m_CLMatrix
            Added == \E s \in Sides : /\ ~IsBorder(r, s)
                                      /\ ~hasWall(m_CLMatrix[r], s)
                                      /\ m_CLMatrix' = withWall(m_CLMatrix, r, s)
                                      /\ added' = [cell |-> r, side |-> s]
<1>6. Kept \/ Added
  <2>1. CASE AddRandomWallNone(r)
    BY <2>1 DEF AddRandomWallNone, mazeVars
  <2>2. ASSUME NEW s \in Sides, AddRandomWallBorder(r, s) PROVE Kept
    BY <1>3, <2>2, BorderTakeBack DEF AddRandomWallBorder
  <2>3. ASSUME NEW s \in Sides, AddRandomWallRefused(r, s) PROVE Kept
    <3>1. m_CLMatrix \in [Cells -> ValidCL]
      BY <1>3 DEF WellFormed
    <3>2. /\ ~IsBorder(r, s)
          /\ m_CLMatrix' = withoutWall(withWall(m_CLMatrix, r, s), r, s, neighBour(r, s))
      BY <2>3 DEF AddRandomWallRefused
    <3>. QED BY <3>1, <3>2, WithoutWithWall
  <2>4. ASSUME NEW s \in Sides, AddRandomWallAdded(r, s) PROVE Added
    BY <2>4 DEF AddRandomWallAdded
  <2>. HIDE DEF Kept, Added
  <2>5. CASE AddRandomWallNone(r)
    BY <2>1, <2>5 DEF Kept
  <2>. QED BY <1>5, <2>2, <2>3, <2>4, <2>5
<1>7. CASE Kept
  <2>1. vectors' = updateVectors(m_CLMatrix, m_entrance, m_exit)
    BY <1>2, <1>3, <1>4, <1>7 DEF CacheCoherent, Settled
  <2>. QED BY <1>2, <1>3, <1>4, <1>7, <2>1
       DEF SafeInv, MazeWellFormed, TriedWall, FillAddsNewWalls
<1>8. CASE Added
  <2>1. PICK s \in Sides : /\ ~IsBorder(r, s)
                           /\ ~hasWall(m_CLMatrix[r], s)
                           /\ m_CLMatrix' = withWall(m_CLMatrix, r, s)
                           /\ added' = [cell |-> r, side |-> s]
    BY <1>8
  <2>2. WellFormed(m_CLMatrix', m_entrance', m_exit')
    BY <1>3, <1>4, <2>1, WithWallWellFormed
  <2>3. PICK M0 : M0 = m_CLMatrix
    OBVIOUS
  <2>4. AddedTo(M0, r, s)'
    BY <1>3, <1>4, <2>1, <2>3 DEF AddedTo
  <2>5. TriedWall'
    BY <2>4 DEF TriedWall
  <2>. QED BY <1>2, <1>3, <2>2, <2>5 DEF SafeInv, MazeWellFormed, FillAddsNewWalls
<1>. QED BY <1>6, <1>7, <1>8

\* removeWallAt takes away the wall that was added in this iteration.
LEMMA TriedWallIsOwn == TypeOK /\ TriedWall => RemovesOwnWall
<1>. SUFFICES ASSUME TypeOK, TriedWall, pc = "check", ~vectors.m_bAllCellsReachable
              PROVE  /\ added.side \in Sides
                     /\ neighBour(added.cell, added.side) \in Cells
                     /\ hasWall(m_CLMatrix[added.cell], added.side)
                     /\ hasWall(m_CLMatrix[neighBour(added.cell, added.side)],
                                mirroredWall(added.side))
  BY DEF RemovesOwnWall
<1>1. PICK M0 : \E r \in Cells, s \in Sides : AddedTo(M0, r, s)
  BY DEF TriedWall
<1>2. PICK r \in Cells, s \in Sides : AddedTo(M0, r, s)
  BY <1>1
<1>. DEFINE n == neighBour(r, s)
            m == mirroredWall(s)
<1>3. n \in Cells /\ m \in Sides
  BY <1>2, NeighBours DEF AddedTo, IsBorder
<1>4. \A c \in Cells, t \in Sides :
        hasWall(m_CLMatrix[c], t) <=> \/ hasWall(M0[c], t)
                                      \/ c = r /\ t = s
                                      \/ c = n /\ t = m
  BY <1>2, WithWallWellFormed DEF AddedTo
<1>5. added.cell = r /\ added.side = s
  BY <1>2 DEF AddedTo
<1>6. hasWall(m_CLMatrix[r], s) /\ hasWall(m_CLMatrix[n], m)
  <2>. HIDE DEF n, m
  <2>. QED BY <1>3, <1>4
<1>. QED BY <1>3, <1>5, <1>6

\* removeWallAt restores the maze the wall was added to.
LEMMA RemoveRestores ==
  SafeInv /\ RemoveWallAt => \E r \in Cells, s \in Sides : AddedTo(m_CLMatrix', r, s)
<1>. SUFFICES ASSUME SafeInv, RemoveWallAt
              PROVE  \E r \in Cells, s \in Sides : AddedTo(m_CLMatrix', r, s)
  OBVIOUS
<1>1. PICK M0 : \E r \in Cells, s \in Sides : AddedTo(M0, r, s)
  BY DEF SafeInv, TriedWall, RemoveWallAt
<1>2. PICK r \in Cells, s \in Sides : AddedTo(M0, r, s)
  BY <1>1
<1>3. added.cell = r /\ added.side = s /\ m_CLMatrix = withWall(M0, r, s) /\ ~IsBorder(r, s)
  BY <1>2 DEF AddedTo
<1>4. neighBour(r, s) \in Cells
  BY <1>3, NeighBours DEF IsBorder
<1>5. removalNeighBours(r, s) = {neighBour(r, s)}
  BY <1>4 DEF removalNeighBours, Cells
<1>6. m_CLMatrix' = withoutWall(m_CLMatrix, r, s, neighBour(r, s))
  BY <1>3, <1>5 DEF RemoveWallAt
<1>7. M0 \in [Cells -> ValidCL]
  BY <1>2 DEF AddedTo, WellFormed
<1>8. m_CLMatrix' = M0
  BY <1>3, <1>6, <1>7, WithoutWithWall
<1>. QED BY <1>2, <1>8

LEMMA SafeRemoveWallAt == SafeInv /\ RemoveWallAt => SafeInv'
<1>. SUFFICES ASSUME SafeInv, RemoveWallAt PROVE SafeInv'
  OBVIOUS
<1>1. TypeOK' /\ CacheCoherent'
  BY CacheStep, TypeStep DEF SafeInv, Next
<1>2. /\ pc' = "try" /\ m_entrance' = m_entrance /\ m_exit' = m_exit
      /\ vectors' = updateVectors(m_CLMatrix', m_entrance, m_exit)
  BY DEF RemoveWallAt, EndTry
<1>3. /\ WellFormed(m_CLMatrix', m_entrance', m_exit')
      /\ vectors'.m_bAllCellsReachable
  BY <1>2, RemoveRestores DEF AddedTo
<1>. QED BY <1>1, <1>2, <1>3 DEF SafeInv, MazeWellFormed, TriedWall, FillAddsNewWalls

\* The walls fillWalllessCells is about to add are new ones.
LEMMA SafeEndLoops == SafeInv /\ EndLoops => SafeInv'
<1>. SUFFICES ASSUME SafeInv, EndLoops PROVE SafeInv'
  OBVIOUS
<1>1. TypeOK' /\ CacheCoherent'
  BY CacheStep, TypeStep DEF SafeInv, Next
<1>2. /\ pc = "try" /\ pc' \in {"fill", "stats"}
      /\ UNCHANGED <<m_CLMatrix, m_entrance, m_exit>>
      /\ pc' = "fill" => problemsLeft' = vectors.m_vIntersectionProblems
  BY DEF EndLoops, mazeVars
<1>3. WellFormed(m_CLMatrix, m_entrance, m_exit)
  BY <1>2 DEF SafeInv, MazeWellFormed
<1>4. vectors.m_vIntersectionProblems = intersectionProblems(updateVisual(m_CLMatrix))
  BY <1>2 DEF SafeInv, CacheCoherent, Settled, updateVectors
<1>5. checkEdgeCompatibility(m_CLMatrix)
  BY <1>3 DEF WellFormed
<1>. DEFINE M == m_CLMatrix
            P == intersectionProblems(updateVisual(m_CLMatrix))
<1>6. ASSUME NEW v \in P
      PROVE  /\ vertexColumn(v) \in 1..(Width - 1)
             /\ vertexRow(v) \in Nat
             /\ cellID(v) \in Cells \ RightEdge
             /\ ~hasRightWall(M[cellID(v)])
             /\ ~hasLeftWall(M[cellID(v) + 1])
  <2>. DEFINE x == vertexColumn(v)
              y == vertexRow(v)
  <2>1. IsInside(v) /\ wallsAround(v) \cap wallsOf(M) = {}
    BY <1>3, ProblemInside
  <2>2. x \in 1..(Width - 1) /\ y \in 1..(Height - 1) /\ y \in Nat
    BY <2>1, SizeFacts DEF IsInside
  <2>3. cellID(v) \in Cells /\ ~isRightEdge(cellID(v)) /\ <<cellID(v), 1>> \in wallsAround(v)
    BY <2>2, CellsMeeting DEF cellID, cellAt, wallsAround
  <2>4. ~hasRightWall(M[cellID(v)])
    BY <2>1, <2>3 DEF wallsOf, InnerWalls, hasWall
  <2>5. ~hasLeftWall(M[cellID(v) + 1])
    BY <1>5, <2>3, <2>4 DEF checkEdgeCompatibility, neighBourRight
  <2>. QED BY <2>2, <2>3, <2>4, <2>5 DEF RightEdge
<1>7. P \subseteq Vertices
  BY DEF intersectionProblems
<1>. HIDE DEF P
<1>8. \A v, w \in P : cellID(v) = cellID(w) => v = w
  BY <1>6, <1>7, ProblemCellsDiffer
<1>9. FillAddsNewWalls'
  BY <1>2, <1>4, <1>6, <1>8 DEF FillAddsNewWalls, P
<1>. QED BY <1>1, <1>2, <1>3, <1>9 DEF SafeInv, MazeWellFormed, TriedWall

\* fillWalllessCells adds the right wall of the cell above and to the left of
\* the least of the vertices that are left.
FillsAt(v) ==
  /\ v \in problemsLeft
  /\ \A w \in problemsLeft : v <= w
  /\ problemsLeft' = problemsLeft \ {v}
  /\ cellID(v) \in Cells
  /\ ~IsBorder(cellID(v), 1)
  /\ ~hasWall(m_CLMatrix[cellID(v)], 1)
  /\ m_CLMatrix' = withWall(m_CLMatrix, cellID(v), 1)

LEMMA FillIsWithWall == SafeInv /\ FillWalllessCell => \E v : FillsAt(v)
<1>. SUFFICES ASSUME SafeInv, FillWalllessCell PROVE \E v : FillsAt(v)
  OBVIOUS
<1>1. PICK v \in problemsLeft :
        /\ \A w \in problemsLeft : v <= w
        /\ m_CLMatrix' =
             [[m_CLMatrix EXCEPT ![cellID(v)] = addWallAtSide(@, 1)]
                EXCEPT ![cellID(v) + 1] = addWallAtSide(@, 3)]
        /\ problemsLeft' = problemsLeft \ {v}
  BY DEF FillWalllessCell
<1>. DEFINE r == cellID(v)
<1>2. r \in Cells /\ ~isRightEdge(r) /\ ~hasWall(m_CLMatrix[r], 1)
  BY DEF SafeInv, FillWalllessCell, FillAddsNewWalls, RightEdge, hasWall
<1>. HIDE DEF r
<1>3. ~IsBorder(r, 1) /\ neighBour(r, 1) = r + 1 /\ mirroredWall(1) = 3
  BY <1>2 DEF IsBorder, neighBour, mirroredWall
<1>4. m_CLMatrix' = withWall(m_CLMatrix, r, 1)
  BY <1>1, <1>3 DEF withWall, r
<1>. QED BY <1>1, <1>2, <1>3, <1>4 DEF FillsAt, r

\* Adding one of them leaves the others new.
LEMMA SafeFillWalllessCell == SafeInv /\ FillWalllessCell => SafeInv'
<1>. SUFFICES ASSUME SafeInv, FillWalllessCell PROVE SafeInv'
  OBVIOUS
<1>1. TypeOK' /\ CacheCoherent'
  BY CacheStep, TypeStep DEF SafeInv, Next
<1>2. pc = "fill" /\ pc' = "fill" /\ m_entrance' = m_entrance /\ m_exit' = m_exit
  BY DEF FillWalllessCell
<1>3. PICK v : FillsAt(v)
  BY FillIsWithWall
<1>4. /\ \A w \in problemsLeft :
           /\ cellID(w) \in Cells \ RightEdge
           /\ ~hasRightWall(m_CLMatrix[cellID(w)])
           /\ ~hasLeftWall(m_CLMatrix[cellID(w) + 1])
      /\ \A u, w \in problemsLeft : cellID(u) = cellID(w) => u = w
  BY <1>2 DEF SafeInv, FillAddsNewWalls
<1>5. WellFormed(m_CLMatrix, m_entrance, m_exit)
  BY <1>2 DEF SafeInv, MazeWellFormed
<1>6. 1 \in Sides /\ 3 \in Sides /\ mirroredWall(1) = 3
  BY DEF Sides, mirroredWall
<1>7. ASSUME NEW c \in Cells \ RightEdge PROVE neighBour(c, 1) = c + 1 /\ c + 1 \in Cells
  <2>1. ~isRightEdge(c)
    BY DEF RightEdge
  <2>2. neighBour(c, 1) = c + 1
    BY <2>1 DEF neighBour
  <2>. QED BY <1>6, <2>1, <2>2, NeighBours
<1>. DEFINE r == cellID(v)
<1>8. /\ r \in Cells /\ ~IsBorder(r, 1) /\ neighBour(r, 1) = r + 1
      /\ ~hasWall(m_CLMatrix[r], 1)
      /\ m_CLMatrix' = withWall(m_CLMatrix, r, 1)
  <2>1. r \in Cells \ RightEdge
    BY <1>3, <1>4 DEF FillsAt
  <2>. QED BY <1>3, <1>7, <2>1 DEF FillsAt
<1>9. /\ WellFormed(m_CLMatrix', m_entrance, m_exit)
      /\ \A c \in Cells, t \in Sides :
           hasWall(m_CLMatrix'[c], t) <=> \/ hasWall(m_CLMatrix[c], t)
                                          \/ c = r /\ t = 1
                                          \/ c = r + 1 /\ t = 3
  <2>. HIDE DEF r
  <2>. QED BY <1>5, <1>6, <1>8, WithWallWellFormed
<1>10. ASSUME NEW w \in problemsLeft'
       PROVE  /\ ~hasRightWall(m_CLMatrix'[cellID(w)])
              /\ ~hasLeftWall(m_CLMatrix'[cellID(w) + 1])
  <2>. DEFINE c == cellID(w)
  <2>1. w \in problemsLeft /\ c # r
    BY <1>3, <1>4 DEF FillsAt
  <2>2. c \in Cells \ RightEdge
    BY <1>4, <2>1
  <2>3. ~hasWall(m_CLMatrix[c], 1) /\ ~hasWall(m_CLMatrix[c + 1], 3)
    BY <1>4, <2>1 DEF hasWall
  <2>. HIDE DEF c, r
  <2>4. c \in Cells /\ c + 1 \in Cells /\ c \in Int /\ r \in Int
    BY <1>7, <1>8, <2>2 DEF Cells
  <2>5. c + 1 # r + 1
    BY <2>1, <2>4
  <2>6. ~hasWall(m_CLMatrix'[c], 1)
    BY <1>6, <1>9, <2>1, <2>3, <2>4
  <2>7. ~hasWall(m_CLMatrix'[c + 1], 3)
    BY <1>6, <1>9, <2>3, <2>4, <2>5
  <2>. QED BY <2>6, <2>7 DEF hasWall, c
<1>11. FillAddsNewWalls'
  <2>1. problemsLeft' \subseteq problemsLeft
    BY <1>3 DEF FillsAt
  <2>. QED BY <1>4, <1>10, <2>1 DEF FillAddsNewWalls
<1>. QED BY <1>1, <1>2, <1>9, <1>11 DEF SafeInv, MazeWellFormed, TriedWall

\* All of it together.
LEMMA SafeStep == SafeInv /\ [Next]_vars => SafeInv'
<1>. SUFFICES ASSUME SafeInv, [Next]_vars PROVE SafeInv'
  OBVIOUS
<1>0. TypeOK' /\ CacheCoherent'
  BY CacheStep, TypeStep DEF SafeInv
<1>1. CASE StartGeneration
  <2>1. PICK entrance \in RightEdge, exit \in LeftEdge :
          /\ m_entrance' = entrance
          /\ m_exit' = exit
          /\ m_CLMatrix' = closedBorders(entrance, exit)
          /\ vectors' = updateVectors(closedBorders(entrance, exit), entrance, exit)
    BY <1>1 DEF StartGeneration
  <2>2. pc' = "try"
    BY <1>1 DEF StartGeneration
  <2>3. WellFormed(m_CLMatrix', m_entrance', m_exit')
    BY <2>1, ClosedBordersWellFormed
  <2>4. vectors'.m_bAllCellsReachable
    BY <2>1, EmptyMazeReachable
  <2>. QED BY <1>0, <2>2, <2>3, <2>4
       DEF SafeInv, MazeWellFormed, TriedWall, FillAddsNewWalls
<1>2. CASE AddRandomWall
  BY <1>2, SafeAddRandomWall
<1>3. CASE KeepWall
  BY <1>0, <1>3
  DEF KeepWall, EndTry, SafeInv, MazeWellFormed, TriedWall, FillAddsNewWalls
<1>4. CASE RemoveWallAt
  BY <1>4, SafeRemoveWallAt
<1>5. CASE NextLoop
  BY <1>0, <1>5
  DEF NextLoop, mazeVars, SafeInv, MazeWellFormed, TriedWall, FillAddsNewWalls
<1>6. CASE EndLoops
  BY <1>6, SafeEndLoops
<1>7. CASE FillWalllessCell
  BY <1>7, SafeFillWalllessCell
<1>8. CASE EndFill
  BY <1>0, <1>8
  DEF EndFill, mazeVars, SafeInv, MazeWellFormed, TriedWall, FillAddsNewWalls
<1>9. CASE CalculateStats
  BY <1>0, <1>9
  DEF CalculateStats, mazeVars, SafeInv, MazeWellFormed, TriedWall, FillAddsNewWalls
<1>10. CASE Done \/ UNCHANGED vars
  <2>1. UNCHANGED vars
    BY <1>10 DEF Done
  <2>2. MazeWellFormed' /\ FillAddsNewWalls'
    BY <2>1 DEF SafeInv, vars, MazeWellFormed, FillAddsNewWalls
  <2>3. TriedWall'
    BY <2>1 DEF SafeInv, vars, TriedWall, AddedTo
  <2>. QED BY <1>0, <2>1, <2>2, <2>3 DEF SafeInv, vars
<1>. QED BY <1>1, <1>2, <1>3, <1>4, <1>5, <1>6, <1>7, <1>8, <1>9, <1>10 DEF Next

LEMMA Safe == Spec => []SafeInv
<1>1. Init => SafeInv
  <2>1. Init => TypeOK
    BY TypeInit
  <2>. QED BY <2>1 DEF Init, SafeInv, CacheCoherent, Settled, MazeWellFormed,
                       TriedWall, FillAddsNewWalls
<1>. QED BY <1>1, SafeStep, PTL DEF Spec

\* In a grid of any size the generation keeps the maze well formed (the checks of
\* checkEdgeCompatibility, checkOneEntrance and checkOneExit would pass), and
\* no wall is added twice or taken away twice.
THEOREM WellFormedCorrect == Spec => []MazeWellFormed
<1>1. SafeInv => MazeWellFormed
  BY DEF SafeInv
<1>. QED BY <1>1, Safe, PTL

\* removeWallAt, which the loops call because of
\* m_bAllCellsReachable and not because a wall was added, takes away only the
\* wall this iteration has added, and finds the neighbour it shares it with.
THEOREM RemovesOwnWallCorrect == Spec => []RemovesOwnWall
<1>1. SafeInv => RemovesOwnWall
  BY TriedWallIsOwn DEF SafeInv
<1>. QED BY <1>1, Safe, PTL

\* Every wall fillWalllessCells adds without looking
\* is an inner wall that was not there, on either side.
THEOREM FillAddsNewWallsCorrect == Spec => []FillAddsNewWalls
<1>1. SafeInv => FillAddsNewWalls
  BY DEF SafeInv
<1>. QED BY <1>1, Safe, PTL
\* What the search has computed for the maze as it is.
SettledSearch ==
  Settled => /\ vectors.m_bAllCellsReachable <=> Connected(wallsOf(m_CLMatrix))
             /\ ~vectors.thrown

LEMMA SafeSettledSearch == SafeInv => SettledSearch
<1>. SUFFICES ASSUME SafeInv, Settled
              PROVE  /\ vectors.m_bAllCellsReachable <=> Connected(wallsOf(m_CLMatrix))
                     /\ ~vectors.thrown
  BY DEF SettledSearch
<1>1. pc # "new"
  BY DEF Settled
<1>2. /\ m_entrance \in RightEdge /\ m_exit \in LeftEdge
      /\ WellFormed(m_CLMatrix, m_entrance, m_exit)
      /\ vectors = updateVectors(m_CLMatrix, m_entrance, m_exit)
  BY <1>1 DEF SafeInv, TypeOK, CacheCoherent, MazeWellFormed
<1>3. /\ vectors.m_bAllCellsReachable
           = allCellsReachable(updateRoutes(m_CLMatrix, m_entrance, m_exit))
      /\ vectors.thrown = updateRoutes(m_CLMatrix, m_entrance, m_exit).thrown
  BY <1>2 DEF updateVectors
<1>. QED BY <1>2, <1>3, SearchIsConnected, SearchVisits

\* While nothing is settled the vectors are kept.
LEMMA SearchExactStep == SearchExact /\ SettledSearch' /\ [Next]_vars => SearchExact'
<1>. SUFFICES ASSUME SearchExact, SettledSearch', [Next]_vars PROVE SearchExact'
  OBVIOUS
<1>1. CASE Settled'
  BY <1>1 DEF SearchExact, SettledSearch
<1>2. CASE ~Settled'
  <2>1. UNCHANGED vectors
    BY <1>2 DEF Next, vars, Settled, StartGeneration, AddRandomWall, KeepWall,
                RemoveWallAt, EndTry, NextLoop, EndLoops, FillWalllessCell, EndFill,
                CalculateStats, Done
  <2>. QED BY <1>2, <2>1 DEF SearchExact
<1>. QED BY <1>1, <1>2

\* m_bAllCellsReachable, which decides whether the wall just tried stays, says
\* whether the maze is connected, on a grid of any size, and the search never
\* indexes m_vVisited with -1.
THEOREM SearchExactCorrect == Spec => []SearchExact
<1>1. Init => SearchExact
  BY DEF Init, SearchExact, Settled, Unset
<1>. QED BY <1>1, Safe, SafeSettledSearch, SearchExactStep, PTL DEF Spec
-----------------------------------------------------------------------------
(***************************************************************************)
(* The generation implements Maze.  A wall counts as put up when KeepWall  *)
(* or fillWalllessCells decides about it; the latter does not look whether *)
(* a wall cuts cells off, so that the invariant has to say that there is a *)
(* way around every vertex still to be fixed.                              *)
(***************************************************************************)

\* The walls of a maze to which one wall is added.
LEMMA WallsWithWall ==
  ASSUME NEW M, NEW entrance, NEW exit, WellFormed(M, entrance, exit),
         NEW r \in Cells, NEW s \in Sides, ~IsBorder(r, s), ~hasWall(M[r], s)
  PROVE  /\ wallAt(r, s) \in InnerWalls \ wallsOf(M)
         /\ wallsOf(withWall(M, r, s)) = wallsOf(M) \cup {wallAt(r, s)}
<1>. DEFINE n == neighBour(r, s)
            m == mirroredWall(s)
            a == wallAt(r, s)
            M1 == withWall(M, r, s)
<1>1. /\ n \in Cells /\ m \in Sides /\ neighBour(n, m) = r
      /\ (m = 1 => ~isRightEdge(n)) /\ (s = 1 => ~isRightEdge(r))
  BY NeighBours DEF IsBorder
<1>2. a = IF s \in {1, 2} THEN <<r, s>> ELSE <<n, m>>
  <2>1. s = 0 \/ s = 1 \/ s = 2 \/ s = 3
    BY DEF Sides
  <2>. QED BY <2>1 DEF wallAt, mirroredWall
<1>3. s \in {1, 2} <=> m \notin {1, 2}
  BY DEF mirroredWall, Sides
<1>4. \A c \in Cells, t \in Sides :
        hasWall(M1[c], t) <=> \/ hasWall(M[c], t)
                              \/ c = r /\ t = s
                              \/ c = n /\ t = m
  BY WithWallWellFormed
<1>5. EdgesAgree(M)
  BY EdgesAgreeEquiv DEF WellFormed
<1>6. ~hasWall(M[n], m)
  BY <1>5 DEF EdgesAgree
<1>. HIDE DEF n, m, a, M1
<1>7. a \in InnerWalls
  BY <1>1, <1>2, <1>3 DEF InnerWalls
<1>8. a \notin wallsOf(M)
  BY <1>2, <1>6 DEF wallsOf
<1>9. ASSUME NEW w \in InnerWalls PROVE hasWall(M1[w[1]], w[2]) <=> hasWall(M[w[1]], w[2]) \/ w = a
  <2>1. PICK c \in Cells, t \in {1, 2} : w = <<c, t>>
    BY DEF InnerWalls
  <2>2. t \in Sides
    BY DEF Sides
  <2>3. hasWall(M1[c], t) <=> \/ hasWall(M[c], t)
                              \/ c = r /\ t = s
                              \/ c = n /\ t = m
    BY <1>4, <2>2
  <2>4. <<c, t>> = a <=> (c = r /\ t = s) \/ (c = n /\ t = m)
    BY <1>2, <1>3
  <2>. QED BY <2>1, <2>3, <2>4
<1>10. wallsOf(M1) = wallsOf(M) \cup {a}
  BY <1>7, <1>9 DEF wallsOf
<1>. QED BY <1>7, <1>8, <1>10 DEF a, M1

\* Nothing is cut off once the loops are over, and no walls meet at the
\* vertices that fillWalllessCells has not come to yet.
GrowInv ==
  /\ pc = "new" => m_entrance = -1
  /\ pc \in {"fill", "stats", "done"} => Connected(wallsOf(m_CLMatrix))
  /\ pc = "fill" =>
       \A v \in problemsLeft : /\ v \in Vertices
                               /\ IsInside(v)
                               /\ wallsAround(v) \cap wallsOf(m_CLMatrix) = {}

\* fillWalllessCells adds one wall, and cuts nothing off.
FillGrows ==
  \E v \in problemsLeft :
    /\ <<cellID(v), 1>> \in InnerWalls \ wallsOf(m_CLMatrix)
    /\ wallsOf(m_CLMatrix') = wallsOf(m_CLMatrix) \cup {<<cellID(v), 1>>}
    /\ Connected(wallsOf(m_CLMatrix'))

LEMMA GrowFill == SafeInv /\ GrowInv /\ FillWalllessCell => GrowInv' /\ FillGrows
<1>. SUFFICES ASSUME SafeInv, GrowInv, FillWalllessCell PROVE GrowInv' /\ FillGrows
  OBVIOUS
<1>1. pc = "fill" /\ pc' = "fill"
  BY DEF FillWalllessCell
<1>2. PICK v : FillsAt(v)
  BY FillIsWithWall
<1>. DEFINE r == cellID(v)
            W == wallsOf(m_CLMatrix)
            W1 == wallsOf(m_CLMatrix')
<1>3. /\ v \in problemsLeft /\ problemsLeft' = problemsLeft \ {v}
      /\ \A w \in problemsLeft : v <= w
  BY <1>2 DEF FillsAt
<1>4. Connected(W) /\ \A w \in problemsLeft : w \in Vertices /\ IsInside(w) /\ wallsAround(w) \cap W = {}
  BY <1>1 DEF GrowInv
<1>5. W1 = W \cup {<<r, 1>>}
  <2>1. WellFormed(m_CLMatrix, m_entrance, m_exit)
    BY <1>1 DEF SafeInv, MazeWellFormed
  <2>2. 1 \in Sides /\ wallAt(r, 1) = <<r, 1>>
    BY DEF Sides, wallAt
  <2>. QED BY <1>2, <2>1, <2>2, WallsWithWall DEF FillsAt
<1>6. <<r, 1>> \in InnerWalls \ W /\ Connected(W1)
  <2>. HIDE DEF W, W1
  <2>. QED BY <1>3, <1>4, <1>5, WallAboveVertex
<1>7. ASSUME NEW w \in problemsLeft'
      PROVE  w \in Vertices /\ IsInside(w) /\ wallsAround(w) \cap W1 = {}
  <2>. DEFINE x == vertexColumn(v) - 1
              y == vertexRow(v) - 1
              z == vertexColumn(w) - 1
              u == vertexRow(w)
  <2>1. w \in problemsLeft /\ w # v /\ v <= w
    BY <1>3
  <2>2. v \in Vertices /\ IsInside(v) /\ w \in Vertices /\ IsInside(w) /\ wallsAround(w) \cap W = {}
    BY <1>3, <1>4, <2>1
  <2>3. /\ x \in 0..(Width - 1) /\ y \in Int /\ z \in 0..(Width - 1) /\ u \in Int /\ u - 1 \in Int
        /\ Width \in Nat \ {0} /\ Height \in Nat
    BY <2>2, SizeFacts DEF IsInside
  <2>4. /\ v = (y + 1) * (Width + 1) + (x + 1)
        /\ w = u * (Width + 1) + (z + 1)
    <3>1. /\ v = vertexRow(v) * (Width + 1) + vertexColumn(v)
          /\ w = vertexRow(w) * (Width + 1) + vertexColumn(w)
          /\ vertexColumn(v) \in Int /\ vertexRow(v) \in Int /\ vertexColumn(w) \in Int
      BY <2>2, <2>3, VertexAt
    <3>2. vertexRow(v) = y + 1 /\ vertexColumn(v) = x + 1 /\ vertexColumn(w) = z + 1
      BY <3>1
    <3>. QED BY <3>1, <3>2
  <2>5. r = cellAt(x, y)
    BY DEF cellID, cellAt
  <2>6. wallsAround(w) = {<<cellAt(z, u - 1), 1>>, <<cellAt(z, u), 1>>,
                          <<cellAt(z, u - 1), 2>>, <<cellAt(vertexColumn(w), u - 1), 2>>}
    BY DEF wallsAround
  <2>. HIDE DEF x, y, z, u
  <2>7. cellAt(z, u - 1) # r
    <3>. SUFFICES ASSUME cellAt(z, u - 1) = cellAt(x, y) PROVE FALSE
      BY <2>5
    <3>1. z = x /\ u - 1 = y
      BY <2>3, CellsDiffer
    <3>2. u = y + 1
      BY <2>3, <3>1
    <3>. QED BY <2>1, <2>4, <3>1, <3>2
  <2>8. cellAt(z, u) # r
    <3>. SUFFICES ASSUME cellAt(z, u) = cellAt(x, y) PROVE FALSE
      BY <2>5
    <3>1. z = x /\ u = y
      BY <2>3, CellsDiffer
    <3>2. (y + 1) * (Width + 1) = y * (Width + 1) + Width + 1
      BY <2>3, Z3
    <3>3. y * (Width + 1) \in Int
      BY <2>3
    <3>. QED BY <2>1, <2>3, <2>4, <3>1, <3>2, <3>3, Z3
  <2>9. <<r, 1>> \notin wallsAround(w)
    BY <2>6, <2>7, <2>8
  <2>. QED BY <1>5, <2>2, <2>9
<1>8. GrowInv'
  BY <1>1, <1>6, <1>7 DEF GrowInv
<1>9. FillGrows
  BY <1>3, <1>5, <1>6 DEF FillGrows
<1>. QED BY <1>8, <1>9

LEMMA GrowStep == SafeInv /\ SearchExact /\ GrowInv /\ [Next]_vars => GrowInv'
<1>. SUFFICES ASSUME SafeInv, SearchExact, GrowInv, [Next]_vars PROVE GrowInv'
  OBVIOUS
<1>1. CASE pc' \notin {"fill", "stats", "done"}
  <2>1. CASE pc' # "new"
    BY <1>1, <2>1 DEF GrowInv
  <2>2. CASE pc' = "new"
    <3>1. UNCHANGED vars
      BY <2>2 DEF Next, StartGeneration, AddRandomWall, KeepWall, RemoveWallAt, EndTry,
                  NextLoop, EndLoops, FillWalllessCell, EndFill, CalculateStats, Done
    <3>. QED BY <2>2, <3>1 DEF GrowInv, vars
  <2>. QED BY <2>1, <2>2
<1>2. CASE EndLoops
  <2>1. /\ pc = "try" /\ pc' \in {"fill", "stats"} /\ m_CLMatrix' = m_CLMatrix
        /\ pc' = "fill" => problemsLeft' = vectors.m_vIntersectionProblems
    BY <1>2 DEF EndLoops, mazeVars
  <2>2. Connected(wallsOf(m_CLMatrix))
    BY <2>1 DEF SafeInv, SearchExact, Settled
  <2>3. vectors.m_vIntersectionProblems = intersectionProblems(updateVisual(m_CLMatrix))
    BY <2>1 DEF SafeInv, CacheCoherent, Settled, updateVectors
  <2>4. WellFormed(m_CLMatrix, m_entrance, m_exit)
    BY <2>1 DEF SafeInv, MazeWellFormed
  <2>5. \A v \in vectors.m_vIntersectionProblems :
          v \in Vertices /\ IsInside(v) /\ wallsAround(v) \cap wallsOf(m_CLMatrix) = {}
    BY <2>3, <2>4, ProblemInside
  <2>. QED BY <2>1, <2>2, <2>5 DEF GrowInv
<1>3. CASE FillWalllessCell
  BY <1>3, GrowFill
<1>4. CASE EndFill \/ CalculateStats
  BY <1>4 DEF EndFill, CalculateStats, mazeVars, GrowInv
<1>5. CASE Done \/ UNCHANGED vars
  BY <1>5 DEF Done, vars, GrowInv
<1>. QED BY <1>1, <1>2, <1>3, <1>4, <1>5
     DEF Next, StartGeneration, AddRandomWall, KeepWall, RemoveWallAt, EndTry, NextLoop

\* Maze speaks of the same grid.
LEMMA GrowthGrid ==
  /\ Growth!InnerWalls = InnerWalls
  /\ \A W : Growth!Connected(W) <=> Connected(W)
  /\ {c \in Growth!Cells : Growth!isRightEdge(c)} = RightEdge
  /\ {c \in Growth!Cells : Growth!isLeftEdge(c)} = LeftEdge
<1>1. Growth!Cells = Cells
  BY DEF Growth!Cells, Cells, Growth!totalCells, totalCells
<1>2. \A c : (Growth!isRightEdge(c) <=> isRightEdge(c)) /\ (Growth!isLeftEdge(c) <=> isLeftEdge(c))
  BY DEF Growth!isRightEdge, isRightEdge, Growth!isLeftEdge, isLeftEdge
<1>3. Growth!InnerWalls = InnerWalls
  BY <1>1, <1>2 DEF Growth!InnerWalls, InnerWalls
<1>4. \A c, s : Growth!neighBour(c, s) = neighBour(c, s)
  <2>1. \A c : /\ Growth!neighBourTop(c) = neighBourTop(c)
               /\ Growth!neighBourBottom(c) = neighBourBottom(c)
    BY DEF Growth!neighBourTop, neighBourTop, Growth!neighBourBottom, neighBourBottom,
           Growth!totalCells, totalCells
  <2>. QED BY <1>2, <2>1 DEF Growth!neighBour, neighBour
<1>5. \A W : Growth!Connected(W) <=> Connected(W)
  BY <1>1, <1>3, <1>4, Zenon DEF Growth!Connected, Connected
<1>. QED BY <1>1, <1>2, <1>3, <1>5 DEF RightEdge, LeftEdge

\* addRandomWall tries a wall; what counts stays as it is.
LEMMA GrowthAddRandomWall ==
  SafeInv /\ AddRandomWall => UNCHANGED <<settledWalls, m_entrance, m_exit>>
<1>. SUFFICES ASSUME SafeInv, AddRandomWall
              PROVE  UNCHANGED <<settledWalls, m_entrance, m_exit>>
  OBVIOUS
<1>1. /\ pc = "try" /\ pc' = "check"
      /\ m_CLMatrix \in [Cells -> CLType]
      /\ WellFormed(m_CLMatrix, m_entrance, m_exit)
      /\ m_CLMatrix \in [Cells -> ValidCL]
  BY DEF SafeInv, AddRandomWall, TypeOK, MazeWellFormed, WellFormed
<1>2. m_entrance' = m_entrance /\ m_exit' = m_exit
  BY DEF AddRandomWall, AddRandomWallNone, AddRandomWallBorder,
         AddRandomWallRefused, AddRandomWallAdded, mazeVars
<1>. DEFINE W == wallsOf(m_CLMatrix)
            W1 == wallsOf(m_CLMatrix')
            n == neighBour(added'.cell, added'.side)
            a == wallAt(added'.cell, added'.side)
<1>3. settledWalls = W /\ settledWalls' = W1 \ (IF n \in Cells THEN {a} ELSE {})
  BY <1>1 DEF settledWalls
<1>4. PICK r \in Cells :
        \/ AddRandomWallNone(r)
        \/ \E s \in Sides : \/ AddRandomWallBorder(r, s)
                            \/ AddRandomWallRefused(r, s)
                            \/ AddRandomWallAdded(r, s)
  BY DEF AddRandomWall
<1>5. -1 \notin Cells
  BY SizeFacts DEF Cells
<1>6. CASE AddRandomWallNone(r)
  <2>1. m_CLMatrix' = m_CLMatrix /\ added' = [cell |-> r, side |-> -1]
    BY <1>6 DEF AddRandomWallNone, mazeVars
  <2>2. n = -1
    BY <2>1 DEF neighBour
  <2>. QED BY <1>2, <1>3, <1>5, <2>1, <2>2
<1>7. ASSUME NEW s \in Sides, AddRandomWallBorder(r, s)
      PROVE  UNCHANGED <<settledWalls, m_entrance, m_exit>>
  <2>1. added' = [cell |-> r, side |-> s] /\ IsBorder(r, s)
    BY <1>7 DEF AddRandomWallBorder
  <2>2. m_CLMatrix' = m_CLMatrix
    BY <1>1, <1>7, BorderTakeBack DEF AddRandomWallBorder
  <2>3. n = -1
    BY <2>1 DEF neighBour, IsBorder
  <2>. QED BY <1>2, <1>3, <1>5, <2>2, <2>3
<1>8. ASSUME NEW s \in Sides, AddRandomWallRefused(r, s) \/ AddRandomWallAdded(r, s)
      PROVE  UNCHANGED <<settledWalls, m_entrance, m_exit>>
  <2>. DEFINE M1 == withWall(m_CLMatrix, r, s)
  <2>1. /\ added' = [cell |-> r, side |-> s] /\ ~IsBorder(r, s) /\ ~hasWall(m_CLMatrix[r], s)
        /\ m_CLMatrix' = withoutWall(M1, r, s, neighBour(r, s)) \/ m_CLMatrix' = M1
    BY <1>8 DEF AddRandomWallRefused, AddRandomWallAdded
  <2>2. n \in Cells
    BY <2>1, NeighBours DEF IsBorder
  <2>3. a \notin W /\ wallsOf(M1) = W \cup {a}
    BY <1>1, <2>1, WallsWithWall
  <2>4. withoutWall(M1, r, s, neighBour(r, s)) = m_CLMatrix
    BY <1>1, <2>1, WithoutWithWall
  <2>. HIDE DEF M1, a, n, W
  <2>5. W1 \ {a} = W
    BY <2>1, <2>3, <2>4 DEF W
  <2>. QED BY <1>2, <1>3, <2>2, <2>5
<1>. QED BY <1>4, <1>6, <1>7, <1>8

\* The wall that is tried is one of the walls that count from now on, unless
\* there was none.
LEMMA GrowthKeepWall ==
  SafeInv /\ SearchExact /\ KeepWall =>
    \/ UNCHANGED <<settledWalls, m_entrance, m_exit>>
    \/ \E w \in InnerWalls : Growth!AddWall(w)
<1>. SUFFICES ASSUME SafeInv, SearchExact, KeepWall
              PROVE  \/ UNCHANGED <<settledWalls, m_entrance, m_exit>>
                     \/ \E w \in InnerWalls : Growth!AddWall(w)
  OBVIOUS
<1>. DEFINE W == wallsOf(m_CLMatrix)
            n == neighBour(added.cell, added.side)
            a == wallAt(added.cell, added.side)
<1>1. /\ pc = "check" /\ pc' = "try" /\ vectors.m_bAllCellsReachable
      /\ m_CLMatrix' = m_CLMatrix /\ m_entrance' = m_entrance /\ m_exit' = m_exit
  BY DEF KeepWall, EndTry
<1>2. settledWalls = W \ (IF n \in Cells THEN {a} ELSE {}) /\ settledWalls' = W
  BY <1>1 DEF settledWalls
<1>3. Connected(W)
  BY <1>1 DEF SearchExact, Settled
<1>4. m_entrance # -1
  BY <1>1, SizeFacts DEF SafeInv, TypeOK, RightEdge, Cells
<1>. HIDE DEF n, a
<1>5. CASE n \in Cells /\ a \in W
  <2>1. a \in InnerWalls
    BY <1>5 DEF wallsOf
  <2>2. a \notin settledWalls /\ settledWalls \cup {a} = W
    BY <1>2, <1>5
  <2>3. Growth!AddWall(a)
    BY <1>1, <1>2, <1>3, <1>4, <2>2, GrowthGrid DEF Growth!AddWall
  <2>. QED BY <2>1, <2>3
<1>6. CASE ~(n \in Cells /\ a \in W)
  BY <1>1, <1>2, <1>6
<1>. QED BY <1>5, <1>6

\* The wall that is taken away has not counted.
LEMMA GrowthRemoveWallAt ==
  SafeInv /\ RemoveWallAt => UNCHANGED <<settledWalls, m_entrance, m_exit>>
<1>. SUFFICES ASSUME SafeInv, RemoveWallAt
              PROVE  UNCHANGED <<settledWalls, m_entrance, m_exit>>
  OBVIOUS
<1>1. pc = "check" /\ pc' = "try" /\ m_entrance' = m_entrance /\ m_exit' = m_exit
  BY DEF RemoveWallAt, EndTry
<1>2. PICK r \in Cells, s \in Sides : AddedTo(m_CLMatrix', r, s)
  BY RemoveRestores
<1>3. /\ WellFormed(m_CLMatrix', m_entrance, m_exit) /\ ~IsBorder(r, s)
      /\ ~hasWall(m_CLMatrix'[r], s) /\ m_CLMatrix = withWall(m_CLMatrix', r, s)
      /\ added.cell = r /\ added.side = s
  BY <1>2 DEF AddedTo
<1>4. neighBour(r, s) \in Cells
  BY <1>3, NeighBours DEF IsBorder
<1>. DEFINE a == wallAt(r, s)
<1>5. a \notin wallsOf(m_CLMatrix') /\ wallsOf(m_CLMatrix) = wallsOf(m_CLMatrix') \cup {a}
  BY <1>3, WallsWithWall
<1>6. settledWalls = wallsOf(m_CLMatrix) \ {a} /\ settledWalls' = wallsOf(m_CLMatrix')
  BY <1>1, <1>3, <1>4 DEF settledWalls
<1>. HIDE DEF a
<1>. QED BY <1>1, <1>5, <1>6

\* Every step of the generation is a step of Maze or none.
LEMMA GrowthStep ==
  SafeInv /\ SearchExact /\ GrowInv /\ [Next]_vars
    => [Growth!Next]_<<settledWalls, m_entrance, m_exit>>
<1>. SUFFICES ASSUME SafeInv, SearchExact, GrowInv, [Next]_vars
              PROVE  [Growth!Next]_<<settledWalls, m_entrance, m_exit>>
  OBVIOUS
<1>1. CASE StartGeneration
  <2>1. PICK entrance \in RightEdge, exit \in LeftEdge :
          /\ m_entrance' = entrance
          /\ m_exit' = exit
          /\ m_CLMatrix' = closedBorders(entrance, exit)
    BY <1>1 DEF StartGeneration
  <2>2. pc = "new" /\ pc' = "try"
    BY <1>1 DEF StartGeneration
  <2>3. settledWalls = {} /\ settledWalls' = {}
    BY <2>1, <2>2, NoInnerWalls DEF settledWalls
  <2>4. m_entrance = -1
    BY <2>2 DEF GrowInv
  <2>5. Growth!Open
    BY <2>1, <2>3, <2>4, GrowthGrid DEF Growth!Open
  <2>. QED BY <2>5 DEF Growth!Next
<1>2. CASE AddRandomWall
  BY <1>2, GrowthAddRandomWall
<1>3. CASE KeepWall
  <2>1. \/ UNCHANGED <<settledWalls, m_entrance, m_exit>>
        \/ \E w \in InnerWalls : Growth!AddWall(w)
    BY <1>3, GrowthKeepWall
  <2>. QED BY <2>1, GrowthGrid DEF Growth!Next
<1>4. CASE RemoveWallAt
  BY <1>4, GrowthRemoveWallAt
<1>5. CASE NextLoop \/ EndLoops \/ EndFill \/ CalculateStats
  <2>1. pc \notin {"new", "check"} /\ pc' \notin {"new", "check"} /\ UNCHANGED mazeVars
    BY <1>5 DEF NextLoop, EndLoops, EndFill, CalculateStats
  <2>2. settledWalls = wallsOf(m_CLMatrix) /\ settledWalls' = wallsOf(m_CLMatrix')
    BY <2>1 DEF settledWalls
  <2>. QED BY <2>1, <2>2 DEF mazeVars
<1>6. CASE FillWalllessCell
  <2>1. /\ pc = "fill" /\ pc' = "fill" /\ m_entrance' = m_entrance /\ m_exit' = m_exit
    BY <1>6 DEF FillWalllessCell
  <2>2. settledWalls = wallsOf(m_CLMatrix) /\ settledWalls' = wallsOf(m_CLMatrix')
    BY <2>1 DEF settledWalls
  <2>3. m_entrance # -1
    BY <2>1, SizeFacts DEF SafeInv, TypeOK, RightEdge, Cells
  <2>4. PICK v \in problemsLeft :
          /\ <<cellID(v), 1>> \in InnerWalls \ wallsOf(m_CLMatrix)
          /\ wallsOf(m_CLMatrix') = wallsOf(m_CLMatrix) \cup {<<cellID(v), 1>>}
          /\ Connected(wallsOf(m_CLMatrix'))
    BY <1>6, GrowFill DEF FillGrows
  <2>5. Growth!AddWall(<<cellID(v), 1>>)
    BY <2>1, <2>2, <2>3, <2>4, GrowthGrid DEF Growth!AddWall
  <2>. QED BY <2>4, <2>5, GrowthGrid DEF Growth!Next
<1>7. CASE Done \/ UNCHANGED vars
  BY <1>7 DEF Done, vars, settledWalls
<1>. QED BY <1>1, <1>2, <1>3, <1>4, <1>5, <1>6, <1>7 DEF Next

LEMMA Grow == Spec => []GrowInv
<1>1. Init => GrowInv
  BY DEF Init, GrowInv
<1>. QED BY <1>1, Safe, SearchExactCorrect, GrowStep, PTL DEF Spec

\* The generation implements Maze on a grid of any size: the walls that its
\* caller may rely on grow one by one, and none of them cuts cells off, the
\* walls that fillWalllessCells adds without looking included.
THEOREM MazeGrowsCorrect == Spec => MazeGrows
<1>1. Init => Growth!Init
  BY DEF Init, Growth!Init, settledWalls
<1>. QED BY <1>1, Safe, SearchExactCorrect, Grow, GrowthStep, PTL
     DEF Spec, MazeGrows, Growth!Spec
=============================================================================
