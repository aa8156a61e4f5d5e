---------------------------- MODULE SetMZProofs -----------------------------
(***************************************************************************)
(* setMZ on a grid of any size and any string: the loops of updateRoutes   *)
(* keep the invariant of VectorsProofs, from which the properties of the   *)
(* search follow.                                                          *)
(***************************************************************************)
EXTENDS SetMZ, VectorsProofs

\* The search is where the definition of updateRoutes by recursion says it is:
\* in round l + 1, with k - 1 routes extended.
InRound(l) ==
  LET U == searchStates(m_CLMatrix, m_entrance, m_exit)[l]
  IN  /\ AtRound(m_CLMatrix, m_entrance, m_exit, l)
      /\ nRoutes = Len(U.vRoutes)
      /\ k \in 1..(nRoutes + 1)
      /\ search = roundStates(m_CLMatrix, m_entrance, m_exit, U)[k - 1]

\* The inductive invariant of setMZ.
SetInv ==
  /\ pc \in {"start", "rejected", "search", "thrown", "done"}
  /\ m_entrance \in RightEdge
  /\ m_exit \in LeftEdge
  /\ ~Accepted => search = startSearch(m_entrance) /\ nRoutes = 0 /\ k = 0
  /\ Accepted => /\ DOMAIN m_CLMatrix = Cells
                 /\ \E l \in 0..(totalCells - 1) : InRound(l)
  /\ pc = "search" => ~search.thrown
  /\ pc = "thrown" => search.thrown
  /\ pc = "done" => ~search.thrown /\ search.bErase = << >> /\ k > nRoutes

LEMMA EdgeCells ==
  RightEdge \subseteq Cells /\ LeftEdge \subseteq Cells
BY DEF RightEdge, LeftEdge

\* In a round the invariant of the search holds.
LEMMA InRoundInv ==
  ASSUME m_entrance \in Cells, NEW l \in 0..(totalCells - 1), InRound(l)
  PROVE  LET U == searchStates(m_CLMatrix, m_entrance, m_exit)[l]
         IN  /\ SearchInv(m_CLMatrix, m_entrance, m_exit, search, nRoutes, k - 1, k, l)
             /\ nRoutes \in Nat /\ k \in 1..(nRoutes + 1)
             /\ U \in SearchStates /\ RoundBegins(m_CLMatrix, m_entrance, m_exit, U, l)
             /\ IsRound(m_CLMatrix, m_entrance, m_exit, U, l,
                        roundStates(m_CLMatrix, m_entrance, m_exit, U))
<1>. DEFINE U == searchStates(m_CLMatrix, m_entrance, m_exit)[l]
            R == roundStates(m_CLMatrix, m_entrance, m_exit, U)
<1>1. /\ U \in SearchStates
      /\ RoundBegins(m_CLMatrix, m_entrance, m_exit, U, l)
      /\ nRoutes = Len(U.vRoutes)
      /\ k \in 1..(nRoutes + 1)
      /\ search = R[k - 1]
  BY DEF InRound, AtRound
<1>. HIDE DEF U
<1>2. nRoutes \in Nat
  BY <1>1 DEF SearchStates
<1>3. k - 1 \in 0..nRoutes /\ k - 1 + 1 = k
  BY <1>1, <1>2
<1>4. IsRound(m_CLMatrix, m_entrance, m_exit, U, l, R)
  BY <1>1, RoundStates
<1>. HIDE DEF R
<1>5. SearchInv(m_CLMatrix, m_entrance, m_exit, R[k - 1], nRoutes, k - 1, k - 1 + 1, l)
  BY <1>1, <1>3, <1>4 DEF IsRound
<1>6. SearchInv(m_CLMatrix, m_entrance, m_exit, search, nRoutes, k - 1, k, l)
  BY <1>1, <1>3, <1>5
<1>. QED BY <1>1, <1>2, <1>4, <1>6 DEF U, R

LEMMA SetInvInit == Init => SetInv
BY DEF Init, SetInv, Accepted

\* The loops begin.
LEMMA SetInvAccept == SetInv /\ Accept => SetInv'
<1>1. SUFFICES ASSUME SetInv, Accept PROVE SetInv'
  OBVIOUS
<1>2. m_entrance \in Cells /\ m_exit \in Cells
  BY <1>1, EdgeCells DEF SetInv
<1>. DEFINE M == m_CLMatrix'
            U == searchStates(M, m_entrance, m_exit)[0]
            b == startSearch(m_entrance)
<1>3. /\ search' = b /\ nRoutes' = 1 /\ k' = 1 /\ pc' = "search"
      /\ m_entrance' = m_entrance /\ m_exit' = m_exit
      /\ DOMAIN M = Cells
  BY <1>1 DEF Accept, SetInv, Accepted, input, initializeCLMatrix
<1>4. U = b
  BY <1>2, SearchStatesAfter
<1>5. /\ SearchInv(M, m_entrance, m_exit, b, 1, 0, 1, 0)
      /\ RoundBegins(M, m_entrance, m_exit, b, 0) /\ ~b.thrown
  BY <1>2, StartInv
<1>6. b \in SearchStates
  BY <1>5 DEF SearchInv
<1>7. Len(b.vRoutes) = 1 /\ b.bErase = << >>
  BY DEF startSearch
<1>. HIDE DEF U, M, b
<1>8. IsRound(M, m_entrance, m_exit, b, 0, roundStates(M, m_entrance, m_exit, b))
  BY <1>2, <1>5, <1>6, RoundStates
<1>9. [b EXCEPT !.bErase = << >>] = b
  BY <1>6, <1>7 DEF SearchStates
<1>10. search' = roundStates(M, m_entrance, m_exit, U)[0]
  BY <1>3, <1>4, <1>8, <1>9 DEF IsRound
<1>11. AtRound(M, m_entrance, m_exit, 0)
  BY <1>4, <1>5, <1>6 DEF AtRound, U
<1>12. 1 \in 1..(1 + 1) /\ 1 - 1 = 0
  OBVIOUS
<1>13. InRound(0)'
  BY <1>3, <1>4, <1>7, <1>10, <1>11, <1>12 DEF InRound, U, M
<1>14. 0 \in 0..(totalCells - 1)
  BY SizeFacts
<1>. QED BY <1>1, <1>3, <1>5, <1>13, <1>14 DEF SetInv, Accepted, M

\* One turn of the inner loop.
LEMMA SetInvExtend == SetInv /\ ExtendRoute => SetInv'
<1>1. SUFFICES ASSUME SetInv, ExtendRoute PROVE SetInv'
  OBVIOUS
<1>2. m_entrance \in Cells /\ m_exit \in Cells
  BY <1>1, EdgeCells DEF SetInv
<1>3. /\ pc = "search" /\ k <= nRoutes
      /\ search' = extendRoute(m_CLMatrix, m_entrance, m_exit, search, k)
      /\ k' = k + 1 /\ pc' = IF search'.thrown THEN "thrown" ELSE pc
      /\ m_entrance' = m_entrance /\ m_exit' = m_exit /\ m_CLMatrix' = m_CLMatrix
      /\ nRoutes' = nRoutes
  BY <1>1 DEF ExtendRoute, input, matrix
<1>4. PICK l \in 0..(totalCells - 1) : InRound(l)
  BY <1>1, <1>3 DEF SetInv, Accepted
<1>. DEFINE U == searchStates(m_CLMatrix, m_entrance, m_exit)[l]
            R == roundStates(m_CLMatrix, m_entrance, m_exit, U)
<1>5. /\ nRoutes \in Nat /\ k \in 1..(nRoutes + 1)
      /\ IsRound(m_CLMatrix, m_entrance, m_exit, U, l, R)
  BY <1>2, <1>4, InRoundInv
<1>6. k \in 1..nRoutes /\ k + 1 \in 1..(nRoutes + 1) /\ k + 1 - 1 = k
  BY <1>3, <1>5
<1>7. nRoutes = Len(U.vRoutes) /\ search = R[k - 1]
  BY <1>4 DEF InRound
<1>. HIDE DEF U, R
<1>8. R[k] = extendRoute(m_CLMatrix, m_entrance, m_exit, R[k - 1], k)
  BY <1>5, <1>6, <1>7 DEF IsRound
<1>9. search' = R[k + 1 - 1]
  BY <1>3, <1>6, <1>7, <1>8
<1>10. InRound(l)'
  BY <1>3, <1>4, <1>6, <1>9 DEF InRound, U, R
<1>11. \E j \in 0..(totalCells - 1) : InRound(j)'
  BY <1>10
<1>. QED BY <1>1, <1>3, <1>11 DEF SetInv, Accepted

\* The end of a round in which routes were extended.
LEMMA SetInvEndRound == SetInv /\ EndRound => SetInv'
<1>1. SUFFICES ASSUME SetInv, EndRound PROVE SetInv'
  OBVIOUS
<1>2. m_entrance \in Cells /\ m_exit \in Cells
  BY <1>1, EdgeCells DEF SetInv
<1>3. /\ pc = "search" /\ k > nRoutes /\ search.bErase # << >>
      /\ search' = [eraseRoutes(search) EXCEPT !.bErase = << >>]
      /\ nRoutes' = Len(search'.vRoutes) /\ k' = 1 /\ pc' = pc
      /\ m_entrance' = m_entrance /\ m_exit' = m_exit /\ m_CLMatrix' = m_CLMatrix
  BY <1>1 DEF EndRound, input, matrix
<1>4. PICK l \in 0..(totalCells - 1) : InRound(l)
  BY <1>1, <1>3 DEF SetInv, Accepted
<1>. DEFINE M == m_CLMatrix
            U == searchStates(M, m_entrance, m_exit)
            R == roundStates(M, m_entrance, m_exit, U[l])
            T == U[l + 1]
<1>5. /\ nRoutes \in Nat /\ k \in 1..(nRoutes + 1)
      /\ SearchInv(M, m_entrance, m_exit, search, nRoutes, k - 1, k, l)
  BY <1>2, <1>4, InRoundInv
<1>6. k = nRoutes + 1 /\ k - 1 = nRoutes
  BY <1>3, <1>5
<1>7. SearchInv(M, m_entrance, m_exit, search, nRoutes, nRoutes, nRoutes + 1, l)
  BY <1>5, <1>6
<1>8. ~search.thrown
  BY <1>1, <1>3 DEF SetInv
<1>9. /\ SearchInv(M, m_entrance, m_exit, search', Len(search'.vRoutes), 0, 1, l + 1)
      /\ ~search'.thrown
  BY <1>2, <1>3, <1>7, <1>8, EndRoundInv
<1>10. /\ AtRound(M, m_entrance, m_exit, l)
       /\ nRoutes = Len(U[l].vRoutes) /\ search = R[k - 1]
  BY <1>4 DEF InRound
<1>11. T = IF R[nRoutes].thrown THEN R[nRoutes] ELSE eraseRoutes(R[nRoutes])
  BY <1>2, <1>10, NextRound
<1>. HIDE DEF U, R, T, M
<1>12. T = eraseRoutes(search)
  BY <1>6, <1>8, <1>10, <1>11
<1>13. T \in SearchStates /\ T.bErase # << >> /\ ~T.thrown /\ T.vRoutes = search'.vRoutes
  <2>1. /\ search \in SearchStates /\ nRoutes \in 0..Len(search.vRoutes)
        /\ \A e \in 1..Len(search.bErase) : search.bErase[e] \in 1..nRoutes
        /\ \A e \in 2..Len(search.bErase) : search.bErase[e - 1] < search.bErase[e]
    BY <1>7 DEF SearchInv, Erasure
  <2>2. \A e \in 1..Len(search.bErase) : search.bErase[e] \in 1..Len(search.vRoutes)
    <3>1. Len(search.vRoutes) \in Nat
      BY <2>1 DEF SearchStates
    <3>2. 1..nRoutes \subseteq 1..Len(search.vRoutes)
      BY <2>1, <3>1
    <3>. QED BY <2>1, <3>2
  <2>. DEFINE Q == T.vRoutes
  <2>3. T = [search EXCEPT !.vRoutes = Q] /\ Q \in Seq(Seq(Cells))
    BY <1>12, <2>1, <2>2, EraseRoutes
  <2>. HIDE DEF Q
  <2>4. /\ T.bErase = search.bErase /\ T.thrown = search.thrown
        /\ T.vRoutes = Q /\ T \in SearchStates
    BY <2>1, <2>3 DEF SearchStates
  <2>5. search'.vRoutes = T.vRoutes
    BY <1>3, <1>12, <2>4 DEF SearchStates
  <2>. QED BY <1>3, <1>8, <2>4, <2>5
<1>14. search' = [T EXCEPT !.bErase = << >>]
  BY <1>3, <1>12
<1>. DEFINE r == l + 1
<1>15. RoundBegins(M, m_entrance, m_exit, T, r)
  BY <1>9, <1>13, <1>14 DEF RoundBegins
<1>16. r \in 0..(totalCells - 1) /\ r # 0
  <2>1. r \in 0..(totalCells - 1)
    BY <1>9 DEF SearchInv
  <2>. QED BY <2>1
<1>17. T = U[r]
  BY DEF T
<1>. HIDE DEF r
<1>18. AtRound(M, m_entrance, m_exit, r)
  BY <1>13, <1>15, <1>16, <1>17 DEF AtRound, U
<1>19. search' = roundStates(M, m_entrance, m_exit, U[r])[0]
  <2>1. IsRound(M, m_entrance, m_exit, T, r, roundStates(M, m_entrance, m_exit, T))
    BY <1>2, <1>13, <1>15, RoundStates
  <2>. QED BY <1>14, <1>17, <2>1 DEF IsRound
<1>20. 1 \in 1..(nRoutes' + 1) /\ 1 - 1 = 0
  <2>1. Len(search'.vRoutes) \in Nat
    BY <1>9 DEF SearchInv, SearchStates
  <2>. QED BY <1>3, <2>1
<1>21. InRound(r)'
  BY <1>3, <1>13, <1>17, <1>18, <1>19, <1>20 DEF InRound, U, M
<1>22. \E j \in 0..(totalCells - 1) : InRound(j)'
  BY <1>16, <1>21
<1>. QED BY <1>1, <1>3, <1>9, <1>22 DEF SetInv, Accepted

\* The other steps leave the search as it is.
LEMMA SetInvStep == SetInv /\ [Next]_vars => SetInv'
<1>1. SUFFICES ASSUME SetInv, [Next]_vars PROVE SetInv'
  OBVIOUS
<1>2. CASE RejectLength
  BY <1>1, <1>2 DEF RejectLength, SetInv, Accepted, input, matrix
<1>3. CASE RejectEdges
  BY <1>1, <1>3 DEF RejectEdges, SetInv, Accepted, input, matrix
<1>4. CASE EndSearch
  <2>1. /\ pc = "search" /\ k > nRoutes /\ search.bErase = << >> /\ pc' = "done"
        /\ UNCHANGED <<m_entrance, m_exit, m_CLMatrix, search, nRoutes, k>>
    BY <1>4 DEF EndSearch, matrix
  <2>2. \A l : InRound(l) => InRound(l)'
    BY <2>1 DEF InRound
  <2>. QED BY <1>1, <2>1, <2>2 DEF SetInv, Accepted
<1>5. CASE UNCHANGED vars
  <2>1. \A l : InRound(l) => InRound(l)'
    BY <1>5 DEF vars, InRound
  <2>. QED BY <1>1, <1>5, <2>1 DEF vars, SetInv, Accepted
<1>. QED BY <1>1, <1>2, <1>3, <1>4, <1>5, SetInvAccept, SetInvExtend, SetInvEndRound
         DEF Next, Ended

THEOREM SetInvCorrect == Spec => []SetInv
BY SetInvInit, SetInvStep, PTL DEF Spec
-----------------------------------------------------------------------------
(***************************************************************************)
(* The properties.                                                         *)
(***************************************************************************)
LEMMA SearchHolds ==
  ASSUME SetInv, Accepted
  PROVE  /\ m_entrance \in Cells
         /\ nRoutes \in Nat /\ k \in 1..(nRoutes + 1)
         /\ \E l \in 0..(totalCells - 1) :
              SearchInv(m_CLMatrix, m_entrance, m_exit, search, nRoutes, k - 1, k, l)
         /\ pc = "done" =>
              \A c \in search.vVisited :
                finished(m_CLMatrix, m_entrance, m_exit, search.vVisited, c)
<1>1. m_entrance \in Cells
  BY EdgeCells DEF SetInv
<1>2. PICK l \in 0..(totalCells - 1) : InRound(l)
  BY DEF SetInv
<1>3. /\ SearchInv(m_CLMatrix, m_entrance, m_exit, search, nRoutes, k - 1, k, l)
      /\ nRoutes \in Nat /\ k \in 1..(nRoutes + 1)
  BY <1>1, <1>2, InRoundInv
<1>4. ASSUME pc = "done"
      PROVE  \A c \in search.vVisited :
               finished(m_CLMatrix, m_entrance, m_exit, search.vVisited, c)
  <2>1. ~search.thrown /\ search.bErase = << >> /\ k > nRoutes
    BY <1>4 DEF SetInv
  <2>2. k = nRoutes + 1 /\ k - 1 = nRoutes
    BY <1>3, <2>1
  <2>3. SearchInv(m_CLMatrix, m_entrance, m_exit, search, nRoutes, nRoutes, nRoutes + 1, l)
    BY <1>3, <2>2
  <2>. QED BY <2>1, <2>3, LastRound
<1>. QED BY <1>1, <1>3, <1>4

LEMMA SetTypeOK == SetInv => TypeOK
<1>1. SUFFICES ASSUME SetInv PROVE TypeOK
  OBVIOUS
<1>2. CASE Accepted
  <2>1. PICK l : SearchInv(m_CLMatrix, m_entrance, m_exit, search, nRoutes, k - 1, k, l)
    BY <1>1, <1>2, SearchHolds
  <2>2. search \in SearchStates /\ nRoutes \in 0..Len(search.vRoutes) /\ Erasure(search, nRoutes, k - 1)
    BY <2>1 DEF SearchInv
  <2>3. k \in 0..(nRoutes + 1)
    <3>1. nRoutes \in Nat /\ k \in 1..(nRoutes + 1)
      BY <1>1, <1>2, SearchHolds
    <3>. QED BY <3>1
  <2>4. search.vVisited \subseteq Cells /\ search.vRoutes \in Seq(Seq(Cells))
    BY <2>2 DEF SearchStates
  <2>5. \A j \in 1..Len(search.vRoutes) : search.vRoutes[j] \in Seq(Cells)
    BY <2>4, ElementOfSeq
  <2>. QED BY <1>1, <2>2, <2>3, <2>4, <2>5 DEF TypeOK, SetInv, Erasure
<1>3. CASE ~Accepted
  <2>1. search = startSearch(m_entrance) /\ nRoutes = 0 /\ k = 0 /\ m_entrance \in Cells
    BY <1>1, <1>3, EdgeCells DEF SetInv
  <2>2. /\ search.vRoutes = << <<m_entrance>> >> /\ search.vVisited = {m_entrance}
        /\ search.bErase = << >>
    BY <2>1 DEF startSearch
  <2>3. \A j \in 1..Len(search.vRoutes) : search.vRoutes[j] \in Seq(Cells)
    <3>1. SearchInv(m_CLMatrix, m_entrance, m_exit, search, 1, 0, 1, 0)
      BY <2>1, StartInv
    <3>2. search.vRoutes \in Seq(Seq(Cells))
      BY <3>1 DEF SearchInv, SearchStates
    <3>. QED BY <3>2, ElementOfSeq
  <2>. QED BY <1>1, <1>3, <2>1, <2>2, <2>3 DEF TypeOK, SetInv
<1>. QED BY <1>2, <1>3

\* The variables of setMZ and of the loops of updateRoutes keep their types;
\* the positions to be erased are positions of routes, in increasing order.
THEOREM SetTypeCorrect == Spec => []TypeOK
BY SetInvCorrect, SetTypeOK, PTL

\* At every moment of the search the routes are open paths from the entrance,
\* and erasing the routes that were extended loses no visited cell.
THEOREM RoutesCoverVisitedCorrect == Spec => []RoutesCoverVisited
<1>1. SetInv => RoutesCoverVisited
  <2>1. SUFFICES ASSUME SetInv, Accepted PROVE RoutesCoverVisited
    BY DEF RoutesCoverVisited
  <2>2. PICK l : SearchInv(m_CLMatrix, m_entrance, m_exit, search, nRoutes, k - 1, k, l)
    BY <2>1, SearchHolds
  <2>3. Paths(m_CLMatrix, m_entrance, m_exit, search)
    BY <2>2 DEF SearchInv
  <2>. DEFINE R == search.vRoutes
              V == search.vVisited
  <2>4. ASSUME NEW j \in 1..Len(R)
        PROVE  /\ R[j][1] = m_entrance
               /\ \A n \in 2..Len(R[j]) : passes(R[j][n - 1], R[j][n])
               /\ \A n, m \in 1..Len(R[j]) : R[j][n] = R[j][m] => n = m
    <3>1. IsRoute(m_CLMatrix, m_entrance, m_exit, R[j])
      BY <2>3 DEF Paths
    <3>. QED BY <3>1 DEF IsRoute, passes
  <2>5. V = UNION {{R[j][n] : n \in 1..Len(R[j])} : j \in 1..Len(R)}
    <3>1. \A j \in 1..Len(R) : \A n \in 1..Len(R[j]) : R[j][n] \in V
      BY <2>3 DEF Paths
    <3>2. \A c \in V : \E j \in 1..Len(R) : \E n \in 1..Len(R[j]) : R[j][n] = c
      BY <2>3 DEF Paths
    <3>. HIDE DEF R, V
    <3>. QED BY <3>1, <3>2
  <2>. QED BY <2>4, <2>5 DEF RoutesCoverVisited
<1>. QED BY <1>1, SetInvCorrect, PTL

\* Every route in the list is a shortest route to each of its cells.
ShortRoutes(M, entrance, exit, R) ==
  \A j \in 1..Len(R) : \A n \in 2..Len(R[j]) :
    R[j][n] \notin cellsWithin(M, entrance, exit)[n - 2]

\* A route extended to side s has one cell more, which is no nearer.
LEMMA ShortExtendTo ==
  ASSUME NEW M, NEW entrance \in Cells, NEW exit, NEW S, NEW n, NEW l,
         NEW i \in 1..n, NEW s \in Sides, SearchInv(M, entrance, exit, S, n, i, i, l),
         ShortRoutes(M, entrance, exit, S.vRoutes)
  PROVE  ShortRoutes(M, entrance, exit, extendTo(M, entrance, exit, S, i, s).vRoutes)
<1>. DEFINE R == S.vRoutes
            next == stepTo(Last(R[i]), s)
            T == extendTo(M, entrance, exit, S, i, s)
            E == appendRoute(exit, S, i, next)
            Q == T.vRoutes
            W == cellsWithin(M, entrance, exit)
<1>1. /\ S \in SearchStates /\ n \in 0..Len(R)
      /\ T \in SearchStates /\ Levels(M, entrance, exit, T, n, l) /\ l \in 0..(totalCells - 1)
  BY ExtendToInv DEF SearchInv
<1>2. R \in Seq(Seq(Cells)) /\ Q \in Seq(Seq(Cells)) /\ Len(R) \in Nat /\ i \in 1..Len(R)
  BY <1>1 DEF SearchStates
<1>3. R[i] \in Seq(Cells)
  <2>. HIDE DEF R
  <2>. QED BY <1>2, ElementOfSeq
<1>4. Q = R \/ (next # -1 /\ Q = Append(R, Append(R[i], next)))
  <2>1. \/ T = S \/ T = [S EXCEPT !.thrown = TRUE] \/ (next # -1 /\ T = E)
    BY Zenon DEF extendTo
  <2>2. E.vRoutes = Append(R, Append(R[i], next))
    BY <1>1 DEF E, appendRoute, SearchStates
  <2>3. [S EXCEPT !.thrown = TRUE].vRoutes = R
    BY <1>1 DEF SearchStates
  <2>. HIDE DEF T, E, next
  <2>. QED BY <2>1, <2>2, <2>3
<1>5. \A j \in 1..Len(R) : \A m \in 2..Len(R[j]) : R[j][m] \notin W[m - 2]
  BY DEF ShortRoutes
<1>6. \A j \in (n + 1)..Len(Q) : Len(Q[j]) = l + 2 /\ Last(Q[j]) \notin W[l]
  BY <1>1 DEF Levels
<1>7. Last(R[i]) \in Cells
  <2>1. IsRoute(M, entrance, exit, R[i])
    BY <1>2 DEF SearchInv, Paths
  <2>. HIDE DEF R
  <2>2. R[i] \in Seq(Cells) /\ Len(R[i]) \in 1..Len(R[i])
    BY <2>1 DEF IsRoute
  <2>. QED BY <2>2 DEF Last
<1>8. next \in Cells \cup {-1}
  BY <1>7, StepToType
<1>. HIDE DEF R, Q, W, next, T
<1>9. CASE Q = R
  BY <1>5, <1>9 DEF ShortRoutes, Q, W, T
<1>10. CASE next # -1 /\ Q = Append(R, Append(R[i], next))
  <2>. DEFINE x == Append(R[i], next)
              last == Len(R) + 1
  <2>1. /\ x \in Seq(Cells) /\ Len(x) = Len(R[i]) + 1
        /\ \A m \in 1..Len(R[i]) : x[m] = R[i][m]
    BY <1>3, <1>8, <1>10, AppendProperties
  <2>2. Len(R[i]) \in Nat
    BY <1>3
  <2>. HIDE DEF x
  <2>3. /\ Len(Q) = last /\ Q[last] = x
        /\ \A j \in 1..Len(R) : Q[j] = R[j]
    BY <1>2, <1>10, <2>1, AppendProperties DEF x
  <2>4. Len(x) = l + 2 /\ Last(x) \notin W[l]
    <3>1. last \in (n + 1)..Len(Q)
      BY <1>1, <1>2, <2>3
    <3>. HIDE DEF last
    <3>. QED BY <1>6, <2>3, <3>1
  <2>5. ASSUME NEW m \in 2..Len(x) PROVE x[m] \notin W[m - 2]
    <3>1. CASE m = Len(x)
      <4>1. m - 2 = l /\ x[m] = Last(x)
        BY <1>1, <2>4, <3>1, SizeFacts DEF Last
      <4>. QED BY <2>4, <4>1
    <3>2. CASE m # Len(x)
      <4>1. m \in 2..Len(R[i]) /\ m \in 1..Len(R[i])
        BY <2>1, <2>2, <3>2
      <4>. QED BY <1>2, <1>5, <2>1, <4>1
    <3>. QED BY <3>1, <3>2
  <2>6. ASSUME NEW j \in 1..Len(Q), NEW m \in 2..Len(Q[j]) PROVE Q[j][m] \notin W[m - 2]
    <3>. DEFINE N == Len(R)
    <3>1. Len(Q) = N + 1 /\ N \in Nat
      BY <1>2, <2>3
    <3>. HIDE DEF N
    <3>2. j \in 1..(N + 1)
      BY <3>1
    <3>3. j = N + 1 \/ j \in 1..N
      BY <3>1, <3>2
    <3>4. j = last \/ j \in 1..Len(R)
      BY <3>3 DEF N
    <3>. HIDE DEF last
    <3>. QED BY <1>5, <2>3, <2>5, <2>6, <3>4
  <2>. QED BY <2>6 DEF ShortRoutes, Q, W, T
<1>. QED BY <1>4, <1>9, <1>10

\* So do the routes extended to all sides.
LEMMA ShortExtendRoute ==
  ASSUME NEW M, NEW entrance \in Cells, NEW exit, NEW S, NEW n, NEW l,
         NEW i \in 1..n, SearchInv(M, entrance, exit, S, n, i - 1, i, l),
         ShortRoutes(M, entrance, exit, S.vRoutes)
  PROVE  ShortRoutes(M, entrance, exit, extendRoute(M, entrance, exit, S, i).vRoutes)
<1>1. SearchInv(M, entrance, exit, S, n, i, i, l)
  <2>1. n \in Nat
    BY DEF SearchInv, SearchStates
  <2>2. 1..(i - 1) \subseteq 1..i
    BY <2>1
  <2>3. Erasure(S, n, i - 1) => Erasure(S, n, i)
    BY <2>2 DEF Erasure
  <2>. QED BY <2>3 DEF SearchInv
<1>. DEFINE To(U, s) == extendTo(M, entrance, exit, U, i, s)
            Good(U) == /\ SearchInv(M, entrance, exit, U, n, i, i, l)
                       /\ ShortRoutes(M, entrance, exit, U.vRoutes)
<1>2. \A s \in Sides : \A U : Good(U) => Good(To(U, s))
  BY ExtendToInv, ShortExtendTo
<1>3. Sides = {0, 1, 2, 3}
  BY DEF Sides
<1>4. extendRoute(M, entrance, exit, S, i) = To(To(To(To(S, 0), 1), 2), 3)
  BY DEF extendRoute
<1>5. Good(S)
  BY <1>1
<1>. HIDE DEF To, Good
<1>6. Good(To(To(To(To(S, 0), 1), 2), 3))
  BY <1>2, <1>3, <1>5
<1>. QED BY <1>4, <1>6 DEF Good

\* The routes that are left after a round are as short as they were.
LEMMA ShortErase ==
  ASSUME NEW M, NEW entrance, NEW exit, NEW S, NEW n, NEW l,
         SearchInv(M, entrance, exit, S, n, n, n + 1, l),
         ShortRoutes(M, entrance, exit, S.vRoutes)
  PROVE  ShortRoutes(M, entrance, exit, eraseRoutes(S).vRoutes)
<1>1. /\ S \in SearchStates /\ n \in 0..Len(S.vRoutes)
      /\ \A e \in 1..Len(S.bErase) : S.bErase[e] \in 1..n
      /\ \A e \in 2..Len(S.bErase) : S.bErase[e - 1] < S.bErase[e]
  BY DEF SearchInv, Erasure
<1>2. \A e \in 1..Len(S.bErase) : S.bErase[e] \in 1..Len(S.vRoutes)
  <2>1. 1..n \subseteq 1..Len(S.vRoutes)
    BY <1>1 DEF SearchStates
  <2>. QED BY <1>1, <2>1
<1>. DEFINE Q == eraseRoutes(S).vRoutes
<1>3. \A p \in 1..Len(Q) : \E j \in 1..Len(S.vRoutes) : Q[p] = S.vRoutes[j]
  BY <1>1, <1>2, EraseRoutes
<1>. HIDE DEF Q
<1>4. ASSUME NEW p \in 1..Len(Q), NEW m \in 2..Len(Q[p])
      PROVE  Q[p][m] \notin cellsWithin(M, entrance, exit)[m - 2]
  BY <1>3 DEF ShortRoutes
<1>. QED BY <1>4 DEF ShortRoutes, Q

\* Every step keeps the routes short.
LEMMA ShortStep ==
  ASSUME SetInv, RoutesShortest, [Next]_vars
  PROVE  RoutesShortest'
<1>1. m_entrance \in Cells
  BY EdgeCells DEF SetInv
<1>. DEFINE Short(S) == ShortRoutes(m_CLMatrix, m_entrance, m_exit, S.vRoutes)
<1>2. Accepted => Short(search)
  BY DEF RoutesShortest, reachableWithin, ShortRoutes
<1>3. ASSUME Accepted', Short(search)', m_entrance' = m_entrance PROVE RoutesShortest'
  BY <1>3 DEF RoutesShortest, reachableWithin, ShortRoutes
<1>4. CASE RejectLength \/ RejectEdges
  BY <1>4 DEF RejectLength, RejectEdges, RoutesShortest, Accepted
<1>5. CASE Accept
  <2>1. search' = startSearch(m_entrance) /\ Accepted'
    BY <1>5 DEF Accept, SetInv, Accepted
  <2>2. search'.vRoutes = << <<m_entrance>> >>
    BY <2>1 DEF startSearch
  <2>3. Len(search'.vRoutes) = 1 /\ Len(search'.vRoutes[1]) = 1
    BY <2>2
  <2>. QED BY <2>3 DEF RoutesShortest
<1>6. CASE ExtendRoute
  <2>1. /\ pc = "search" /\ k <= nRoutes
        /\ search' = extendRoute(m_CLMatrix, m_entrance, m_exit, search, k)
        /\ m_entrance' = m_entrance /\ m_exit' = m_exit /\ m_CLMatrix' = m_CLMatrix
        /\ Accepted'
    BY <1>6 DEF ExtendRoute, input, matrix, Accepted
  <2>2. PICK l : SearchInv(m_CLMatrix, m_entrance, m_exit, search, nRoutes, k - 1, k, l)
    BY <2>1, SearchHolds DEF Accepted
  <2>3. k \in 1..nRoutes
    BY <2>1, SearchHolds DEF Accepted
  <2>4. Short(search')
    BY <1>1, <1>2, <2>1, <2>2, <2>3, ShortExtendRoute DEF Accepted
  <2>. QED BY <1>3, <2>1, <2>4
<1>7. CASE EndRound
  <2>1. /\ pc = "search" /\ k > nRoutes
        /\ search' = [eraseRoutes(search) EXCEPT !.bErase = << >>]
        /\ m_entrance' = m_entrance /\ m_exit' = m_exit /\ m_CLMatrix' = m_CLMatrix
        /\ Accepted'
    BY <1>7 DEF EndRound, input, matrix, Accepted
  <2>2. PICK l : SearchInv(m_CLMatrix, m_entrance, m_exit, search, nRoutes, k - 1, k, l)
    BY <2>1, SearchHolds DEF Accepted
  <2>3. k = nRoutes + 1 /\ k - 1 = nRoutes
    BY <2>1, SearchHolds DEF Accepted
  <2>4. Short(eraseRoutes(search))
    BY <1>2, <2>1, <2>2, <2>3, ShortErase DEF Accepted
  <2>5. search'.vRoutes = eraseRoutes(search).vRoutes
    BY <2>1 DEF eraseRoutes
  <2>6. Short(search')
    BY <2>4, <2>5
  <2>. QED BY <1>3, <2>1, <2>6
<1>8. CASE EndSearch \/ UNCHANGED vars
  <2>1. UNCHANGED <<search, m_entrance, m_exit, m_CLMatrix>> /\ (Accepted' => Accepted)
    BY <1>8 DEF EndSearch, vars, matrix, Accepted
  <2>. QED BY <1>2, <1>3, <2>1 DEF RoutesShortest
<1>. QED BY <1>4, <1>5, <1>6, <1>7, <1>8 DEF Next, Ended

\* Every route of the search, also in the middle of a round, is a shortest route
\* to each of its cells.
THEOREM RoutesShortestCorrect == Spec => []RoutesShortest
<1>1. Init => RoutesShortest
  BY DEF Init, RoutesShortest, Accepted
<1>. QED BY <1>1, ShortStep, SetInvCorrect, PTL DEF Spec

\* The search visits no cell that cannot be reached, and all that can when it
\* ends without an exception.
THEOREM VisitedExactCorrect == Spec => []VisitedExact
<1>1. SetInv => VisitedExact
  <2>1. SUFFICES ASSUME SetInv, Accepted PROVE VisitedExact
    BY DEF VisitedExact, Accepted
  <2>2. PICK l : SearchInv(m_CLMatrix, m_entrance, m_exit, search, nRoutes, k - 1, k, l)
    BY <2>1, SearchHolds
  <2>3. m_entrance \in Cells
    BY <2>1, SearchHolds
  <2>. DEFINE V == search.vVisited
  <2>4. /\ V \subseteq reachable
        /\ (\A c \in V : finished(m_CLMatrix, m_entrance, m_exit, V, c)) => V = reachable
    BY <2>2, <2>3, VisitedReachable DEF reachable, reachableWithin
  <2>5. pc = "done" => \A c \in V : finished(m_CLMatrix, m_entrance, m_exit, V, c)
    BY <2>1, SearchHolds
  <2>. QED BY <2>4, <2>5 DEF VisitedExact
<1>. QED BY <1>1, SetInvCorrect, PTL

\* The first route found to the exit is a shortest one, and a search without
\* one means that the exit cannot be reached (or is the entrance).
THEOREM SetBestRouteCorrect == Spec => []BestRouteShortest
<1>1. SetInv /\ VisitedExact => BestRouteShortest
  <2>1. SUFFICES ASSUME SetInv, VisitedExact, Accepted PROVE BestRouteShortest
    BY DEF BestRouteShortest
  <2>2. PICK l : SearchInv(m_CLMatrix, m_entrance, m_exit, search, nRoutes, k - 1, k, l)
    BY <2>1, SearchHolds
  <2>3. Best(m_CLMatrix, m_entrance, m_exit, search)
    BY <2>2 DEF SearchInv
  <2>. DEFINE r == search.vBestRoute
  <2>4. CASE search.bFound
    <3>1. /\ IsRoute(m_CLMatrix, m_entrance, m_exit, r) /\ Last(r) = m_exit
          /\ m_exit \notin reachableWithin[Len(r) - 2]
      BY <2>3, <2>4 DEF Best, reachableWithin
    <3>. QED BY <2>4, <3>1 DEF BestRouteShortest, IsRoute, passes, Last
  <2>5. CASE ~search.bFound
    <3>1. r = << >> /\ m_exit \notin search.vVisited \ {m_entrance}
      BY <2>3, <2>5 DEF Best
    <3>. QED BY <2>1, <2>5, <3>1 DEF BestRouteShortest, VisitedExact
  <2>. QED BY <2>4, <2>5
<1>. QED BY <1>1, SetInvCorrect, VisitedExactCorrect, PTL

\* setMZ ends in the exception of vector::at if and only if a cell with a gap
\* in the border can be reached.
THEOREM ThrowsAtGapCorrect == Spec => []ThrowsAtGap
<1>1. SetInv /\ VisitedExact => ThrowsAtGap
  <2>1. SUFFICES ASSUME SetInv, VisitedExact, Accepted PROVE ThrowsAtGap
    BY DEF ThrowsAtGap, Accepted
  <2>2. PICK l : SearchInv(m_CLMatrix, m_entrance, m_exit, search, nRoutes, k - 1, k, l)
    BY <2>1, SearchHolds
  <2>3. /\ search \in SearchStates
        /\ Frontier(m_CLMatrix, m_entrance, m_exit, search, k)
    BY <2>2 DEF SearchInv
  <2>. DEFINE V == search.vVisited
              gap(c) == IsGap(m_CLMatrix, m_entrance, m_exit, c)
  <2>4. V \subseteq Cells
    BY <2>3 DEF SearchStates
  <2>5. \A c : Gap(c) <=> gap(c)
    BY DEF Gap, IsGap
  <2>6. ASSUME pc = "thrown" PROVE \E c \in reachable : gap(c)
    <3>1. search.thrown
      BY <2>1, <2>6 DEF SetInv
    <3>2. PICK c \in V : \E s \in Sides : canPass(m_CLMatrix, m_entrance, m_exit, c, s)
                                          /\ stepTo(c, s) = -1
      BY <2>3, <3>1 DEF Frontier
    <3>3. gap(c)
      BY <2>4, <3>2, GapStep
    <3>. QED BY <2>1, <3>3 DEF VisitedExact
  <2>7. ASSUME pc = "done" PROVE \A c \in reachable : ~gap(c)
    <3>1. \A c \in V : finished(m_CLMatrix, m_entrance, m_exit, V, c)
      BY <2>1, <2>7, SearchHolds
    <3>2. \A c \in V : ~gap(c)
      BY <2>4, <3>1, GapStep
    <3>. QED BY <2>1, <2>7, <3>2 DEF VisitedExact
  <2>. HIDE DEF gap
  <2>. QED BY <2>5, <2>6, <2>7 DEF ThrowsAtGap
<1>. QED BY <1>1, SetInvCorrect, VisitedExactCorrect, PTL

\* The search one route at a time ends where updateRoutes ends: what was proved of
\* the operator can be said of the variables of setMZ.
SearchAsOperator ==
  pc \in {"thrown", "done"} =>
    search = updateRoutes(m_CLMatrix, m_entrance, m_exit)

LEMMA SearchAsOperatorCorrect == Spec => []SearchAsOperator
<1>1. SetInv => SearchAsOperator
  <2>1. SUFFICES ASSUME SetInv, pc \in {"thrown", "done"}
                 PROVE  search = updateRoutes(m_CLMatrix, m_entrance, m_exit)
    BY DEF SearchAsOperator
  <2>2. m_entrance \in Cells
    BY <2>1, EdgeCells DEF SetInv
  <2>3. PICK l \in 0..(totalCells - 1) : InRound(l)
    BY <2>1 DEF SetInv, Accepted
  <2>. DEFINE M == m_CLMatrix
              U == searchStates(M, m_entrance, m_exit)
              R == roundStates(M, m_entrance, m_exit, U[l])
              T == U[l + 1]
  <2>4. /\ nRoutes \in Nat /\ k \in 1..(nRoutes + 1) /\ U[l] \in SearchStates
        /\ RoundBegins(M, m_entrance, m_exit, U[l], l)
        /\ SearchInv(M, m_entrance, m_exit, search, nRoutes, k - 1, k, l)
    BY <2>2, <2>3, InRoundInv
  <2>5. /\ AtRound(M, m_entrance, m_exit, l)
        /\ nRoutes = Len(U[l].vRoutes) /\ search = R[k - 1]
    BY <2>3 DEF InRound
  <2>6. T = IF R[nRoutes].thrown THEN R[nRoutes] ELSE eraseRoutes(R[nRoutes])
    BY <2>2, <2>5, NextRound
  <2>7. SUFFICES T = search /\ (search.thrown \/ search.bErase = << >>)
    <3>. DEFINE x == l + 1
    <3>1. x \in 1..totalCells
      BY SizeFacts
    <3>. HIDE DEF x
    <3>2. T = U[x]
      BY DEF x
    <3>. QED BY <2>2, <2>7, <3>1, <3>2, SearchStays
  <2>8. CASE pc = "thrown"
    <3>1. search.thrown
      BY <2>1, <2>8 DEF SetInv
    <3>2. k - 1 \in 0..Len(U[l].vRoutes)
      BY <2>4, <2>5
    <3>. DEFINE j == k - 1
    <3>3. R[j].thrown /\ j \in 0..Len(U[l].vRoutes)
      BY <2>5, <3>1, <3>2
    <3>4. R[nRoutes] = R[j]
      <4>. HIDE DEF j, U
      <4>. QED BY <2>2, <2>4, <2>5, <3>3, ThrownStays, SMTT(30)
    <3>. HIDE DEF R, T, U
    <3>. QED BY <2>5, <2>6, <3>1, <3>4
  <2>9. CASE pc = "done"
    <3>1. ~search.thrown /\ search.bErase = << >> /\ k > nRoutes
      BY <2>1, <2>9 DEF SetInv
    <3>2. k - 1 = nRoutes
      BY <2>4, <3>1
    <3>. HIDE DEF R, T, U
    <3>3. T = eraseRoutes(search)
      BY <2>5, <2>6, <3>1, <3>2
    <3>4. search \in SearchStates
      BY <2>4 DEF SearchInv
    <3>. DEFINE Q == T.vRoutes
    <3>5. T = [search EXCEPT !.vRoutes = Q] /\ Q = search.vRoutes
      BY <3>1, <3>3, <3>4, EraseRoutes
    <3>. HIDE DEF Q
    <3>6. T = search
      BY <3>4, <3>5 DEF SearchStates
    <3>. QED BY <3>1, <3>6
  <2>. QED BY <2>1, <2>8, <2>9
<1>. QED BY <1>1, SetInvCorrect, PTL
-----------------------------------------------------------------------------
(***************************************************************************)
(* A maze that is moved down by r rows (shiftDown).  Its cells first.      *)
(***************************************************************************)
Rows == 0..(Height - 1)

rowMoved(y, r) == IF y + r < Height THEN y + r ELSE y + r - Height

\* Rows that are moved around the cylinder stay as they lie beside each other.
LEMMA RowsMoved ==
  ASSUME NEW r \in Rows, NEW y \in Rows
  PROVE  /\ rowMoved(y, r) \in Rows
         /\ rowMoved(rowAbove(y), r) = rowAbove(rowMoved(y, r))
         /\ rowMoved(rowBelow(y), r) = rowBelow(rowMoved(y, r))
         /\ \A z \in Rows : rowMoved(y, r) = rowMoved(z, r) => y = z
         /\ \E z \in Rows : rowMoved(z, r) = y
<1>1. Height \in Nat \ {0} /\ r \in 0..(Height - 1) /\ y \in 0..(Height - 1)
  BY SizeFacts DEF Rows
<1>2. rowMoved(y, r) \in 0..(Height - 1)
  BY <1>1 DEF rowMoved
<1>3. rowMoved(rowAbove(y), r) = rowAbove(rowMoved(y, r))
  BY <1>1 DEF rowMoved, rowAbove
<1>4. rowMoved(rowBelow(y), r) = rowBelow(rowMoved(y, r))
  BY <1>1 DEF rowMoved, rowBelow
<1>5. \A z \in 0..(Height - 1) : rowMoved(y, r) = rowMoved(z, r) => y = z
  BY <1>1 DEF rowMoved
<1>6. \E z \in 0..(Height - 1) : rowMoved(z, r) = y
  <2>. DEFINE z == IF y >= r THEN y - r ELSE y - r + Height
  <2>1. z \in 0..(Height - 1) /\ rowMoved(z, r) = y
    BY <1>1 DEF rowMoved
  <2>. QED BY <2>1
<1>. QED BY <1>2, <1>3, <1>4, <1>5, <1>6 DEF Rows

LEMMA MovedCellAt ==
  ASSUME NEW r \in Rows, NEW x \in 0..(Width - 1), NEW y \in Rows
  PROVE  movedCell(cellAt(x, y), r * Width) = cellAt(x, rowMoved(y, r))
<1>. DEFINE N == totalCells
            z == rowMoved(y, r)
            a == cellAt(x, z)
            b == cellAt(x, y) + r * Width
<1>1. /\ Width \in Nat \ {0} /\ Height \in Nat \ {0} /\ N \in Nat \ {0}
      /\ r \in 0..(Height - 1) /\ y \in 0..(Height - 1) /\ z \in 0..(Height - 1)
  BY SizeFacts, RowsMoved DEF Rows
<1>2. a \in 0..(N - 1)
  <2>. HIDE DEF z
  <2>. QED BY <1>1, CellAt DEF Cells
<1>3. \A q \in Int : (q * N + a) % N = a
  <2>. HIDE DEF N, a
  <2>. QED BY <1>1, <1>2, DivMod
<1>4. CASE y + r < Height
  <2>1. z = y + r
    BY <1>4 DEF rowMoved
  <2>2. b = (y + r) * Width + x
    BY <1>1, Z3 DEF cellAt
  <2>3. b = a
    BY <2>1, <2>2 DEF cellAt
  <2>4. b % N = b
    <3>. HIDE DEF N
    <3>. QED BY <1>1, <1>2, <2>3, Z3
  <2>. QED BY <2>3, <2>4 DEF movedCell
<1>5. CASE ~(y + r < Height)
  <2>1. z = y + r - Height
    BY <1>5 DEF rowMoved
  <2>2. b = (y + r) * Width + x
    BY <1>1, Z3 DEF cellAt
  <2>3. (y + r) * Width + x = Width * Height + ((y + r - Height) * Width + x)
    BY <1>1, Z3
  <2>4. b = 1 * N + a
    BY <1>1, <2>1, <2>2, <2>3 DEF cellAt, totalCells
  <2>. QED BY <1>3, <2>4 DEF movedCell
<1>. QED BY <1>4, <1>5

\* Moving takes cells to cells one by one, borders to borders and neighbours to
\* neighbours.
LEMMA MovedCells ==
  ASSUME NEW r \in Rows, NEW n, n = r * Width, NEW c \in Cells
  PROVE  /\ movedCell(c, n) \in Cells
         /\ isRightEdge(movedCell(c, n)) <=> isRightEdge(c)
         /\ isLeftEdge(movedCell(c, n)) <=> isLeftEdge(c)
         /\ \A s \in Sides :
              stepTo(movedCell(c, n), s)
                = IF stepTo(c, s) = -1 THEN -1 ELSE movedCell(stepTo(c, s), n)
         /\ \A d \in Cells : movedCell(c, n) = movedCell(d, n) => c = d
         /\ \E d \in Cells : movedCell(d, n) = c
<1>1. PICK x \in 0..(Width - 1), y \in Rows : c = cellAt(x, y)
  BY CellsAre DEF Rows
<1>. DEFINE z == rowMoved(y, r)
            m == movedCell(c, n)
<1>2. /\ Width \in Nat \ {0} /\ z \in Rows
      /\ rowAbove(y) \in Rows /\ rowBelow(y) \in Rows
      /\ rowMoved(rowAbove(y), r) = rowAbove(z) /\ rowMoved(rowBelow(y), r) = rowBelow(z)
  BY SizeFacts, RowsMoved, CellsAround DEF Rows
<1>3. \A u \in 0..(Width - 1), v \in Rows :
        movedCell(cellAt(u, v), n) = cellAt(u, rowMoved(v, r))
  BY MovedCellAt
<1>4. m = cellAt(x, z)
  BY <1>1, <1>3
<1>. HIDE DEF z, m
<1>5. /\ m \in Cells
      /\ isRightEdge(m) <=> x = Width - 1
      /\ isRightEdge(c) <=> x = Width - 1
      /\ isLeftEdge(m) <=> x = 0
      /\ isLeftEdge(c) <=> x = 0
  BY <1>1, <1>2, <1>4, CellAt DEF Rows
<1>6. /\ neighBourTop(m) = cellAt(x, rowAbove(z)) /\ neighBourTop(c) = cellAt(x, rowAbove(y))
      /\ neighBourBottom(m) = cellAt(x, rowBelow(z))
      /\ neighBourBottom(c) = cellAt(x, rowBelow(y))
  BY <1>1, <1>2, <1>4, CellsAround DEF Rows
<1>7. /\ neighBourTop(m) = movedCell(neighBourTop(c), n)
      /\ neighBourBottom(m) = movedCell(neighBourBottom(c), n)
  BY <1>2, <1>3, <1>6
<1>8. \A u \in Int : cellAt(u, y) + 1 = cellAt(u + 1, y) /\ cellAt(u, z) + 1 = cellAt(u + 1, z)
                     /\ cellAt(u, y) \in Int /\ cellAt(u, z) \in Int
  BY <1>2 DEF cellAt, Rows
<1>9. ~isRightEdge(c) => m + 1 = movedCell(c + 1, n)
  <2>1. SUFFICES ASSUME ~isRightEdge(c) PROVE m + 1 = movedCell(c + 1, n)
    OBVIOUS
  <2>2. x + 1 \in 0..(Width - 1) /\ x \in Int
    BY <1>2, <1>5, <2>1
  <2>. DEFINE u == x + 1
  <2>3. m + 1 = cellAt(u, z) /\ c + 1 = cellAt(u, y)
    BY <1>1, <1>4, <1>8, <2>2
  <2>. HIDE DEF u
  <2>. QED BY <1>3, <2>2, <2>3 DEF u, z
<1>10. ~isLeftEdge(c) => m - 1 = movedCell(c - 1, n)
  <2>1. SUFFICES ASSUME ~isLeftEdge(c) PROVE m - 1 = movedCell(c - 1, n)
    OBVIOUS
  <2>. DEFINE u == x - 1
  <2>2. u \in 0..(Width - 1) /\ u \in Int /\ u + 1 = x
    BY <1>2, <1>5, <2>1
  <2>. HIDE DEF u
  <2>3. cellAt(u, z) + 1 = m /\ cellAt(u, y) + 1 = c
    BY <1>1, <1>4, <1>8, <2>2
  <2>4. m - 1 = cellAt(u, z) /\ c - 1 = cellAt(u, y)
    BY <1>8, <2>2, <2>3
  <2>. QED BY <1>3, <2>2, <2>4 DEF z
<1>11. ASSUME NEW s \in Sides
       PROVE  stepTo(m, s) = IF stepTo(c, s) = -1 THEN -1 ELSE movedCell(stepTo(c, s), n)
  <2>1. /\ stepTo(c, s) = -1 <=> (s = 1 /\ isRightEdge(c)) \/ (s = 3 /\ isLeftEdge(c))
        /\ stepTo(m, s) = -1 <=> (s = 1 /\ isRightEdge(m)) \/ (s = 3 /\ isLeftEdge(m))
    BY <1>5, StepToType
  <2>2. CASE stepTo(c, s) = -1
    BY <1>5, <2>1, <2>2
  <2>3. CASE s = 0
    BY <1>7, <2>1, <2>3 DEF stepTo
  <2>4. CASE s = 2
    BY <1>7, <2>1, <2>4 DEF stepTo
  <2>5. CASE s = 1 /\ ~isRightEdge(c)
    BY <1>5, <1>9, <2>1, <2>5 DEF stepTo, neighBourRight
  <2>6. CASE s = 3 /\ ~isLeftEdge(c)
    BY <1>5, <1>10, <2>1, <2>6 DEF stepTo, neighBourLeft
  <2>. QED BY <2>1, <2>2, <2>3, <2>4, <2>5, <2>6 DEF Sides
<1>12. ASSUME NEW d \in Cells, m = movedCell(d, n) PROVE c = d
  <2>1. PICK u \in 0..(Width - 1), v \in Rows : d = cellAt(u, v)
    BY CellsAre DEF Rows
  <2>2. cellAt(x, z) = cellAt(u, rowMoved(v, r)) /\ rowMoved(v, r) \in Rows
    BY <1>3, <1>4, <1>12, <2>1, RowsMoved
  <2>3. x = u /\ z = rowMoved(v, r)
    <3>1. z \in Int /\ rowMoved(v, r) \in Int
      BY <1>2, <2>2 DEF Rows
    <3>. QED BY <2>2, <3>1, CellsDiffer
  <2>4. y = v
    BY <2>3, RowsMoved DEF z
  <2>. QED BY <1>1, <2>1, <2>3, <2>4
<1>13. \E d \in Cells : movedCell(d, n) = c
  <2>1. PICK v \in Rows : rowMoved(v, r) = y
    BY RowsMoved
  <2>2. cellAt(x, v) \in Cells
    BY CellAt DEF Rows
  <2>. QED BY <1>1, <1>3, <2>1, <2>2
<1>. QED BY <1>5, <1>11, <1>12, <1>13 DEF m

(***************************************************************************)
(* Sequences, element by element.                                          *)
(***************************************************************************)
mapped(s, g) == [j \in 1..Len(s) |-> g[s[j]]]

\* To map a sequence and to change it gives the same in either order.
MapsWell(X, Y, g, s) ==
  /\ mapped(s, g) \in Seq(Y)
  /\ Len(mapped(s, g)) = Len(s)
  /\ \A j \in 1..Len(s) : mapped(s, g)[j] = g[s[j]]
  /\ \A x \in X : mapped(Append(s, x), g) = Append(mapped(s, g), g[x])
  /\ \A i \in 1..Len(s) : mapped(RemoveAt(s, i), g) = RemoveAt(mapped(s, g), i)

LEMMA Mapped ==
  ASSUME NEW X, NEW Y, NEW g \in [X -> Y], NEW s \in Seq(X)
  PROVE  MapsWell(X, Y, g, s)
<1>1. ASSUME NEW u \in Seq(X)
      PROVE  /\ mapped(u, g) \in Seq(Y)
             /\ Len(mapped(u, g)) = Len(u)
             /\ \A j \in 1..Len(u) : mapped(u, g)[j] = g[u[j]]
  <2>1. Len(u) \in Nat /\ \A j \in 1..Len(u) : u[j] \in X
    OBVIOUS
  <2>2. \A j \in 1..Len(u) : g[u[j]] \in Y
    BY <2>1
  <2>. QED BY <2>1, <2>2 DEF mapped
<1>2. ASSUME NEW x \in X PROVE mapped(Append(s, x), g) = Append(mapped(s, g), g[x])
  <2>. DEFINE a == mapped(Append(s, x), g)
              b == Append(mapped(s, g), g[x])
  <2>1. /\ Append(s, x) \in Seq(X) /\ Len(Append(s, x)) = Len(s) + 1 /\ Len(s) \in Nat
        /\ \A j \in 1..(Len(s) + 1) : Append(s, x)[j] = IF j <= Len(s) THEN s[j] ELSE x
    BY AppendProperties
  <2>2. /\ a \in Seq(Y) /\ Len(a) = Len(s) + 1
        /\ \A j \in 1..(Len(s) + 1) : a[j] = g[IF j <= Len(s) THEN s[j] ELSE x]
    <3>. DEFINE u == Append(s, x)
    <3>1. u \in Seq(X) /\ a = mapped(u, g)
      BY <2>1
    <3>. HIDE DEF u, a
    <3>2. /\ a \in Seq(Y) /\ Len(a) = Len(u)
          /\ \A j \in 1..Len(u) : a[j] = g[u[j]]
      BY <1>1, <3>1
    <3>. QED BY <2>1, <3>2 DEF u
  <2>3. g[x] \in Y /\ mapped(s, g) \in Seq(Y) /\ Len(mapped(s, g)) = Len(s)
    BY <1>1
  <2>4. /\ b \in Seq(Y) /\ Len(b) = Len(s) + 1
        /\ \A j \in 1..(Len(s) + 1) :
             b[j] = IF j <= Len(s) THEN mapped(s, g)[j] ELSE g[x]
    BY <2>3, AppendProperties
  <2>. HIDE DEF a, b
  <2>5. \A j \in 1..(Len(s) + 1) : a[j] = b[j]
    <3>1. \A j \in 1..(Len(s) + 1) : j <= Len(s) => j \in 1..Len(s)
      BY <2>1
    <3>. QED BY <1>1, <2>2, <2>4, <3>1
  <2>6. a = b
    BY <2>2, <2>4, <2>5, SeqEqual
  <2>. QED BY <2>6 DEF a, b
<1>3. ASSUME NEW i \in 1..Len(s) PROVE mapped(RemoveAt(s, i), g) = RemoveAt(mapped(s, g), i)
  <2>. DEFINE a == mapped(RemoveAt(s, i), g)
              b == RemoveAt(mapped(s, g), i)
  <2>1. /\ RemoveAt(s, i) \in Seq(X) /\ Len(RemoveAt(s, i)) = Len(s) - 1 /\ Len(s) \in Nat
        /\ \A p \in 1..(Len(s) - 1) : RemoveAt(s, i)[p] = IF p < i THEN s[p] ELSE s[p + 1]
    BY RemoveAtProperties
  <2>2. /\ a \in Seq(Y) /\ Len(a) = Len(s) - 1
        /\ \A p \in 1..(Len(s) - 1) : a[p] = g[IF p < i THEN s[p] ELSE s[p + 1]]
    BY <1>1, <2>1
  <2>3. mapped(s, g) \in Seq(Y) /\ Len(mapped(s, g)) = Len(s)
    BY <1>1
  <2>4. /\ b \in Seq(Y) /\ Len(b) = Len(s) - 1
        /\ \A p \in 1..(Len(s) - 1) :
             b[p] = IF p < i THEN mapped(s, g)[p] ELSE mapped(s, g)[p + 1]
    BY <2>3, RemoveAtProperties
  <2>. HIDE DEF a, b
  <2>5. \A p \in 1..(Len(s) - 1) : a[p] = b[p]
    <3>1. \A p \in 1..(Len(s) - 1) : p \in 1..Len(s) /\ p + 1 \in 1..Len(s)
      BY <2>1
    <3>. QED BY <1>1, <2>2, <2>4, <3>1
  <2>6. a = b
    BY <2>2, <2>4, <2>5, SeqEqual
  <2>. QED BY <2>6 DEF a, b
<1>4. /\ mapped(s, g) \in Seq(Y) /\ Len(mapped(s, g)) = Len(s)
      /\ \A j \in 1..Len(s) : mapped(s, g)[j] = g[s[j]]
  BY <1>1
<1>. QED BY <1>2, <1>3, <1>4 DEF MapsWell

\* A route of the moved maze.
LEMMA MovedRoute ==
  ASSUME NEW r \in Rows, NEW n, n = r * Width, NEW route \in Seq(Cells)
  PROVE  /\ movedRoute(route, n) \in Seq(Cells)
         /\ Len(movedRoute(route, n)) = Len(route)
         /\ \A j \in 1..Len(route) : movedRoute(route, n)[j] = movedCell(route[j], n)
         /\ \A c \in Cells :
              movedRoute(Append(route, c), n) = Append(movedRoute(route, n), movedCell(c, n))
<1>. DEFINE g == [c \in Cells |-> movedCell(c, n)]
<1>1. g \in [Cells -> Cells] /\ \A c \in Cells : g[c] = movedCell(c, n)
  BY MovedCells
<1>. HIDE DEF g
<1>2. ASSUME NEW u \in Seq(Cells) PROVE movedRoute(u, n) = mapped(u, g)
  <2>1. \A j \in 1..Len(u) : u[j] \in Cells
    OBVIOUS
  <2>2. \A j \in 1..Len(u) : movedCell(u[j], n) = g[u[j]]
    BY <1>1, <2>1
  <2>. QED BY <2>2 DEF movedRoute, mapped
<1>3. /\ mapped(route, g) \in Seq(Cells) /\ Len(mapped(route, g)) = Len(route)
      /\ \A j \in 1..Len(route) : mapped(route, g)[j] = g[route[j]]
      /\ \A c \in Cells : mapped(Append(route, c), g) = Append(mapped(route, g), g[c])
  <2>1. MapsWell(Cells, Cells, g, route)
    BY <1>1, Mapped
  <2>. QED BY <2>1 DEF MapsWell
<1>4. \A c \in Cells : Append(route, c) \in Seq(Cells)
  OBVIOUS
<1>5. \A j \in 1..Len(route) : route[j] \in Cells
  OBVIOUS
<1>. QED BY <1>1, <1>2, <1>3, <1>4, <1>5

\* The list of the routes of the moved maze.
LEMMA MovedRoutes ==
  ASSUME NEW r \in Rows, NEW n, n = r * Width, NEW R \in Seq(Seq(Cells))
  PROVE  /\ movedRoutes(R, n) \in Seq(Seq(Cells))
         /\ Len(movedRoutes(R, n)) = Len(R)
         /\ \A j \in 1..Len(R) : movedRoutes(R, n)[j] = movedRoute(R[j], n)
         /\ \A route \in Seq(Cells) :
              movedRoutes(Append(R, route), n) = Append(movedRoutes(R, n), movedRoute(route, n))
         /\ \A i \in 1..Len(R) : movedRoutes(RemoveAt(R, i), n) = RemoveAt(movedRoutes(R, n), i)
<1>. DEFINE X == Seq(Cells)
            g == [route \in X |-> movedRoute(route, n)]
<1>1. g \in [X -> X] /\ \A route \in X : g[route] = movedRoute(route, n)
  BY MovedRoute
<1>. HIDE DEF g, X
<1>2. ASSUME NEW U \in Seq(X) PROVE movedRoutes(U, n) = mapped(U, g)
  <2>1. \A j \in 1..Len(U) : U[j] \in X
    OBVIOUS
  <2>2. \A j \in 1..Len(U) : movedRoute(U[j], n) = g[U[j]]
    BY <1>1, <2>1
  <2>. QED BY <2>2 DEF movedRoutes, mapped
<1>3. R \in Seq(X)
  BY DEF X
<1>4. /\ mapped(R, g) \in Seq(X) /\ Len(mapped(R, g)) = Len(R)
      /\ \A j \in 1..Len(R) : mapped(R, g)[j] = g[R[j]]
      /\ \A route \in X : mapped(Append(R, route), g) = Append(mapped(R, g), g[route])
      /\ \A i \in 1..Len(R) : mapped(RemoveAt(R, i), g) = RemoveAt(mapped(R, g), i)
  <2>1. MapsWell(X, X, g, R)
    BY <1>1, <1>3, Mapped
  <2>. QED BY <2>1 DEF MapsWell
<1>5. \A route \in X : Append(R, route) \in Seq(X)
  BY <1>3
<1>6. \A i \in 1..Len(R) : RemoveAt(R, i) \in Seq(X)
  BY <1>3, RemoveAtProperties
<1>7. \A j \in 1..Len(R) : R[j] \in X
  BY <1>3
<1>. QED BY <1>1, <1>2, <1>3, <1>4, <1>5, <1>6, <1>7 DEF X

(***************************************************************************)
(* The search in the moved maze.                                           *)
(***************************************************************************)

\* N is the matrix M moved down by n cells.
MovedMatrix(M, N, n) == \A c \in Cells : N[movedCell(c, n)] = M[c]

LEMMA CanPassMoved ==
  ASSUME NEW r \in Rows, NEW n, n = r * Width, NEW M, NEW N, MovedMatrix(M, N, n),
         NEW entrance \in Cells, NEW exit \in Cells, NEW c \in Cells, NEW s
  PROVE  canPass(N, movedCell(entrance, n), movedCell(exit, n), movedCell(c, n), s)
           <=> canPass(M, entrance, exit, c, s)
<1>1. /\ movedCell(c, n) = movedCell(entrance, n) <=> c = entrance
      /\ movedCell(c, n) = movedCell(exit, n) <=> c = exit
  BY MovedCells
<1>2. N[movedCell(c, n)] = M[c]
  BY DEF MovedMatrix
<1>. QED BY <1>1, <1>2 DEF canPass

\* The variables of the search in the moved maze.
LEMMA MovedSearch ==
  ASSUME NEW r \in Rows, NEW n, n = r * Width, NEW S \in SearchStates
  PROVE  LET T == movedSearch(S, n)
         IN  /\ T \in SearchStates
             /\ T.vRoutes = movedRoutes(S.vRoutes, n)
             /\ T.vVisited = {movedCell(c, n) : c \in S.vVisited}
             /\ T.vBestRoute = movedRoute(S.vBestRoute, n)
             /\ T.bFound = S.bFound /\ T.bErase = S.bErase /\ T.thrown = S.thrown
             /\ Len(T.vRoutes) = Len(S.vRoutes)
             /\ \A c \in Cells : movedCell(c, n) \in T.vVisited <=> c \in S.vVisited
             /\ \A j \in 1..Len(S.vRoutes) :
                  /\ T.vRoutes[j] = movedRoute(S.vRoutes[j], n)
                  /\ S.vRoutes[j] # << >> =>
                       /\ Last(S.vRoutes[j]) \in Cells
                       /\ Last(T.vRoutes[j]) = movedCell(Last(S.vRoutes[j]), n)
<1>. DEFINE T == movedSearch(S, n)
<1>1. /\ S.vRoutes \in Seq(Seq(Cells)) /\ S.vVisited \subseteq Cells
      /\ S.vBestRoute \in Seq(Cells)
  BY DEF SearchStates
<1>2. /\ T.vRoutes = movedRoutes(S.vRoutes, n)
      /\ T.vVisited = {movedCell(c, n) : c \in S.vVisited}
      /\ T.vBestRoute = movedRoute(S.vBestRoute, n)
      /\ T.bFound = S.bFound /\ T.bErase = S.bErase /\ T.thrown = S.thrown
  BY DEF movedSearch, SearchStates
<1>3. /\ movedRoutes(S.vRoutes, n) \in Seq(Seq(Cells))
      /\ Len(movedRoutes(S.vRoutes, n)) = Len(S.vRoutes)
      /\ \A j \in 1..Len(S.vRoutes) :
           movedRoutes(S.vRoutes, n)[j] = movedRoute(S.vRoutes[j], n)
  BY <1>1, MovedRoutes
<1>4. movedRoute(S.vBestRoute, n) \in Seq(Cells)
  BY <1>1, MovedRoute
<1>5. {movedCell(c, n) : c \in S.vVisited} \subseteq Cells
  BY <1>1, MovedCells
<1>6. T \in SearchStates
  <2>1. T = [S EXCEPT !.vRoutes = movedRoutes(S.vRoutes, n),
                      !.vVisited = {movedCell(c, n) : c \in S.vVisited},
                      !.vBestRoute = movedRoute(S.vBestRoute, n)]
    BY DEF movedSearch, SearchStates
  <2>. HIDE DEF T
  <2>. QED BY <1>3, <1>4, <1>5, <2>1 DEF SearchStates
<1>7. \A c \in Cells : movedCell(c, n) \in T.vVisited <=> c \in S.vVisited
  <2>1. \A c, d \in Cells : movedCell(c, n) = movedCell(d, n) => c = d
    BY MovedCells
  <2>. QED BY <1>1, <1>2, <2>1
<1>8. ASSUME NEW j \in 1..Len(S.vRoutes), S.vRoutes[j] # << >>
      PROVE  /\ Last(S.vRoutes[j]) \in Cells
             /\ Last(movedRoute(S.vRoutes[j], n)) = movedCell(Last(S.vRoutes[j]), n)
  <2>1. S.vRoutes[j] \in Seq(Cells)
    BY <1>1, ElementOfSeq
  <2>. DEFINE route == S.vRoutes[j]
  <2>2. route # << >>
    BY <1>8
  <2>. HIDE DEF route
  <2>3. Len(route) \in 1..Len(route) /\ route[Len(route)] \in Cells
    BY <2>1, <2>2 DEF route
  <2>4. /\ Len(movedRoute(route, n)) = Len(route)
        /\ movedRoute(route, n)[Len(route)] = movedCell(route[Len(route)], n)
    BY <2>1, <2>3, MovedRoute DEF route
  <2>. QED BY <2>3, <2>4 DEF Last, route
<1>. HIDE DEF T
<1>. QED BY <1>2, <1>3, <1>6, <1>7, <1>8 DEF T

\* The cell that extends a route is moved with the route.
LEMMA AppendMoved ==
  ASSUME NEW r \in Rows, NEW n, n = r * Width, NEW S \in SearchStates,
         NEW i \in 1..Len(S.vRoutes), NEW exit \in Cells, NEW next \in Cells
  PROVE  appendRoute(movedCell(exit, n), movedSearch(S, n), i, movedCell(next, n))
           = movedSearch(appendRoute(exit, S, i, next), n)
<1>. DEFINE T == movedSearch(S, n)
            mv(c) == movedCell(c, n)
            R == S.vRoutes
            B == S.bErase
            x == Append(R[i], next)
            y == Append(T.vRoutes[i], mv(next))
            arrived == ~S.bFound /\ next = exit
            E == IF B # << >> /\ B[Len(B)] = i THEN B ELSE Append(B, i)
<1>1. /\ T \in SearchStates /\ T.vRoutes = movedRoutes(R, n)
      /\ T.vVisited = {mv(c) : c \in S.vVisited}
      /\ T.vBestRoute = movedRoute(S.vBestRoute, n)
      /\ T.bFound = S.bFound /\ T.bErase = B /\ T.thrown = S.thrown
      /\ T.vRoutes[i] = movedRoute(R[i], n)
  BY MovedSearch
<1>2. R \in Seq(Seq(Cells)) /\ R[i] \in Seq(Cells) /\ x \in Seq(Cells)
  <2>1. R \in Seq(Seq(Cells))
    BY DEF SearchStates
  <2>2. R[i] \in Seq(Cells)
    BY <2>1, ElementOfSeq
  <2>. QED BY <2>1, <2>2
<1>3. y = movedRoute(x, n)
  BY <1>1, <1>2, MovedRoute
<1>4. Append(T.vRoutes, y) = movedRoutes(Append(R, x), n)
  BY <1>1, <1>2, <1>3, MovedRoutes
<1>5. T.vVisited \cup {mv(next)} = {mv(c) : c \in S.vVisited \cup {next}}
  BY <1>1
<1>6. mv(next) = mv(exit) <=> next = exit
  BY MovedCells
<1>7. (IF arrived THEN y ELSE T.vBestRoute)
        = movedRoute(IF arrived THEN x ELSE S.vBestRoute, n)
  BY <1>1, <1>3
<1>8. appendRoute(exit, S, i, next)
        = [S EXCEPT !.vRoutes = Append(R, x), !.vVisited = S.vVisited \cup {next},
                    !.bErase = E, !.bFound = S.bFound \/ arrived,
                    !.vBestRoute = IF arrived THEN x ELSE S.vBestRoute]
  BY DEF appendRoute, SearchStates
<1>9. appendRoute(mv(exit), T, i, mv(next))
        = [T EXCEPT !.vRoutes = Append(T.vRoutes, y), !.vVisited = T.vVisited \cup {mv(next)},
                    !.bErase = E, !.bFound = S.bFound \/ arrived,
                    !.vBestRoute = IF arrived THEN y ELSE T.vBestRoute]
  <2>. HIDE DEF T, mv
  <2>. QED BY <1>1, <1>6 DEF appendRoute, SearchStates
<1>. DEFINE U == appendRoute(exit, S, i, next)
<1>10. /\ U.vRoutes = Append(R, x) /\ U.vVisited = S.vVisited \cup {next}
       /\ U.vBestRoute = IF arrived THEN x ELSE S.vBestRoute
  BY <1>8 DEF SearchStates
<1>12. movedSearch(U, n)
         = [U EXCEPT !.vRoutes = movedRoutes(U.vRoutes, n),
                     !.vVisited = {mv(c) : c \in U.vVisited},
                     !.vBestRoute = movedRoute(U.vBestRoute, n)]
  BY <1>8 DEF movedSearch, SearchStates
<1>. DEFINE P == Append(T.vRoutes, y)
            Q == T.vVisited \cup {mv(next)}
            W == IF arrived THEN y ELSE T.vBestRoute
            F == S.bFound \/ arrived
<1>13. movedSearch(U, n) = [U EXCEPT !.vRoutes = P, !.vVisited = Q, !.vBestRoute = W]
  BY <1>4, <1>5, <1>7, <1>10, <1>12
<1>14. U = [vRoutes |-> Append(R, x), vVisited |-> S.vVisited \cup {next},
             vBestRoute |-> IF arrived THEN x ELSE S.vBestRoute,
             bFound |-> F, bErase |-> E, thrown |-> S.thrown]
  BY <1>8 DEF SearchStates
<1>15. movedSearch(U, n) = [vRoutes |-> P, vVisited |-> Q, vBestRoute |-> W,
                            bFound |-> F, bErase |-> E, thrown |-> S.thrown]
  <2>. HIDE DEF P, Q, W, F, E, U, T, x, y, mv, arrived
  <2>. QED BY <1>13, <1>14
<1>16. appendRoute(mv(exit), T, i, mv(next))
         = [vRoutes |-> P, vVisited |-> Q, vBestRoute |-> W,
            bFound |-> F, bErase |-> E, thrown |-> S.thrown]
  <2>. HIDE DEF E, T, x, y, mv, arrived
  <2>. QED BY <1>1, <1>9 DEF SearchStates
<1>. QED BY <1>15, <1>16

LEMMA ExtendToMoved ==
  ASSUME NEW r \in Rows, NEW n, n = r * Width, NEW M, NEW N, MovedMatrix(M, N, n),
         NEW entrance \in Cells, NEW exit \in Cells, NEW S \in SearchStates,
         NEW i \in 1..Len(S.vRoutes), S.vRoutes[i] # << >>, NEW s \in Sides
  PROVE  extendTo(N, movedCell(entrance, n), movedCell(exit, n), movedSearch(S, n), i, s)
           = movedSearch(extendTo(M, entrance, exit, S, i, s), n)
<1>. DEFINE mv(c) == movedCell(c, n)
            T == movedSearch(S, n)
            c == Last(S.vRoutes[i])
            next == stepTo(c, s)
            pass == canPass(M, entrance, exit, c, s)
            E == extendTo(M, entrance, exit, S, i, s)
            F == extendTo(N, mv(entrance), mv(exit), T, i, s)
<1>1. /\ c \in Cells /\ Last(T.vRoutes[i]) = mv(c) /\ T.thrown = S.thrown
      /\ T \in SearchStates
      /\ \A d \in Cells : mv(d) \in T.vVisited <=> d \in S.vVisited
  BY MovedSearch
<1>2. canPass(N, mv(entrance), mv(exit), mv(c), s) <=> pass
  <2>. HIDE DEF c
  <2>. QED BY <1>1, CanPassMoved
<1>3. /\ next \in Cells \cup {-1}
      /\ stepTo(mv(c), s) = IF next = -1 THEN -1 ELSE mv(next)
  <2>. HIDE DEF c
  <2>. QED BY <1>1, StepToType, MovedCells
<1>4. mv(next) # -1 \/ next = -1
  <2>1. next \in Cells => mv(next) \in Cells
    <3>. HIDE DEF next
    <3>. QED BY MovedCells
  <2>2. -1 \notin Cells
    BY DEF Cells
  <2>. QED BY <1>3, <2>1, <2>2
<1>5. E = IF S.thrown \/ ~pass THEN S
          ELSE IF next = -1 THEN [S EXCEPT !.thrown = TRUE]
          ELSE IF next \in S.vVisited THEN S
          ELSE appendRoute(exit, S, i, next)
  BY DEF extendTo
<1>6. F = IF S.thrown \/ ~pass THEN T
          ELSE IF next = -1 THEN [T EXCEPT !.thrown = TRUE]
          ELSE IF mv(next) \in T.vVisited THEN T
          ELSE appendRoute(mv(exit), T, i, mv(next))
  <2>1. F = LET u == Last(T.vRoutes[i])
                v == stepTo(u, s)
            IN  IF T.thrown \/ ~canPass(N, mv(entrance), mv(exit), u, s) THEN T
                ELSE IF v = -1 THEN [T EXCEPT !.thrown = TRUE]
                ELSE IF v \in T.vVisited THEN T
                ELSE appendRoute(mv(exit), T, i, v)
    BY DEF extendTo
  <2>. HIDE DEF F, T, next, c, pass, mv
  <2>. QED BY <1>1, <1>2, <1>3, <1>4, <2>1
<1>7. [T EXCEPT !.thrown = TRUE] = movedSearch([S EXCEPT !.thrown = TRUE], n)
  BY DEF movedSearch, SearchStates
<1>8. next # -1 => appendRoute(mv(exit), T, i, mv(next))
                     = movedSearch(appendRoute(exit, S, i, next), n)
  <2>. HIDE DEF next
  <2>. QED BY <1>3, AppendMoved
<1>9. next # -1 => (mv(next) \in T.vVisited <=> next \in S.vVisited)
  <2>. HIDE DEF next, T, mv
  <2>. QED BY <1>1, <1>3
<1>10. F = movedSearch(E, n)
  <2>1. T = movedSearch(S, n)
    OBVIOUS
  <2>. HIDE DEF E, F, T, next, pass, mv
  <2>. QED BY <1>5, <1>6, <1>7, <1>8, <1>9, <2>1
<1>. QED BY <1>10

LEMMA ExtendRouteMoved ==
  ASSUME NEW r \in Rows, NEW n, n = r * Width, NEW M, NEW N, MovedMatrix(M, N, n),
         NEW entrance \in Cells, NEW exit \in Cells, NEW S, NEW m, NEW l,
         NEW i \in 1..m, SearchInv(M, entrance, exit, S, m, i - 1, i, l)
  PROVE  extendRoute(N, movedCell(entrance, n), movedCell(exit, n), movedSearch(S, n), i)
           = movedSearch(extendRoute(M, entrance, exit, S, i), n)
<1>. DEFINE Inv(U) == SearchInv(M, entrance, exit, U, m, i, i, l)
            To(U, s) == extendTo(M, entrance, exit, U, i, s)
            Moved(U, s) == extendTo(N, movedCell(entrance, n), movedCell(exit, n), U, i, s)
            mv(U) == movedSearch(U, n)
<1>1. Inv(S)
  <2>1. m \in Nat
    BY DEF SearchInv, SearchStates
  <2>2. 1..(i - 1) \subseteq 1..i
    BY <2>1
  <2>3. Erasure(S, m, i - 1) => Erasure(S, m, i)
    BY <2>2 DEF Erasure
  <2>. QED BY <2>3 DEF SearchInv
<1>2. \A s \in Sides : \A U : Inv(U) => Inv(To(U, s))
  BY ExtendToInv
<1>3. ASSUME NEW s \in Sides, NEW U, Inv(U) PROVE Moved(mv(U), s) = mv(To(U, s))
  <2>1. /\ U \in SearchStates /\ m \in 0..Len(U.vRoutes)
        /\ \A j \in 1..Len(U.vRoutes) : Len(U.vRoutes[j]) > 0
    BY <1>3 DEF SearchInv, Paths, IsRoute
  <2>2. i \in 1..Len(U.vRoutes)
    <3>1. Len(U.vRoutes) \in Nat
      BY <2>1 DEF SearchStates
    <3>. QED BY <2>1, <3>1
  <2>3. U.vRoutes[i] # << >>
    BY <2>1, <2>2
  <2>. QED BY <2>1, <2>2, <2>3, ExtendToMoved
<1>4. 0 \in Sides /\ 1 \in Sides /\ 2 \in Sides /\ 3 \in Sides
  BY DEF Sides
<1>. DEFINE T0 == To(S, 0)
            T1 == To(T0, 1)
            T2 == To(T1, 2)
            T == To(T2, 3)
<1>5. T = extendRoute(M, entrance, exit, S, i)
  BY DEF extendRoute
<1>6. Moved(Moved(Moved(Moved(mv(S), 0), 1), 2), 3)
        = extendRoute(N, movedCell(entrance, n), movedCell(exit, n), movedSearch(S, n), i)
  BY DEF extendRoute
<1>. HIDE DEF Inv, To, Moved, mv
<1>7. Inv(T0) /\ Moved(mv(S), 0) = mv(T0)
  BY <1>1, <1>2, <1>3, <1>4
<1>8. Inv(T1) /\ Moved(mv(T0), 1) = mv(T1)
  <2>. HIDE DEF T0
  <2>. QED BY <1>2, <1>3, <1>4, <1>7
<1>9. Inv(T2) /\ Moved(mv(T1), 2) = mv(T2)
  <2>. HIDE DEF T1
  <2>. QED BY <1>2, <1>3, <1>4, <1>8
<1>10. Moved(mv(T2), 3) = mv(T)
  <2>. HIDE DEF T2
  <2>. QED BY <1>3, <1>4, <1>9
<1>. QED BY <1>5, <1>6, <1>7, <1>8, <1>9, <1>10 DEF mv

\* The moved routes are erased as the routes are.
LEMMA EraseMoved ==
  ASSUME NEW r \in Rows, NEW n, n = r * Width, NEW S \in SearchStates,
         \A e \in 1..Len(S.bErase) : S.bErase[e] \in 1..Len(S.vRoutes),
         \A e \in 2..Len(S.bErase) : S.bErase[e - 1] < S.bErase[e]
  PROVE  eraseRoutes(movedSearch(S, n)) = movedSearch(eraseRoutes(S), n)
<1>. DEFINE T == movedSearch(S, n)
            B == S.bErase
            m == Len(B)
            E == erasedStates(S)
            F == erasedStates(T)
            D == [e \in 0..m |-> {movedRoutes(E[e], n)}]
<1>1. /\ T \in SearchStates /\ T.bErase = B /\ T.vRoutes = movedRoutes(S.vRoutes, n)
      /\ Len(T.vRoutes) = Len(S.vRoutes)
  BY MovedSearch
<1>2. m \in Nat
  BY DEF SearchStates
<1>3. /\ eraseRoutes(S) = [S EXCEPT !.vRoutes = E[m]]
      /\ E[0] = S.vRoutes
      /\ \A e \in 1..m : /\ E[e] = RemoveAt(E[e - 1], B[m + 1 - e])
                         /\ B[m + 1 - e] \in 1..Len(E[e - 1])
      /\ \A e \in 0..m : E[e] \in Seq(Seq(Cells))
  BY ErasedStates
<1>4. /\ eraseRoutes(T) = [T EXCEPT !.vRoutes = F[m]]
      /\ F[0] = T.vRoutes
      /\ \A e \in 1..m : F[e] = RemoveAt(F[e - 1], B[m + 1 - e])
  <2>1. /\ \A e \in 1..Len(T.bErase) : T.bErase[e] \in 1..Len(T.vRoutes)
        /\ \A e \in 2..Len(T.bErase) : T.bErase[e - 1] < T.bErase[e]
    BY <1>1
  <2>. HIDE DEF T
  <2>2. LET G == erasedStates(T)
            j == Len(T.bErase)
        IN  /\ eraseRoutes(T) = [T EXCEPT !.vRoutes = G[j]]
            /\ G[0] = T.vRoutes
            /\ \A e \in 1..j : G[e] = RemoveAt(G[e - 1], T.bErase[j + 1 - e])
    BY <1>1, <2>1, ErasedStates
  <2>. QED BY <1>1, <2>2
<1>. HIDE DEF T, E, F, B, m
<1>5. F[0] \in D[0]
  BY <1>1, <1>2, <1>3, <1>4
<1>6. ASSUME NEW e \in 1..m, F[e - 1] \in D[e - 1] PROVE F[e] \in D[e]
  <2>. DEFINE p == B[m + 1 - e]
              U == E[e - 1]
  <2>1. e - 1 \in 0..m /\ e \in 0..m
    BY <1>2
  <2>2. U \in Seq(Seq(Cells)) /\ p \in 1..Len(U) /\ E[e] = RemoveAt(U, p)
    BY <1>3, <2>1
  <2>3. F[e - 1] = movedRoutes(U, n)
    BY <1>6, <2>1
  <2>4. F[e] = RemoveAt(movedRoutes(U, n), p)
    BY <1>4, <2>3
  <2>. HIDE DEF p, U, D
  <2>5. RemoveAt(movedRoutes(U, n), p) = movedRoutes(RemoveAt(U, p), n)
    BY <2>2, MovedRoutes
  <2>6. F[e] = movedRoutes(E[e], n)
    BY <2>2, <2>4, <2>5
  <2>. QED BY <2>1, <2>6 DEF D
<1>7. F[m] = movedRoutes(E[m], n)
  <2>1. \A e \in 0..m : F[e] \in D[e]
    <3>. HIDE DEF D
    <3>. QED BY <1>2, <1>5, <1>6, StepInduction
  <2>2. m \in 0..m
    BY <1>2
  <2>. QED BY <2>1, <2>2
<1>. DEFINE Q == E[m]
<1>8. movedSearch([S EXCEPT !.vRoutes = Q], n) = [T EXCEPT !.vRoutes = movedRoutes(Q, n)]
  BY DEF T, movedSearch, SearchStates
<1>. QED BY <1>3, <1>4, <1>7, <1>8 DEF T

LEMMA StartMoved ==
  ASSUME NEW r \in Rows, NEW n, n = r * Width, NEW entrance \in Cells
  PROVE  movedSearch(startSearch(entrance), n) = startSearch(movedCell(entrance, n))
<1>. DEFINE S == startSearch(entrance)
            b == <<entrance>>
            m == movedCell(entrance, n)
<1>1. /\ S.vRoutes = <<b>> /\ S.vVisited = {entrance} /\ S.vBestRoute = << >>
  BY DEF startSearch
<1>2. /\ movedRoute(b, n) = <<m>>
      /\ movedRoute(<< >>, n) = << >>
  BY DEF movedRoute
<1>3. movedRoutes(<<b>>, n) = << <<m>> >>
  <2>. HIDE DEF b
  <2>. QED BY <1>2 DEF movedRoutes
<1>4. movedSearch(S, n)
        = [S EXCEPT !.vRoutes = << <<m>> >>, !.vVisited = {m}, !.vBestRoute = << >>]
  <2>1. movedSearch(S, n)
          = [S EXCEPT !.vRoutes = movedRoutes(S.vRoutes, n),
                      !.vVisited = {movedCell(c, n) : c \in S.vVisited},
                      !.vBestRoute = movedRoute(S.vBestRoute, n)]
    BY DEF movedSearch, startSearch
  <2>2. {movedCell(c, n) : c \in {entrance}} = {m}
    OBVIOUS
  <2>. HIDE DEF S, b, m
  <2>. QED BY <1>1, <1>2, <1>3, <2>1, <2>2
<1>. QED BY <1>4 DEF startSearch

\* A round in the moved maze extends and erases the same routes.
LEMMA RoundMoved ==
  ASSUME NEW r \in Rows, NEW n, n = r * Width, NEW M, NEW N, MovedMatrix(M, N, n),
         NEW entrance \in Cells, NEW exit \in Cells, NEW S \in SearchStates, NEW l,
         RoundBegins(M, entrance, exit, S, l),
         RoundBegins(N, movedCell(entrance, n), movedCell(exit, n), movedSearch(S, n), l)
  PROVE  searchRound(N, movedCell(entrance, n), movedCell(exit, n), movedSearch(S, n))
           = movedSearch(searchRound(M, entrance, exit, S), n)
<1>. DEFINE a == movedCell(entrance, n)
            z == movedCell(exit, n)
            T == movedSearch(S, n)
            m == Len(S.vRoutes)
            U == roundStates(M, entrance, exit, S)
            V == roundStates(N, a, z, T)
            D == [i \in 0..m |-> {movedSearch(U[i], n)}]
<1>1. a \in Cells /\ T \in SearchStates /\ Len(T.vRoutes) = m /\ m \in Nat
  <2>1. m \in Nat
    BY DEF SearchStates
  <2>. QED BY <2>1, MovedCells, MovedSearch
<1>2. IsRound(M, entrance, exit, S, l, U)
  BY RoundStates
<1>3. IsRound(N, a, z, T, l, V)
  <2>. HIDE DEF T, a, z
  <2>1. RoundBegins(N, a, z, T, l)
    BY DEF T, a, z
  <2>. QED BY <1>1, <2>1, RoundStates
<1>4. /\ U[0] = [S EXCEPT !.bErase = << >>]
      /\ \A i \in 1..m : U[i] = extendRoute(M, entrance, exit, U[i - 1], i)
      /\ \A i \in 0..m : SearchInv(M, entrance, exit, U[i], m, i, i + 1, l)
  BY <1>2 DEF IsRound
<1>5. /\ V[0] = [T EXCEPT !.bErase = << >>]
      /\ \A i \in 1..m : V[i] = extendRoute(N, a, z, V[i - 1], i)
  <2>. HIDE DEF T, a, z, V
  <2>. QED BY <1>1, <1>3 DEF IsRound
<1>6. V[0] = movedSearch(U[0], n)
  <2>1. movedSearch([S EXCEPT !.bErase = << >>], n) = [T EXCEPT !.bErase = << >>]
    BY DEF movedSearch, SearchStates
  <2>. HIDE DEF T, U, V
  <2>. QED BY <1>4, <1>5, <2>1
<1>. HIDE DEF U, V, m
<1>7. ASSUME NEW i \in 1..m, V[i - 1] = movedSearch(U[i - 1], n)
      PROVE  V[i] = movedSearch(U[i], n)
  <2>. DEFINE W == U[i - 1]
  <2>1. i - 1 \in 0..m /\ i - 1 + 1 = i
    BY <1>1
  <2>2. SearchInv(M, entrance, exit, W, m, i - 1, i, l)
    BY <1>4, <2>1
  <2>3. U[i] = extendRoute(M, entrance, exit, W, i) /\ V[i] = extendRoute(N, a, z, V[i - 1], i)
    BY <1>4, <1>5
  <2>. HIDE DEF W
  <2>4. extendRoute(N, a, z, movedSearch(W, n), i)
          = movedSearch(extendRoute(M, entrance, exit, W, i), n)
    BY <2>2, ExtendRouteMoved
  <2>. QED BY <1>7, <2>3, <2>4 DEF W
<1>8. V[m] = movedSearch(U[m], n)
  <2>1. V[0] \in D[0]
    BY <1>1, <1>6
  <2>2. \A i \in 1..m : V[i - 1] \in D[i - 1] => V[i] \in D[i]
    <3>1. \A i \in 1..m : i - 1 \in 0..m /\ i \in 0..m
      BY <1>1
    <3>. QED BY <1>7, <3>1
  <2>3. \A i \in 0..m : V[i] \in D[i]
    <3>. HIDE DEF D
    <3>. QED BY <1>1, <2>1, <2>2, StepInduction
  <2>4. m \in 0..m
    BY <1>1
  <2>. QED BY <2>3, <2>4
<1>9. searchRound(M, entrance, exit, S) = IF U[m].thrown THEN U[m] ELSE eraseRoutes(U[m])
  BY Zenon DEF searchRound, roundStates, U, m
<1>10. searchRound(N, a, z, T) = IF V[m].thrown THEN V[m] ELSE eraseRoutes(V[m])
  <2>1. searchRound(N, a, z, T)
          = IF V[Len(T.vRoutes)].thrown THEN V[Len(T.vRoutes)] ELSE eraseRoutes(V[Len(T.vRoutes)])
    <3>. HIDE DEF T, a, z
    <3>. QED BY Zenon DEF searchRound, roundStates, V
  <2>. QED BY <1>1, <2>1
<1>11. /\ U[m] \in SearchStates
       /\ \A e \in 1..Len(U[m].bErase) : U[m].bErase[e] \in 1..Len(U[m].vRoutes)
       /\ \A e \in 2..Len(U[m].bErase) : U[m].bErase[e - 1] < U[m].bErase[e]
  <2>. DEFINE W == U[m]
  <2>1. SearchInv(M, entrance, exit, W, m, m, m + 1, l)
    BY <1>1, <1>4
  <2>. HIDE DEF W
  <2>2. W \in SearchStates /\ m \in 0..Len(W.vRoutes) /\ Erasure(W, m, m)
    BY <2>1 DEF SearchInv
  <2>3. 1..m \subseteq 1..Len(W.vRoutes)
    <3>1. Len(W.vRoutes) \in Nat
      BY <2>2 DEF SearchStates
    <3>. QED BY <2>2, <3>1
  <2>4. /\ W \in SearchStates
        /\ \A e \in 1..Len(W.bErase) : W.bErase[e] \in 1..Len(W.vRoutes)
        /\ \A e \in 2..Len(W.bErase) : W.bErase[e - 1] < W.bErase[e]
    BY <2>2, <2>3 DEF Erasure
  <2>. QED BY <2>4 DEF W
<1>12. /\ V[m].thrown = U[m].thrown
       /\ eraseRoutes(V[m]) = movedSearch(eraseRoutes(U[m]), n)
  BY <1>8, <1>11, MovedSearch, EraseMoved
<1>. HIDE DEF T, a, z
<1>13. searchRound(N, a, z, T) = movedSearch(searchRound(M, entrance, exit, S), n)
  BY <1>8, <1>9, <1>10, <1>12
<1>. QED BY <1>13 DEF T, a, z

\* In a maze that is moved down by any number of rows the search of updateRoutes
\* comes to the same result, moved: the same routes in the same order, the same
\* best route, the same exception.
THEOREM SearchMoved ==
  ASSUME NEW r \in Rows, NEW n, n = r * Width, NEW M, NEW N, MovedMatrix(M, N, n),
         NEW entrance \in Cells, NEW exit \in Cells
  PROVE  updateRoutes(N, movedCell(entrance, n), movedCell(exit, n))
           = movedSearch(updateRoutes(M, entrance, exit), n)
<1>. DEFINE a == movedCell(entrance, n)
            z == movedCell(exit, n)
            t == totalCells
            U == searchStates(M, entrance, exit)
            V == searchStates(N, a, z)
            D == [j \in 0..t |-> {movedSearch(U[j], n)}]
<1>1. t \in Nat /\ a \in Cells
  BY SizeFacts, MovedCells
<1>2. updateRoutes(M, entrance, exit) = U[t] /\ updateRoutes(N, a, z) = V[t]
  <2>. HIDE DEF a, z
  <2>. QED BY Zenon DEF updateRoutes, searchStates
<1>3. /\ U[0] = startSearch(entrance)
      /\ \A j \in 1..t : U[j] = IF U[j - 1].thrown \/ (j > 1 /\ U[j - 1].bErase = << >>)
                                THEN U[j - 1] ELSE searchRound(M, entrance, exit, U[j - 1])
      /\ \A j \in 0..t : SearchAfter(M, entrance, exit, U[j], j)
  BY SearchStatesAfter
<1>4. /\ V[0] = startSearch(a)
      /\ \A j \in 1..t : V[j] = IF V[j - 1].thrown \/ (j > 1 /\ V[j - 1].bErase = << >>)
                                THEN V[j - 1] ELSE searchRound(N, a, z, V[j - 1])
      /\ \A j \in 0..t : SearchAfter(N, a, z, V[j], j)
  <2>. HIDE DEF a, z
  <2>. QED BY <1>1, SearchStatesAfter
<1>5. V[0] = movedSearch(U[0], n)
  BY <1>3, <1>4, StartMoved
<1>. HIDE DEF U, V
<1>6. ASSUME NEW j \in 1..t, V[j - 1] = movedSearch(U[j - 1], n)
      PROVE  V[j] = movedSearch(U[j], n)
  <2>. DEFINE S == U[j - 1]
              T == movedSearch(S, n)
  <2>1. j - 1 \in 0..t /\ (j > 1 <=> j - 1 # 0)
    BY <1>1
  <2>2. SearchAfter(M, entrance, exit, S, j - 1) /\ SearchAfter(N, a, z, T, j - 1)
    BY <1>3, <1>4, <1>6, <2>1
  <2>3. /\ U[j] = IF S.thrown \/ (j > 1 /\ S.bErase = << >>)
                  THEN S ELSE searchRound(M, entrance, exit, S)
        /\ V[j] = IF T.thrown \/ (j > 1 /\ T.bErase = << >>)
                  THEN T ELSE searchRound(N, a, z, T)
    BY <1>3, <1>4, <1>6
  <2>. HIDE DEF S
  <2>4. S \in SearchStates
    BY <2>2 DEF SearchAfter
  <2>5. T.thrown = S.thrown /\ T.bErase = S.bErase
    BY <2>4, MovedSearch
  <2>6. CASE S.thrown \/ (j > 1 /\ S.bErase = << >>)
    <3>1. U[j] = S /\ V[j] = T
      BY <2>3, <2>5, <2>6
    <3>. QED BY <3>1
  <2>7. CASE ~(S.thrown \/ (j > 1 /\ S.bErase = << >>))
    <3>1. RoundBegins(M, entrance, exit, S, j - 1) /\ RoundBegins(N, a, z, T, j - 1)
      <4>. HIDE DEF T, a, z
      <4>. QED BY <2>1, <2>2, <2>5, <2>7 DEF SearchAfter
    <3>2. searchRound(N, a, z, T) = movedSearch(searchRound(M, entrance, exit, S), n)
      BY <2>4, <3>1, RoundMoved
    <3>. HIDE DEF T, a, z
    <3>. QED BY <2>3, <2>5, <2>7, <3>2
  <2>. QED BY <2>6, <2>7
<1>7. V[t] = movedSearch(U[t], n)
  <2>1. V[0] \in D[0]
    BY <1>1, <1>5
  <2>2. \A j \in 1..t : V[j - 1] \in D[j - 1] => V[j] \in D[j]
    <3>1. \A j \in 1..t : j - 1 \in 0..t /\ j \in 0..t
      BY <1>1
    <3>. QED BY <1>6, <3>1
  <2>3. \A j \in 0..t : V[j] \in D[j]
    <3>. HIDE DEF D
    <3>. QED BY <1>1, <2>1, <2>2, StepInduction
  <2>4. t \in 0..t
    BY <1>1
  <2>. QED BY <2>3, <2>4
<1>. QED BY <1>2, <1>7

(***************************************************************************)
(* The picture of the moved maze.                                          *)
(***************************************************************************)
LEMMA MovedWalls ==
  ASSUME NEW r \in Rows, NEW n, n = r * Width, NEW M, NEW N, MovedMatrix(M, N, n),
         NEW y \in Rows
  PROVE  /\ \A x \in 0..(Width - 1) : N[cellAt(x, rowMoved(y, r))] = M[cellAt(x, y)]
         /\ \A x \in 0..Width : verticalWall(N, x, rowMoved(y, r)) <=> verticalWall(M, x, y)
<1>1. Width \in Nat \ {0}
  BY SizeFacts
<1>2. ASSUME NEW x \in 0..(Width - 1) PROVE N[cellAt(x, rowMoved(y, r))] = M[cellAt(x, y)]
  <2>1. cellAt(x, y) \in Cells
    BY CellAt DEF Rows
  <2>2. movedCell(cellAt(x, y), n) = cellAt(x, rowMoved(y, r))
    BY MovedCellAt
  <2>. QED BY <2>1, <2>2 DEF MovedMatrix
<1>3. ASSUME NEW x \in 0..Width
      PROVE  verticalWall(N, x, rowMoved(y, r)) <=> verticalWall(M, x, y)
  <2>1. IF x = Width THEN Width - 1 \in 0..(Width - 1) ELSE x \in 0..(Width - 1)
    BY <1>1
  <2>. QED BY <1>2, <2>1 DEF verticalWall
<1>. QED BY <1>2, <1>3

\* The walls at a vertex, with the one above it: updateIntersections looks for
\* it in another place for the first row.
LEMMA WallsCount ==
  ASSUME NEW M, NEW v \in Vertices, NEW x, NEW y, x = vertexColumn(v), y = vertexRow(v)
  PROVE  LET C == vertexWalls(updateVisual(M), v)
         IN  Cardinality(C) = Cardinality(C \ {"top", "self"})
                              + (IF verticalWall(M, x, rowAbove(y)) THEN 1 ELSE 0)
<1>. DEFINE C == vertexWalls(updateVisual(M), v)
            A == C \ {"top", "self"}
            t == IF y = 0 THEN "top" ELSE "self"
<1>1. /\ "top" \in C <=> y = 0 /\ verticalWall(M, x, Height - 1)
      /\ "self" \in C <=> y # 0 /\ verticalWall(M, x, y - 1)
  BY WallsAtVertex
<1>2. C = IF verticalWall(M, x, rowAbove(y)) THEN A \cup {t} ELSE A
  <2>. HIDE DEF C
  <2>1. CASE y = 0
    BY <1>1, <2>1 DEF rowAbove
  <2>2. CASE y # 0
    BY <1>1, <2>2 DEF rowAbove
  <2>. QED BY <2>1, <2>2
<1>3. IsFiniteSet(A)
  <2>1. C \subseteq {"left", "right", "bottom", "top", "self"}
    BY DEF vertexWalls
  <2>2. A \subseteq {"left", "right", "bottom"}
    BY <2>1
  <2>3. IsFiniteSet({"left", "right", "bottom"})
    <3>1. IsFiniteSet({"left"})
      BY FS_Singleton
    <3>2. IsFiniteSet({"left"} \cup {"right"})
      BY <3>1, FS_AddElement
    <3>3. IsFiniteSet(({"left"} \cup {"right"}) \cup {"bottom"})
      BY <3>2, FS_AddElement
    <3>4. ({"left"} \cup {"right"}) \cup {"bottom"} = {"left", "right", "bottom"}
      OBVIOUS
    <3>. QED BY <3>3, <3>4
  <2>. HIDE DEF A
  <2>. QED BY <2>2, <2>3, FS_Subset
<1>4. t \notin A
  OBVIOUS
<1>. HIDE DEF C, t, A
<1>5. Cardinality(A \cup {t}) = Cardinality(A) + 1 /\ Cardinality(A) \in Nat
  BY <1>3, <1>4, FS_AddElement, FS_CardinalityType
<1>6. Cardinality(C) = Cardinality(A) + (IF verticalWall(M, x, rowAbove(y)) THEN 1 ELSE 0)
  BY <1>2, <1>5
<1>. QED BY <1>6 DEF A, C

LEMMA VertexMoved ==
  ASSUME NEW r \in Rows, NEW n, n = r * Width, NEW M, NEW N, MovedMatrix(M, N, n),
         NEW v \in Vertices, NEW w \in Vertices, vertexColumn(w) = vertexColumn(v),
         vertexRow(w) = rowMoved(vertexRow(v), r)
  PROVE  nIntersections(updateVisual(N), w) = nIntersections(updateVisual(M), v)
<1>. DEFINE x == vertexColumn(v)
            y == vertexRow(v)
            z == rowMoved(y, r)
            C == vertexWalls(updateVisual(M), v)
            E == vertexWalls(updateVisual(N), w)
            rest == {"top", "self"}
<1>1. x \in 0..Width /\ y \in Rows /\ Width \in Nat \ {0}
  BY VertexAt, SizeFacts DEF Rows
<1>2. /\ z \in Rows /\ rowAbove(y) \in Rows /\ rowMoved(rowAbove(y), r) = rowAbove(z)
  <2>1. rowAbove(y) \in Rows
    BY <1>1, SizeFacts DEF rowAbove, Rows
  <2>2. z \in Rows /\ rowMoved(rowAbove(y), r) = rowAbove(z)
    BY <1>1, RowsMoved
  <2>. QED BY <2>1, <2>2
<1>3. /\ "left" \in C <=> x # 0 /\ hasTopWall(M[cellAt(x - 1, y)])
      /\ "right" \in C <=> x # Width /\ hasTopWall(M[cellAt(x, y)])
      /\ "bottom" \in C <=> verticalWall(M, x, y)
  BY WallsAtVertex
<1>4. /\ "left" \in E <=> x # 0 /\ hasTopWall(N[cellAt(x - 1, z)])
      /\ "right" \in E <=> x # Width /\ hasTopWall(N[cellAt(x, z)])
      /\ "bottom" \in E <=> verticalWall(N, x, z)
  BY WallsAtVertex
<1>5. /\ Cardinality(C) = Cardinality(C \ rest)
                          + (IF verticalWall(M, x, rowAbove(y)) THEN 1 ELSE 0)
      /\ Cardinality(E) = Cardinality(E \ rest)
                          + (IF verticalWall(N, x, rowAbove(z)) THEN 1 ELSE 0)
  BY WallsCount
<1>6. /\ x # 0 => x - 1 \in 0..(Width - 1)
      /\ x # Width => x \in 0..(Width - 1)
  BY <1>1
<1>7. C \subseteq {"left", "right", "bottom", "top", "self"}
      /\ E \subseteq {"left", "right", "bottom", "top", "self"}
  BY DEF vertexWalls
<1>. HIDE DEF x, y, z, C, E
<1>8. /\ \A u \in 0..(Width - 1) : N[cellAt(u, z)] = M[cellAt(u, y)]
      /\ verticalWall(N, x, z) <=> verticalWall(M, x, y)
  BY <1>1, MovedWalls DEF z
<1>9. verticalWall(N, x, rowAbove(z)) <=> verticalWall(M, x, rowAbove(y))
  BY <1>1, <1>2, MovedWalls
<1>10. C \ rest = E \ rest
  <2>1. /\ "left" \in C <=> "left" \in E
        /\ "right" \in C <=> "right" \in E
        /\ "bottom" \in C <=> "bottom" \in E
    BY <1>3, <1>4, <1>6, <1>8
  <2>. QED BY <1>7, <2>1
<1>. HIDE DEF rest
<1>11. Cardinality(C) = Cardinality(E)
  <2>1. CASE verticalWall(M, x, rowAbove(y))
    <3>1. Cardinality(C) = Cardinality(C \ rest) + 1
      BY <1>5, <2>1
    <3>2. Cardinality(E) = Cardinality(E \ rest) + 1
      BY <1>5, <1>9, <2>1
    <3>. QED BY <1>10, <3>1, <3>2
  <2>2. CASE ~verticalWall(M, x, rowAbove(y))
    <3>1. Cardinality(C) = Cardinality(C \ rest) + 0
      BY <1>5, <2>2
    <3>2. Cardinality(E) = Cardinality(E \ rest) + 0
      BY <1>5, <1>9, <2>2
    <3>. QED BY <1>10, <3>1, <3>2
  <2>. QED BY <2>1, <2>2
<1>. QED BY <1>11 DEF nIntersections, C, E

\* The vertex in column x of row y.
LEMMA VertexIn ==
  ASSUME NEW x \in 0..Width, NEW y \in Rows
  PROVE  \E v \in Vertices : vertexColumn(v) = x /\ vertexRow(v) = y
<1>. DEFINE D == Width + 1
            H == Height
            v == y * D + x
<1>1. D \in Nat \ {0} /\ H \in Nat \ {0} /\ x \in 0..(D - 1) /\ y \in 0..(H - 1)
  BY SizeFacts DEF Rows
<1>. HIDE DEF D, H
<1>2. v % D = x /\ v \div D = y
  BY <1>1, DivMod
<1>3. v \in 0..(H * D - 1)
  <2>1. y * D <= (H - 1) * D /\ y * D \in Nat
    BY <1>1, Z3
  <2>2. (H - 1) * D = H * D - D /\ H * D \in Nat
    BY <1>1, Z3
  <2>. DEFINE yD == y * D
              HD == H * D
              P == (H - 1) * D
  <2>. HIDE DEF yD, HD, P
  <2>3. yD + x \in 0..(HD - 1)
    BY <1>1, <2>1, <2>2 DEF yD, HD, P
  <2>. QED BY <2>3 DEF yD, HD
<1>. QED BY <1>2, <1>3 DEF Vertices, vertexColumn, vertexRow, D, H

\* The vertices of the moved maze have as many walls as those of the maze.
LEMMA IntersectionsMoved ==
  ASSUME NEW r \in Rows, NEW n, n = r * Width, NEW M, NEW N, MovedMatrix(M, N, n)
  PROVE  minIntersections(updateVisual(N)) = minIntersections(updateVisual(M))
<1>. DEFINE count(K, v) == nIntersections(updateVisual(K), v)
            counts(K) == {5} \cup {count(K, v) : v \in Vertices}
<1>1. ASSUME NEW v \in Vertices PROVE \E w \in Vertices : count(N, w) = count(M, v)
  <2>1. vertexColumn(v) \in 0..Width /\ rowMoved(vertexRow(v), r) \in Rows
    BY VertexAt, RowsMoved DEF Rows
  <2>2. PICK w \in Vertices : /\ vertexColumn(w) = vertexColumn(v)
                              /\ vertexRow(w) = rowMoved(vertexRow(v), r)
    BY <2>1, VertexIn
  <2>. QED BY <2>2, VertexMoved
<1>2. ASSUME NEW w \in Vertices PROVE \E v \in Vertices : count(N, w) = count(M, v)
  <2>1. vertexColumn(w) \in 0..Width /\ vertexRow(w) \in Rows
    BY VertexAt DEF Rows
  <2>2. PICK y \in Rows : rowMoved(y, r) = vertexRow(w)
    BY <2>1, RowsMoved
  <2>3. PICK v \in Vertices : vertexColumn(v) = vertexColumn(w) /\ vertexRow(v) = y
    BY <2>1, VertexIn
  <2>. QED BY <2>2, <2>3, VertexMoved
<1>. HIDE DEF count
<1>3. counts(M) = counts(N)
  BY <1>1, <1>2
<1>4. \A K : minIntersections(updateVisual(K))
               = CHOOSE a \in counts(K) : \A b \in counts(K) : a <= b
  BY DEF minIntersections, count
<1>. HIDE DEF counts
<1>. QED BY <1>3, <1>4

\* Both sides of the walls of the moved maze agree.
LEMMA EdgesMoved ==
  ASSUME NEW r \in Rows, NEW n, n = r * Width, NEW M, NEW N, MovedMatrix(M, N, n),
         checkEdgeCompatibility(M)
  PROVE  checkEdgeCompatibility(N)
<1>1. SUFFICES ASSUME NEW d \in Cells
               PROVE  /\ ~isLeftEdge(d)
                           => (hasLeftWall(N[d]) <=> hasRightWall(N[neighBourLeft(d)]))
                      /\ ~isRightEdge(d)
                           => (hasRightWall(N[d]) <=> hasLeftWall(N[neighBourRight(d)]))
                      /\ hasTopWall(N[d]) <=> hasBottomWall(N[neighBourTop(d)])
                      /\ hasBottomWall(N[d]) <=> hasTopWall(N[neighBourBottom(d)])
  BY DEF checkEdgeCompatibility
<1>2. PICK c \in Cells : movedCell(c, n) = d
  BY MovedCells
<1>3. /\ isRightEdge(d) <=> isRightEdge(c)
      /\ isLeftEdge(d) <=> isLeftEdge(c)
      /\ \A s \in Sides :
           stepTo(d, s) = IF stepTo(c, s) = -1 THEN -1 ELSE movedCell(stepTo(c, s), n)
  BY <1>2, MovedCells
<1>4. N[d] = M[c]
  BY <1>2 DEF MovedMatrix
<1>5. ASSUME NEW s \in Sides, s = 1 => ~isRightEdge(c), s = 3 => ~isLeftEdge(c)
      PROVE  N[stepTo(d, s)] = M[stepTo(c, s)]
  <2>1. stepTo(c, s) \in Cells /\ stepTo(c, s) # -1
    BY <1>5, StepToType
  <2>. QED BY <1>3, <2>1 DEF MovedMatrix
<1>6. /\ \A a : /\ stepTo(a, 0) = neighBourTop(a) /\ stepTo(a, 1) = neighBourRight(a)
                /\ stepTo(a, 2) = neighBourBottom(a) /\ stepTo(a, 3) = neighBourLeft(a)
      /\ 0 \in Sides /\ 1 \in Sides /\ 2 \in Sides /\ 3 \in Sides
  BY DEF stepTo, Sides
<1>7. N[neighBourTop(d)] = M[neighBourTop(c)] /\ N[neighBourBottom(d)] = M[neighBourBottom(c)]
  BY <1>5, <1>6
<1>8. ~isRightEdge(c) => N[neighBourRight(d)] = M[neighBourRight(c)]
  BY <1>5, <1>6
<1>9. ~isLeftEdge(c) => N[neighBourLeft(d)] = M[neighBourLeft(c)]
  BY <1>5, <1>6
<1>. QED BY <1>3, <1>4, <1>7, <1>8, <1>9 DEF checkEdgeCompatibility

(***************************************************************************)
(* The string of the moved maze.                                           *)
(***************************************************************************)
stringMoved(s, n) ==
  SubSeq(s, totalCells - n + 1, totalCells) \o SubSeq(s, 1, totalCells - n)

LEMMA StringMoved ==
  ASSUME NEW s, NEW n \in 0..(totalCells - 1)
  PROVE  /\ Len(stringMoved(s, n)) = totalCells
         /\ \A c \in Cells : stringMoved(s, n)[movedCell(c, n) + 1] = s[c + 1]
<1>. DEFINE N == totalCells
            S == {s[p] : p \in 1..N}
            a == SubSeq(s, N - n + 1, N)
            b == SubSeq(s, 1, N - n)
<1>1. N \in Nat \ {0} /\ n \in 0..(N - 1)
  BY SizeFacts
<1>. HIDE DEF N
<1>2. /\ a \in Seq(S) /\ Len(a) = n
      /\ \A i \in 1..n : a[i] = s[N - n + i]
  <2>. DEFINE m == N - n + 1
  <2>1. m \in Int /\ N \in Int /\ \A i \in m..N : s[i] \in S
    BY <1>1
  <2>. HIDE DEF S
  <2>2. /\ SubSeq(s, m, N) \in Seq(S)
        /\ Len(SubSeq(s, m, N)) = IF m <= N THEN N - m + 1 ELSE 0
        /\ \A i \in 1..(N - m + 1) : SubSeq(s, m, N)[i] = s[m + i - 1]
    <3>. HIDE DEF m
    <3>. QED BY <2>1, SubSeqProperties
  <2>3. N - m + 1 = n /\ (m <= N <=> n # 0) /\ \A i \in 1..n : m + i - 1 = N - n + i
    BY <1>1
  <2>. QED BY <1>1, <2>2, <2>3
<1>3. /\ b \in Seq(S) /\ Len(b) = N - n
      /\ \A i \in 1..(N - n) : b[i] = s[i]
  <2>. DEFINE m == N - n
  <2>1. m \in Int /\ 1 \in Int /\ m >= 1 /\ \A i \in 1..m : s[i] \in S
    BY <1>1
  <2>. HIDE DEF S, m
  <2>2. /\ SubSeq(s, 1, m) \in Seq(S)
        /\ Len(SubSeq(s, 1, m)) = IF 1 <= m THEN m - 1 + 1 ELSE 0
        /\ \A i \in 1..(m - 1 + 1) : SubSeq(s, 1, m)[i] = s[1 + i - 1]
    BY <2>1, SubSeqProperties
  <2>3. m - 1 + 1 = m /\ \A i \in 1..m : 1 + i - 1 = i
    BY <2>1
  <2>. QED BY <2>1, <2>2, <2>3 DEF m
<1>. HIDE DEF S, a, b
<1>4. /\ Len(a \o b) = N
      /\ \A i \in 1..N : (a \o b)[i] = IF i <= n THEN a[i] ELSE b[i - n]
  <2>1. /\ Len(a \o b) = Len(a) + Len(b)
        /\ \A i \in 1..(Len(a) + Len(b)) :
             (a \o b)[i] = IF i <= Len(a) THEN a[i] ELSE b[i - Len(a)]
    BY <1>2, <1>3, ConcatProperties
  <2>2. Len(a) + Len(b) = N
    BY <1>1, <1>2, <1>3
  <2>. QED BY <1>2, <2>1, <2>2
<1>5. ASSUME NEW c \in 0..(N - 1) PROVE (a \o b)[((c + n) % N) + 1] = s[c + 1]
  <2>1. CASE c + n < N
    <3>1. (c + n) % N = c + n
      BY <1>1, <2>1, Z3
    <3>2. c + n + 1 \in 1..N /\ ~(c + n + 1 <= n) /\ c + n + 1 - n = c + 1
          /\ c + 1 \in 1..(N - n)
      BY <1>1, <2>1
    <3>. DEFINE p == c + n + 1
                q == c + 1
    <3>3. p \in 1..N /\ ~(p <= n) /\ p - n = q /\ q \in 1..(N - n)
      BY <3>2
    <3>. HIDE DEF p, q
    <3>4. (a \o b)[p] = s[q]
      BY <1>3, <1>4, <3>3
    <3>. QED BY <3>1, <3>4 DEF p, q
  <2>2. CASE ~(c + n < N)
    <3>. DEFINE d == c + n - N
    <3>1. d \in 0..(N - 1) /\ d + 1 <= n /\ d + 1 \in 1..n /\ d + 1 \in 1..N
          /\ N - n + (d + 1) = c + 1
      BY <1>1, <2>2
    <3>2. (c + n) % N = d
      <4>1. c + n = 1 * N + d
        BY <1>1
      <4>2. \A q \in Int : (q * N + d) % N = d
        <5>. HIDE DEF d
        <5>. QED BY <1>1, <3>1, DivMod
      <4>. QED BY <4>1, <4>2
    <3>. HIDE DEF d
    <3>. QED BY <1>2, <1>4, <3>1, <3>2
  <2>. QED BY <2>1, <2>2
<1>. QED BY <1>4, <1>5 DEF Cells, movedCell, stringMoved, a, b, N

\* setMZ keeps the matrix it has read from the string, with both sides of the
\* walls agreeing, and the count of the walls at its vertices.
MatrixInv ==
  Accepted => /\ DOMAIN m_CLMatrix = Cells
              /\ \A c \in Cells : m_CLMatrix[c] = NewCL(m_CLMatrix[c].m_1fchar)
              /\ checkEdgeCompatibility(m_CLMatrix)
              /\ picture.m_minIntersections = minIntersections(updateVisual(m_CLMatrix))

LEMMA MatrixInvCorrect == Spec => []MatrixInv
<1>1. Init => MatrixInv
  BY DEF Init, MatrixInv, Accepted
<1>2. MatrixInv /\ [Next]_vars => MatrixInv'
  <2>1. SUFFICES ASSUME MatrixInv, [Next]_vars, Accepted' PROVE MatrixInv'
    BY DEF MatrixInv
  <2>2. CASE Accept
    <3>. DEFINE M == m_CLMatrix'
    <3>1. /\ M = [c \in Cells |-> NewCL(mzString[c + 1])]
          /\ checkEdgeCompatibility(M)
          /\ picture'.m_minIntersections = minIntersections(updateVisual(M))
      BY <2>2 DEF Accept, initializeCLMatrix
    <3>2. \A c \in Cells : M[c] = NewCL(M[c].m_1fchar)
      <4>1. \A u : NewCL(NewCL(u).m_1fchar) = NewCL(u)
        BY DEF NewCL
      <4>. HIDE DEF M
      <4>. QED BY <3>1, <4>1
    <3>. HIDE DEF M
    <3>3. DOMAIN M = Cells
      BY <3>1
    <3>. QED BY <3>1, <3>2, <3>3 DEF MatrixInv, M
  <2>3. CASE RejectLength \/ RejectEdges
    BY <2>1, <2>3 DEF RejectLength, RejectEdges, Accepted
  <2>4. CASE ExtendRoute \/ EndRound \/ EndSearch \/ UNCHANGED vars
    <3>1. UNCHANGED <<m_CLMatrix, picture>> /\ Accepted
      BY <2>1, <2>4 DEF ExtendRoute, EndRound, EndSearch, matrix, vars, Accepted
    <3>. QED BY <2>1, <3>1 DEF MatrixInv
  <2>. QED BY <2>1, <2>2, <2>3, <2>4 DEF Next, Ended
<1>. QED BY <1>1, <1>2, PTL DEF Spec

\* The maze that was read is moved down by r rows, string, entrance and exit,
\* and read again.
LEMMA MazeMoved ==
  ASSUME MatrixInv, SetInv, SearchAsOperator, pc \in {"thrown", "done"},
         NEW offset \in 0..Height
  PROVE  LET maze == shiftDown([mzString |-> stringOfMatrix,
                                m_entrance |-> m_entrance, m_exit |-> m_exit], offset)
             M == initializeCLMatrix(maze.mzString)
             n == (offset % Height) * Width
         IN  /\ Len(maze.mzString) = totalCells
             /\ checkEdgeCompatibility(M)
             /\ maze.m_entrance \in RightEdge /\ maze.m_exit \in LeftEdge
             /\ updateRoutes(M, maze.m_entrance, maze.m_exit) = movedSearch(search, n)
             /\ picture.m_minIntersections = minIntersections(updateVisual(M))
<1>. DEFINE r == offset % Height
            n == r * Width
            s == stringOfMatrix
            t == stringMoved(s, n)
            maze == shiftDown([mzString |-> s,
                               m_entrance |-> m_entrance, m_exit |-> m_exit], offset)
            M == initializeCLMatrix(t)
<1>1. /\ maze.mzString = t
      /\ maze.m_entrance = movedCell(m_entrance, n)
      /\ maze.m_exit = movedCell(m_exit, n)
  BY DEF shiftDown, movedCell, stringMoved
<1>2. r \in Rows
  BY SizeFacts, Z3 DEF Rows
<1>. HIDE DEF r
<1>3. n \in 0..(totalCells - 1)
  <2>1. Width \in Nat \ {0} /\ Height \in Nat \ {0} /\ r \in 0..(Height - 1)
    BY <1>2, SizeFacts DEF Rows
  <2>2. r * Width \in Nat /\ r * Width < Width * Height /\ Width * Height \in Nat
    BY <2>1, Z3
  <2>. QED BY <2>2 DEF totalCells
<1>. HIDE DEF s, n
<1>4. Len(t) = totalCells /\ \A c \in Cells : t[movedCell(c, n) + 1] = s[c + 1]
  BY <1>3, StringMoved
<1>5. /\ m_entrance \in RightEdge /\ m_exit \in LeftEdge
      /\ m_entrance \in Cells /\ m_exit \in Cells
  BY EdgeCells DEF SetInv
<1>6. movedCell(m_entrance, n) \in RightEdge /\ movedCell(m_exit, n) \in LeftEdge
  BY <1>2, <1>5, MovedCells DEF RightEdge, LeftEdge, n
<1>7. MovedMatrix(m_CLMatrix, M, n)
  <2>1. SUFFICES ASSUME NEW c \in Cells PROVE M[movedCell(c, n)] = m_CLMatrix[c]
    BY DEF MovedMatrix
  <2>2. movedCell(c, n) \in Cells
    BY <1>2, MovedCells DEF n
  <2>3. M[movedCell(c, n)] = NewCL(t[movedCell(c, n) + 1])
    <3>. HIDE DEF t
    <3>. QED BY <2>2 DEF initializeCLMatrix
  <2>4. s[c + 1] = m_CLMatrix[c].m_1fchar
    <3>. DEFINE p == c + 1
    <3>1. p \in 1..totalCells /\ p - 1 = c
      BY SizeFacts DEF Cells
    <3>. HIDE DEF p
    <3>2. s[p] = m_CLMatrix[p - 1].m_1fchar
      BY <3>1 DEF s, stringOfMatrix
    <3>. QED BY <3>1, <3>2 DEF p
  <2>5. m_CLMatrix[c] = NewCL(m_CLMatrix[c].m_1fchar)
    BY DEF MatrixInv, Accepted
  <2>. HIDE DEF t, M
  <2>. QED BY <1>4, <2>3, <2>4, <2>5
<1>. HIDE DEF t, M
<1>8. updateRoutes(M, movedCell(m_entrance, n), movedCell(m_exit, n))
        = movedSearch(updateRoutes(m_CLMatrix, m_entrance, m_exit), n)
  BY <1>2, <1>5, <1>7, SearchMoved DEF n
<1>9. search = updateRoutes(m_CLMatrix, m_entrance, m_exit)
  BY DEF SearchAsOperator
<1>10. /\ checkEdgeCompatibility(m_CLMatrix)
       /\ picture.m_minIntersections = minIntersections(updateVisual(m_CLMatrix))
  BY DEF MatrixInv, Accepted
<1>11. checkEdgeCompatibility(M)
  BY <1>2, <1>7, <1>10, EdgesMoved DEF n
<1>12. minIntersections(updateVisual(M)) = minIntersections(updateVisual(m_CLMatrix))
  BY <1>2, <1>7, IntersectionsMoved DEF n
<1>13. initializeCLMatrix(maze.mzString) = M
  BY <1>1 DEF M
<1>. HIDE DEF maze
<1>14. /\ Len(maze.mzString) = totalCells
       /\ checkEdgeCompatibility(initializeCLMatrix(maze.mzString))
       /\ maze.m_entrance \in RightEdge /\ maze.m_exit \in LeftEdge
       /\ updateRoutes(initializeCLMatrix(maze.mzString), maze.m_entrance, maze.m_exit)
            = movedSearch(search, n)
       /\ picture.m_minIntersections
            = minIntersections(updateVisual(initializeCLMatrix(maze.mzString)))
  BY <1>1, <1>4, <1>6, <1>8, <1>9, <1>10, <1>11, <1>12, <1>13
<1>. QED BY <1>14 DEF maze, n, r, s

\* Moved down by any number of rows, string, entrance and exit, the maze that
\* setMZ has read is one it accepts again, its search comes to the same result
\* row for row, and its vertices have as many walls.
THEOREM ShiftMovesMazeCorrect == Spec => []ShiftMovesMaze
<1>1. MatrixInv /\ SetInv /\ SearchAsOperator => ShiftMovesMaze
  BY MazeMoved DEF ShiftMovesMaze
<1>. QED BY <1>1, MatrixInvCorrect, SetInvCorrect, SearchAsOperatorCorrect, PTL
=============================================================================
