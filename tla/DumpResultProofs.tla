-------------------------- MODULE DumpResultProofs --------------------------
(***************************************************************************)
(* Proofs about XMySQL::DumpResult, for any number of columns and rows and *)
(* any lengths: the block is exactly as large as what is written into it,  *)
(* and everything in it can be found.                                      *)
(***************************************************************************)
EXTENDS DumpResult, TLAPS

USE DEF SizeofInt, SizeofHeader

Sizing == {"sizeFields", "sizeRows", "sizeData"}
Writing == {"fields", "rows", "data", "done"}

\* The result set, and the loops within their bounds.
ResultType ==
  /\ m_nFields \in Nat \ {0} /\ m_nRows \in Nat
  /\ names \in [0..(m_nFields - 1) -> Nat]
  /\ data \in [0..(m_nRows - 1) -> [0..(m_nFields - 1) -> Nat]]

LoopType ==
  /\ pc \in Sizing \cup Writing
  /\ i \in 0..m_nRows /\ j \in 0..m_nFields
  /\ pc \in {"sizeFields", "fields"} => i = 0
  /\ pc \in {"sizeData", "data"} => i < m_nRows
  /\ pc = "done" => i = m_nRows

DumpType ==
  /\ ResultType
  /\ LoopType
  /\ iSize \in Nat /\ pOffset \in Nat /\ pInteger \in Nat /\ pRow \in Nat

LEMMA DumpTypeStep ==
  ASSUME DumpType, [Next]_vars
  PROVE  DumpType' /\ UNCHANGED result
<1>. USE DEF Sizing, Writing
<1>1. ResultType' /\ UNCHANGED result
  BY DEF DumpType, ResultType, result, Next, vars, SizeField, EndSizeFields, SizeRow,
     SizeValue, EndSizeRow, Allocate, WriteField, EndFields, BeginRow, WriteValue,
     EndRow, Return, Returned
<1>2. /\ m_nFields' = m_nFields /\ m_nRows' = m_nRows
      /\ m_nFields \in Nat \ {0} /\ m_nRows \in Nat
      /\ LoopType
      /\ iSize \in Nat /\ pOffset \in Nat /\ pInteger \in Nat /\ pRow \in Nat
  BY <1>1 DEF result, DumpType, ResultType
<1>3. /\ j < m_nFields => names[j] \in Nat
      /\ pc \in {"sizeData", "data"} /\ j < m_nFields => data[i][j] \in Nat
  BY DEF DumpType, ResultType, LoopType
<1>. SUFFICES /\ LoopType'
              /\ iSize' \in Nat /\ pOffset' \in Nat /\ pInteger' \in Nat /\ pRow' \in Nat
  BY <1>1 DEF DumpType
<1>4. CASE SizeField \/ EndSizeFields
  BY <1>2, <1>3, <1>4 DEF LoopType, SizeField, EndSizeFields, block
<1>5. CASE SizeRow
  BY <1>2, <1>5 DEF LoopType, SizeRow, block
<1>6. CASE SizeValue
  BY <1>2, <1>3, <1>6 DEF LoopType, SizeValue, block
<1>7. CASE EndSizeRow
  BY <1>2, <1>7 DEF LoopType, EndSizeRow, block
<1>8. CASE Allocate
  BY <1>2, <1>8 DEF LoopType, Allocate
<1>9. CASE WriteField
  BY <1>2, <1>3, <1>9 DEF LoopType, WriteField
<1>10. CASE EndFields
  BY <1>2, <1>10 DEF LoopType, EndFields
<1>11. CASE BeginRow
  BY <1>2, <1>11 DEF LoopType, BeginRow
<1>12. CASE WriteValue
  BY <1>2, <1>3, <1>12 DEF LoopType, WriteValue
<1>13. CASE EndRow
  BY <1>2, <1>13 DEF LoopType, EndRow
<1>14. CASE Return \/ UNCHANGED vars
  BY <1>2, <1>14 DEF LoopType, Return, vars, block
<1>. QED BY <1>4, <1>5, <1>6, <1>7, <1>8, <1>9, <1>10, <1>11, <1>12, <1>13, <1>14
     DEF Next, Returned

LEMMA DumpTypeInit ==
  ASSUME Init
  PROVE  DumpType
<1>1. \A n \in 1..MaxFields : n \in Nat \ {0}
  BY DumpAssumption
<1>2. \A n \in 0..MaxRows : n \in Nat
  BY DumpAssumption
<1>3. /\ names \in [0..(m_nFields - 1) -> Nat]
      /\ data \in [0..(m_nRows - 1) -> [0..(m_nFields - 1) -> Nat]]
  BY DumpAssumption DEF Init
<1>. QED BY <1>1, <1>2, <1>3 DEF Init, DumpType, ResultType, LoopType, Sizing, Writing
-----------------------------------------------------------------------------
(***************************************************************************)
(* The two passes.  The first one goes through the names and then through  *)
(* every row; its position is the row sizedRow (0 for the names) and the   *)
(* column sizedCol, which it has passed.  A function records iSize at each *)
(* position.                                                               *)
(***************************************************************************)

sizedRow == IF pc = "sizeFields" THEN 0
            ELSE IF pc = "sizeRows" THEN i
            ELSE IF pc = "sizeData" THEN i + 1
            ELSE m_nRows

sizedCol == IF pc \in {"sizeFields", "sizeData"} THEN j ELSE m_nFields

length(r, c) == IF r = 0 THEN names[c] ELSE data[r - 1][c]

\* The pass is at or behind (r, c) when it is at (R, C).
Passed(R, C, r, c) == r < R \/ (r = R /\ c <= C)

\* What has at least been counted between (r, c) and (R, C).
atLeast(R, C, r, c) ==
  IF r = R THEN SizeofInt * (C - c)
  ELSE SizeofInt * (m_nFields - c) + SizeofInt * (R - r)

\* S records the sizes up to position (R, C), where the size is n.
Recorded(S, R, C, n) ==
  /\ S \in [0..m_nRows -> [0..m_nFields -> Nat]]
  /\ S[0][0] = SizeofHeader
  /\ \A r \in 0..m_nRows, c \in 0..(m_nFields - 1) :
       Passed(R, C, r, c + 1) => S[r][c + 1] = S[r][c] + SizeofInt + length(r, c) + 1
  /\ \A r \in 1..m_nRows :
       Passed(R, C, r, 0) => S[r][0] = S[r - 1][m_nFields] + SizeofInt
  /\ S[R][C] = n
  /\ \A r \in 0..m_nRows, c \in 0..m_nFields :
       Passed(R, C, r, c) => S[r][c] + atLeast(R, C, r, c) <= n

\* In the second pass pOffset is ahead of the size at the same position by the
\* offsets that are still to be written before it.
Ahead(S) ==
  /\ pc = "fields" => pOffset = S[0][j] + SizeofInt * (m_nFields - j)
  /\ pc \in {"rows", "done"} =>
       pOffset = S[i][m_nFields] + SizeofInt * (m_nRows - i)
  /\ pc = "data" =>
       pOffset = S[i + 1][j] + SizeofInt * (m_nFields - j) + SizeofInt * (m_nRows - i - 1)

SizeInv == \E S : Recorded(S, sizedRow, sizedCol, iSize) /\ Ahead(S)

\* The first pass counts a name or a value.
LEMMA NextColumn ==
  ASSUME ResultType, NEW R \in 0..m_nRows, NEW C \in 0..(m_nFields - 1), NEW n \in Nat,
         NEW S, Recorded(S, R, C, n), length(R, C) \in Nat
  PROVE  \E T : Recorded(T, R, C + 1, n + SizeofInt + length(R, C) + 1)
<1>. DEFINE m == n + SizeofInt + length(R, C) + 1
            T == [S EXCEPT ![R][C + 1] = m]
<1>1. m_nFields \in Nat /\ m_nRows \in Nat /\ n \in Nat /\ m \in Nat /\ n + 4 <= m
  BY DEF ResultType
<1>2. S \in [0..m_nRows -> [0..m_nFields -> Nat]]
  BY DEF Recorded
<1>3. C \in 0..m_nFields /\ C + 1 \in 0..m_nFields /\ C \in Int /\ C >= 0 /\ R \in Int
  BY <1>1
<1>. HIDE DEF m
<1>4. /\ T \in [0..m_nRows -> [0..m_nFields -> Nat]]
      /\ T[R][C + 1] = m
      /\ \A r \in 0..m_nRows, c \in 0..m_nFields :
           ~(r = R /\ c = C + 1) => T[r][c] = S[r][c]
  BY <1>1, <1>2, <1>3
<1>. HIDE DEF T
<1>5. ASSUME NEW r \in 0..m_nRows, NEW c \in 0..m_nFields, Passed(R, C + 1, r, c)
      PROVE  Passed(R, C, r, c) \/ (r = R /\ c = C + 1)
  BY <1>1, <1>3, <1>5 DEF Passed
<1>6. T[0][0] = SizeofHeader
  <2>1. 0 \in 0..m_nRows /\ 0 \in 0..m_nFields /\ 0 # C + 1
    BY <1>1, <1>3
  <2>. QED BY <1>4, <2>1 DEF Recorded
<1>7. ASSUME NEW r \in 0..m_nRows, NEW c \in 0..(m_nFields - 1), Passed(R, C + 1, r, c + 1)
      PROVE  T[r][c + 1] = T[r][c] + SizeofInt + length(r, c) + 1
  <2>1. c \in 0..m_nFields /\ c + 1 \in 0..m_nFields /\ c \in Int
    BY <1>1
  <2>2. CASE r = R /\ c = C
    <3>1. T[r][c] = n
      BY <1>3, <1>4, <2>2 DEF Recorded
    <3>. QED BY <1>4, <2>2, <3>1 DEF m
  <2>3. CASE ~(r = R /\ c = C)
    <3>1. ~(r = R /\ c + 1 = C + 1)
      BY <1>3, <2>1, <2>3
    <3>2. Passed(R, C, r, c + 1)
      BY <1>5, <1>7, <2>1, <3>1
    <3>3. ~(r = R /\ c = C + 1)
      BY <1>3, <2>1, <3>2 DEF Passed
    <3>4. T[r][c + 1] = S[r][c + 1] /\ T[r][c] = S[r][c]
      BY <1>4, <2>1, <3>1, <3>3
    <3>. QED BY <3>2, <3>4 DEF Recorded
  <2>. QED BY <2>2, <2>3
<1>8. ASSUME NEW r \in 1..m_nRows, Passed(R, C + 1, r, 0)
      PROVE  T[r][0] = T[r - 1][m_nFields] + SizeofInt
  <2>1. /\ r \in 0..m_nRows /\ r - 1 \in 0..m_nRows /\ r \in Int
        /\ 0 \in 0..m_nFields /\ m_nFields \in 0..m_nFields /\ 0 # C + 1
    BY <1>1, <1>3
  <2>2. Passed(R, C, r, 0)
    BY <1>5, <1>8, <2>1
  <2>3. r - 1 # R
    BY <1>3, <2>1, <2>2 DEF Passed
  <2>4. T[r][0] = S[r][0] /\ T[r - 1][m_nFields] = S[r - 1][m_nFields]
    BY <1>4, <2>1, <2>3
  <2>. QED BY <2>2, <2>4 DEF Recorded
<1>9. ASSUME NEW r \in 0..m_nRows, NEW c \in 0..m_nFields, Passed(R, C + 1, r, c)
      PROVE  T[r][c] + atLeast(R, C + 1, r, c) <= m
  <2>1. CASE r = R /\ c = C + 1
    <3>1. atLeast(R, C + 1, r, c) = 0
      BY <1>3, <2>1 DEF atLeast
    <3>2. T[r][c] = m
      BY <1>4, <2>1
    <3>. QED BY <1>1, <3>1, <3>2
  <2>2. CASE ~(r = R /\ c = C + 1)
    <3>1. Passed(R, C, r, c) /\ T[r][c] = S[r][c]
      BY <1>4, <1>5, <1>9, <2>2
    <3>2. S[r][c] \in Nat /\ S[r][c] + atLeast(R, C, r, c) <= n
      BY <1>2, <3>1 DEF Recorded
    <3>3. /\ atLeast(R, C, r, c) \in Int
          /\ atLeast(R, C + 1, r, c) \in Int
          /\ atLeast(R, C + 1, r, c) <= atLeast(R, C, r, c) + 4
      BY <1>1, <1>3 DEF atLeast
    <3>. QED BY <1>1, <3>1, <3>2, <3>3
  <2>. QED BY <2>1, <2>2
<1>. QED BY <1>4, <1>6, <1>7, <1>8, <1>9 DEF Recorded, m

\* The first pass goes on to the next row.
LEMMA NextRow ==
  ASSUME ResultType, NEW R \in 0..(m_nRows - 1), NEW n \in Nat,
         NEW S, Recorded(S, R, m_nFields, n)
  PROVE  \E T : Recorded(T, R + 1, 0, n + SizeofInt)
<1>. DEFINE m == n + SizeofInt
            T == [S EXCEPT ![R + 1][0] = m]
<1>1. m_nFields \in Nat \ {0} /\ m_nRows \in Nat /\ m \in Nat /\ m = n + 4
  BY DEF ResultType
<1>2. S \in [0..m_nRows -> [0..m_nFields -> Nat]]
  BY DEF Recorded
<1>3. /\ R \in Int /\ R >= 0 /\ R \in 0..m_nRows /\ R + 1 \in 0..m_nRows
      /\ 0 \in 0..m_nFields /\ m_nFields \in 0..m_nFields
  BY <1>1
<1>. HIDE DEF m
<1>4. /\ T \in [0..m_nRows -> [0..m_nFields -> Nat]]
      /\ T[R + 1][0] = m
      /\ \A r \in 0..m_nRows, c \in 0..m_nFields :
           ~(r = R + 1 /\ c = 0) => T[r][c] = S[r][c]
  BY <1>1, <1>2, <1>3
<1>. HIDE DEF T
<1>5. ASSUME NEW r \in 0..m_nRows, NEW c \in 0..m_nFields, Passed(R + 1, 0, r, c)
      PROVE  Passed(R, m_nFields, r, c) \/ (r = R + 1 /\ c = 0)
  BY <1>1, <1>3, <1>5 DEF Passed
<1>6. T[0][0] = SizeofHeader
  <2>1. 0 \in 0..m_nRows /\ 0 # R + 1
    BY <1>1, <1>3
  <2>. QED BY <1>3, <1>4, <2>1 DEF Recorded
<1>7. ASSUME NEW r \in 0..m_nRows, NEW c \in 0..(m_nFields - 1), Passed(R + 1, 0, r, c + 1)
      PROVE  T[r][c + 1] = T[r][c] + SizeofInt + length(r, c) + 1
  <2>1. c \in 0..m_nFields /\ c + 1 \in 0..m_nFields /\ c + 1 # 0
    BY <1>1
  <2>2. Passed(R, m_nFields, r, c + 1)
    BY <1>5, <1>7, <2>1
  <2>3. r # R + 1
    BY <1>3, <2>2 DEF Passed
  <2>4. T[r][c + 1] = S[r][c + 1] /\ T[r][c] = S[r][c]
    BY <1>4, <2>1, <2>3
  <2>. QED BY <2>2, <2>4 DEF Recorded
<1>8. ASSUME NEW r \in 1..m_nRows, Passed(R + 1, 0, r, 0)
      PROVE  T[r][0] = T[r - 1][m_nFields] + SizeofInt
  <2>1. r \in 0..m_nRows /\ r - 1 \in 0..m_nRows /\ r \in Int /\ m_nFields # 0
    BY <1>1
  <2>2. T[r - 1][m_nFields] = S[r - 1][m_nFields]
    BY <1>3, <1>4, <2>1
  <2>3. CASE r = R + 1
    <3>1. r - 1 = R
      BY <1>3, <2>3
    <3>. QED BY <1>4, <2>2, <2>3, <3>1 DEF Recorded, m
  <2>4. CASE r # R + 1
    <3>1. Passed(R, m_nFields, r, 0)
      BY <1>3, <1>5, <1>8, <2>1, <2>4
    <3>2. T[r][0] = S[r][0]
      BY <1>3, <1>4, <2>1, <2>4
    <3>. QED BY <2>2, <3>1, <3>2 DEF Recorded
  <2>. QED BY <2>3, <2>4
<1>9. ASSUME NEW r \in 0..m_nRows, NEW c \in 0..m_nFields, Passed(R + 1, 0, r, c)
      PROVE  T[r][c] + atLeast(R + 1, 0, r, c) <= m
  <2>1. CASE r = R + 1 /\ c = 0
    <3>1. atLeast(R + 1, 0, r, c) = 0
      BY <2>1 DEF atLeast
    <3>. QED BY <1>1, <1>4, <2>1, <3>1
  <2>2. CASE ~(r = R + 1 /\ c = 0)
    <3>1. Passed(R, m_nFields, r, c) /\ T[r][c] = S[r][c]
      BY <1>4, <1>5, <1>9, <2>2
    <3>2. S[r][c] \in Nat /\ S[r][c] + atLeast(R, m_nFields, r, c) <= n
      BY <1>2, <3>1 DEF Recorded
    <3>3. r # R + 1
      BY <1>3, <3>1 DEF Passed
    <3>4. /\ atLeast(R, m_nFields, r, c) \in Int
          /\ atLeast(R + 1, 0, r, c) = atLeast(R, m_nFields, r, c) + 4
      BY <1>1, <1>3, <3>3 DEF atLeast
    <3>. QED BY <1>1, <3>1, <3>2, <3>4
  <2>. QED BY <2>1, <2>2
<1>. QED BY <1>4, <1>6, <1>7, <1>8, <1>9 DEF Recorded, m

\* What is recorded does not depend on the variables that change.
LEMMA RecordedKept ==
  ASSUME UNCHANGED result, NEW T, Recorded(T, sizedRow', sizedCol', iSize')
  PROVE  Recorded(T, sizedRow, sizedCol, iSize)'
BY DEF Recorded, Passed, atLeast, length, result

LEMMA SizeInit ==
  ASSUME Init, DumpType
  PROVE  SizeInv
<1>. DEFINE S == [r \in 0..m_nRows |-> [c \in 0..m_nFields |-> SizeofHeader]]
<1>1. /\ m_nFields \in Nat /\ m_nRows \in Nat
      /\ sizedRow = 0 /\ sizedCol = 0 /\ iSize = SizeofHeader /\ pc = "sizeFields"
  BY DEF DumpType, ResultType, Init, sizedRow, sizedCol
<1>2. /\ S \in [0..m_nRows -> [0..m_nFields -> Nat]]
      /\ \A r \in 0..m_nRows, c \in 0..m_nFields : S[r][c] = SizeofHeader
  BY <1>1
<1>. HIDE DEF S
<1>3. \A r \in 0..m_nRows, c \in 0..m_nFields : Passed(0, 0, r, c) => r = 0 /\ c = 0
  BY <1>1 DEF Passed
<1>4. \A r \in 0..m_nRows, c \in 0..(m_nFields - 1) : ~Passed(0, 0, r, c + 1)
  BY <1>1 DEF Passed
<1>5. \A r \in 1..m_nRows : ~Passed(0, 0, r, 0)
  BY <1>1 DEF Passed
<1>6. 0 \in 0..m_nRows /\ 0 \in 0..m_nFields
  BY <1>1
<1>7. Recorded(S, 0, 0, SizeofHeader)
  BY <1>2, <1>3, <1>4, <1>5, <1>6 DEF Recorded, atLeast
<1>. QED BY <1>1, <1>7 DEF SizeInv, Ahead

LEMMA SizeStep ==
  ASSUME DumpType, DumpType', SizeInv, [Next]_vars, UNCHANGED result
  PROVE  SizeInv'
<1>1. PICK S : Recorded(S, sizedRow, sizedCol, iSize) /\ Ahead(S)
  BY DEF SizeInv
<1>2. /\ ResultType /\ LoopType /\ iSize \in Nat
      /\ m_nFields \in Nat \ {0} /\ m_nRows \in Nat
      /\ m_nFields' = m_nFields /\ m_nRows' = m_nRows
      /\ \A r \in 0..m_nRows, c \in 0..m_nFields : S[r][c] \in Nat
  BY <1>1 DEF DumpType, ResultType, result, Recorded
<1>3. ASSUME sizedRow' = sizedRow, sizedCol' = sizedCol, iSize' = iSize, Ahead(S)'
      PROVE  SizeInv'
  BY <1>1, <1>3, RecordedKept DEF SizeInv
<1>4. ASSUME NEW T, Recorded(T, sizedRow', sizedCol', iSize'), pc' \in Sizing
      PROVE  SizeInv'
  <2>1. Ahead(T)'
    BY <1>4 DEF Ahead, Sizing
  <2>. QED BY <1>4, <2>1, RecordedKept DEF SizeInv
<1>5. CASE SizeField
  <2>1. /\ sizedRow = 0 /\ sizedCol = j /\ sizedRow' = 0 /\ sizedCol' = j + 1
        /\ j \in 0..(m_nFields - 1) /\ 0 \in 0..m_nRows /\ pc' \in Sizing
        /\ length(0, j) = names[j] /\ iSize' = iSize + SizeofInt + names[j] + 1
    BY <1>2, <1>5 DEF SizeField, sizedRow, sizedCol, length, LoopType, Sizing
  <2>2. names[j] \in Nat
    BY <1>2, <2>1 DEF ResultType
  <2>3. PICK T : Recorded(T, 0, j + 1, iSize + SizeofInt + length(0, j) + 1)
    BY <1>1, <1>2, <2>1, <2>2, NextColumn
  <2>. QED BY <1>4, <2>1, <2>3
<1>6. CASE SizeValue
  <2>1. /\ sizedRow = i + 1 /\ sizedCol = j /\ sizedRow' = i + 1 /\ sizedCol' = j + 1
        /\ j \in 0..(m_nFields - 1) /\ i \in 0..(m_nRows - 1) /\ i + 1 \in 0..m_nRows
        /\ length(i + 1, j) = data[i][j] /\ pc' \in Sizing
        /\ iSize' = iSize + SizeofInt + data[i][j] + 1
    BY <1>2, <1>6 DEF SizeValue, sizedRow, sizedCol, length, LoopType, Sizing
  <2>2. data[i][j] \in Nat
    BY <1>2, <2>1 DEF ResultType
  <2>3. PICK T : Recorded(T, i + 1, j + 1, iSize + SizeofInt + length(i + 1, j) + 1)
    BY <1>1, <1>2, <2>1, <2>2, NextColumn
  <2>. QED BY <1>4, <2>1, <2>3
<1>7. CASE SizeRow
  <2>1. /\ sizedRow = i /\ sizedCol = m_nFields /\ sizedRow' = i + 1 /\ sizedCol' = 0
        /\ i \in 0..(m_nRows - 1) /\ pc' \in Sizing /\ iSize' = iSize + SizeofInt
    BY <1>2, <1>7 DEF SizeRow, sizedRow, sizedCol, LoopType, Sizing
  <2>2. PICK T : Recorded(T, i + 1, 0, iSize + SizeofInt)
    BY <1>1, <1>2, <2>1, NextRow
  <2>. QED BY <1>4, <2>1, <2>2
<1>8. CASE EndSizeFields
  BY <1>2, <1>3, <1>8 DEF EndSizeFields, sizedRow, sizedCol, LoopType, Ahead
<1>9. CASE EndSizeRow
  BY <1>2, <1>3, <1>9 DEF EndSizeRow, sizedRow, sizedCol, LoopType, Ahead
<1>10. CASE Allocate
  <2>1. sizedRow' = sizedRow /\ sizedCol' = sizedCol /\ iSize' = iSize
    BY <1>2, <1>10 DEF Allocate, sizedRow, sizedCol
  <2>2. S[0][0] = SizeofHeader
    BY <1>1 DEF Recorded
  <2>3. Ahead(S)'
    BY <1>2, <1>10, <2>2 DEF Allocate, Ahead
  <2>. QED BY <1>3, <2>1, <2>3
<1>11. ASSUME pc \in Writing, pc' \in Writing
       PROVE  sizedRow' = sizedRow /\ sizedCol' = sizedCol
  BY <1>2, <1>11 DEF sizedRow, sizedCol, Writing
<1>12. \A r \in 0..m_nRows, c \in 0..m_nFields :
         pc \in Writing => Passed(sizedRow, sizedCol, r, c)
  BY <1>2 DEF Writing, sizedRow, sizedCol, Passed
<1>13. CASE WriteField
  <2>1. /\ pc \in Writing /\ pc' \in Writing /\ iSize' = iSize /\ j \in 0..(m_nFields - 1)
        /\ 0 \in 0..m_nRows /\ j \in 0..m_nFields /\ j + 1 \in 0..m_nFields
    BY <1>2, <1>13 DEF WriteField, Writing, LoopType
  <2>2. S[0][j + 1] = S[0][j] + SizeofInt + names[j] + 1
    BY <1>1, <1>12, <2>1 DEF Recorded, length
  <2>3. S[0][j] \in Nat /\ names[j] \in Nat /\ j \in Nat
    BY <1>2, <2>1 DEF ResultType
  <2>4. Ahead(S)'
    BY <1>1, <1>2, <1>13, <2>2, <2>3 DEF WriteField, Ahead
  <2>. QED BY <1>3, <1>11, <2>1, <2>4
<1>14. CASE EndFields
  <2>1. /\ pc \in Writing /\ pc' \in Writing /\ iSize' = iSize /\ i = 0
        /\ 0 \in 0..m_nRows /\ m_nFields \in 0..m_nFields
    BY <1>2, <1>14 DEF EndFields, Writing, LoopType
  <2>2. S[0][m_nFields] \in Nat
    BY <1>2, <2>1
  <2>3. Ahead(S)'
    BY <1>1, <1>2, <1>14, <2>1, <2>2 DEF EndFields, Ahead
  <2>. QED BY <1>3, <1>11, <2>1, <2>3
<1>15. CASE BeginRow
  <2>1. /\ pc \in Writing /\ pc' \in Writing /\ iSize' = iSize /\ i \in 0..(m_nRows - 1)
        /\ i \in 0..m_nRows /\ i + 1 \in 1..m_nRows /\ i + 1 \in 0..m_nRows
        /\ 0 \in 0..m_nFields /\ m_nFields \in 0..m_nFields
    BY <1>2, <1>15 DEF BeginRow, Writing, LoopType
  <2>2. S[i + 1][0] = S[i + 1 - 1][m_nFields] + SizeofInt
    BY <1>1, <1>12, <2>1 DEF Recorded
  <2>3. i + 1 - 1 = i /\ S[i][m_nFields] \in Nat /\ i \in Nat
    BY <1>2, <2>1
  <2>4. Ahead(S)'
    BY <1>1, <1>2, <1>15, <2>2, <2>3 DEF BeginRow, Ahead
  <2>. QED BY <1>3, <1>11, <2>1, <2>4
<1>16. CASE WriteValue
  <2>1. /\ pc \in Writing /\ pc' \in Writing /\ iSize' = iSize /\ j \in 0..(m_nFields - 1)
        /\ i \in 0..(m_nRows - 1) /\ i + 1 \in 0..m_nRows /\ i + 1 # 0 /\ i + 1 - 1 = i
        /\ j \in 0..m_nFields /\ j + 1 \in 0..m_nFields
    BY <1>2, <1>16 DEF WriteValue, Writing, LoopType
  <2>2. S[i + 1][j + 1] = S[i + 1][j] + SizeofInt + data[i][j] + 1
    BY <1>1, <1>12, <2>1 DEF Recorded, length
  <2>3. S[i + 1][j] \in Nat /\ j \in Nat /\ i \in Nat
    BY <1>2, <2>1
  <2>4. data[i][j] \in Nat
    BY <1>2, <2>1 DEF ResultType
  <2>5. Ahead(S)'
    BY <1>1, <1>2, <1>16, <2>2, <2>3, <2>4 DEF WriteValue, Ahead
  <2>. QED BY <1>3, <1>11, <2>1, <2>5
<1>17. CASE EndRow
  <2>1. /\ pc \in Writing /\ pc' \in Writing /\ iSize' = iSize /\ i \in Nat
        /\ i + 1 \in 0..m_nRows /\ m_nFields \in 0..m_nFields
    BY <1>2, <1>17 DEF EndRow, Writing, LoopType
  <2>2. S[i + 1][m_nFields] \in Nat
    BY <1>2, <2>1
  <2>3. Ahead(S)'
    BY <1>1, <1>2, <1>17, <2>1, <2>2 DEF EndRow, Ahead
  <2>. QED BY <1>3, <1>11, <2>1, <2>3
<1>18. CASE Return
  <2>1. pc \in Writing /\ pc' \in Writing /\ iSize' = iSize
    BY <1>18 DEF Return, Writing
  <2>2. Ahead(S)'
    BY <1>1, <1>2, <1>18 DEF Return, Ahead, block
  <2>. QED BY <1>3, <1>11, <2>1, <2>2
<1>19. CASE UNCHANGED vars
  BY <1>1, <1>2, <1>3, <1>19 DEF vars, block, sizedRow, sizedCol, Ahead
<1>. QED BY <1>5, <1>6, <1>7, <1>8, <1>9, <1>10, <1>13, <1>14, <1>15, <1>16, <1>17, <1>18, <1>19
     DEF Next, Returned

\* The second pass never leaves the block, and uses it up.
LEMMA WithinSize ==
  ASSUME DumpType, SizeInv, pc \in Writing
  PROVE  /\ pOffset <= iSize
         /\ pc = "done" => pOffset = iSize
<1>1. PICK S : Recorded(S, sizedRow, sizedCol, iSize) /\ Ahead(S)
  BY DEF SizeInv
<1>2. /\ m_nFields \in Nat \ {0} /\ m_nRows \in Nat /\ LoopType /\ iSize \in Nat
      /\ \A r \in 0..m_nRows, c \in 0..m_nFields : S[r][c] \in Nat
  BY <1>1 DEF DumpType, ResultType, Recorded
<1>3. sizedRow = m_nRows /\ sizedCol = m_nFields
  BY DEF sizedRow, sizedCol, Writing
<1>4. ASSUME NEW r \in 0..m_nRows, NEW c \in 0..m_nFields
      PROVE  S[r][c] + SizeofInt * (m_nFields - c) + SizeofInt * (m_nRows - r) <= iSize
  <2>1. Passed(m_nRows, m_nFields, r, c)
    BY <1>2 DEF Passed
  <2>2. S[r][c] + atLeast(m_nRows, m_nFields, r, c) <= iSize
    BY <1>1, <1>3, <2>1 DEF Recorded
  <2>3. /\ atLeast(m_nRows, m_nFields, r, c)
             = SizeofInt * (m_nFields - c) + SizeofInt * (m_nRows - r)
        /\ S[r][c] \in Nat
    BY <1>2 DEF atLeast
  <2>. QED BY <1>2, <2>2, <2>3
<1>5. CASE pc = "fields"
  <2>1. j \in 0..m_nFields /\ 0 \in 0..m_nRows
    BY <1>2 DEF LoopType
  <2>2. S[0][j] \in Nat /\ S[0][j] + SizeofInt * (m_nFields - j) + SizeofInt * (m_nRows - 0) <= iSize
    BY <1>2, <1>4, <2>1
  <2>. QED BY <1>1, <1>2, <1>5, <2>1, <2>2 DEF Ahead
<1>6. CASE pc \in {"rows", "done"}
  <2>1. i \in 0..m_nRows /\ m_nFields \in 0..m_nFields /\ (pc = "done" => i = m_nRows)
    BY <1>2 DEF LoopType
  <2>2. /\ S[i][m_nFields] \in Nat
        /\ S[i][m_nFields] + SizeofInt * (m_nFields - m_nFields) + SizeofInt * (m_nRows - i) <= iSize
    BY <1>2, <1>4, <2>1
  <2>3. S[m_nRows][m_nFields] = iSize
    BY <1>1, <1>3 DEF Recorded
  <2>. QED BY <1>1, <1>2, <1>6, <2>1, <2>2, <2>3 DEF Ahead
<1>7. CASE pc = "data"
  <2>1. j \in 0..m_nFields /\ i \in Nat /\ i + 1 \in 0..m_nRows
    BY <1>2, <1>7 DEF LoopType
  <2>2. /\ S[i + 1][j] \in Nat
        /\ S[i + 1][j] + SizeofInt * (m_nFields - j) + SizeofInt * (m_nRows - (i + 1)) <= iSize
    BY <1>2, <1>4, <2>1
  <2>. QED BY <1>1, <1>2, <1>7, <2>1, <2>2 DEF Ahead
<1>. QED BY <1>5, <1>6, <1>7 DEF Writing
-----------------------------------------------------------------------------
(***************************************************************************)
(* The pieces that are written lie apart.  At any time two stretches of    *)
(* the block are set aside for offsets that are still to be written: of    *)
(* the names, or of the values of the current row, from pInteger on, and   *)
(* of the rows, from pRow on.  What is written lies in front of pOffset    *)
(* and clear of both.                                                      *)
(***************************************************************************)

Clear(w, from, to) == endOf(w) <= from \/ to <= w.at

\* The stretches that are set aside.
integersEnd == IF pc \in {"fields", "data"} THEN pInteger + SizeofInt * (m_nFields - j)
               ELSE pInteger
nextRow == IF pc = "data" THEN pRow + SizeofInt ELSE pRow
rowsEnd == IF pc \in {"rows", "data"} THEN pRow + SizeofInt * (m_nRows - i) ELSE pRow

Piece(w) ==
  /\ w.at \in Nat /\ endOf(w) \in Nat
  /\ SizeofHeader <= w.at /\ endOf(w) <= pOffset
  /\ pc \in {"fields", "data"} => Clear(w, pInteger, integersEnd)
  /\ pc \in {"rows", "data"} => Clear(w, nextRow, rowsEnd)

Apart(A) == \A v, w \in A : v = w \/ endOf(v) <= w.at \/ endOf(w) <= v.at

WriteInv ==
  /\ pc \in Sizing => written = {}
  /\ pc \in {"fields", "data"} => SizeofHeader <= pInteger /\ integersEnd <= pOffset
  /\ pc \in {"rows", "data"} => SizeofHeader <= pRow /\ rowsEnd <= pOffset
  /\ pc = "data" => rowsEnd <= pInteger
  /\ \A w \in written : Piece(w)
  /\ Apart(written)

\* A piece that is written in front of or behind all others leaves them apart.
LEMMA OneMoreApart ==
  ASSUME NEW A, Apart(A), NEW x, \A w \in A : endOf(w) <= x.at \/ endOf(x) <= w.at
  PROVE  Apart(A \cup {x})
BY DEF Apart

LEMMA EndOfOffset ==
  ASSUME NEW at \in Nat, NEW value
  PROVE  /\ Offset(at, value).at = at
         /\ endOf(Offset(at, value)) = at + SizeofInt
<1>1. Offset(at, value).what[1] = "int"
  BY DEF Offset
<1>2. Offset(at, value).at = at /\ Offset(at, value).size = SizeofInt
  BY DEF Offset
<1>. QED BY <1>1, <1>2 DEF endOf

LEMMA WriteStep ==
  ASSUME DumpType, DumpType', WriteInv, [Next]_vars, UNCHANGED result
  PROVE  WriteInv'
<1>1. /\ m_nFields \in Nat \ {0} /\ m_nRows \in Nat
      /\ m_nFields' = m_nFields /\ m_nRows' = m_nRows
      /\ LoopType /\ pOffset \in Nat /\ pInteger \in Nat /\ pRow \in Nat
  BY DEF DumpType, ResultType, result
<1>2. ASSUME pc \in Sizing, pc' \in Sizing, UNCHANGED block PROVE WriteInv'
  BY <1>2 DEF WriteInv, Sizing, block, Apart
<1>3. CASE SizeField \/ EndSizeFields \/ SizeRow \/ SizeValue \/ EndSizeRow
  BY <1>2, <1>3 DEF SizeField, EndSizeFields, SizeRow, SizeValue, EndSizeRow, Sizing
<1>4. CASE Allocate
  <2>1. /\ pc' = "fields" /\ written' = {} /\ j' = 0 /\ pInteger' = SizeofHeader
        /\ pOffset' = SizeofHeader + m_nFields * SizeofInt
    BY <1>4 DEF Allocate, WriteInv, Sizing
  <2>. QED BY <1>1, <2>1 DEF WriteInv, Sizing, Apart, integersEnd
\* Writing an offset at pInteger and a text at pOffset, and going on to the
\* next.
<1>5. ASSUME NEW len \in Nat, NEW x, NEW y,
             x = Offset(pInteger, pOffset), y.at = pOffset, endOf(y) = pOffset + len + 1,
             written' = written \cup {x, y},
             pInteger' = pInteger + SizeofInt, pOffset' = pOffset + len + 1,
             j' = j + 1, j < m_nFields, pc \in {"fields", "data"}, pc' = pc,
             UNCHANGED <<i, pRow>>
      PROVE  WriteInv'
  <2>1. /\ integersEnd = pInteger + SizeofInt * (m_nFields - j)
        /\ integersEnd' = integersEnd /\ integersEnd \in Nat
        /\ pInteger + SizeofInt <= integersEnd
        /\ integersEnd <= pOffset
        /\ SizeofHeader <= pInteger
    BY <1>1, <1>5 DEF integersEnd, WriteInv, LoopType
  <2>2. /\ nextRow' = nextRow /\ rowsEnd' = rowsEnd /\ nextRow \in Nat /\ rowsEnd \in Int
        /\ pc = "data" => SizeofHeader <= pRow /\ rowsEnd <= pInteger /\ rowsEnd <= pOffset
    BY <1>1, <1>5 DEF nextRow, rowsEnd, WriteInv, LoopType
  <2>3. x.at = pInteger /\ endOf(x) = pInteger + SizeofInt
    BY <1>1, <1>5, EndOfOffset
  <2>4. \A w \in written :
          /\ w.at \in Nat /\ endOf(w) \in Nat
          /\ SizeofHeader <= w.at /\ endOf(w) <= pOffset
          /\ Clear(w, pInteger, integersEnd)
          /\ pc = "data" => Clear(w, nextRow, rowsEnd)
    BY <1>5 DEF WriteInv, Piece
  <2>5. ASSUME NEW w \in written PROVE endOf(w) <= x.at \/ endOf(x) <= w.at
    <3>1. w.at \in Nat /\ (endOf(w) <= pInteger \/ integersEnd <= w.at)
      BY <2>4 DEF Clear
    <3>. QED BY <1>1, <2>1, <2>3, <3>1
  <2>6. ASSUME NEW w \in written \cup {x} PROVE endOf(w) <= y.at
    <3>1. CASE w \in written
      <4>1. endOf(w) <= pOffset
        BY <2>4, <3>1
      <4>. QED BY <1>5, <4>1
    <3>2. CASE w = x
      <4>1. endOf(w) <= pOffset
        BY <1>1, <2>1, <2>3, <3>2
      <4>. QED BY <1>5, <4>1
    <3>. QED BY <3>1, <3>2
  <2>7. Apart(written \cup {x})
    BY <2>5, OneMoreApart DEF WriteInv
  <2>8. Apart((written \cup {x}) \cup {y})
    BY <2>6, <2>7, OneMoreApart
  <2>9. (written \cup {x}) \cup {y} = written'
    BY <1>5
  <2>10. ASSUME NEW w \in written'
         PROVE  /\ w.at \in Nat /\ endOf(w) \in Nat
                /\ SizeofHeader <= w.at /\ endOf(w) <= pOffset'
                /\ Clear(w, pInteger', integersEnd')
                /\ pc = "data" => Clear(w, nextRow', rowsEnd')
    <3>0. pInteger' = pInteger + SizeofInt /\ pOffset' = pOffset + len + 1 /\ len \in Nat
      BY <1>5
    <3>1. CASE w \in written
      <4>1. /\ w.at \in Nat /\ endOf(w) \in Nat
            /\ SizeofHeader <= w.at /\ endOf(w) <= pOffset
            /\ endOf(w) <= pInteger \/ integersEnd <= w.at
            /\ pc = "data" => Clear(w, nextRow, rowsEnd)
        BY <2>4, <3>1 DEF Clear
      <4>2. /\ SizeofHeader <= w.at /\ endOf(w) <= pOffset'
            /\ Clear(w, pInteger', integersEnd')
        BY <1>1, <2>1, <3>0, <4>1 DEF Clear
      <4>. QED BY <2>2, <4>1, <4>2
    <3>2. CASE w = x
      <4>1. /\ w.at \in Nat /\ endOf(w) \in Nat
            /\ SizeofHeader <= w.at /\ endOf(w) <= pOffset'
            /\ Clear(w, pInteger', integersEnd')
        BY <1>1, <2>1, <2>3, <3>0, <3>2 DEF Clear
      <4>2. pc = "data" => Clear(w, nextRow', rowsEnd')
        BY <2>2, <2>3, <3>2 DEF Clear
      <4>. QED BY <4>1, <4>2
    <3>3. CASE w = y
      <4>1. w.at = pOffset /\ endOf(w) = pOffset'
        BY <1>5, <3>3
      <4>2. /\ w.at \in Nat /\ endOf(w) \in Nat
            /\ SizeofHeader <= w.at /\ endOf(w) <= pOffset'
            /\ Clear(w, pInteger', integersEnd')
        BY <1>1, <2>1, <3>0, <4>1 DEF Clear
      <4>3. pc = "data" => Clear(w, nextRow', rowsEnd')
        BY <2>2, <4>1 DEF Clear
      <4>. QED BY <4>2, <4>3
    <3>4. w \in written \/ w = x \/ w = y
      BY <1>5
    <3>. QED BY <3>1, <3>2, <3>3, <3>4
  <2>11. \A w \in written' : Piece(w)'
    BY <1>5, <2>10 DEF Piece, Clear, endOf
  <2>12. integersEnd' <= pOffset' /\ SizeofHeader <= pInteger'
    BY <1>1, <1>5, <2>1
  <2>13. pc = "data" => SizeofHeader <= pRow' /\ rowsEnd' <= pOffset' /\ rowsEnd' <= pInteger'
    BY <1>1, <1>5, <2>2
  <2>. QED BY <1>5, <2>8, <2>9, <2>11, <2>12, <2>13 DEF WriteInv, Sizing, Apart, endOf
<1>6. CASE WriteField
  <2>1. names[j] \in Nat
    BY <1>1, <1>6 DEF WriteField, DumpType, ResultType, LoopType
  <2>2. endOf(Text(pOffset, names[j], <<"name", j>>)) = pOffset + names[j] + 1
    BY DEF endOf, Text
  <2>. QED BY <1>5, <1>6, <2>1, <2>2 DEF WriteField, Text
<1>7. CASE WriteValue
  <2>1. data[i][j] \in Nat
    BY <1>1, <1>7 DEF WriteValue, DumpType, ResultType, LoopType
  <2>2. endOf(Text(pOffset, data[i][j], <<"value", i, j>>)) = pOffset + data[i][j] + 1
    BY DEF endOf, Text
  <2>. QED BY <1>5, <1>7, <2>1, <2>2 DEF WriteValue, Text
<1>8. CASE EndFields
  <2>1. /\ pc = "fields" /\ pc' = "rows" /\ written' = written /\ i' = i /\ i = 0
        /\ pRow' = pOffset /\ pOffset' = pOffset + m_nRows * SizeofInt
    BY <1>1, <1>8 DEF EndFields, LoopType
  <2>2. nextRow' = pOffset /\ rowsEnd' = pOffset'
    BY <1>1, <2>1 DEF nextRow, rowsEnd
  <2>3. SizeofHeader <= pOffset
    BY <1>1, <2>1 DEF WriteInv, integersEnd, LoopType
  <2>4. ASSUME NEW w \in written
        PROVE  /\ w.at \in Nat /\ endOf(w) \in Nat
               /\ SizeofHeader <= w.at /\ endOf(w) <= pOffset'
               /\ Clear(w, nextRow', rowsEnd')
    BY <1>1, <2>1, <2>2 DEF WriteInv, Piece, Clear
  <2>5. \A w \in written' : Piece(w)'
    BY <2>1, <2>4 DEF Piece, Clear, endOf
  <2>. QED BY <1>1, <2>1, <2>2, <2>3, <2>5 DEF WriteInv, Sizing, Apart, endOf
<1>9. CASE BeginRow
  <2>. DEFINE x == Offset(pRow, pOffset)
  <2>1. /\ pc = "rows" /\ pc' = "data" /\ written' = written \cup {x} /\ i' = i /\ i < m_nRows
        /\ pInteger' = pOffset /\ pRow' = pRow /\ j' = 0
        /\ pOffset' = pOffset + m_nFields * SizeofInt
    BY <1>9 DEF BeginRow
  <2>2. x.at = pRow /\ endOf(x) = pRow + SizeofInt
    BY <1>1, EndOfOffset
  <2>. HIDE DEF x
  <2>3. /\ nextRow = pRow /\ rowsEnd = pRow + SizeofInt * (m_nRows - i)
        /\ nextRow' = pRow + SizeofInt /\ rowsEnd' = rowsEnd
        /\ rowsEnd \in Nat /\ nextRow' <= rowsEnd
        /\ rowsEnd <= pOffset /\ SizeofHeader <= pRow
    BY <1>1, <2>1 DEF nextRow, rowsEnd, WriteInv, LoopType
  <2>4. integersEnd' = pOffset'
    BY <1>1, <2>1 DEF integersEnd
  <2>5. \A w \in written :
          /\ w.at \in Nat /\ endOf(w) \in Nat
          /\ SizeofHeader <= w.at /\ endOf(w) <= pOffset
          /\ Clear(w, pRow, rowsEnd)
    BY <2>1, <2>3 DEF WriteInv, Piece
  <2>6. \A w \in written : endOf(w) <= x.at \/ endOf(x) <= w.at
    BY <1>1, <2>2, <2>3, <2>5 DEF Clear
  <2>7. Apart(written')
    BY <2>1, <2>6, OneMoreApart DEF WriteInv
  <2>8. ASSUME NEW w \in written'
        PROVE  /\ w.at \in Nat /\ endOf(w) \in Nat
               /\ SizeofHeader <= w.at /\ endOf(w) <= pOffset'
               /\ Clear(w, pInteger', integersEnd')
               /\ Clear(w, nextRow', rowsEnd')
    <3>1. CASE w \in written
      BY <1>1, <2>1, <2>3, <2>5, <3>1 DEF Clear
    <3>2. CASE w = x
      BY <1>1, <2>1, <2>2, <2>3, <3>2 DEF Clear
    <3>. QED BY <2>1, <3>1, <3>2
  <2>9. \A w \in written' : Piece(w)'
    BY <2>1, <2>8 DEF Piece, Clear, endOf
  <2>10. /\ integersEnd' <= pOffset' /\ SizeofHeader <= pInteger' /\ SizeofHeader <= pRow'
         /\ rowsEnd' <= pOffset' /\ rowsEnd' <= pInteger'
    BY <1>1, <2>1, <2>3, <2>4
  <2>. QED BY <2>1, <2>7, <2>9, <2>10 DEF WriteInv, Sizing, Apart, endOf
<1>10. CASE EndRow
  <2>1. /\ pc = "data" /\ pc' = "rows" /\ written' = written /\ i' = i + 1
        /\ pRow' = pRow + SizeofInt /\ pOffset' = pOffset /\ i \in Nat
    BY <1>1, <1>10 DEF EndRow, LoopType
  <2>2. /\ nextRow' = nextRow /\ rowsEnd' = rowsEnd /\ rowsEnd <= pOffset
        /\ SizeofHeader <= pRow'
    BY <1>1, <2>1 DEF nextRow, rowsEnd, WriteInv
  <2>3. \A w \in written :
          /\ w.at \in Nat /\ endOf(w) \in Nat
          /\ SizeofHeader <= w.at /\ endOf(w) <= pOffset'
          /\ Clear(w, nextRow', rowsEnd')
    BY <2>1, <2>2 DEF WriteInv, Piece
  <2>4. \A w \in written' : Piece(w)'
    BY <2>1, <2>3 DEF Piece, Clear, endOf
  <2>. QED BY <2>1, <2>2, <2>4 DEF WriteInv, Sizing, Apart, endOf
<1>11. CASE Return
  <2>1. pc' = "done" /\ written' = written /\ pOffset' = pOffset
    BY <1>11 DEF Return, block
  <2>2. \A w \in written' : Piece(w)'
    BY <2>1 DEF WriteInv, Piece, endOf
  <2>. QED BY <2>1, <2>2 DEF WriteInv, Sizing, Apart, endOf
<1>12. CASE UNCHANGED vars
  BY <1>12 DEF vars, result, block, WriteInv, Piece, Clear, Apart, endOf, integersEnd,
     nextRow, rowsEnd
<1>. QED BY <1>3, <1>4, <1>6, <1>7, <1>8, <1>9, <1>10, <1>11, <1>12 DEF Next, Returned
-----------------------------------------------------------------------------
(***************************************************************************)
(* What a reader finds among the pieces A.                                 *)
(***************************************************************************)

nameFound(A, c) ==
  \E w \in A : w.what = <<"name", c>> /\ Offset(SizeofHeader + c * SizeofInt, w.at) \in A

valueFound(A, r, c, at) ==
  \E w \in A : w.what = <<"value", r, c>> /\ Offset(at + c * SizeofInt, w.at) \in A

\* The values of row r are found from at on, in front of column n.
valuesFound(A, r, n, at) == \A c \in 0..(n - 1) : valueFound(A, r, c, at)

rowFound(A, pRows, size, r, n) ==
  \E at \in 0..size :
    Offset(pRows + r * SizeofInt, at) \in A /\ valuesFound(A, r, n, at)

namesFound(A, n) == \A c \in 0..(n - 1) : nameFound(A, c)
rowsFound(A, pRows, size, n, m) == \A r \in 0..(m - 1) : rowFound(A, pRows, size, r, n)

ReadInv ==
  /\ pResult \in [pFields : Int, pRows : Int]
  /\ pc \in Writing => pResult.pFields = SizeofHeader
  /\ pc = "fields" =>
       pInteger = SizeofHeader + j * SizeofInt /\ namesFound(written, j)
  /\ pc \in {"rows", "data", "done"} =>
       /\ namesFound(written, m_nFields)
       /\ rowsFound(written, pResult.pRows, iSize, m_nFields, i)
  /\ pc \in {"rows", "data"} => pRow = pResult.pRows + i * SizeofInt
  /\ pc = "data" =>
       \E at \in 0..iSize :
         /\ pInteger = at + j * SizeofInt
         /\ Offset(pRow, at) \in written
         /\ valuesFound(written, i, j, at)

\* What is found remains where it is.
LEMMA StillFound ==
  ASSUME NEW A, NEW B, A \subseteq B
  PROVE  /\ \A n : namesFound(A, n) => namesFound(B, n)
         /\ \A r, n, at : valuesFound(A, r, n, at) => valuesFound(B, r, n, at)
         /\ \A pRows, size, n, m :
              rowsFound(A, pRows, size, n, m) => rowsFound(B, pRows, size, n, m)
<1>1. \A c : nameFound(A, c) => nameFound(B, c)
  BY DEF nameFound
<1>2. \A r, c, at : valueFound(A, r, c, at) => valueFound(B, r, c, at)
  BY DEF valueFound
<1>3. \A r, n, at : valuesFound(A, r, n, at) => valuesFound(B, r, n, at)
  BY <1>2 DEF valuesFound
<1>4. \A pRows, size, r, n : rowFound(A, pRows, size, r, n) => rowFound(B, pRows, size, r, n)
  BY <1>3 DEF rowFound
<1>. QED BY <1>1, <1>3, <1>4 DEF namesFound, rowsFound

LEMMA ReadStep ==
  ASSUME DumpType, DumpType', SizeInv, ReadInv, [Next]_vars, UNCHANGED result
  PROVE  ReadInv'
<1>1. /\ m_nFields \in Nat \ {0} /\ m_nRows \in Nat
      /\ m_nFields' = m_nFields /\ m_nRows' = m_nRows
      /\ LoopType /\ pOffset \in Nat /\ pInteger \in Nat /\ iSize \in Nat
  BY DEF DumpType, ResultType, result
<1>. DEFINE A == written
            B == written'
<1>2. CASE SizeField \/ EndSizeFields \/ SizeRow \/ SizeValue \/ EndSizeRow
  <2>1. pc' \in Sizing /\ pResult' = pResult
    BY <1>2 DEF SizeField, EndSizeFields, SizeRow, SizeValue, EndSizeRow, Sizing, block
  <2>. QED BY <2>1 DEF ReadInv, Sizing, Writing
<1>3. CASE Allocate
  <2>1. /\ pc' = "fields" /\ j' = 0 /\ pInteger' = SizeofHeader
        /\ pResult' = [pResult EXCEPT !.pFields = SizeofHeader]
    BY <1>3 DEF Allocate
  <2>2. pResult' \in [pFields : Int, pRows : Int] /\ pResult'.pFields = SizeofHeader
    BY <2>1 DEF ReadInv
  <2>3. namesFound(B, 0)
    BY DEF namesFound
  <2>. QED BY <2>1, <2>2, <2>3 DEF ReadInv, Writing
<1>4. CASE WriteField
  <2>. DEFINE x == Offset(pInteger, pOffset)
              y == Text(pOffset, names[j], <<"name", j>>)
  <2>1. /\ pc = "fields" /\ pc' = "fields" /\ B = A \cup {x, y} /\ j' = j + 1
        /\ pInteger' = pInteger + SizeofInt /\ pResult' = pResult /\ j \in Nat
    BY <1>1, <1>4 DEF WriteField, LoopType
  <2>2. pInteger = SizeofHeader + j * SizeofInt /\ namesFound(A, j)
    BY <2>1 DEF ReadInv
  <2>3. y.what = <<"name", j>> /\ y.at = pOffset
    BY DEF Text
  <2>. HIDE DEF x, y
  <2>4. nameFound(B, j)
    <3>1. Offset(SizeofHeader + j * SizeofInt, y.at) = x
      BY <2>2, <2>3 DEF x
    <3>. QED BY <2>1, <2>3, <3>1 DEF nameFound
  <2>5. namesFound(B, j)
    BY <2>1, <2>2, StillFound
  <2>6. namesFound(B, j + 1)
    <3>1. ASSUME NEW c \in 0..((j + 1) - 1) PROVE nameFound(B, c)
      <4>1. c \in 0..(j - 1) \/ c = j
        BY <2>1
      <4>. QED BY <2>4, <2>5, <4>1 DEF namesFound
    <3>. QED BY <3>1 DEF namesFound
  <2>7. pInteger' = SizeofHeader + j' * SizeofInt
    BY <2>1, <2>2
  <2>. QED BY <2>1, <2>6, <2>7 DEF ReadInv, Writing
<1>5. CASE EndFields
  <2>1. /\ pc = "fields" /\ pc' = "rows" /\ B = A /\ i' = i /\ i = 0 /\ j = m_nFields
        /\ pRow' = pOffset /\ pResult' = [pResult EXCEPT !.pRows = pOffset] /\ iSize' = iSize
    BY <1>1, <1>5 DEF EndFields, LoopType
  <2>2. /\ pResult' \in [pFields : Int, pRows : Int]
        /\ pResult'.pFields = SizeofHeader /\ pResult'.pRows = pOffset
    BY <1>1, <2>1 DEF ReadInv, Writing
  <2>3. namesFound(B, m_nFields)
    BY <2>1 DEF ReadInv
  <2>4. rowsFound(B, pOffset, iSize, m_nFields, 0)
    BY DEF rowsFound
  <2>5. pRow' = pOffset + i' * SizeofInt
    BY <1>1, <2>1
  <2>. QED BY <1>1, <2>1, <2>2, <2>3, <2>4, <2>5 DEF ReadInv, Writing
<1>6. CASE BeginRow
  <2>. DEFINE x == Offset(pRow, pOffset)
  <2>1. /\ pc = "rows" /\ pc' = "data" /\ B = A \cup {x} /\ i' = i /\ j' = 0
        /\ pInteger' = pOffset /\ pRow' = pRow /\ pResult' = pResult /\ iSize' = iSize
    BY <1>6 DEF BeginRow
  <2>2. pOffset \in 0..iSize
    BY <1>1, <2>1, WithinSize DEF Writing
  <2>3. /\ namesFound(B, m_nFields)
        /\ rowsFound(B, pResult.pRows, iSize, m_nFields, i)
    BY <2>1, StillFound DEF ReadInv
  <2>4. valuesFound(B, i, 0, pOffset)
    BY DEF valuesFound
  <2>5. pInteger' = pOffset + j' * SizeofInt
    BY <1>1, <2>1
  <2>6. x \in B
    BY <2>1
  <2>7. \E at \in 0..iSize' :
          /\ pInteger' = at + j' * SizeofInt
          /\ Offset(pRow', at) \in B
          /\ valuesFound(B, i', j', at)
    BY <2>1, <2>2, <2>4, <2>5, <2>6
  <2>. QED BY <1>1, <2>1, <2>3, <2>7 DEF ReadInv, Writing
<1>7. CASE WriteValue
  <2>. DEFINE x == Offset(pInteger, pOffset)
              y == Text(pOffset, data[i][j], <<"value", i, j>>)
  <2>1. /\ pc = "data" /\ pc' = "data" /\ B = A \cup {x, y} /\ i' = i /\ j' = j + 1
        /\ pInteger' = pInteger + SizeofInt /\ pRow' = pRow /\ pResult' = pResult
        /\ iSize' = iSize /\ j \in Nat
    BY <1>1, <1>7 DEF WriteValue, LoopType
  <2>2. PICK at \in 0..iSize : /\ pInteger = at + j * SizeofInt
                               /\ Offset(pRow, at) \in A
                               /\ valuesFound(A, i, j, at)
    BY <2>1 DEF ReadInv
  <2>3. y.what = <<"value", i, j>> /\ y.at = pOffset
    BY DEF Text
  <2>. HIDE DEF x, y
  <2>4. valueFound(B, i, j, at)
    <3>1. Offset(at + j * SizeofInt, y.at) = x
      BY <2>2, <2>3 DEF x
    <3>. QED BY <2>1, <2>3, <3>1 DEF valueFound
  <2>5. /\ namesFound(B, m_nFields)
        /\ rowsFound(B, pResult.pRows, iSize, m_nFields, i)
        /\ valuesFound(B, i, j, at)
    BY <2>1, <2>2, StillFound DEF ReadInv
  <2>6. valuesFound(B, i, j + 1, at)
    <3>1. ASSUME NEW c \in 0..((j + 1) - 1) PROVE valueFound(B, i, c, at)
      <4>1. c \in 0..(j - 1) \/ c = j
        BY <2>1
      <4>. QED BY <2>4, <2>5, <4>1 DEF valuesFound
    <3>. QED BY <3>1 DEF valuesFound
  <2>7. pInteger' = at + j' * SizeofInt
    BY <1>1, <2>1, <2>2
  <2>8. \E at1 \in 0..iSize' :
          /\ pInteger' = at1 + j' * SizeofInt
          /\ Offset(pRow', at1) \in B
          /\ valuesFound(B, i', j', at1)
    BY <2>1, <2>2, <2>6, <2>7
  <2>. QED BY <1>1, <2>1, <2>5, <2>8 DEF ReadInv, Writing
<1>8. CASE EndRow
  <2>1. /\ pc = "data" /\ pc' = "rows" /\ B = A /\ i' = i + 1 /\ j = m_nFields
        /\ pRow' = pRow + SizeofInt /\ pResult' = pResult /\ iSize' = iSize /\ i \in Nat
    BY <1>1, <1>8 DEF EndRow, LoopType
  <2>2. /\ pRow = pResult.pRows + i * SizeofInt /\ pResult.pRows \in Int
        /\ rowsFound(A, pResult.pRows, iSize, m_nFields, i)
        /\ namesFound(A, m_nFields)
    BY <2>1 DEF ReadInv
  <2>3. rowFound(A, pResult.pRows, iSize, i, m_nFields)
    BY <2>1, <2>2 DEF ReadInv, rowFound
  <2>4. rowsFound(A, pResult.pRows, iSize, m_nFields, i + 1)
    <3>1. ASSUME NEW r \in 0..((i + 1) - 1)
          PROVE  rowFound(A, pResult.pRows, iSize, r, m_nFields)
      <4>1. r \in 0..(i - 1) \/ r = i
        BY <2>1
      <4>. QED BY <2>2, <2>3, <4>1 DEF rowsFound
    <3>. QED BY <3>1 DEF rowsFound
  <2>5. pRow' = pResult.pRows + i' * SizeofInt
    BY <2>1, <2>2
  <2>. QED BY <1>1, <2>1, <2>2, <2>4, <2>5 DEF ReadInv, Writing
<1>9. CASE Return
  BY <1>1, <1>9 DEF Return, block, ReadInv, Writing
<1>10. CASE UNCHANGED vars
  BY <1>10 DEF vars, result, block, ReadInv
<1>. QED BY <1>2, <1>3, <1>4, <1>5, <1>6, <1>7, <1>8, <1>9, <1>10 DEF Next, Returned
-----------------------------------------------------------------------------
\* The inductive invariant of DumpResult.
DumpInv == DumpType /\ SizeInv /\ WriteInv /\ ReadInv

LEMMA DumpSafe == Spec => []DumpInv
<1>1. Init => DumpInv
  <2>1. SUFFICES ASSUME Init PROVE DumpInv
    OBVIOUS
  <2>2. DumpType
    BY <2>1, DumpTypeInit
  <2>3. SizeInv
    BY <2>1, <2>2, SizeInit
  <2>4. WriteInv /\ ReadInv
    BY <2>1 DEF Init, WriteInv, ReadInv, Apart, Sizing, Writing
  <2>. QED BY <2>2, <2>3, <2>4 DEF DumpInv
<1>2. DumpInv /\ [Next]_vars => DumpInv'
  BY DumpTypeStep, SizeStep, WriteStep, ReadStep DEF DumpInv
<1>. QED BY <1>1, <1>2, PTL DEF Spec

\* The pass that computes the size and the pass that writes agree: nothing is
\* written outside of the block of DumpResult, the block is used up, and no
\* write touches what another one has written.
THEOREM BlockCorrect == Spec => []BlockExact
<1>1. DumpInv => BlockExact
  <2>1. SUFFICES ASSUME DumpInv PROVE BlockExact
    OBVIOUS
  <2>2. ASSUME NEW w \in written PROVE SizeofHeader <= w.at /\ endOf(w) <= iSize
    <3>1. pc \in Writing
      BY <2>1 DEF DumpInv, DumpType, LoopType, WriteInv
    <3>2. SizeofHeader <= w.at /\ endOf(w) <= pOffset /\ endOf(w) \in Nat
      BY <2>1 DEF DumpInv, WriteInv, Piece
    <3>3. pOffset <= iSize /\ pOffset \in Nat /\ iSize \in Nat
      BY <2>1, <3>1, WithinSize DEF DumpInv, DumpType
    <3>. QED BY <3>2, <3>3
  <2>3. pc = "done" => pOffset = iSize
    BY <2>1, WithinSize DEF DumpInv, Writing
  <2>. QED BY <2>1, <2>2, <2>3 DEF BlockExact, DumpInv, WriteInv, Apart
<1>. QED BY <1>1, DumpSafe, PTL

\* A reader of the block DumpResult returns finds every name and every value
\* through the offsets, from the two in the header on.
THEOREM ReadableCorrect == Spec => []Readable
<1>1. DumpInv => Readable
  <2>1. SUFFICES ASSUME DumpInv, pc = "done" PROVE Readable
    BY DEF Readable
  <2>2. /\ pResult.pFields = SizeofHeader /\ i = m_nRows
        /\ namesFound(written, m_nFields)
        /\ rowsFound(written, pResult.pRows, iSize, m_nFields, m_nRows)
    BY <2>1 DEF DumpInv, DumpType, LoopType, ReadInv, Writing
  <2>3. ASSUME NEW c \in 0..(m_nFields - 1)
        PROVE  \E w \in written : /\ w.what = <<"name", c>>
                                  /\ Offset(pResult.pFields + c * SizeofInt, w.at) \in written
    BY <2>2 DEF namesFound, nameFound
  <2>4. ASSUME NEW r \in 0..(m_nRows - 1)
        PROVE  \E at \in 0..iSize :
                 /\ Offset(pResult.pRows + r * SizeofInt, at) \in written
                 /\ \A c \in 0..(m_nFields - 1) :
                      \E w \in written : /\ w.what = <<"value", r, c>>
                                         /\ Offset(at + c * SizeofInt, w.at) \in written
    BY <2>2 DEF rowsFound, rowFound, valuesFound, valueFound
  <2>. QED BY <2>3, <2>4 DEF Readable
<1>. QED BY <1>1, DumpSafe, PTL
=============================================================================
