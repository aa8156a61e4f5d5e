----------------------------- MODULE DumpResult -----------------------------
(***************************************************************************)
(* XMySQL::DumpResult: a result set is copied into one block of memory,    *)
(* whose parts refer to each other by offsets.                             *)
(*                                                                         *)
(* The block is filled with zeros and then written from front to back in   *)
(* the order header, offsets of the names, names, offsets of the rows, and *)
(* for every row offsets of the values and values.  Its size is computed   *)
(* before, by a pass of its own over the same data.  A name or a value is  *)
(* known by its place and its length; a value of NULL has the length 0.    *)
(***************************************************************************)
EXTENDS Integers

CONSTANTS MaxFields, MaxRows, Lengths

ASSUME DumpAssumption ==
  MaxFields \in Nat /\ MaxRows \in Nat /\ Lengths \subseteq Nat

SizeofInt == 4
SizeofHeader == 5 * SizeofInt

VARIABLES
  \* The result set (see ResultDescribed of XMySQL.tla).
  m_nFields, m_nRows, names, data,
  \* DumpResult.
  pc, i, j, iSize, pResult, pOffset, pInteger, pRow,
  written       \* what has been written behind the header

result == <<m_nFields, m_nRows, names, data>>
block == <<pResult, pOffset, pInteger, pRow, written>>
vars == <<result, pc, i, j, iSize, block>>

\* The bytes [at, at + size) of the block.
Offset(at, value) == [at |-> at, size |-> SizeofInt, what |-> <<"int", value>>]
Text(at, size, what) == [at |-> at, size |-> size, what |-> what]

Init ==
  /\ m_nFields \in 1..MaxFields /\ m_nRows \in 0..MaxRows
  /\ names \in [0..(m_nFields - 1) -> Lengths]
  /\ data \in [0..(m_nRows - 1) -> [0..(m_nFields - 1) -> Lengths]]
  /\ pc = "sizeFields"
  /\ iSize = SizeofHeader
  /\ i = 0 /\ j = 0 /\ pOffset = 0 /\ pInteger = 0 /\ pRow = 0
  /\ pResult = [pFields |-> -1, pRows |-> -1]
  /\ written = {}

\* The first pass.
SizeField ==
  /\ pc = "sizeFields" /\ j < m_nFields
  /\ iSize' = iSize + SizeofInt + names[j] + 1
  /\ j' = j + 1
  /\ UNCHANGED <<result, pc, i, block>>

EndSizeFields ==
  /\ pc = "sizeFields" /\ j = m_nFields
  /\ pc' = "sizeRows"
  /\ UNCHANGED <<result, i, j, iSize, block>>

SizeRow ==
  /\ pc = "sizeRows" /\ i < m_nRows
  /\ iSize' = iSize + SizeofInt
  /\ j' = 0
  /\ pc' = "sizeData"
  /\ UNCHANGED <<result, i, block>>

\* Mutation: no place for the zero at the end of a value.
Mut_SizeValue ==
  /\ pc = "sizeData" /\ j < m_nFields
  /\ iSize' = iSize + SizeofInt + data[i][j]
  /\ j' = j + 1
  /\ UNCHANGED <<result, pc, i, block>>

SizeValue ==
  /\ pc = "sizeData" /\ j < m_nFields
  /\ iSize' = iSize + SizeofInt + data[i][j] + 1
  /\ j' = j + 1
  /\ UNCHANGED <<result, pc, i, block>>

EndSizeRow ==
  /\ pc = "sizeData" /\ j = m_nFields
  /\ i' = i + 1
  /\ pc' = "sizeRows"
  /\ UNCHANGED <<result, j, iSize, block>>

\* The second pass.
Allocate ==
  /\ pc = "sizeRows" /\ i = m_nRows
  /\ pResult' = [pResult EXCEPT !.pFields = SizeofHeader]
  /\ pInteger' = SizeofHeader
  /\ pOffset' = SizeofHeader + m_nFields * SizeofInt
  /\ i' = 0 /\ j' = 0
  /\ pc' = "fields"
  /\ UNCHANGED <<result, iSize, pRow, written>>

WriteField ==
  /\ pc = "fields" /\ j < m_nFields
  /\ written' = written \cup {Offset(pInteger, pOffset),
                              Text(pOffset, names[j], <<"name", j>>)}
  /\ pInteger' = pInteger + SizeofInt
  /\ pOffset' = pOffset + names[j] + 1
  /\ j' = j + 1
  /\ UNCHANGED <<result, pc, i, iSize, pResult, pRow>>

EndFields ==
  /\ pc = "fields" /\ j = m_nFields
  /\ pResult' = [pResult EXCEPT !.pRows = pOffset]
  /\ pRow' = pOffset
  /\ pOffset' = pOffset + m_nRows * SizeofInt
  /\ pc' = "rows"
  /\ UNCHANGED <<result, i, j, iSize, pInteger, written>>

BeginRow ==
  /\ pc = "rows" /\ i < m_nRows
  /\ written' = written \cup {Offset(pRow, pOffset)}
  /\ pInteger' = pOffset
  /\ pOffset' = pOffset + m_nFields * SizeofInt
  /\ j' = 0
  /\ pc' = "data"
  /\ UNCHANGED <<result, i, iSize, pResult, pRow>>

\* Mutation: the offset is taken after the value.
Mut_WriteValue ==
  /\ pc = "data" /\ j < m_nFields
  /\ pOffset' = pOffset + data[i][j] + 1
  /\ written' = written \cup {Offset(pInteger, pOffset'),
                              Text(pOffset, data[i][j], <<"value", i, j>>)}
  /\ pInteger' = pInteger + SizeofInt
  /\ j' = j + 1
  /\ UNCHANGED <<result, pc, i, iSize, pResult, pRow>>

WriteValue ==
  /\ pc = "data" /\ j < m_nFields
  /\ written' = written \cup {Offset(pInteger, pOffset),
                              Text(pOffset, data[i][j], <<"value", i, j>>)}
  /\ pInteger' = pInteger + SizeofInt
  /\ pOffset' = pOffset + data[i][j] + 1
  /\ j' = j + 1
  /\ UNCHANGED <<result, pc, i, iSize, pResult, pRow>>

EndRow ==
  /\ pc = "data" /\ j = m_nFields
  /\ i' = i + 1
  /\ pRow' = pRow + SizeofInt
  /\ pc' = "rows"
  /\ UNCHANGED <<result, j, iSize, pResult, pOffset, pInteger, written>>

Return ==
  /\ pc = "rows" /\ i = m_nRows
  /\ pc' = "done"
  /\ UNCHANGED <<result, i, j, iSize, block>>

Returned == pc = "done" /\ UNCHANGED vars

Next ==
  \/ SizeField
  \/ EndSizeFields
  \/ SizeRow
  \/ SizeValue
  \/ EndSizeRow
  \/ Allocate
  \/ WriteField
  \/ EndFields
  \/ BeginRow
  \/ WriteValue
  \/ EndRow
  \/ Return
  \/ Returned

Spec == Init /\ [][Next]_vars
-----------------------------------------------------------------------------
\* The first byte behind w and, for a text, behind the zero that ends it.
endOf(w) == w.at + w.size + (IF w.what[1] = "int" THEN 0 ELSE 1)

\* The pass that computes the size and the pass that writes agree: nothing is
\* written outside of the block, a zero remains behind every text within it,
\* and the block is used up.  No write touches a byte another one has written,
\* or the zero at the end of a text, though three pointers advance through the
\* block.
BlockExact ==
  /\ \A w \in written : SizeofHeader <= w.at /\ endOf(w) <= iSize
  /\ pc = "done" => pOffset = iSize
  /\ \A v, w \in written : v = w \/ endOf(v) <= w.at \/ endOf(w) <= v.at

\* A reader that follows the offsets from the header on finds every name and
\* every value.
Readable ==
  pc = "done" =>
    /\ \A c \in 0..(m_nFields - 1) :
         \E w \in written : /\ w.what = <<"name", c>>
                            /\ Offset(pResult.pFields + c * SizeofInt, w.at) \in written
    /\ \A r \in 0..(m_nRows - 1) :
         \E at \in 0..iSize :
           /\ Offset(pResult.pRows + r * SizeofInt, at) \in written
           /\ \A c \in 0..(m_nFields - 1) :
                \E w \in written : /\ w.what = <<"value", r, c>>
                                   /\ Offset(at + c * SizeofInt, w.at) \in written
=============================================================================
