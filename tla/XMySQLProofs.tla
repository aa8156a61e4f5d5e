---------------------------- MODULE XMySQLProofs ----------------------------
(***************************************************************************)
(* Proofs about XMySQL, for any number and size of result sets and any     *)
(* answers of the server.                                                  *)
(***************************************************************************)
EXTENDS XMySQL, SequenceTheorems, TLAPS

USE DEF NULL, Garbage, Handle, Thrown

\* What holds within a call that has executed something: a careful caller had
\* no result set when it made the call, and no caller looks at a row while a
\* query is executed.
CallInv ==
  /\ pc \in {"qwr_store", "qwr_next", "q_store", "sp_store"} /\ ~careless
       => m_pResult = NULL
  /\ pc \in {"q_store", "sp_store"} => ~fetched

\* The fields are those of the result set they belong to, and a row that the
\* caller may look at has as many.
FieldsMatch ==
  m_nFields > 0 =>
    /\ InMemory(m_pFields) /\ heap[m_pFields].fields = m_nFields
    /\ fetched => InMemory(m_sqlRow) /\ heap[m_sqlRow].fields = m_nFields

\* The properties about memory, which hold together.
MemoryInv ==
  PointersLive /\ FieldsMatch /\ ResultDescribed /\ NoLeak /\ CallInv

\* What is still to be read within a call, and what the call is.
WireInv ==
  /\ pc \in {"qwr_next", "sp_next"} => status = "ready"
  /\ pc = "q_store" /\ ~surplus => wire = << >>
  /\ pc \in {"sp_store", "sp_next"} /\ ~surplus =>
       wire = << >> \/ (Tail(wire) = << >> /\ Head(wire) # "rows")
  /\ pc \in {"q_store", "sp_store"} => ~errno
  /\ pc \in {"qwr_store", "qwr_next"} => method = "QueryWithoutResult"
  /\ pc \in {"q_store", "sp_store", "sp_next"} => method # "QueryWithoutResult"

\* The properties about answers and errors, which hold together.
SyncInv == WireInv /\ ReadyForNext /\ SuccessMeansAllRead /\ NoForeignError
-----------------------------------------------------------------------------
\* Sequences of answers.

\* What remains of answers without the first are answers.
LEMMA TailWire ==
  ASSUME NEW s \in Seq(Answer), s # << >>
  PROVE  Tail(s) \in Seq(Answer)
BY HeadTailProperties

\* Nothing is left behind the only answer.
LEMMA EmptyTail ==
  ASSUME NEW s \in Seq(Answer), s # << >>
  PROVE  Tail(s) = << >> <=> Len(s) = 1
<1>1. Tail(s) \in Seq(Answer) /\ Len(Tail(s)) = Len(s) - 1
  BY HeadTailProperties
<1>2. Tail(s) = << >> <=> Len(Tail(s)) = 0
  BY <1>1, EmptySeq
<1> QED  BY <1>1, <1>2, LenProperties

\* Of two answers the second is left.
LEMMA TwoAnswers ==
  ASSUME NEW a \in Seq(Answer), Len(a) = 2
  PROVE  Tail(Tail(a)) = << >> /\ Head(Tail(a)) = a[2]
<1>1. Tail(a) \in Seq(Answer) /\ Len(Tail(a)) = 1 /\ Tail(a)[1] = a[2]
  BY HeadTailProperties, EmptySeq
<1>2. Tail(a) # << >>
  BY <1>1, EmptySeq
<1>3. Tail(Tail(a)) = << >>
  BY <1>1, <1>2, EmptyTail
<1>4. Head(Tail(a)) = Tail(a)[1]
  BY <1>1, <1>2
<1> QED  BY <1>1, <1>3, <1>4

\* The ways in which the answers to be read can change.
WireChange ==
  \/ wire' = wire
  \/ wire' = << >>
  \/ wire # << >> /\ wire' = Tail(wire)
  \/ \E a \in Answers : wire' = Tail(a)

\* Every step changes them in one of these ways.
LEMMA WireChanges == ASSUME [Next]_vars PROVE WireChange
<1>1. ASSUME NEW b, NEW m, NEW next, NEW takes, Execute(m, next, takes, b)
      PROVE  WireChange
  BY <1>1 DEF Execute, QuerySucceeds, QueryFails, Arrived, connection, WireChange
<1>2. CASE Calls
  BY <1>1, <1>2 DEF Calls, WireChange, OpenConnection, QueryWithoutResult, Query,
     StoredProcedureWithOneResultSet, NextRow, CloseConnection,
     CheckConnectionAlive, CheckConnectionDead, CheckConnectionReconnect,
     CloseResult, DumpResult, mysql_real_connect, mysql_close, ConnectFails,
     connection
<1>3. CASE Steps
  BY <1>3 DEF Steps, WireChange, QueryWithoutResultStore, QueryWithoutResultNext,
     QueryStore, StoredProcedureStore, StoredProcedureNext, StoreResult,
     StoreSucceeds, StoreNothing, StoreFails, NextArrives, NoMoreResults,
     NextFails, Arrived, connection
<1> QED
  BY <1>2, <1>3 DEF Next, LoseLink, vars, connection, WireChange

\* They are always answers.
LEMMA WireStep == ASSUME WireOK, [Next]_vars PROVE WireOK'
<1>1. \A a \in Answers : Tail(a) \in Seq(Answer)
  BY AnswersAssumption, TailWire
<1> QED
  BY <1>1, WireChanges, TailWire, EmptySeq DEF WireChange, WireOK
-----------------------------------------------------------------------------
\* The members of the object keep their types.
LEMMA ObjectStep ==
  ASSUME TypeOK, [Next]_vars
  PROVE  ObjectOK'
<1>1. ASSUME NEW b \in BOOLEAN, OpenConnection(b) PROVE ObjectOK'
  BY <1>1, BoundsAssumption DEF OpenConnection, Begin, Return, Fail, Careful,
     ForgetResult, mysql_real_connect, ConnectFails, connection, TypeOK, ObjectOK,
     HeapOK, Results, ResultSets
<1>2. ASSUME NEW b \in BOOLEAN,
             QueryWithoutResult(b) \/ Query(b) \/ StoredProcedureWithOneResultSet(b)
      PROVE  ObjectOK'
  BY <1>2 DEF QueryWithoutResult, Query, StoredProcedureWithOneResultSet, Execute,
     Begin, Return, Fail, Careful, QuerySucceeds, QueryFails, LinkFails,
     Arrived, InSync, object, connection, TypeOK, ObjectOK
<1>3. ASSUME NEW b \in BOOLEAN, NextRow(b) PROVE ObjectOK'
  BY <1>3, BoundsAssumption DEF NextRow, Begin, Return, fetchedRow, connection,
     TypeOK, ObjectOK, HeapOK, Results, ResultSets
<1>4. CASE CloseConnection
  BY <1>4, BoundsAssumption DEF CloseConnection, Begin, Return, Careful,
     ForgetResult, mysql_close, connection, TypeOK, ObjectOK, HeapOK, Results,
     ResultSets
<1>5. CASE CheckConnectionAlive
  BY <1>5, BoundsAssumption DEF CheckConnectionAlive, Begin, Return, Careful,
     InSync, object, connection, TypeOK, ObjectOK, HeapOK, Results, ResultSets
<1>6. CASE CheckConnectionDead
  BY <1>6, BoundsAssumption DEF CheckConnectionDead, Begin, Return, Careful,
     InSync, object, TypeOK, ObjectOK, HeapOK, Results, ResultSets
<1>7. CASE CheckConnectionReconnect
  BY <1>7, BoundsAssumption DEF CheckConnectionReconnect, Begin, Return, Careful,
     ForgetResult, InSync, TypeOK, ObjectOK, HeapOK, Results, ResultSets
<1>8. CASE CloseResult
  BY <1>8, BoundsAssumption DEF CloseResult, Begin, Return, ForgetResult,
     connection, TypeOK, ObjectOK, HeapOK, Results, ResultSets
<1>9. CASE DumpResult
  BY <1>9, BoundsAssumption DEF DumpResult, Begin, Return, object, connection,
     caller, TypeOK, ObjectOK, HeapOK, Results, ResultSets
<1>10. CASE QueryWithoutResultStore
  BY <1>10, BoundsAssumption DEF QueryWithoutResultStore, StoreSucceeds,
     StoreNothing, StoreFails, LinkFails, Return, Fail, caller, connection,
     TypeOK, ObjectOK, HeapOK, Results, ResultSets
<1>11. CASE QueryWithoutResultNext
  BY <1>11, BoundsAssumption DEF QueryWithoutResultNext, NextArrives,
     NoMoreResults, NextFails, LinkFails, Arrived, Return, Fail, object, caller,
     connection, TypeOK, ObjectOK, HeapOK, Results, ResultSets
<1>12. CASE QueryStore
  BY <1>12, BoundsAssumption DEF QueryStore, StoreResult, StoreSucceeds,
     StoreNothing, StoreFails, LinkFails, Return, Fail, caller, connection,
     TypeOK, ObjectOK, HeapOK, Results, ResultSets
<1>13. CASE StoredProcedureStore
  BY <1>13, BoundsAssumption DEF StoredProcedureStore, StoreResult, StoreSucceeds,
     StoreNothing, StoreFails, LinkFails, Return, caller, connection, TypeOK,
     ObjectOK, HeapOK, Results, ResultSets
<1>14. CASE StoredProcedureNext
  BY <1>14, BoundsAssumption DEF StoredProcedureNext, NextArrives, NoMoreResults,
     NextFails, LinkFails, Arrived, object, caller, connection, TypeOK, ObjectOK,
     HeapOK, Results, ResultSets
<1>15. CASE LoseLink
  BY <1>15, BoundsAssumption DEF LoseLink, object, call, caller, TypeOK, ObjectOK,
     HeapOK, Results, ResultSets
<1>16. CASE UNCHANGED vars
  BY <1>16, BoundsAssumption DEF vars, object, call, connection, caller, TypeOK,
     ObjectOK, HeapOK, Results, ResultSets
<1> QED
  BY <1>1, <1>2, <1>3, <1>4, <1>5, <1>6, <1>7, <1>8, <1>9, <1>10, <1>11,
     <1>12, <1>13, <1>14, <1>15, <1>16 DEF Next, Calls, Steps

\* The state of the library keeps its type.
LEMMA LibraryStep ==
  ASSUME TypeOK, [Next]_vars
  PROVE  LibraryOK'
<1>1. ASSUME NEW b \in BOOLEAN, OpenConnection(b) PROVE LibraryOK'
  BY <1>1 DEF OpenConnection, Begin, Return, Fail, Careful, ForgetResult,
     mysql_real_connect, ConnectFails, connection, TypeOK, CallOK, LibraryOK
<1>2. ASSUME NEW b \in BOOLEAN,
             QueryWithoutResult(b) \/ Query(b) \/ StoredProcedureWithOneResultSet(b)
      PROVE  LibraryOK'
  BY <1>2 DEF QueryWithoutResult, Query, StoredProcedureWithOneResultSet, Execute,
     Begin, Return, Fail, Careful, QuerySucceeds, QueryFails, LinkFails,
     Arrived, InSync, object, connection, TypeOK, CallOK, LibraryOK, ObjectOK
<1>3. ASSUME NEW b \in BOOLEAN, NextRow(b) PROVE LibraryOK'
  BY <1>3 DEF NextRow, Begin, Return, fetchedRow, connection, TypeOK, CallOK,
     LibraryOK
<1>4. CASE CloseConnection
  BY <1>4 DEF CloseConnection, Begin, Return, Careful, ForgetResult, mysql_close,
     connection, TypeOK, CallOK, LibraryOK
<1>5. CASE CheckConnectionAlive
  BY <1>5 DEF CheckConnectionAlive, Begin, Return, Careful, InSync, object,
     connection, TypeOK, CallOK, LibraryOK
<1>6. CASE CheckConnectionDead
  BY <1>6 DEF CheckConnectionDead, Begin, Return, Careful, InSync, object, TypeOK,
     CallOK, LibraryOK
<1>7. CASE CheckConnectionReconnect
  BY <1>7 DEF CheckConnectionReconnect, Begin, Return, Careful, ForgetResult,
     InSync, TypeOK, CallOK, LibraryOK
<1>8. CASE CloseResult
  BY <1>8 DEF CloseResult, Begin, Return, ForgetResult, connection, TypeOK,
     CallOK, LibraryOK
<1>9. CASE DumpResult
  BY <1>9 DEF DumpResult, Begin, Return, object, connection, caller, TypeOK,
     CallOK, LibraryOK
<1>10. CASE QueryWithoutResultStore
  BY <1>10 DEF QueryWithoutResultStore, StoreSucceeds, StoreNothing, StoreFails,
     LinkFails, Return, Fail, caller, connection, TypeOK, CallOK, LibraryOK
<1>11. CASE QueryWithoutResultNext
  BY <1>11 DEF QueryWithoutResultNext, NextArrives, NoMoreResults, NextFails,
     LinkFails, Arrived, Return, Fail, object, caller, connection, TypeOK, CallOK,
     LibraryOK
<1>12. CASE QueryStore
  BY <1>12 DEF QueryStore, StoreResult, StoreSucceeds, StoreNothing, StoreFails,
     LinkFails, Return, Fail, caller, connection, TypeOK, CallOK, LibraryOK
<1>13. CASE StoredProcedureStore
  BY <1>13 DEF StoredProcedureStore, StoreResult, StoreSucceeds, StoreNothing,
     StoreFails, LinkFails, Return, caller, connection, TypeOK, CallOK, LibraryOK
<1>14. CASE StoredProcedureNext
  BY <1>14 DEF StoredProcedureNext, NextArrives, NoMoreResults, NextFails,
     LinkFails, Arrived, object, caller, connection, TypeOK, CallOK, LibraryOK
<1>15. CASE LoseLink
  BY <1>15 DEF LoseLink, object, call, caller, TypeOK, CallOK, LibraryOK
<1>16. CASE UNCHANGED vars
  BY <1>16 DEF vars, object, call, connection, caller, TypeOK, CallOK, LibraryOK
<1> QED
  BY <1>1, <1>2, <1>3, <1>4, <1>5, <1>6, <1>7, <1>8, <1>9, <1>10, <1>11,
     <1>12, <1>13, <1>14, <1>15, <1>16 DEF Next, Calls, Steps

\* Every call that executes something begins in the same way.
LEMMA ExecuteCall ==
  ASSUME TypeOK, NEW b \in BOOLEAN, NEW m, NEW takes,
         NEW next \in {"qwr_store", "q_store", "sp_store"},
         Execute(m, next, takes, b), fetched' \in BOOLEAN
  PROVE  CallOK'
<1>1. m_pMySQL' = Handle /\ bException' \in BOOLEAN /\ careless' \in BOOLEAN
  BY DEF Execute, Begin, Careful, object, TypeOK, ObjectOK
<1>2. CASE \E a \in Answers : /\ QuerySucceeds(a)
                              /\ surplus' = (surplus \/ a \notin takes)
                              /\ pc' = next /\ ret' = 1
  <2>1. surplus' \in BOOLEAN
    BY <1>2
  <2> QED  BY <1>1, <1>2, <2>1 DEF CallOK, TypeOK
<1>3. CASE QueryFails /\ Fail(b, 0) /\ UNCHANGED surplus
  BY <1>1, <1>3 DEF CallOK, TypeOK, Fail, Return
<1> QED  BY <1>2, <1>3 DEF Execute

\* A call keeps the types of its variables.
LEMMA CallStep ==
  ASSUME TypeOK, [Next]_vars
  PROVE  CallOK'
<1>1. ASSUME NEW b \in BOOLEAN, OpenConnection(b) PROVE CallOK'
  BY <1>1 DEF OpenConnection, Begin, Return, Fail, Careful, ForgetResult,
     mysql_real_connect, ConnectFails, connection, TypeOK, CallOK
<1>2. ASSUME NEW b \in BOOLEAN,
             QueryWithoutResult(b) \/ Query(b) \/ StoredProcedureWithOneResultSet(b)
      PROVE  CallOK'
  BY <1>2, ExecuteCall DEF QueryWithoutResult, Query,
     StoredProcedureWithOneResultSet, TypeOK, CallOK
<1>3. ASSUME NEW b \in BOOLEAN, NextRow(b) PROVE CallOK'
  BY <1>3 DEF NextRow, Begin, Return, fetchedRow, connection, TypeOK, CallOK
<1>4. CASE CloseConnection
  BY <1>4 DEF CloseConnection, Begin, Return, Careful, ForgetResult, mysql_close,
     connection, TypeOK, CallOK
<1>5. CASE CheckConnectionAlive
  BY <1>5 DEF CheckConnectionAlive, Begin, Return, Careful, InSync, object,
     connection, TypeOK, CallOK
<1>6. CASE CheckConnectionDead
  BY <1>6 DEF CheckConnectionDead, Begin, Return, Careful, InSync, object, TypeOK,
     CallOK
<1>7. CASE CheckConnectionReconnect
  BY <1>7 DEF CheckConnectionReconnect, Begin, Return, Careful, ForgetResult,
     InSync, TypeOK, CallOK
<1>8. CASE CloseResult
  BY <1>8 DEF CloseResult, Begin, Return, ForgetResult, connection, TypeOK, CallOK
<1>9. CASE DumpResult
  BY <1>9 DEF DumpResult, Begin, Return, object, connection, caller, TypeOK,
     CallOK
<1>10. CASE QueryWithoutResultStore
  BY <1>10 DEF QueryWithoutResultStore, StoreSucceeds, StoreNothing, StoreFails,
     LinkFails, Return, Fail, caller, connection, TypeOK, CallOK
<1>11. CASE QueryWithoutResultNext
  BY <1>11 DEF QueryWithoutResultNext, NextArrives, NoMoreResults, NextFails,
     LinkFails, Arrived, Return, Fail, object, caller, connection, TypeOK, CallOK
<1>12. CASE QueryStore
  BY <1>12 DEF QueryStore, StoreResult, StoreSucceeds, StoreNothing, StoreFails,
     LinkFails, Return, Fail, caller, connection, TypeOK, CallOK
<1>13. CASE StoredProcedureStore
  BY <1>13 DEF StoredProcedureStore, StoreResult, StoreSucceeds, StoreNothing,
     StoreFails, LinkFails, Return, caller, connection, TypeOK, CallOK
<1>14. CASE StoredProcedureNext
  BY <1>14 DEF StoredProcedureNext, NextArrives, NoMoreResults, NextFails,
     LinkFails, Arrived, object, caller, connection, TypeOK, CallOK
<1>15. CASE LoseLink
  BY <1>15 DEF LoseLink, object, call, caller, TypeOK, CallOK
<1>16. CASE UNCHANGED vars
  BY <1>16 DEF vars, object, call, connection, caller, TypeOK, CallOK
<1> QED
  BY <1>1, <1>2, <1>3, <1>4, <1>5, <1>6, <1>7, <1>8, <1>9, <1>10, <1>11,
     <1>12, <1>13, <1>14, <1>15, <1>16 DEF Next, Calls, Steps

\* Fetching a row changes nothing in memory but the number of rows left.
LEMMA NextRowHeap ==
  ASSUME TypeOK, NEW b \in BOOLEAN, NextRow(b)
  PROVE  /\ HeapOK'
         /\ \A r \in Results : /\ heap[r] # Free => heap'[r] # Free
                               /\ heap'[r].fields = heap[r].fields
                               /\ heap'[r].rows = heap[r].rows
<1>1. CASE m_pResult # NULL /\ fetchedRow # NULL
  <2>1. m_pResult \in Results /\ heap[m_pResult].left > 0
    BY <1>1 DEF fetchedRow, TypeOK, ObjectOK
  <2>2. heap[m_pResult] \in ResultSets
    BY <2>1 DEF TypeOK, HeapOK, Free
  <2>3. heap' = [heap EXCEPT ![m_pResult] = [heap[m_pResult] EXCEPT !.left = @ - 1]]
    BY <1>1, <2>1 DEF NextRow
  <2>4. [heap[m_pResult] EXCEPT !.left = @ - 1] \in ResultSets
    BY <2>1, <2>2, BoundsAssumption DEF ResultSets
  <2>5. HeapOK'
    BY <2>1, <2>3, <2>4 DEF TypeOK, HeapOK
  <2> QED
    BY <2>1, <2>2, <2>3, <2>4, <2>5 DEF TypeOK, HeapOK, ResultSets, Free
<1>2. CASE ~(m_pResult # NULL /\ fetchedRow # NULL)
  BY <1>2 DEF NextRow, TypeOK, HeapOK
<1> QED  BY <1>1, <1>2

\* So does DumpResult.
LEMMA DumpHeap ==
  ASSUME TypeOK, DumpResult
  PROVE  /\ HeapOK'
         /\ \A r \in Results : /\ heap[r] # Free => heap'[r] # Free
                               /\ heap'[r] # Free => heap[r] # Free
                               /\ heap'[r].fields = heap[r].fields
                               /\ heap'[r].rows = heap[r].rows
<1>1. m_pResult \in Results
  BY DEF DumpResult, TypeOK, ObjectOK
<1>2. heap' = [heap EXCEPT ![m_pResult] = [heap[m_pResult] EXCEPT !.left = 0]]
  BY <1>1 DEF DumpResult
<1>3. CASE heap[m_pResult] = Free
  <2>1. [heap[m_pResult] EXCEPT !.left = 0] = Free
    BY <1>3 DEF Free
  <2> QED  BY <1>1, <1>2, <1>3, <2>1 DEF TypeOK, HeapOK
<1>4. CASE heap[m_pResult] \in ResultSets
  <2>1. [heap[m_pResult] EXCEPT !.left = 0] \in ResultSets
    BY <1>4, BoundsAssumption DEF ResultSets
  <2> QED
    BY <1>1, <1>2, <1>4, <2>1 DEF TypeOK, HeapOK, ResultSets, Free
<1> QED  BY <1>1, <1>3, <1>4 DEF TypeOK, HeapOK

\* Memory holds result sets.
LEMMA HeapStep ==
  ASSUME TypeOK, [Next]_vars
  PROVE  HeapOK'
<1>1. ASSUME NEW b \in BOOLEAN, OpenConnection(b) PROVE HeapOK'
  BY <1>1, BoundsAssumption DEF OpenConnection, Begin, Return, Fail, Careful,
     ForgetResult, mysql_real_connect, ConnectFails, connection, TypeOK, ObjectOK,
     HeapOK, Results, ResultSets, Free
<1>2. ASSUME NEW b \in BOOLEAN,
             QueryWithoutResult(b) \/ Query(b) \/ StoredProcedureWithOneResultSet(b)
      PROVE  HeapOK'
  BY <1>2 DEF QueryWithoutResult, Query, StoredProcedureWithOneResultSet, Execute,
     Begin, Return, Fail, Careful, QuerySucceeds, QueryFails, LinkFails,
     Arrived, InSync, object, connection, TypeOK, HeapOK
<1>3. ASSUME NEW b \in BOOLEAN, NextRow(b) PROVE HeapOK'
  BY <1>3, NextRowHeap
<1>4. CASE CloseConnection
  BY <1>4, BoundsAssumption DEF CloseConnection, Begin, Return, Careful,
     ForgetResult, mysql_close, connection, TypeOK, ObjectOK, HeapOK, Results,
     ResultSets, Free
<1>5. CASE CheckConnectionAlive
  BY <1>5, BoundsAssumption DEF CheckConnectionAlive, Begin, Return, Careful,
     InSync, object, connection, TypeOK, ObjectOK, HeapOK, Results, ResultSets,
     Free
<1>6. CASE CheckConnectionDead
  BY <1>6, BoundsAssumption DEF CheckConnectionDead, Begin, Return, Careful,
     InSync, object, TypeOK, ObjectOK, HeapOK, Results, ResultSets, Free
<1>7. CASE CheckConnectionReconnect
  BY <1>7, BoundsAssumption DEF CheckConnectionReconnect, Begin, Return, Careful,
     ForgetResult, InSync, TypeOK, ObjectOK, HeapOK, Results, ResultSets, Free
<1>8. CASE CloseResult
  BY <1>8, BoundsAssumption DEF CloseResult, Begin, Return, ForgetResult,
     connection, TypeOK, ObjectOK, HeapOK, Results, ResultSets, Free
<1>9. CASE DumpResult
  BY <1>9, DumpHeap
<1>10. CASE QueryWithoutResultStore
  BY <1>10, BoundsAssumption DEF QueryWithoutResultStore, StoreSucceeds,
     StoreNothing, StoreFails, LinkFails, Return, Fail, caller, connection,
     TypeOK, ObjectOK, HeapOK, Results, ResultSets, Free
<1>11. CASE QueryWithoutResultNext
  BY <1>11, BoundsAssumption DEF QueryWithoutResultNext, NextArrives,
     NoMoreResults, NextFails, LinkFails, Arrived, Return, Fail, object, caller,
     connection, TypeOK, ObjectOK, HeapOK, Results, ResultSets, Free
<1>12. CASE QueryStore
  BY <1>12, BoundsAssumption DEF QueryStore, StoreResult, StoreSucceeds,
     StoreNothing, StoreFails, LinkFails, Return, Fail, caller, connection,
     TypeOK, ObjectOK, HeapOK, Results, ResultSets, Free
<1>13. CASE StoredProcedureStore
  BY <1>13, BoundsAssumption DEF StoredProcedureStore, StoreResult, StoreSucceeds,
     StoreNothing, StoreFails, LinkFails, Return, caller, connection, TypeOK,
     ObjectOK, HeapOK, Results, ResultSets, Free
<1>14. CASE StoredProcedureNext
  BY <1>14, BoundsAssumption DEF StoredProcedureNext, NextArrives, NoMoreResults,
     NextFails, LinkFails, Arrived, object, caller, connection, TypeOK, ObjectOK,
     HeapOK, Results, ResultSets, Free
<1>15. CASE LoseLink
  BY <1>15, BoundsAssumption DEF LoseLink, object, call, caller, TypeOK, ObjectOK,
     HeapOK, Results, ResultSets, Free
<1>16. CASE UNCHANGED vars
  BY <1>16, BoundsAssumption DEF vars, object, call, connection, caller, TypeOK,
     ObjectOK, HeapOK, Results, ResultSets, Free
<1> QED
  BY <1>1, <1>2, <1>3, <1>4, <1>5, <1>6, <1>7, <1>8, <1>9, <1>10, <1>11,
     <1>12, <1>13, <1>14, <1>15, <1>16 DEF Next, Calls, Steps

\* Every step keeps the types.
LEMMA TypeStep == ASSUME TypeOK, [Next]_vars PROVE TypeOK'
BY ObjectStep, CallStep, LibraryStep, WireStep, HeapStep DEF TypeOK

\* The types hold in the beginning.
LEMMA TypeInit == Init => TypeOK
<1>1. Init => ObjectOK
  BY BoundsAssumption DEF Init, ObjectOK
<1>2. Init => CallOK /\ LibraryOK
  BY DEF Init, CallOK, LibraryOK
<1>3. Init => HeapOK
  BY DEF Init, HeapOK
<1>4. Init => WireOK
  BY EmptySeq DEF Init, WireOK
<1> QED  BY <1>1, <1>2, <1>3, <1>4 DEF TypeOK

\* XMySQL keeps the types of its variables, and has a handle whenever it is
\* connected or within a call that uses one.
THEOREM XMySQLTypeCorrect == Spec => []TypeOK
BY TypeInit, TypeStep, PTL DEF Spec
-----------------------------------------------------------------------------
\* What NextRow says it has fetched is a row of m_pResult.
LEMMA NextRowFetched ==
  ASSUME NEW b \in BOOLEAN, NextRow(b), fetched'
  PROVE  m_pResult # NULL /\ m_sqlRow' = m_pResult
<1>1. ret' = 1
  BY DEF NextRow
<1>2. m_sqlRow' # NULL
  BY <1>1 DEF NextRow, Return
<1> QED  BY <1>2 DEF NextRow, fetchedRow

\* A call that forgets the result set, as those that connect and disconnect do,
\* keeps the properties about memory.
LEMMA ForgetMemory ==
  ASSUME TypeOK, MemoryInv, ForgetResult, Careful, pc' = "idle",
         UNCHANGED <<heap, m_sqlRow, fetched>>
  PROVE  MemoryInv'
<1>1. PointersLive' /\ FieldsMatch' /\ ResultDescribed' /\ CallInv'
  BY DEF ForgetResult, MemoryInv, PointersLive, InMemory, FieldsMatch,
     ResultDescribed, CallInv
<1>2. NoLeak'
  BY DEF ForgetResult, Careful, MemoryInv, NoLeak, TypeOK, ObjectOK, CallOK, Results
<1> QED  BY <1>1, <1>2 DEF MemoryInv

\* So does one that begins to execute something.
LEMMA ExecuteMemory ==
  ASSUME TypeOK, MemoryInv, NEW b \in BOOLEAN, NEW m, NEW takes,
         NEW next \in {"qwr_store", "q_store", "sp_store"},
         Execute(m, next, takes, b),
         IF next = "qwr_store" THEN fetched' = fetched ELSE fetched' = FALSE
  PROVE  MemoryInv'
<1>1. pc' \in {"idle", next}
  BY DEF Execute, Fail, Return
<1>2. PointersLive' /\ FieldsMatch' /\ ResultDescribed'
  BY DEF Execute, object, MemoryInv, PointersLive, InMemory, FieldsMatch,
     ResultDescribed
<1>3. NoLeak'
  BY DEF Execute, object, Careful, MemoryInv, NoLeak
<1>4. CallInv'
  BY <1>1 DEF Execute, object, Careful, CallInv
<1> QED  BY <1>2, <1>3, <1>4 DEF MemoryInv

\* Every step keeps the properties about memory.
LEMMA MemoryStep ==
  ASSUME TypeOK, MemoryInv, [Next]_vars
  PROVE  MemoryInv'
<1>1. ASSUME NEW b \in BOOLEAN, OpenConnection(b) PROVE MemoryInv'
  BY <1>1, ForgetMemory DEF OpenConnection, Return, Fail
<1>2. ASSUME NEW b \in BOOLEAN,
             QueryWithoutResult(b) \/ Query(b) \/ StoredProcedureWithOneResultSet(b)
      PROVE  MemoryInv'
  BY <1>2, ExecuteMemory DEF QueryWithoutResult, Query,
     StoredProcedureWithOneResultSet
<1>3. ASSUME NEW b \in BOOLEAN, NextRow(b) PROVE MemoryInv'
  <2>1. PointersLive' /\ ResultDescribed' /\ NoLeak' /\ CallInv'
    BY <1>3, BoundsAssumption, SMTT(30) DEF NextRow, Begin, Return, fetchedRow, MemoryInv,
       PointersLive, InMemory, ResultDescribed, NoLeak, CallInv, TypeOK, ObjectOK,
       CallOK, HeapOK, Results, ResultSets, Free
  <2>2. FieldsMatch'
    BY <1>3, NextRowHeap, NextRowFetched DEF NextRow, MemoryInv, PointersLive,
       InMemory, FieldsMatch, ResultDescribed, TypeOK, ObjectOK
  <2> QED  BY <2>1, <2>2 DEF MemoryInv
<1>4. CASE CloseConnection
  BY <1>4, ForgetMemory DEF CloseConnection, Return
<1>5. CASE CheckConnectionAlive
  BY <1>5, BoundsAssumption DEF CheckConnectionAlive, Begin, Return, Careful,
     InSync, object, connection, MemoryInv, PointersLive, InMemory, FieldsMatch,
     ResultDescribed, NoLeak, CallInv, TypeOK, ObjectOK, CallOK, HeapOK, Results,
     ResultSets, Free
<1>6. CASE CheckConnectionDead
  BY <1>6, BoundsAssumption DEF CheckConnectionDead, Begin, Return, Careful,
     InSync, object, MemoryInv, PointersLive, InMemory, FieldsMatch,
     ResultDescribed, NoLeak, CallInv, TypeOK, ObjectOK, CallOK, HeapOK, Results,
     ResultSets, Free
<1>7. CASE CheckConnectionReconnect
  BY <1>7, ForgetMemory DEF CheckConnectionReconnect, Return
<1>8. CASE CloseResult
  BY <1>8, BoundsAssumption DEF CloseResult, Begin, Return, ForgetResult,
     connection, MemoryInv, PointersLive, InMemory, FieldsMatch, ResultDescribed,
     NoLeak, CallInv, TypeOK, ObjectOK, CallOK, HeapOK, Results, ResultSets, Free
<1>9. CASE DumpResult
  BY <1>9, DumpHeap, ZenonT(30) DEF DumpResult, Begin, Return, object, caller, MemoryInv,
     PointersLive, InMemory, FieldsMatch, ResultDescribed, NoLeak, CallInv,
     TypeOK, ObjectOK
<1>10. CASE QueryWithoutResultStore
  BY <1>10, BoundsAssumption, SMTT(30) DEF QueryWithoutResultStore, StoreSucceeds,
     StoreNothing, StoreFails, LinkFails, Return, Fail, caller, connection,
     MemoryInv, PointersLive, InMemory, FieldsMatch, ResultDescribed, NoLeak,
     CallInv, TypeOK, ObjectOK, CallOK, HeapOK, Results, ResultSets, Free
<1>11. CASE QueryWithoutResultNext
  BY <1>11, BoundsAssumption, SMTT(30) DEF QueryWithoutResultNext, NextArrives,
     NoMoreResults, NextFails, LinkFails, Arrived, Return, Fail, object, caller,
     connection, MemoryInv, PointersLive, InMemory, FieldsMatch, ResultDescribed,
     NoLeak, CallInv, TypeOK, ObjectOK, CallOK, HeapOK, Results, ResultSets, Free
<1>12. CASE QueryStore
  BY <1>12, BoundsAssumption, SMTT(30) DEF QueryStore, StoreResult, StoreSucceeds,
     StoreNothing, StoreFails, LinkFails, Return, Fail, caller, connection,
     MemoryInv, PointersLive, InMemory, FieldsMatch, ResultDescribed, NoLeak,
     CallInv, TypeOK, ObjectOK, CallOK, HeapOK, Results, ResultSets, Free
<1>13. CASE StoredProcedureStore
  BY <1>13, BoundsAssumption, SMTT(30) DEF StoredProcedureStore, StoreResult, StoreSucceeds,
     StoreNothing, StoreFails, LinkFails, Return, caller, connection, MemoryInv,
     PointersLive, InMemory, FieldsMatch, ResultDescribed, NoLeak, CallInv,
     TypeOK, ObjectOK, CallOK, HeapOK, Results, ResultSets, Free
<1>14. CASE StoredProcedureNext
  BY <1>14, BoundsAssumption, SMTT(30) DEF StoredProcedureNext, NextArrives, NoMoreResults,
     NextFails, LinkFails, Arrived, object, caller, connection, MemoryInv,
     PointersLive, InMemory, FieldsMatch, ResultDescribed, NoLeak, CallInv,
     TypeOK, ObjectOK, CallOK, HeapOK, Results, ResultSets, Free
<1>15. CASE LoseLink
  BY <1>15, BoundsAssumption DEF LoseLink, object, call, caller, MemoryInv,
     PointersLive, InMemory, FieldsMatch, ResultDescribed, NoLeak, CallInv,
     TypeOK, ObjectOK, CallOK, HeapOK, Results, ResultSets, Free
<1>16. CASE UNCHANGED vars
  BY <1>16, BoundsAssumption DEF vars, object, call, connection, caller,
     MemoryInv, PointersLive, InMemory, FieldsMatch, ResultDescribed, NoLeak,
     CallInv, TypeOK, ObjectOK, CallOK, HeapOK, Results, ResultSets, Free
<1> QED
  BY <1>1, <1>2, <1>3, <1>4, <1>5, <1>6, <1>7, <1>8, <1>9, <1>10, <1>11,
     <1>12, <1>13, <1>14, <1>15, <1>16 DEF Next, Calls, Steps

\* They hold in the beginning.
LEMMA MemoryInit == Init => MemoryInv
BY DEF Init, MemoryInv, PointersLive, FieldsMatch, ResultDescribed, NoLeak, CallInv

\* All of them, always.
LEMMA MemoryCorrect == Spec => []MemoryInv
BY TypeInit, TypeStep, MemoryInit, MemoryStep, PTL DEF Spec

\* m_pResult, m_pFields and m_sqlRow never point to memory that was freed.
THEOREM PointersCorrect == Spec => []PointersLive
<1>1. MemoryInv => PointersLive
  BY DEF MemoryInv
<1> QED  BY <1>1, MemoryCorrect, PTL

\* GetField and GetFieldValue read names and values that exist.
THEOREM ReadsCorrect == Spec => []ReadsInBounds
<1>1. TypeOK /\ MemoryInv => ReadsInBounds
  BY BoundsAssumption DEF MemoryInv, FieldsMatch, ReadsInBounds, readsField, TypeOK, ObjectOK
<1> QED  BY <1>1, XMySQLTypeCorrect, MemoryCorrect, PTL

\* The fields and numbers that NextRow and DumpResult use are those of m_pResult.
THEOREM ResultCorrect == Spec => []ResultDescribed
<1>1. MemoryInv => ResultDescribed
  BY DEF MemoryInv
<1> QED  BY <1>1, MemoryCorrect, PTL

\* A caller that closes its result sets loses no memory.
THEOREM NoLeakCorrect == Spec => []NoLeak
<1>1. MemoryInv => NoLeak
  BY DEF MemoryInv
<1> QED  BY <1>1, MemoryCorrect, PTL
-----------------------------------------------------------------------------
\* Executing something leaves no more answers to be read than the method takes.
LEMMA ExecuteSync ==
  ASSUME TypeOK, MemoryInv, SyncInv, NEW b \in BOOLEAN, NEW m, NEW takes,
         NEW next \in {"qwr_store", "q_store", "sp_store"},
         Execute(m, next, takes, b),
         next = "qwr_store" <=> m = "QueryWithoutResult",
         next = "q_store" => \A a \in takes : Len(a) = 1,
         next = "sp_store" => \A a \in takes : Len(a) = 1 \/ (Len(a) = 2 /\ a[2] # "rows")
  PROVE  SyncInv'
<1>1. CASE \E a \in Answers : /\ QuerySucceeds(a)
                              /\ surplus' = (surplus \/ a \notin takes)
                              /\ pc' = next /\ ret' = 1
  <2>1. PICK a \in Answers : /\ QuerySucceeds(a)
                             /\ surplus' = (surplus \/ a \notin takes)
                             /\ pc' = next
    BY <1>1
  <2>2. a \in Seq(Answer) /\ a # << >>
    BY AnswersAssumption
  <2>3. wire' = Tail(a) /\ errno' = FALSE /\ method' = m
    BY <2>1 DEF QuerySucceeds, Arrived, Execute, Begin
  <2>4. ~surplus' => a \in takes
    BY <2>1
  <2>5. Len(a) = 1 => Tail(a) = << >>
    BY <2>2, EmptyTail
  <2>6. Len(a) = 2 => Tail(Tail(a)) = << >> /\ Head(Tail(a)) = a[2]
    BY <2>2, TwoAnswers
  <2> QED
    BY <2>1, <2>3, <2>4, <2>5, <2>6
       DEF SyncInv, WireInv, ReadyForNext, SuccessMeansAllRead, NoForeignError
<1>2. CASE QueryFails /\ Fail(b, 0) /\ UNCHANGED surplus
  <2>1. /\ pc' = "idle" /\ ret' \in {0, Thrown} /\ errno' = TRUE
        /\ UNCHANGED <<status, wire, unstored, surplus>>
    BY <1>2 DEF Fail, Return, QueryFails, LinkFails, connection
  <2>2. link' = "up" => link = "up"
    BY <1>2 DEF QueryFails, LinkFails, connection
  <2>3. ReadyForNext'
    BY <2>1, <2>2 DEF Execute, Begin, SyncInv, ReadyForNext, InSync
  <2>4. NoForeignError'
    BY DEF Execute, Careful, object, NoForeignError
  <2> QED
    BY <2>1, <2>3, <2>4 DEF SyncInv, WireInv, SuccessMeansAllRead
<1> QED  BY <1>1, <1>2 DEF Execute

\* Every step keeps the properties about answers and errors.
LEMMA SyncStep ==
  ASSUME TypeOK, MemoryInv, SyncInv, [Next]_vars
  PROVE  SyncInv'
<1>1. ASSUME NEW b \in BOOLEAN, OpenConnection(b) PROVE SyncInv'
  BY <1>1 DEF OpenConnection, Begin, Return, Fail, Careful, ForgetResult,
     mysql_real_connect, ConnectFails, connection, SyncInv, WireInv, ReadyForNext,
     SuccessMeansAllRead, NoForeignError, MemoryInv, CallInv, TypeOK, ObjectOK,
     CallOK, LibraryOK, InSync
<1>2. ASSUME NEW b \in BOOLEAN,
             QueryWithoutResult(b) \/ Query(b) \/ StoredProcedureWithOneResultSet(b)
      PROVE  SyncInv'
  BY <1>2, ExecuteSync DEF QueryWithoutResult, Query, StoredProcedureWithOneResultSet
<1>3. ASSUME NEW b \in BOOLEAN, NextRow(b) PROVE SyncInv'
  BY <1>3 DEF NextRow, Begin, Return, fetchedRow, connection, SyncInv, WireInv,
     ReadyForNext, SuccessMeansAllRead, NoForeignError, MemoryInv, CallInv,
     TypeOK, ObjectOK, CallOK, LibraryOK, InSync
<1>4. CASE CloseConnection
  BY <1>4 DEF CloseConnection, Begin, Return, Careful, ForgetResult, mysql_close,
     connection, SyncInv, WireInv, ReadyForNext, SuccessMeansAllRead,
     NoForeignError, MemoryInv, CallInv, TypeOK, ObjectOK, CallOK, LibraryOK,
     InSync
<1>5. CASE CheckConnectionAlive
  BY <1>5 DEF CheckConnectionAlive, Begin, Return, Careful, InSync, object,
     connection, SyncInv, WireInv, ReadyForNext, SuccessMeansAllRead,
     NoForeignError, MemoryInv, CallInv, TypeOK, ObjectOK, CallOK, LibraryOK,
     InSync
<1>6. CASE CheckConnectionDead
  BY <1>6 DEF CheckConnectionDead, Begin, Return, Careful, InSync, object,
     SyncInv, WireInv, ReadyForNext, SuccessMeansAllRead, NoForeignError,
     MemoryInv, CallInv, TypeOK, ObjectOK, CallOK, LibraryOK, InSync
<1>7. CASE CheckConnectionReconnect
  BY <1>7 DEF CheckConnectionReconnect, Begin, Return, Careful, ForgetResult,
     InSync, SyncInv, WireInv, ReadyForNext, SuccessMeansAllRead, NoForeignError,
     MemoryInv, CallInv, TypeOK, ObjectOK, CallOK, LibraryOK, InSync
<1>8. CASE CloseResult
  BY <1>8 DEF CloseResult, Begin, Return, ForgetResult, connection, SyncInv,
     WireInv, ReadyForNext, SuccessMeansAllRead, NoForeignError, MemoryInv,
     CallInv, TypeOK, ObjectOK, CallOK, LibraryOK, InSync
<1>9. CASE DumpResult
  BY <1>9 DEF DumpResult, Begin, Return, object, connection, caller, SyncInv,
     WireInv, ReadyForNext, SuccessMeansAllRead, NoForeignError, MemoryInv,
     CallInv, TypeOK, ObjectOK, CallOK, LibraryOK, InSync
<1>10. CASE QueryWithoutResultStore
  <2>1. NoForeignError'
    BY <1>10 DEF QueryWithoutResultStore, caller, NoForeignError, MemoryInv, CallInv
  <2>2. CASE StoreFails /\ Fail(bException, 1)
    <3>1. /\ pc' = "idle" /\ errno' = TRUE /\ status' = "ready"
          /\ ret' = IF bException THEN Thrown ELSE 1
          /\ bException' = bException /\ surplus' = surplus
      BY <1>10, <2>2 DEF QueryWithoutResultStore, StoreFails, LinkFails, Fail, Return,
         caller
    <3>2. link' = "up" => wire' = << >> \/ unstored'
      BY <2>2 DEF StoreFails, LinkFails
    <3> QED
      BY <2>1, <3>1, <3>2 DEF SyncInv, WireInv, ReadyForNext, SuccessMeansAllRead,
         InSync, TypeOK, CallOK
  <2>3. CASE StoreSucceeds \/ StoreNothing
    <3>1. CASE pc' = "qwr_next" /\ UNCHANGED ret
      BY <1>10, <2>1, <2>3, <3>1 DEF QueryWithoutResultStore, StoreSucceeds,
         StoreNothing, connection, caller, SyncInv, WireInv, ReadyForNext,
         SuccessMeansAllRead, TypeOK, LibraryOK
    <3>2. CASE StoreFails /\ Fail(bException, 1)
      BY <2>2, <3>2
    <3> QED  BY <1>10, <3>1, <3>2 DEF QueryWithoutResultStore
  <2> QED  BY <1>10, <2>2, <2>3 DEF QueryWithoutResultStore
<1>11. CASE QueryWithoutResultNext
  BY <1>11 DEF QueryWithoutResultNext, NextArrives, NoMoreResults, NextFails,
     LinkFails, Arrived, Return, Fail, object, caller, connection, SyncInv,
     WireInv, ReadyForNext, SuccessMeansAllRead, NoForeignError, MemoryInv,
     CallInv, TypeOK, ObjectOK, CallOK, LibraryOK, InSync
<1>12. CASE QueryStore
  BY <1>12 DEF QueryStore, StoreResult, StoreSucceeds, StoreNothing, StoreFails,
     LinkFails, Return, Fail, caller, connection, SyncInv, WireInv, ReadyForNext,
     SuccessMeansAllRead, NoForeignError, MemoryInv, CallInv, TypeOK, ObjectOK,
     CallOK, LibraryOK, InSync
<1>13. CASE StoredProcedureStore
  BY <1>13 DEF StoredProcedureStore, StoreResult, StoreSucceeds, StoreNothing,
     StoreFails, LinkFails, Return, caller, connection, SyncInv, WireInv,
     ReadyForNext, SuccessMeansAllRead, NoForeignError, MemoryInv, CallInv,
     TypeOK, ObjectOK, CallOK, LibraryOK, InSync
<1>14. CASE StoredProcedureNext
  <2>1. ReadyForNext'
    <3>1. CASE NextArrives
      <4>1. ~surplus => Tail(wire) = << >> /\ Head(wire) # "rows"
        BY <1>14, <3>1 DEF StoredProcedureNext, NextArrives, SyncInv, WireInv
      <4> QED
        BY <1>14, <3>1, <4>1 DEF StoredProcedureNext, NextArrives, Arrived, caller,
           ReadyForNext, InSync
    <3>2. CASE NoMoreResults
      BY <1>14, <3>2 DEF StoredProcedureNext, NoMoreResults, connection, caller,
         ReadyForNext, InSync, SyncInv, WireInv
    <3>3. CASE NextFails /\ UNCHANGED pc
      BY <1>14, <3>3 DEF StoredProcedureNext, ReadyForNext
    <3> QED  BY <1>14, <3>1, <3>2, <3>3 DEF StoredProcedureNext
  <2>2. WireInv' /\ SuccessMeansAllRead' /\ NoForeignError'
    BY <1>14 DEF StoredProcedureNext, NextArrives, NoMoreResults, NextFails,
       LinkFails, Arrived, object, caller, connection, SyncInv, WireInv,
       SuccessMeansAllRead, NoForeignError, InSync
  <2> QED  BY <2>1, <2>2 DEF SyncInv
<1>15. CASE LoseLink
  BY <1>15 DEF LoseLink, object, call, caller, SyncInv, WireInv, ReadyForNext,
     SuccessMeansAllRead, NoForeignError, MemoryInv, CallInv, TypeOK, ObjectOK,
     CallOK, LibraryOK, InSync
<1>16. CASE UNCHANGED vars
  BY <1>16 DEF vars, object, call, connection, caller, SyncInv, WireInv,
     ReadyForNext, SuccessMeansAllRead, NoForeignError, MemoryInv, CallInv,
     TypeOK, ObjectOK, CallOK, LibraryOK, InSync
<1> QED
  BY <1>1, <1>2, <1>3, <1>4, <1>5, <1>6, <1>7, <1>8, <1>9, <1>10, <1>11,
     <1>12, <1>13, <1>14, <1>15, <1>16 DEF Next, Calls, Steps

\* They hold in the beginning.
LEMMA SyncInit == Init => SyncInv
BY DEF Init, SyncInv, WireInv, ReadyForNext, SuccessMeansAllRead, NoForeignError

\* All of them, always.
LEMMA SyncCorrect == Spec => []SyncInv
BY TypeInit, TypeStep, MemoryInit, MemoryStep, SyncInit, SyncStep, PTL DEF Spec

\* After every call a connection that is up is ready for the next statement,
\* unless Query or StoredProcedureWithOneResultSet was given something with more
\* answers than they read, or the client had no memory for a result set of the
\* last statement with answers behind it, which mysql_errno then still shows.
THEOREM ReadyCorrect == Spec => []ReadyForNext
<1>1. SyncInv => ReadyForNext
  BY DEF SyncInv
<1> QED  BY <1>1, SyncCorrect, PTL

\* QueryWithoutResult called with bException returns only if every answer has
\* been read and none was an error.
THEOREM SuccessCorrect == Spec => []SuccessMeansAllRead
<1>1. SyncInv => SuccessMeansAllRead
  BY DEF SyncInv
<1> QED  BY <1>1, SyncCorrect, PTL

\* No error of another call keeps a careful caller from its rows.
THEOREM ErrorCorrect == Spec => []NoForeignError
<1>1. SyncInv => NoForeignError
  BY DEF SyncInv
<1> QED  BY <1>1, SyncCorrect, PTL
=============================================================================
