------------------------------- MODULE XMySQL -------------------------------
(***************************************************************************)
(* One object of class XMySQL (xmysql.cpp) over the MySQL client library,  *)
(* which is external and modelled by the calls xmysql.cpp makes of it.     *)
(*                                                                         *)
(* A statement is known by the answers the server gives to it: one for     *)
(* every statement of a string of several, or for every result set of a    *)
(* stored procedure and one for its end.  An answer is a result set        *)
(* ("rows"), a success without one ("ok") or an error, which is the last.  *)
(* The first answer is read by mysql_query, the next ones by               *)
(* mysql_next_result, the rows of an answer by mysql_store_result.         *)
(*                                                                         *)
(* The link can break at any moment.  The client notices at its next call  *)
(* and does not connect again by itself.                                   *)
(***************************************************************************)
EXTENDS Integers, Sequences

CONSTANTS
  MaxResults,   \* result sets the client can hold at a time
  MaxFields,    \* columns of a result set
  MaxRows,      \* rows of a result set
  Answers       \* the sequences of answers of the server

Answer == {"ok", "rows", "error"}

ASSUME BoundsAssumption ==
  MaxResults \in Nat \ {0} /\ MaxFields \in Nat \ {0} /\ MaxRows \in Nat

ASSUME AnswersAssumption ==
  \A a \in Answers : /\ a \in Seq(Answer) /\ a # << >>
                     /\ \A j \in 1..Len(a) : a[j] = "error" => j = Len(a)

\* A pointer is the number of the result set it points to or into.
NULL == 0
Garbage == -1
Handle == 1

\* The outcome of a call that ends in an exception.
Thrown == -1
Results == 1..MaxResults

\* A result set in memory, with the number of rows not yet fetched, or none.
Free == [fields |-> 0, rows |-> 0, left |-> 0]
ResultSets == [fields : 1..MaxFields, rows : 0..MaxRows, left : 0..MaxRows]

VARIABLES
  \* The object.
  m_pMySQL, m_pResult, m_pFields, m_nFields, m_nRows, m_sqlRow,
  \* The call in progress or the last one: where it is, its method, the
  \* parameter bException, what it returned.
  pc, method, bException, ret,
  \* The library: state of the link, whether rows of the current answer are
  \* still to be read, the answers not yet read, whether it had no memory for a
  \* result set of the last statement that other answers follow,
  \* mysql_errno() # 0, memory.
  link, status, wire, unstored, errno, heap,
  \* What the caller has done: it has fetched a row and may look at it; it has
  \* once made another call before it closed its result set; it has, since it
  \* connected, executed something with more answers than the method reads.
  fetched, careless, surplus

object == <<m_pMySQL, m_pResult, m_pFields, m_nFields, m_nRows, m_sqlRow>>
connection == <<link, status, wire, unstored>>
call == <<pc, method, bException, ret>>
caller == <<fetched, careless, surplus>>
vars == <<object, call, connection, errno, heap, caller>>

\* The constructor initialises neither m_sqlRow nor m_nRows.
Init ==
  /\ m_pMySQL = NULL /\ m_pResult = NULL /\ m_pFields = NULL /\ m_nFields = 0
  /\ m_nRows = Garbage /\ m_sqlRow = Garbage
  /\ pc = "idle" /\ method = "XMySQL" /\ bException = FALSE /\ ret = 0
  /\ link = "closed" /\ status = "ready" /\ wire = << >> /\ unstored = FALSE
  /\ errno = FALSE
  /\ heap = [r \in Results |-> Free]
  /\ fetched = FALSE /\ careless = FALSE /\ surplus = FALSE

Begin(m, b) == pc = "idle" /\ method' = m /\ bException' = b

Return(v) == pc' = "idle" /\ ret' = v

\* Every failure of the library ends in one of these two ways.
Fail(b, v) == Return(IF b THEN Thrown ELSE v)

\* A caller is careful as long as it only fetches rows while it has a result.
Careful == careless' = (careless \/ m_pResult # NULL)

ForgetResult == m_pResult' = NULL /\ m_pFields' = NULL /\ m_nFields' = 0
-----------------------------------------------------------------------------
\* The library.

InSync == status = "ready" /\ wire = << >>

\* A call that needs the server and finds the link broken closes it.
LinkFails ==
  /\ link # "up"
  /\ link' = "closed" /\ errno' = TRUE

\* A handle that is connected, as far as it knows, cannot be connected again.
mysql_real_connect ==
  /\ link = "closed"
  /\ link' = "up" /\ status' = "ready" /\ wire' = << >> /\ unstored' = FALSE
  /\ errno' = FALSE

ConnectFails == errno' = TRUE /\ UNCHANGED connection

mysql_close ==
  /\ link' = "closed" /\ status' = "ready" /\ wire' = << >> /\ unstored' = FALSE
  /\ errno' = FALSE

\* The answer a has arrived, rest has not been read.
Arrived(a, rest) ==
  /\ wire' = rest
  /\ status' = IF a = "rows" THEN "rows" ELSE "ready"
  /\ errno' = FALSE

QuerySucceeds(a) ==
  /\ link = "up" /\ InSync /\ a[1] # "error"
  /\ Arrived(a[1], Tail(a))
  /\ unstored' = FALSE
  /\ UNCHANGED link

\* The server reports an error; answers are still to be read; the link is
\* broken; it breaks before the answer has come.
QueryFails ==
  \/ link = "up" /\ errno' = TRUE /\ UNCHANGED connection
  \/ LinkFails /\ UNCHANGED <<status, wire, unstored>>
  \/ /\ link = "up" /\ InSync
     /\ link' = "closed" /\ errno' = TRUE /\ UNCHANGED <<status, wire, unstored>>

\* The rows of a result set arrive completely.
StoreSucceeds ==
  /\ status = "rows" /\ link = "up"
  /\ status' = "ready"
  /\ UNCHANGED <<link, wire, unstored, errno>>

\* mysql_store_result has nothing to do, and mysql_field_count is 0.
StoreNothing == status # "rows" /\ UNCHANGED <<connection, errno>>

\* The rows end in an error of the server, after which no answers follow; the
\* client has no memory for them, and the answers behind them are still to be
\* read; the link is broken.
StoreFails ==
  /\ status = "rows"
  /\ status' = "ready" /\ errno' = TRUE
  /\ \/ link = "up" /\ wire' = << >> /\ UNCHANGED <<link, unstored>>
     \/ /\ link = "up" /\ UNCHANGED <<link, wire>>
        /\ unstored' = (unstored \/ wire # << >>)
     \/ LinkFails /\ UNCHANGED <<wire, unstored>>

\* mysql_next_result = 0, = -1, > 0
NextArrives ==
  /\ link = "up" /\ wire # << >> /\ Head(wire) # "error"
  /\ Arrived(Head(wire), Tail(wire))
  /\ UNCHANGED <<link, unstored>>

NoMoreResults ==
  wire = << >> /\ errno' = FALSE /\ UNCHANGED connection

NextFails ==
  /\ wire # << >>
  /\ \/ /\ link = "up" /\ Head(wire) = "error"
        /\ wire' = << >> /\ errno' = TRUE /\ UNCHANGED <<link, status, unstored>>
     \/ LinkFails /\ UNCHANGED <<status, wire, unstored>>

LoseLink ==
  /\ link = "up" /\ link' = "broken"
  /\ UNCHANGED <<object, call, status, wire, unstored, errno, heap, caller>>
-----------------------------------------------------------------------------
\* A result set that has not been closed is forgotten, not freed.
OpenConnection(b) ==
  /\ Begin("OpenConnection", b)
  /\ m_pMySQL' = Handle /\ ForgetResult
  /\ \/ mysql_real_connect /\ Return(1) /\ surplus' = FALSE
     \/ ConnectFails /\ Fail(b, 0) /\ UNCHANGED surplus
  /\ Careful
  /\ UNCHANGED <<m_nRows, m_sqlRow, heap, fetched>>

\* Mutation: the handle is forgotten and the connection stays open.
Mut_CloseConnection ==
  /\ Begin("CloseConnection", FALSE)
  /\ m_pMySQL' = NULL /\ ForgetResult
  /\ Return(0)
  /\ surplus' = FALSE /\ Careful
  /\ UNCHANGED <<connection, errno, m_nRows, m_sqlRow, heap, fetched>>

CloseConnection ==
  /\ Begin("CloseConnection", FALSE)
  /\ IF m_pMySQL # NULL THEN mysql_close ELSE UNCHANGED <<connection, errno>>
  /\ m_pMySQL' = NULL /\ ForgetResult
  /\ Return(0)
  /\ surplus' = FALSE /\ Careful
  /\ UNCHANGED <<m_nRows, m_sqlRow, heap, fetched>>

CheckConnectionAlive ==
  /\ Begin("CheckConnection", FALSE)
  /\ m_pMySQL # NULL
  /\ link = "up" /\ InSync
  /\ errno' = FALSE
  /\ Return(1) /\ Careful
  /\ UNCHANGED <<object, connection, heap, fetched, surplus>>

\* mysql_ping fails like a query, also when answers have not been read.
CheckConnectionDead ==
  /\ Begin("CheckConnection", FALSE)
  /\ m_pMySQL # NULL
  /\ ~(link = "up" /\ InSync)
  /\ errno' = TRUE
  /\ link' = IF link = "up" THEN "up" ELSE "closed"
  /\ Return(0) /\ Careful
  /\ UNCHANGED <<object, status, wire, unstored, heap, fetched, surplus>>

\* bReconnect: CloseConnection and OpenConnection.
CheckConnectionReconnect ==
  /\ Begin("CheckConnection", FALSE)
  /\ m_pMySQL # NULL
  /\ ~(link = "up" /\ InSync)
  /\ m_pMySQL' = Handle /\ ForgetResult
  /\ status' = "ready" /\ wire' = << >> /\ unstored' = FALSE
  /\ \/ link' = "up" /\ errno' = FALSE /\ Return(2)
     \/ link' = "closed" /\ errno' = TRUE /\ Return(0)
  /\ surplus' = FALSE /\ Careful
  /\ UNCHANGED <<m_nRows, m_sqlRow, heap, fetched>>
-----------------------------------------------------------------------------
\* mysql_query, with which the three methods that execute something begin.
\* takes are the sequences of answers the method reads to their end.
Execute(m, next, takes, b) ==
  /\ Begin(m, b)
  /\ m_pMySQL # NULL
  /\ \/ \E a \in Answers :
          /\ QuerySucceeds(a)
          /\ surplus' = (surplus \/ a \notin takes)
          /\ pc' = next /\ ret' = 1
     \/ QueryFails /\ Fail(b, 0) /\ UNCHANGED surplus
  /\ Careful
  /\ UNCHANGED <<object, heap>>

QueryWithoutResult(b) ==
  /\ Execute("QueryWithoutResult", "qwr_store", Answers, b)
  /\ UNCHANGED fetched

Query(b) ==
  /\ Execute("Query", "q_store", {a \in Answers : Len(a) = 1}, b)
  /\ fetched' = FALSE

StoredProcedureWithOneResultSet(b) ==
  /\ Execute("StoredProcedureWithOneResultSet", "sp_store",
             {a \in Answers : Len(a) = 1 \/ (Len(a) = 2 /\ a[2] # "rows")}, b)
  /\ fetched' = FALSE

\* Mutation: the result set in m_pResult is freed, but not its fields forgotten.
Mut_QueryWithoutResultStore ==
  /\ pc = "qwr_store"
  /\ \/ /\ StoreSucceeds /\ pc' = "qwr_next" /\ UNCHANGED ret
        /\ heap' = [r \in Results |-> IF r = m_pResult THEN Free ELSE heap[r]]
        /\ m_pResult' = NULL
     \/ StoreNothing /\ pc' = "qwr_next" /\ UNCHANGED <<m_pResult, heap, ret>>
     \/ StoreFails /\ Fail(bException, 1) /\ UNCHANGED <<m_pResult, heap>>
  /\ UNCHANGED <<m_pMySQL, m_pFields, m_nFields, m_nRows, m_sqlRow, method,
                 bException, caller>>

\* The result set is freed at once.  m_pResult is set to NULL, whatever it was.
\* Without an exception a failure leaves the loop with the result 1.
QueryWithoutResultStore ==
  /\ pc = "qwr_store"
  /\ \/ StoreSucceeds /\ m_pResult' = NULL /\ pc' = "qwr_next" /\ UNCHANGED ret
     \/ StoreNothing /\ pc' = "qwr_next" /\ UNCHANGED <<m_pResult, ret>>
     \/ StoreFails /\ Fail(bException, 1) /\ UNCHANGED m_pResult
  /\ UNCHANGED <<m_pMySQL, m_pFields, m_nFields, m_nRows, m_sqlRow, method,
                 bException, heap, caller>>

\* Mutation: only the first answer is read.
Mut_QueryWithoutResultFirst ==
  /\ pc = "qwr_next"
  /\ Return(1)
  /\ UNCHANGED <<object, method, bException, connection, errno, heap, caller>>

\* Mutation: an error of mysql_next_result ends the loop like the last answer.
Mut_QueryWithoutResultIgnore ==
  /\ pc = "qwr_next"
  /\ \/ NextArrives /\ pc' = "qwr_store" /\ UNCHANGED ret
     \/ (NoMoreResults \/ NextFails) /\ Return(1)
  /\ UNCHANGED <<object, method, bException, heap, caller>>

\* Mutation: the loop goes on until there are no more results.
Mut_QueryWithoutResultAll ==
  /\ pc = "qwr_next"
  /\ \/ NextArrives /\ pc' = "qwr_store" /\ UNCHANGED ret
     \/ NoMoreResults /\ Return(1)
     \/ NextFails /\ UNCHANGED <<pc, ret>>
  /\ UNCHANGED <<object, method, bException, heap, caller>>

QueryWithoutResultNext ==
  /\ pc = "qwr_next"
  /\ \/ NextArrives /\ pc' = "qwr_store" /\ UNCHANGED ret
     \/ NoMoreResults /\ Return(1)
     \/ NextFails /\ Fail(bException, 0)
  /\ UNCHANGED <<object, method, bException, heap, caller>>

\* Mutation: the number of rows is not set.
Mut_StoreResult ==
  \/ /\ StoreSucceeds
     /\ \E r \in Results, R \in ResultSets :
          /\ heap[r] = Free /\ R.left = R.rows
          /\ heap' = [heap EXCEPT ![r] = R]
          /\ m_pResult' = r /\ m_pFields' = r
          /\ m_nFields' = R.fields /\ UNCHANGED m_nRows
  \/ /\ StoreNothing \/ StoreFails
     /\ m_pResult' = NULL
     /\ UNCHANGED <<heap, m_pFields, m_nFields, m_nRows>>

\* The new result set replaces the old one, which is not freed; without a new
\* one the fields and the number of rows are still those of the old one.
StoreResult ==
  \/ /\ StoreSucceeds
     /\ \E r \in Results, R \in ResultSets :
          /\ heap[r] = Free /\ R.left = R.rows
          /\ heap' = [heap EXCEPT ![r] = R]
          /\ m_pResult' = r /\ m_pFields' = r
          /\ m_nFields' = R.fields /\ m_nRows' = R.rows
  \/ /\ StoreNothing \/ StoreFails
     /\ m_pResult' = NULL
     /\ UNCHANGED <<heap, m_pFields, m_nFields, m_nRows>>

QueryStore ==
  /\ pc = "q_store"
  /\ StoreResult
  /\ IF errno' THEN Fail(bException, 0) ELSE Return(1)
  /\ UNCHANGED <<m_pMySQL, m_sqlRow, method, bException, caller>>

StoredProcedureStore ==
  /\ pc = "sp_store"
  /\ StoreResult
  /\ IF errno' /\ bException
     THEN Return(Thrown)
     ELSE pc' = "sp_next" /\ ret' = IF errno' THEN 0 ELSE 1
  /\ UNCHANGED <<m_pMySQL, m_sqlRow, method, bException, caller>>

\* Mutation: an error is not followed by another call.
Mut_StoredProcedureNext ==
  /\ pc = "sp_next"
  /\ NextArrives \/ NoMoreResults \/ NextFails
  /\ pc' = "idle"
  /\ UNCHANGED <<object, ret, method, bException, heap, caller>>

\* The loop goes on while there is an error, and not while there are results.
StoredProcedureNext ==
  /\ pc = "sp_next"
  /\ \/ (NextArrives \/ NoMoreResults) /\ pc' = "idle"
     \/ NextFails /\ UNCHANGED pc
  /\ UNCHANGED <<object, ret, method, bException, heap, caller>>
-----------------------------------------------------------------------------
\* The row mysql_fetch_row returns.
fetchedRow == IF heap[m_pResult].left > 0 THEN m_pResult ELSE NULL

\* mysql_errno is that of the connection: mysql_fetch_row does not set it.
NextRow(b) ==
  /\ Begin("NextRow", b)
  /\ IF m_pResult # NULL
     THEN /\ heap' = IF fetchedRow = NULL THEN heap
                     ELSE [heap EXCEPT ![m_pResult].left = @ - 1]
          /\ m_sqlRow' = IF errno /\ ~b THEN NULL ELSE fetchedRow
     ELSE m_sqlRow' = NULL /\ UNCHANGED heap
  /\ IF m_pResult # NULL /\ errno /\ b
     THEN Return(Thrown)
     ELSE Return(IF m_sqlRow' # NULL THEN 1 ELSE 0)
  /\ fetched' = (ret' = 1)
  /\ UNCHANGED <<m_pMySQL, m_pResult, m_pFields, m_nFields, m_nRows, connection,
                 errno, careless, surplus>>

\* Mutation: the result set is freed at once, whatever the row is.
Mut_CloseResultAtOnce ==
  /\ Begin("CloseResult", FALSE)
  /\ IF m_pResult # NULL
     THEN ForgetResult /\ heap' = [heap EXCEPT ![m_pResult] = Free]
     ELSE UNCHANGED <<m_pResult, m_pFields, m_nFields, heap>>
  /\ Return(0)
  /\ fetched' = FALSE
  /\ UNCHANGED <<m_pMySQL, m_nRows, m_sqlRow, connection, errno, careless, surplus>>

\* Mutation: the result set is forgotten and not freed.
Mut_CloseResultForgets ==
  /\ Begin("CloseResult", FALSE)
  /\ m_sqlRow' = NULL /\ ForgetResult
  /\ Return(0)
  /\ fetched' = FALSE
  /\ UNCHANGED <<m_pMySQL, m_nRows, heap, connection, errno, careless, surplus>>

\* NextRow is called until it returns 0.
CloseResult ==
  /\ Begin("CloseResult", FALSE)
  /\ m_sqlRow' = NULL
  /\ IF m_pResult # NULL
     THEN ForgetResult /\ heap' = [heap EXCEPT ![m_pResult] = Free]
     ELSE UNCHANGED <<m_pResult, m_pFields, m_nFields, heap>>
  /\ Return(0)
  /\ fetched' = FALSE
  /\ UNCHANGED <<m_pMySQL, m_nRows, connection, errno, careless, surplus>>

\* mysql_data_seek and a loop over all rows, twice (see DumpResult.tla): no row
\* is left to be fetched, m_sqlRow stays.
DumpResult ==
  /\ Begin("DumpResult", FALSE)
  /\ m_pResult # NULL
  /\ heap' = [heap EXCEPT ![m_pResult].left = 0]
  /\ Return(0)
  /\ UNCHANGED <<object, connection, errno, caller>>

\* GetField reads m_pFields[i] and GetFieldValue m_sqlRow[i].
readsField(i) == i >= 0 /\ i < m_nFields
-----------------------------------------------------------------------------
Calls ==
  \/ \E b \in BOOLEAN :
       \/ OpenConnection(b)
       \/ QueryWithoutResult(b)
       \/ Query(b)
       \/ StoredProcedureWithOneResultSet(b)
       \/ NextRow(b)
  \/ CloseConnection
  \/ CheckConnectionAlive
  \/ CheckConnectionDead
  \/ CheckConnectionReconnect
  \/ CloseResult
  \/ DumpResult

\* The steps of a call that has begun.
Steps ==
  \/ QueryWithoutResultStore
  \/ QueryWithoutResultNext
  \/ QueryStore
  \/ StoredProcedureStore
  \/ StoredProcedureNext

Next == Calls \/ Steps \/ LoseLink

Spec == Init /\ [][Next]_vars

\* The thread within a call goes on.  Nothing is assumed of the caller, nor
\* of the link.
FairSpec == Spec /\ WF_vars(Steps)
-----------------------------------------------------------------------------
ObjectOK ==
  /\ m_pMySQL \in {NULL, Handle}
  /\ m_pResult \in {NULL} \cup Results
  /\ m_pFields \in {NULL} \cup Results
  /\ m_nFields \in 0..MaxFields
  /\ m_nRows \in {Garbage} \cup 0..MaxRows
  /\ m_sqlRow \in {Garbage, NULL} \cup Results

CallOK ==
  /\ pc \in {"idle", "qwr_store", "qwr_next", "q_store", "sp_store", "sp_next"}
  /\ pc # "idle" => m_pMySQL = Handle
  /\ bException \in BOOLEAN
  /\ ret \in {0, 1, 2, Thrown}
  /\ fetched \in BOOLEAN /\ careless \in BOOLEAN /\ surplus \in BOOLEAN

LibraryOK ==
  /\ link \in {"up", "broken", "closed"}
  /\ link # "closed" => m_pMySQL = Handle
  /\ status \in {"ready", "rows"}
  /\ unstored \in BOOLEAN /\ errno \in BOOLEAN

WireOK == wire \in Seq(Answer)

HeapOK == heap \in [Results -> {Free} \cup ResultSets]

\* The values of the variables; a call in progress has a handle, and so has a
\* connection.
TypeOK == ObjectOK /\ CallOK /\ LibraryOK /\ WireOK /\ HeapOK

InMemory(p) == p \in Results /\ heap[p] # Free

\* No pointer of the object ever points to memory that has been freed: not
\* m_sqlRow after CloseResult, because its loop ends with a row of NULL, and
\* not the fields that Query and QueryWithoutResult leave behind when they
\* set m_pResult to NULL, because they do not free it.
PointersLive ==
  \A p \in {m_pResult, m_pFields, m_sqlRow} \ {NULL, Garbage} : InMemory(p)

\* GetField and GetFieldValue test an index, given or found by name, against
\* m_nFields only.  The names they then read exist, and so do the values when the
\* caller has fetched a row and has not executed a query or closed the result
\* since.  It may have used QueryWithoutResult, which forgets the result set, or
\* even have closed the connection.
ReadsInBounds ==
  \A i \in 0..MaxFields : readsField(i) =>
    /\ InMemory(m_pFields) /\ i < heap[m_pFields].fields
    /\ fetched => InMemory(m_sqlRow) /\ i < heap[m_sqlRow].fields

\* What NextRow and DumpResult use with m_pResult is what belongs to it: the
\* handle whose errno is read, the fields, the number of rows.
ResultDescribed ==
  m_pResult # NULL =>
    /\ m_pMySQL = Handle
    /\ m_pFields = m_pResult
    /\ m_nFields = heap[m_pResult].fields
    /\ m_nRows = heap[m_pResult].rows

\* A caller that closes every result set before it makes another call loses no
\* memory, whatever fails.
NoLeak ==
  ~careless => \A r \in Results : heap[r] # Free => r = m_pResult

\* NextRow takes the error of the last statement for one of its own.  This
\* cannot keep a careful caller from its rows: every call that stores a result
\* set has cleared the error when it returns.
NoForeignError ==
  pc = "idle" /\ m_pResult # NULL /\ ~careless => ~errno

\* After every call a connection that is up is ready for the next statement,
\* unless Query or StoredProcedureWithOneResultSet has been used for something
\* with more answers than they read, or the last statement executed had a
\* result set that the client had no memory for, with other answers behind it:
\* QueryWithoutResult and, when it throws, StoredProcedureWithOneResultSet then
\* end without reading them.  mysql_errno shows it, and every query and
\* mysql_ping fails until the object has connected again.  The errors that the
\* server reports leave nothing behind.
ReadyForNext ==
  pc = "idle" /\ link = "up" /\ ~surplus => InSync \/ (unstored /\ errno)

\* QueryWithoutResult called with bException returns only if every answer has
\* been read and none was an error.  Without bException, the result 1 can also
\* mean that rows could not be stored, but then errno is set.
SuccessMeansAllRead ==
  pc = "idle" /\ method = "QueryWithoutResult" /\ ret = 1 =>
    (InSync /\ ~errno) \/ (~bException /\ errno)

\* The last loop of StoredProcedureWithOneResultSet on a connection that was
\* lost when answers were still to come: mysql_next_result fails every time.
Spinning == pc = "sp_next" /\ link = "closed" /\ wire # << >>

\* Every call returns or throws, but for the loop that repeats a call that
\* can only fail.
CallsEnd == pc # "idle" ~> pc = "idle" \/ Spinning

\* What the comment in StoredProcedureWithOneResultSet says: the result sets
\* after the first are processed by mysql_next_result.
AllResultsProcessed ==
  /\ pc = "idle" /\ method = "StoredProcedureWithOneResultSet" /\ ret = 1
  /\ link = "up"
  => InSync
=============================================================================
