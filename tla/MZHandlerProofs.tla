-------------------------- MODULE MZHandlerProofs ---------------------------
(***************************************************************************)
(* Proofs about MZHandler::Go, for any number of mazes.                    *)
(***************************************************************************)
EXTENDS MZHandler, XMySQLProofs

USE DEF NULL, Garbage, Handle, Thrown

\* Go takes its steps one call after the other.
LoopInv ==
  /\ at \in {"start", "loop", "insert", "done"}
  /\ m_bConnectedToMySQL \in BOOLEAN
  /\ iteration \in 0..GENERATE_HOW_MANY
  /\ at = "start" => iteration = 0
  /\ at = "insert" => iteration < GENERATE_HOW_MANY
  /\ nInserted \in 0..iteration
  /\ stored \in Nat
  /\ stored <= iteration + (IF at = "insert" THEN 1 ELSE 0)

\* What Go finds when it calls XMySQL, and within the call.
InsertInv ==
  /\ pc \in {"idle", "qwr_store", "qwr_next"}
  /\ pc # "idle" => at = "insert" /\ stored = nInserted + 1
  /\ pc # "idle" \/ link = "up" => status = "ready" /\ wire = << >>

\* How many mazes are stored and not counted: the one being inserted, or one
\* that was being inserted when the link broke.
CountInv ==
  pc = "idle" =>
    /\ at = "insert" /\ ret # Thrown => stored = nInserted + 1
    /\ at # "insert" \/ ret = Thrown =>
         /\ stored \in {nInserted, nInserted + 1}
         /\ link # "closed" => stored = nInserted

GoInv == LoopInv /\ InsertInv /\ CountInv

\* Every step of Go is a step of XMySQL or leaves it alone.
LEMMA GoStepsAreCalls == ASSUME [GoNext]_goVars PROVE [Next]_vars
<1>1. OpenConnection(FALSE) \/ QueryWithoutResult(TRUE) => Next
  BY DEF Next, Calls
<1>2. QueryWithoutResultStore \/ QueryWithoutResultNext \/ LoseLink => Next
  BY DEF Next, Steps
<1> QED
  BY <1>1, <1>2 DEF GoNext, GoSteps, GoOpenConnection, Discard, Insert, InsertStep,
     InsertReturned, GoReturn, Returned, LinkBreaks, goVars

\* Go implements a caller of XMySQL: it respects the conditions under which the
\* methods may be called, and everything proved of XMySQL holds in it.
THEOREM GoUsesXMySQL == GoSpec => Spec
<1>1. GoInit => Init
  BY DEF GoInit
<1> QED  BY <1>1, GoStepsAreCalls, PTL DEF GoSpec, Spec

\* The answer to an insert leaves nothing to be read.
LEMMA InsertAnswered ==
  ASSUME QueryWithoutResult(TRUE)
  PROVE  \/ /\ link = "up" /\ link' = "up" /\ pc' = "qwr_store"
            /\ status' = "ready" /\ wire' = << >>
         \/ /\ pc' = "idle" /\ ret' = Thrown
            /\ link' = "closed" \/ (link = "up" /\ link' = "up")
            /\ UNCHANGED <<status, wire>>
<1>1. CASE \E a \in Answers : QuerySucceeds(a) /\ pc' = "qwr_store"
  <2>1. QuerySucceeds(<<"ok">>)
    BY <1>1, InsertAssumption
  <2>2. Tail(<<"ok">>) = << >> /\ <<"ok">>[1] = "ok"
    OBVIOUS
  <2> QED  BY <1>1, <2>1, <2>2 DEF QuerySucceeds, Arrived
<1>2. CASE QueryFails /\ Fail(TRUE, 0)
  BY <1>2 DEF QueryFails, Fail, Return, LinkFails, connection
<1> QED  BY <1>1, <1>2 DEF QueryWithoutResult, Execute

\* Every step of Go keeps the invariant.
LEMMA GoStep == ASSUME TypeOK, GoInv, [GoNext]_goVars PROVE GoInv'
<1>1. CASE GoOpenConnection
  <2>1. m_bConnectedToMySQL' \in BOOLEAN
    BY <1>1 DEF GoOpenConnection
  <2>2. LoopInv'
    BY <1>1, <2>1, HowManyAssumption DEF GoOpenConnection, GoInv, LoopInv
  <2>3. stored = 0 /\ nInserted = 0
    BY <1>1 DEF GoOpenConnection, GoInv, LoopInv, InsertInv, CountInv, OpenConnection, Begin
  <2>4. InsertInv' /\ CountInv'
    BY <1>1, <2>3 DEF GoOpenConnection, OpenConnection, mysql_real_connect, ConnectFails,
       Begin, Fail, Return, connection, GoInv, InsertInv, CountInv
  <2> QED  BY <2>2, <2>4 DEF GoInv
<1>2. CASE Discard
  BY <1>2, HowManyAssumption DEF Discard, vars, call, connection, GoInv, LoopInv,
     InsertInv, CountInv
<1>3. CASE Insert
  <2>1. pc = "idle" /\ QueryWithoutResult(TRUE)
    BY <1>3 DEF Insert, QueryWithoutResult, Execute, Begin
  <2>2. LoopInv'
    BY <1>3, HowManyAssumption DEF Insert, loop, GoInv, LoopInv
  <2>3. /\ stored \in {nInserted, nInserted + 1}
        /\ link # "closed" => stored = nInserted
    BY <1>3, <2>1 DEF Insert, GoInv, CountInv
  <2>4. ASSUME pc' = "qwr_store" PROVE InsertInv' /\ CountInv'
    BY <1>3, <2>1, <2>3, <2>4, InsertAnswered DEF Insert, loop, InsertInv, CountInv
  <2>5. ASSUME pc' = "idle" PROVE InsertInv' /\ CountInv'
    BY <1>3, <2>1, <2>3, <2>5, InsertAnswered DEF Insert, Inserted, loop, GoInv, LoopInv,
       InsertInv, CountInv
  <2> QED  BY <2>1, <2>2, <2>4, <2>5, InsertAnswered DEF GoInv
<1>4. CASE InsertStep
  <2>1. CASE QueryWithoutResultStore
    BY <1>4, <2>1 DEF InsertStep, QueryWithoutResultStore, StoreSucceeds, StoreNothing,
       StoreFails, connection, loop, GoInv, LoopInv, InsertInv, CountInv
  <2>2. CASE QueryWithoutResultNext
    BY <1>4, <2>2 DEF InsertStep, QueryWithoutResultNext, NextArrives, NoMoreResults,
       NextFails, Return, connection, loop, GoInv, LoopInv, InsertInv, CountInv
  <2> QED  BY <1>4, <2>1, <2>2 DEF InsertStep
<1>5. CASE InsertReturned
  BY <1>5, HowManyAssumption DEF InsertReturned, vars, call, connection, GoInv, LoopInv,
     InsertInv, CountInv
<1>6. CASE GoReturn
  BY <1>6 DEF GoReturn, vars, call, connection, loop, GoInv, LoopInv, InsertInv, CountInv
<1>7. CASE LinkBreaks
  BY <1>7 DEF LinkBreaks, LoseLink, call, loop, GoInv, LoopInv, InsertInv, CountInv
<1>8. CASE UNCHANGED goVars
  BY <1>8 DEF goVars, vars, call, connection, loop, GoInv, LoopInv, InsertInv, CountInv
<1> QED
  BY <1>1, <1>2, <1>3, <1>4, <1>5, <1>6, <1>7, <1>8 DEF GoNext, GoSteps, Returned

\* The invariant holds at the beginning.
LEMMA GoInitInv == GoInit => GoInv
<1>1. GoInit => LoopInv
  <2>1. GoInit => m_bConnectedToMySQL \in BOOLEAN
    BY DEF GoInit
  <2>2. GoInit => at = "start" /\ iteration = 0 /\ nInserted = 0 /\ stored = 0
    BY DEF GoInit
  <2> QED  BY <2>1, <2>2, HowManyAssumption DEF LoopInv
<1>2. GoInit => InsertInv /\ CountInv
  BY DEF GoInit, Init, InsertInv, CountInv
<1> QED  BY <1>1, <1>2 DEF GoInv

\* The types and the invariant hold always.
LEMMA GoCorrect == GoSpec => [](TypeOK /\ GoInv)
<1>1. GoInit => TypeOK /\ GoInv
  BY GoInitInv, TypeInit DEF GoInit
<1>2. TypeOK /\ GoInv /\ [GoNext]_goVars => (TypeOK /\ GoInv)'
  BY GoStep, GoStepsAreCalls, TypeStep
<1> QED  BY <1>1, <1>2, PTL DEF GoSpec

\* The variables of Go keep their types: no iteration beyond the last, no more
\* mazes counted than generated.
THEOREM GoTypeCorrect == GoSpec => []GoTypeOK
<1>1. TypeOK /\ GoInv => GoTypeOK
  BY DEF GoInv, LoopInv, GoTypeOK
<1> QED  BY <1>1, GoCorrect, PTL

\* Every maze counted is stored, and at most one is stored and not counted.
THEOREM CountCorrect == GoSpec => []CountedAreStored
<1>1. GoInv => CountedAreStored
  BY DEF GoInv, LoopInv, InsertInv, CountInv, CountedAreStored
<1> QED  BY <1>1, GoCorrect, PTL

\* No iteration stores two mazes, and the connection is ready for the next one.
THEOREM StoredOnceCorrect == GoSpec => []StoredOnce
<1>1. GoInv => StoredOnce
  BY DEF GoInv, LoopInv, InsertInv, StoredOnce, InSync
<1> QED  BY <1>1, GoCorrect, PTL
=============================================================================
