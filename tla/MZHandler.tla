----------------------------- MODULE MZHandler ------------------------------
(***************************************************************************)
(* MZHandler::Go with GENERATE_NEW: generate mazes and store the good ones *)
(* through an XMySQL object.                                               *)
(*                                                                         *)
(* generateMZ (see MZ.tla) is a choice of the two numbers Go looks at.     *)
(* The connection is opened once, and never tested, closed or opened again.*)
(***************************************************************************)
EXTENDS XMySQL

CONSTANT GENERATE_HOW_MANY

ASSUME HowManyAssumption == GENERATE_HOW_MANY \in Nat

\* The server answers an insert once and without rows; an error is among the
\* failures of mysql_query.
ASSUME InsertAssumption == Answers = {<<"ok">>}

MINIMAL_ROUTE_COVERAGE == 40

VARIABLES
  at,                   \* where Go is
  m_bConnectedToMySQL,
  iteration,
  nInserted,
  stored                \* mazes in the table zmz.mz, inserted by Go

loop == <<m_bConnectedToMySQL, iteration, nInserted>>
goVars == <<vars, at, loop, stored>>

GoInit ==
  /\ Init
  /\ at = "start"
  /\ m_bConnectedToMySQL = FALSE
  /\ iteration = 0 /\ nInserted = 0
  /\ stored = 0

GoOpenConnection ==
  /\ at = "start"
  /\ OpenConnection(FALSE)
  /\ m_bConnectedToMySQL' = (ret' # 0)
  /\ at' = "loop"
  /\ UNCHANGED <<iteration, nInserted, stored>>

toBeStored(minIntersections, routeCoverage) ==
  m_bConnectedToMySQL /\ minIntersections > 0 /\ routeCoverage > MINIMAL_ROUTE_COVERAGE

\* A maze on either side of both limits.
Mazes == {0, 1} \X {MINIMAL_ROUTE_COVERAGE, MINIMAL_ROUTE_COVERAGE + 1}

\* Mutation: one iteration too many.
Mut_Discard ==
  /\ at = "loop" /\ iteration <= GENERATE_HOW_MANY
  /\ \E mz \in Mazes : ~toBeStored(mz[1], mz[2])
  /\ iteration' = iteration + 1
  /\ UNCHANGED <<vars, at, m_bConnectedToMySQL, nInserted, stored>>

Discard ==
  /\ at = "loop" /\ iteration < GENERATE_HOW_MANY
  /\ \E mz \in Mazes : ~toBeStored(mz[1], mz[2])
  /\ iteration' = iteration + 1
  /\ UNCHANGED <<vars, at, m_bConnectedToMySQL, nInserted, stored>>

\* The server has carried out the insert if it has answered, and may have done
\* so if the link breaks before its answer has come.
Inserted ==
  \/ pc' # "idle"
  \/ link = "up" /\ link' = "closed"

Insert ==
  /\ at = "loop" /\ iteration < GENERATE_HOW_MANY
  /\ \E mz \in Mazes : toBeStored(mz[1], mz[2])
  /\ QueryWithoutResult(TRUE)
  /\ \/ Inserted /\ stored' = stored + 1
     \/ pc' = "idle" /\ stored' = stored
  /\ at' = "insert"
  /\ UNCHANGED loop

\* The rest of QueryWithoutResult.
InsertStep ==
  /\ at = "insert"
  /\ QueryWithoutResultStore \/ QueryWithoutResultNext
  /\ UNCHANGED <<at, loop, stored>>

\* Mutation: the insert is counted before it is tried.
Mut_InsertReturned ==
  /\ at = "insert" /\ pc = "idle"
  /\ nInserted' = nInserted + 1
  /\ iteration' = iteration + 1
  /\ at' = "loop"
  /\ UNCHANGED <<vars, m_bConnectedToMySQL, stored>>

\* Mutation: an insert that has failed is tried again.
Mut_InsertRetried ==
  /\ at = "insert" /\ pc = "idle"
  /\ nInserted' = IF ret = Thrown THEN nInserted ELSE nInserted + 1
  /\ iteration' = IF ret = Thrown THEN iteration ELSE iteration + 1
  /\ at' = "loop"
  /\ UNCHANGED <<vars, m_bConnectedToMySQL, stored>>

\* An exception is caught; the value QueryWithoutResult returns is not used.
InsertReturned ==
  /\ at = "insert" /\ pc = "idle"
  /\ nInserted' = IF ret = Thrown THEN nInserted ELSE nInserted + 1
  /\ iteration' = iteration + 1
  /\ at' = "loop"
  /\ UNCHANGED <<vars, m_bConnectedToMySQL, stored>>

GoReturn ==
  /\ at = "loop" /\ iteration = GENERATE_HOW_MANY
  /\ at' = "done"
  /\ UNCHANGED <<vars, loop, stored>>

\* The steps of the program.
GoSteps ==
  \/ GoOpenConnection
  \/ Discard
  \/ Insert
  \/ InsertStep
  \/ InsertReturned
  \/ GoReturn

\* Go has returned; the object is never deleted.
Returned == at = "done" /\ UNCHANGED goVars

LinkBreaks == LoseLink /\ UNCHANGED <<at, loop, stored>>

GoNext == GoSteps \/ LinkBreaks \/ Returned

GoSpec == GoInit /\ [][GoNext]_goVars

\* Go is one thread and waits for nothing but calls of the library, which
\* time out.
GoFairSpec == GoSpec /\ WF_goVars(GoSteps)
-----------------------------------------------------------------------------
\* The values of the variables of Go.
GoTypeOK ==
  /\ TypeOK
  /\ at \in {"start", "loop", "insert", "done"}
  /\ m_bConnectedToMySQL \in BOOLEAN
  /\ iteration \in 0..GENERATE_HOW_MANY
  /\ nInserted \in 0..iteration
  /\ stored \in Nat

\* The number Go prints at its end against the table: a maze that is counted has
\* been stored, and at most one maze of the whole program is stored and not
\* counted.  It is the one whose insert was executed when the connection was
\* lost, which ends all storing because Go does not connect again.
CountedAreStored ==
  at # "insert" =>
    /\ nInserted <= stored
    /\ stored <= nInserted + 1
    /\ link = "up" => stored = nInserted

\* Every iteration stores at most one maze, and a connection on which nothing
\* has failed is always ready for the next insert.
StoredOnce ==
  /\ stored <= iteration + (IF at = "insert" THEN 1 ELSE 0)
  /\ pc = "idle" /\ link = "up" => InSync

\* Go comes to its end whatever the database does.
GoEnds == <>(at = "done")
=============================================================================
