# TLA+ verification of Test00

Test00 generates random mazes, checks and solves them, and stores the good ones
in a MySQL database. This directory holds TLA+ models of its core, TLC
configurations that check them, and TLAPS proofs.

## 1. Inventory

| Part | State it keeps | Operations |
|---|---|---|
| `CL` (`CL.cpp`): one cell | `m_char` (four walls in one character `'0'..'?'`), `m_1fchar` (the same as a hexadecimal digit) | tests for the four walls, `addRandomWall`, `addWallAtSide`, `removeWallAt`, `getNumberOfWalls`, the two conversions |
| `MZ` (`MZ.cpp`): a maze | `m_CLMatrix`, `m_entrance`, `m_exit`, `m_nWalls`, `m_nMaxWalls`, and data recomputed from the matrix: picture, intersections and their problems, wall counts, routes, visited cells, best route, `m_bAllCellsReachable`, string, statistics | `generateMZ` (borders, three loops of `addRandomWall`/`removeWallAt`, `fillWalllessCells`, statistics), `setMZ` (read a maze from a string), `updateVectors` and what it calls, printing |
| `MZHandler` (`MZHandler.cpp`) | `m_bConnectedToMySQL`, the count of stored mazes | `Go`: solve one fixed maze, or generate many and store the good ones |
| `XMySQL` (`xmysql.cpp`) | connection, current result set with its fields and row, number of instances | open, check, close a connection; queries with and without result; rows and fields; dump and close a result |
| `RTimer` (`rtimer.cpp`) | start and end time | a stopwatch for log lines |
| `Test00.cpp` | - | `main`: seeds `rand()`, calls `Go` |
| `mysql/` | - | third-party headers of the MySQL client |

How the parts interact: `main` calls `Go`; `Go` makes an `MZ` for every maze and
reads its string and statistics; `MZ` holds a vector of `CL` and keeps the two
sides of every wall, which live in two cells, in step by hand; `Go` hands an
insert statement to `XMySQL`, whose failures come back as exceptions. Everything
runs in one thread; what moves beside it is the database server, whose answers
come later or never. What is hard here is long sequences of calls in which one
step relies on what others have left behind:

* a wall is added to a character by arithmetic, without looking whether it is
  there, in two cells, in five places of the code; and taken back in three;
* the loops of `generateMZ` take a wall back because of a flag
  (`m_bAllCellsReachable`), not because a wall was added, and `removeWallAt` uses
  an uninitialised neighbour if none was;
* one exit of `addRandomWall` skips the recomputation of everything derived from
  the matrix;
* `fillWalllessCells` adds walls from a list that was computed before, and nobody
  checks afterwards that the maze is still connected;
* the search appends to and erases from the list of routes it is iterating over,
  and would throw at a gap in the border;
* the picture is indexed modulo its size, with a maze that wraps around from the
  last row to the first but not from side to side;
* every call of the MySQL library can fail, the connection can be lost between any
  two of them, and `XMySQL` keeps pointers into result sets, an error number and
  unread answers from one call to the next;
* an insert whose answer is lost has perhaps been carried out, and `Go` counts;
* `DumpResult` computes the size of a block in one pass and fills it in another.

What makes each part correct: a cell shows the walls that were added to it and no
others; a maze keeps both sides of each wall, stays connected, and its derived data
are current; the search visits what can be reached and finds a shortest route; a
result set is described by the members beside it, is freed once, and after every
call the connection is ready for the next statement, or an error shows that it is
not; what `Go` counts is what is in the table.

`PROJECT.json` lists these hazards with the line where each bites and the
properties that would catch it.

## 2. Modules

```
CL -> Grid -> Visual ---+-> Vectors -> MZ ----+-> MZProperties -> MCMZ
           -> Routes ---+          -> SetMZ   |        ^
           -> Walls -> Maze                   |        | (Maze by INSTANCE)
                  |                           |        |
                  +---------------------------+--------+
VectorsProofs -> MZSafetyProofs -> MZResultProofs
              -> SetMZProofs

SetMZ -> MCFixedMaze
XMySQL -> MZHandler -> MCMZHandler          DumpResult
       -> MCXMySQL                          ConnectionString -> MCConnectionString
XMySQLProofs -> MZHandlerProofs
DumpResultProofs        ConnectionStringProofs
```

* **CL** - the cell. A character is its code minus the code of `'0'`, so that
  `':'..'?'` are 10..15 and `'a'..'f'` are 49..54, and the conversions do what the
  `switch`es do. Adding a wall is an addition: nothing in the model prevents the
  carry that the code would suffer.
* **Grid** - numbering, neighbours, edges, `checkEdgeCompatibility`. Constants
  `Width` and `Height`.
* **Visual** - `updateVisual` as the set of points set to 1, and
  `updateIntersections` with the same index arithmetic. `VisualAssumption` is the
  bound of the array `visual[BIG_NUMBER][BIG_NUMBER]`, which the code does not
  test. `m_vIntersectionProblems` is the set of vertices; the code's vector lists
  `cellID` of them in increasing order.
* **Routes** - `updateRoutes`. One record holds the variables of the search; the
  four nearly equal blocks for the four sides are one operator of the side.
  The loops are recursive functions, within `searchRound`, `eraseRoutes` and
  `updateRoutes`.
  `vector::at(-1)` sets `thrown`.
* **Vectors** - `updateVectors` (everything derived from a matrix, as a record) and
  `calculateMazeAndRouteStats`. The two percentages are kept as the integers they
  are quotients of.
* **MZ** - `generateMZ` as a state machine. `pc` is `"new"` after the constructor,
  `"try"` at the head of a loop, `"check"` after `addRandomWall` has returned,
  `"fill"` within `fillWalllessCells`, `"stats"`, `"done"`. `rand()` is a choice: of
  entrance and exit, of the cell, of a side without wall (`CL::addRandomWall`
  draws again otherwise). `addRandomWall` has four outcomes, each an action:
  the cell is full; the wall would be on a border (early return); the neighbour
  gets too many walls (taken back); added. The uninitialised `neighBour` of
  `removeWallAt` is any cell. The three textually equal loops are one, with
  `m_nMaxWalls` 1, 2, 3. `vectors` is what `updateVectors` computed last: a step
  that does not call it leaves it alone.
* **SetMZ** - `setMZ` on a string, with the search one route at a time
  (`ExtendRoute` is one turn of the inner loop, `EndRound` the erasure). A string
  is a sequence of characters. Entrance and exit are cells of the right and the
  left border, as in the only call.
* **Walls**, **Maze** - the reference: a maze as a set of inner walls,
  connectivity by cuts, distances by levels, and the abstract specification of the
  generation: a maze that grows wall by wall and is always connected. They model
  no code.
* **MZProperties** - the properties of the generation and the refinement mapping.
* **XMySQL** - one object over the MySQL client library. The library is external: it
  is modelled by what `xmysql.cpp` relies on (listed below). The object's
  members are variables under their own names; a pointer is the number of the
  result set it points to or into, so that a pointer to freed memory can be told.
  Methods that call the library once are one action. The three methods that execute a
  statement are one action for `mysql_query` and one for each later call of the
  library (`pc`), because the link can break in between (`LoseLink`). `bException`
  chooses between an exception (`Thrown`) and a return value, which differs from
  place to place. `m_sqlRow` and `m_nRows` are garbage at first, as the constructor
  leaves them. `fetched`, `careless` and `surplus` record what the caller has done,
  `unstored` that the client had no memory for a result set with other answers behind
  it; they are read by properties only.
* **MZHandler** - `Go`'s loop over generated mazes, with the actions of XMySQL as its
  calls. A maze is the two numbers the tests of `Go` look at. `stored` is the table.
  This branch is compiled with `GENERATE_NEW` 1; the repository's current setting is
  0, which is the next module.
* **MCFixedMaze** - `Go`'s other branch: the one maze it gives to `setMZ`, and with
  `shiftDown` all mazes made of it by moving rows. The call of `shiftDown` in `setMZ`
  is commented out; the function is used here to move the maze's seam.
* **DumpResult** - the block of memory `DumpResult` makes. The first pass adds up
  `iSize` name by name and value by value (`SizeField`, `SizeRow`, `SizeValue`), the
  second one writes (`WriteField`, `BeginRow`, `WriteValue`). A name or value is its
  place and length; what is written is kept as a set of intervals.
* **ConnectionString** - `SetConnectionString` on tokens: one turn of its loop is
  `Scan`, `sscanf` finding less than two parts is `Stop`. `find` is where `%[^=]`,
  `%[^;]` and `strchr` stop.
* **MC...** - instances for TLC. Operators named `Mut_...` are slightly wrong
  variants of a definition, used to make sure that a property notices.

### What is assumed of the MySQL library and of the callers

* `mysql_query` fails while answers or rows of an earlier statement are unread; so
  does `mysql_ping`. The client does not connect again by itself
  (`MYSQL_OPT_RECONNECT` is commented out in `OpenConnection`).
* An error is the last answer to a statement. An error of the server in the middle of
  the rows ends the answers too.
* When the client has no memory for a result set, `mysql_store_result` fails on a
  connection that is in order. The client is done with these rows, but the answers
  behind them are still to be read.
* A lost link is noticed at the next call that needs it. The client then forgets the
  connection, but not that results had been announced: `mysql_next_result` then fails
  each time.
* `mysql_fetch_row` on a stored result does not touch `mysql_errno`.
* `mysql_real_connect` on a handle that is connected fails. `OpenConnection` then
  returns 0 or throws and has forgotten the current result set.
* Callers: statements and `CheckConnection` need a handle, that is an
  `OpenConnection` before; `DumpResult` needs a result set; a value is only asked for
  after `NextRow` has returned 1, as long as no query has been executed and the
  result has not been closed since. The code tests none of this.

## 3. Runs

| Run | Instance | Shows |
|---|---|---|
| `generation` (`MCMZ.cfg`) | 2 x 3, all entrances, exits and random choices | type, `MazeWellFormed`, `CacheCoherent`, `SearchExact`, `RemovesOwnWall`, `WallLimit`, `WallsCounted`, `IntersectionsExact`, `FillAddsNewWalls`, `NoWalllessVertexLeft`, `BestRouteShortest`, `OpposingStepsExact`, `StringRoundTrip` |
| `growth` (`MCGrowth.cfg`) | 3 x 2, all choices | `MazeGrows`: the generation implements `Maze`; `Termination` |
| `setmz` (`MCSetMZ.cfg`) | 3 x 2, all sets of inner walls with one or two gaps in the borders, strings of wrong length, with sides that disagree, without digits | `RoutesCoverVisited`, `RoutesShortest`, `VisitedExact`, `BestRouteShortest`, `ThrowsAtGap`, `Termination` |
| `xmysql` (`MCXMySQL.cfg`) | 2 result sets, 2 columns, 1 row, answers of length up to 3 | `PointersLive`, `ReadsInBounds`, `ResultDescribed`, `NoLeak`, `NoForeignError`, `ReadyForNext`, `SuccessMeansAllRead`, `CallsEnd` |
| `procedure` (`MCProcedure.cfg`) | 1 result set | `AllResultsProcessed` is violated (see below) |
| `mzhandler` (`MCMZHandler.cfg`) | 6 iterations | `CountedAreStored`, `StoredOnce`, `GoEnds` |
| `fixedmaze` (`MCFixedMaze.cfg`) | 5 x 12, the program's own maze and its 12 positions | `FixedMazeGood`, `ShiftMovesMaze` |
| `dumpresult` (`DumpResult.cfg`) | up to 2 columns and 2 rows, lengths 0, 1, 3 | `BlockExact`, `Readable` |
| `connectionstring` (`MCConnectionString.cfg`) | all strings of up to 6 tokens, and `Go`'s | `SettingsExact` |

What they say, in short:

* the maze is well formed at every step: both sides of every wall agree, every
  character is a digit of the documented range, the borders are closed but for the
  entrance and the exit. The program has functions that check this
  (`checkEdgeCompatibility`, `checkOneEntrance`, `checkOneExit`) but `generateMZ`
  does not call them and `setMZ` only the first;
* `removeWallAt` is only ever called for a wall that the same iteration has added,
  so that its uninitialised variable is never used;
* everything derived from the matrix is current whenever it is read, in spite of
  the early return;
* `m_bAllCellsReachable` is exactly connectedness; the best route is a shortest
  one; the search never throws on a generated maze, and on a maze from a string
  throws exactly when a gap of the border can be reached;
* every route the search keeps is a shortest one to each of its cells, dead ends and
  unfinished rounds included (`RoutesShortest`);
* a maze that is moved down by any number of rows, string, entrance and exit, is
  accepted again and searched in the same order, and as few walls meet at some vertex
  as before (`ShiftMovesMaze`). Which vertices are listed as problems does change with
  the seam: the first row is treated in its own way;
* `fillWalllessCells` adds each of its walls where there is none, leaves no vertex
  below the first row without a wall, and never cuts cells off. It does not count
  the walls in `m_nWalls` (`WallsCounted` says by how many the count is short);
* the first row's vertices are computed but never repaired
  (`NoWalllessVertexLeft` excludes them): the cell above and to the left would have
  a negative number. A maze with such a vertex is not stored by `Go`, whose test
  is `getMinIntersections() > 0`;
* no pointer of an `XMySQL` object dangles in any order of calls, and the getters'
  test against `m_nFields` suffices. This holds although `Query` and
  `QueryWithoutResult` leave fields of a forgotten result set behind, because they
  do not free it: it is leaked instead. `NoLeak` holds for callers that close
  their results;
* a connection that is up stays usable after every error that the server reports,
  unless `Query` or `StoredProcedureWithOneResultSet` was given something with more
  answers than it reads. It does not when the client itself has no memory for a result
  set with other answers behind it: `QueryWithoutResult` then throws or leaves its loop
  without reading them, and so does `StoredProcedureWithOneResultSet` when it throws
  (`xmysql.cpp:382`, `:602`). `mysql_errno` shows it, every query and `mysql_ping` fails
  afterwards, and connecting again mends both cases (`ReadyForNext`);
* `QueryWithoutResult` without exceptions returns 1 also when rows could not be
  stored (`SuccessMeansAllRead` says that `errno` is then set); `Go` uses exceptions;
* every call ends, but for one: the last loop of `StoredProcedureWithOneResultSet`
  repeats `mysql_next_result` while it fails, and on a connection that was lost with
  results announced it fails always (`Spinning`, excepted in `CallsEnd`);
* `Go` counts only what is stored; at most one maze of a run is stored and not
  counted, the one whose answer was lost with the connection;
* an empty value in a connection string (`pwd=;`) ends its reading: the items
  behind it are silently not set.

**A disagreement.** The comment before that last loop
(`src/Test00/xmysql.cpp:609`) says that further result sets have "to be processed by
mysql_next_result". The loop runs while `mysql_next_result` fails and stops when it
has arrived at the next result set, which is not read. Run `procedure` shows it in a
few steps: connect, call a procedure with two result sets; the call returns 1 with
the second one unread, and every further statement on the connection fails. For a
procedure with one result set, as the method's name says, one call of
`mysql_next_result` reads the status at its end and all is well (`ReadyForNext`).

**Bounds.** The grids have 6 cells. With 3 rows the neighbours above and below a
cell differ although the maze wraps around; with 2 rows they are the same cell,
reached through two different walls. With 2 columns every cell is on a border; with
3 columns there are cells that touch none.
`m_nTries` is then 3, so that there are 9 tries with all three limits; mazes that
need filling, refused walls, early returns and removed walls all occur (every
disjunct of the next-state relations fires). `generation` has also been run on
3 x 2, 5 x 1 and 1 x 5 (a cell that is its own neighbour; entrance and exit in the
same cell). `ShiftMovesMaze` is checked on the 12 rows of the program's own maze, and
has also been run on all mazes of `setmz`. The number of rounds of the search operator
is bounded by the number of cells; `SearchEndsInTime` (section 4) shows that the bound is
never felt.

Two result sets are one that is forgotten and one that takes its place; a third is
never stored: `mysql_store_result` fails, which it also may at any other time. With two
columns a stale number of fields can be too large for another result set; three
answers are a result, another one and the end of a procedure. A failing or lost call
leaves a flag or a pointer behind that at most two later calls combine, and TLC
explores calls in any order and number. `Go`'s iterations are all alike, and
lost connections are final, so that six contain every order of success, loss and
failure; the theorems of section 4 hold for every number. In `dumpresult` lengths of
0 (empty or NULL), 1 and 3 make every position of a text relative to its neighbours
possible.

**Fairness.** The maze is computed by one thread that is never blocked: it takes
steps until it is done. The formula `<>[](ended) \/ []<><<...>>_vars` is weak fairness of `Next`, given that
some step is possible in every state, which the search for deadlocks shows; it is
written that way because TLC evaluates ENABLED of steps that contain the route
search too slowly. For `XMySQL`: weak fairness of `Steps`, the thread within a call
goes on, because every call of the library returns (there are time-outs); nothing is
assumed of the caller, who may stop calling, nor of the link, which need not break.
For `Go`: weak fairness of the program's steps, not of `LinkBreaks`.

## 4. Proofs

The theorems about the maze hold for every `Width` and `Height` allowed by the
assumptions (`SizeAssumption`, `VisualAssumption`).

* **VectorsProofs** - the wraparound arithmetic; `neighBour` and `mirroredWall` are
  inverse to each other; which walls the places of the picture stand for, and so which
  walls meet at a vertex (`WallsAtVertex`); and what the search computes, for every
  matrix, entrance and exit.
  `SearchInv` is the invariant of the inner loop, between any two sides of any route:
  the routes are open paths of different cells that cover the visited cells (`Paths`);
  the positions to be erased increase and are those of extended routes (`Erasure`);
  what has been extended has no unvisited neighbour (`Frontier`); the routes of a round
  that can still grow are equally long, and all cells at a smaller distance are visited
  (`Levels`); the best route leads to the exit, which no shorter one reaches (`Best`).
  Levels and frontier are needed for each other, and both for `Best`: the first route
  to arrive is a shortest one only because no cell of an earlier level is left over.
  `SearchEndsInTime`: every round but the last visits a cell, so that `totalCells`
  rounds suffice. The loops are recursive functions. The library's induction theorems
  take an operator, so the induction is made with sets: `NatSetInduction` derives it
  from the well-foundedness of strict inclusion on finite sets, `Recursion` that a
  function defined by recursion over `0..N` exists and `StepInduction` what holds of
  its values.
* **SetMZProofs** - the search of `setMZ`, one route at a time: `SetInv` says that some
  `SearchInv` holds between any two steps, and that the rounds so far are those of the
  operator. From it the six safety properties of the run `setmz`; `RoutesShortest` is
  inductive on top of it, because a route appended in a round ends outside of what
  can be reached in one step less (`Levels`).
  `ShiftMovesMazeCorrect` is an argument about symmetry. `movedCell` takes cells to
  cells one by one, borders to borders and neighbours to neighbours (`MovedCells`, by
  rows and columns), so that `canPass` gives the same answer on both sides
  (`CanPassMoved`), and appending to a route, extending it to one side or to all and
  erasing routes commute with moving (`AppendMoved` to `EraseMoved`). By induction over
  the routes of a round and then over the rounds, the whole search does
  (`RoundMoved`, `SearchMoved`). Moved vertices have as many walls, although
  `updateIntersections` looks for the wall above a vertex in another place when it is in
  the first row (`WallsCount`, `VertexMoved`). `StringMoved` says that `shiftDown`, which
  cuts the string and swaps its parts, moves every character to `movedCell` of its
  place, and `MatrixInv` that the matrix and the picture are still those read from
  the string.
* **MZSafetyProofs** - first the lemmas about its operators: adding a wall that is not
  there gives a valid cell with that wall more, and removing what was added restores
  the cell, also for a cell that is its own neighbour (a maze of one row); what
  `withWall` does to a well-formed maze; and what a listed vertex says about the cells
  around it (`ProblemVertex`).
  `TypeCorrect`: `Spec => []TypeOK`. The type invariant carries that the two
  characters of a cell agree and that an iteration in progress is below the bound of
  its loop, which makes it inductive.
  `CacheCorrect`: `Spec => []CacheCoherent`, from the type
  invariant: taking back a wall of the border restores the character exactly.
  `WellFormedCorrect`, `RemovesOwnWallCorrect`, `FillAddsNewWallsCorrect`: together
  one inductive invariant, `SafeInv`. It adds to the three properties that at the
  head of a loop all cells are reachable, and that, while a wall that cut cells off
  is in place, the maze is `withWall(M0, r, s)` of a well-formed maze `M0` without
  that wall whose cells were all reachable (`TriedWall`). Without it the removal
  could not be shown to restore a well-formed, reachable maze. That the loops start
  with all cells reachable is `EmptyMazeReachable`, from what the search computes.
  `SearchExactCorrect`: in a well-formed maze the search can step between two cells
  exactly when no wall separates them, so that the visited cells are closed under
  open walls and a maze is connected if and only if all are visited.
  `MazeGrowsCorrect`, the refinement of `Maze`: `StartGeneration` maps to `Open`,
  `FillWalllessCell` and the `KeepWall` of a new wall to `AddWall`, every other step to
  a stutter. The walls of
  `fillWalllessCells` are not checked by anyone; they cut nothing off because
  at each vertex still to be fixed no wall meets (`GrowInv`), so that there is a way
  around its lower end. A wall added for one vertex meets no other vertex that is
  still to be fixed, because they are fixed in increasing order.
* **MZResultProofs** - that what the generation reports about its maze is right.
  `StringCorrect`; `IntersectionsCorrect`, by a bijection between the places of the
  picture that are looked at and the walls of the cells around a vertex;
  `NoWalllessCorrect`, from `FilledInv` (a vertex below the first row has a wall or is
  still listed; that the list misses none rests on the borders having one gap each);
  `WallLimitCorrect`, from the limit stated for the matrix itself (`LimitInv`, which
  a removal keeps because it restores a maze with fewer walls); `WallsCountedCorrect`,
  where the borders have `2 * (Height - 1)` walls at all times and the inner walls
  change one at a time; `BestRouteCorrect`, from `Best` of the search;
  `OpposingStepsCorrect`, by induction along the best route, each step of which
  changes the row and keeps the column or the other way round.
* **XMySQLProofs** - for any number of result sets, columns and rows and any answers
  (`BoundsAssumption`, `AnswersAssumption`), `TypeOK` and the seven other safety
  properties of `XMySQL`.
  `TypeOK` is inductive by itself. The properties about memory are inductive only
  together and with `CallInv` (within a call of a careful caller there is no result
  set, and within a query no row is being looked at) and `FieldsMatch`
  (`m_nFields` is the number of fields of what `m_pFields` points to, also when
  `m_pResult` is NULL): this is `MemoryInv`. Those about answers and errors need
  `WireInv`: how many answers can be left at each point of each method. That
  `ReadyForNext` excepts a result set without memory is not a way around a proof: the
  connection really is out of step then. What is proved is that nothing else puts it
  there, and that the error number is still set however many calls are made before the
  next connection.
* **MZHandlerProofs** - `GoUsesXMySQL`: every step of `Go` is a step of `XMySQL` or
  leaves it alone, so that its theorems hold for `Go`'s object. `CountCorrect` and
  `StoredOnceCorrect`, for any number of iterations, from `GoInv`: while the link is
  up as many mazes are stored as counted, a lost link stays lost, an insert in
  progress has stored at most the one maze, and the insert's only answer has been
  read when `mysql_query` has returned.
* **DumpResultProofs** - `BlockCorrect` and `ReadableCorrect`, for any number of
  columns and rows and any lengths. The two passes are compared through a function
  that records `iSize` at every position of the first one (`SizeInv`): each action of
  the first pass extends it by one value, so that no induction over sums is needed,
  and in the second pass `pOffset` is the recorded size plus the offsets still to be
  written. That nothing overlaps is `WriteInv`: besides what is written, two stretches
  are set aside, the rest of the table of row offsets and the rest of the table of the
  row in progress, and every new piece lies in one of them or behind `pOffset`.
  `ReadInv` says which offset leads to which text so far.
* **ConnectionStringProofs** - `SettingsCorrect`, for strings of any length. The
  invariant `ReadInv`: the reader stands at the beginning of an item, no item before it
  is incomplete, and the members have the values of the items before it. `ItemRead`
  shows that a parameter that runs on over a `;` names no member; `NothingMore` that
  where `sscanf` stops, the item with the next `=` is incomplete, so that nothing
  behind it counts. `StringsAssumption`: a string is a sequence of tokens.

Only model-checked: `FixedMazeGood`, which is a computation about one maze, and all
liveness (`Termination`, `CallsEnd`, `GoEnds`), which is out of reach of the prover
together with ENABLED; that the rounds of the search are bounded, the heart of
`Termination` for `setMZ`, is `SearchEndsInTime`. Every other property that a passing
run checks is also a theorem.

## 5. Not modelled

* Printing (`print...`, `OutputDebugString`, `std::cout`), the getters of `MZ`,
  `bVerbose`, `RTimer` and `main`: they only format or time what the modelled methods
  compute. `m_nWalls` is printed by `printRoutesAndStats` without ever being set
  after `setMZ`.
* The destructor of `XMySQL`, the count of its instances and `mysql_library_init`:
  the program makes one object and never deletes it. `XMySQL_Exception` carries
  values to a log line.
* Conversions between UTF-16 and UTF-8 in the overloads for `WCHAR`, `atof` and
  `atoi` of the getters; the limit of 1024 bytes of `SetConnectionString`'s buffers;
  the overflow of `DumpResult`'s `iSize`, an `int`, beyond 2 GB.
* `mysql/`: the headers of the MySQL client, declarations of a third party. They are
  more than four fifths of the source lines of the repository, so that the share of
  all lines the models cover stays small; of the program's own sources (`CL.cpp`,
  `MZ.cpp`, `MZHandler.cpp`, `xmysql.cpp`) nearly everything that is not printing or
  conversion is modelled.
