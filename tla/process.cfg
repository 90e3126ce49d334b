\* Processes with each trigger, with several, with databases, and without.
CONSTANTS
  A = A
  G = G
  X = X
  None = None
  DB = DB
  Other = Other
  Readers = {1, 2}
  Calls = {1, 2}
  Tables <- MCTables
  MaxRead = 2
  Names = {A, G}
  Grouped = {G}
  Keys = {A, X, None}
  EmptyKey = None
  Results <- MCResults
  Runs = {1, 2}
  Flags <- MCFlags
  Database = DB
  FileContent <- MCFileContent
SPECIFICATION FairSpec
INVARIANTS
  TypeOK
  NeverNilMap
  ExitIsTruthful
  StopsForAReason
  CommittedRowsAreLast
  RunsAreOfOneResult
PROPERTIES
  StopsBetweenExecutions
  StoppingEnds
  RowsAreServed
