SPECIFICATION FairSpec
CONSTANTS
  NRows = 3
  RowSize <- MCRowSize
  Header = 4
  Calls <- EveryCall
CHECK_DEADLOCK FALSE
INVARIANTS
  TypeOK
  ReturnMeansStored
  RowsInOrder
  StatementSizes
  NothingLeftOpen
PROPERTIES
  ImplementsAtomic
  CallEnds
