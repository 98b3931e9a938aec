SPECIFICATION FairSpec
CONSTANTS
  Words <- MCWords
  Trees <- MCTrees
  Commands <- MCCommands
  FileNamed <- MCFileNamed
  LongWords <- MCLongWords
  LongSize = 40
  ShortSize = 5
  MaxOpen = 4
  MaxRuns = 2
CHECK_DEADLOCK FALSE
INVARIANTS
  ParsedWhole
  RoundTrip
PROPERTIES
  ProgramEnds
