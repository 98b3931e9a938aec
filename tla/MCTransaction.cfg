SPECIFICATION Spec
CONSTANTS
  serializable = serializable
  standard = standard
  none = none
  Levels <- MCLevels
  Default <- standard
  None <- none
  MaxTxns = 2
  MaxDepth = 3
  MaxRows = 2
  MaxTable = 3
  Lossy = TRUE
  Deadlocks = TRUE
CHECK_DEADLOCK FALSE
INVARIANTS
  TypeOK
  AllOrNothing
  OpenMeansOwned
  LevelAsAsked
PROPERTIES
  ImplementsUnits
