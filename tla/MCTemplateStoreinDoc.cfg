SPECIFICATION Spec
CONSTANTS
  Templates <- MCTemplates
  Values <- MCValues
  Characters <- MCCharacters
  Names <- MCNames
  MaxElems = 3
  MaxArgs = 2
CHECK_DEADLOCK FALSE
INVARIANTS
  CompletedOnce
