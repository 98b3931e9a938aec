SPECIFICATION Spec
CONSTANTS
  o1 = o1
  o2 = o2
  h1 = h1
  h2 = h2
  None = None
  Objects = {o1, o2}
  Handles = {h1, h2}
  MaxText = 2
  Answers <- MCAnswers
SYMMETRY Symmetry
INVARIANTS
  TypeOK
  FreedWithTheLast
PROPERTIES
  OnlyExecuteLeavesRows
  EndMeansAll
  ResetIffGood
