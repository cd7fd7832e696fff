CONSTANTS
  SymType <- MCSymType
  StrOrder <- MCStrOrder
  Num <- MCNum
  Leaves <- MCLeaves
  MaxLeaves = 3
  MaxNots = 1
SPECIFICATION Spec
INVARIANTS SimplificationKeepsValue EqualityIsSound DependencyTestsAreSound PrintParsesBack
CHECK_DEADLOCK FALSE
