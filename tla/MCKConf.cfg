CONSTANTS
  SymType <- MCSymType
  StrOrder <- MCStrOrder
  Num <- MCNum
  Files = {"plain", "choice", "tristate"}
  Source <- MCSource
  Order <- MCOrder
  Draws <- MCDraws
  Modes = {"oldaskconfig", "listnewconfig", "oldconfig", "olddefconfig", "allyesconfig", "allmodconfig", "allnoconfig", "alldefconfig", "yes2modconfig", "mod2yesconfig", "randconfig", "savedefconfig", "defconfig"}
  MaxRuns = 2
SPECIFICATION Spec
INVARIANTS OrderDoesNotMatter OneValuePerChoice RoundsAreBounded SavedConfigIsStable MinimalConfigRestores
CHECK_DEADLOCK FALSE
