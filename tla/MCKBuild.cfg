CONSTANTS
  Syms <- MCSyms
  Configs <- MCConfigs
  Files = {"a.c", "h.h"}
  Texts <- MCTexts
  Objs = {"a.o"}
  Reads <- MCReads
  NoFile = NoFile
  NoObj = NoObj
SPECIFICATION Spec
INVARIANT SavedConfigSurvives
PROPERTY BuildIsCurrent
