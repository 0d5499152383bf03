\* The package's scanner and the script with the default include pattern.
SPECIFICATION MCScanSpec
CONSTANTS
  NoFile = NoFile
  InTest = {2}
  Files = {1, 2, 3}
  Texts <- MCTexts
  Trees <- MCTrees
  Options <- MCDefaults
  RGlob <- MCRGlob
  FnMatch <- MCFnMatch
  MaxEdits = 1
  QuickOptions <- MCQuickOptions
  PoliciesBeside = {3}
CHECK_DEADLOCK FALSE
INVARIANTS
  DefaultScanReads
