\* The static scanners on a tree that others edit.
SPECIFICATION MCScanSpec
CONSTANTS
  NoFile = NoFile
  InTest = {2}
  Files = {1, 2, 3}
  Texts <- MCTexts
  Trees <- MCTrees
  Options <- MCOptions
  RGlob <- MCRGlob
  FnMatch <- MCFnMatch
  MaxEdits = 1
  QuickOptions <- MCQuickOptions
  PoliciesBeside = {3}
CHECK_DEADLOCK FALSE
INVARIANTS
  ScriptWithinPackage
  ExitsTellTheTree
  ReportAddsUp
