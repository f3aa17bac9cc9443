SPECIFICATION Spec
CONSTANTS
  retries = 1
  MaxReranks = 2
  Dirs <- MCDirs
  Cases <- MCCases
  Options <- MCOptions
  Texts <- MCTexts
  Patches <- MCPatches
  Weights <- MCWeights
  Bugs <- MCBugs
INVARIANTS
  RequestBound
  InTurn
  SourcesKept
  WrittenLoadable
  OfflineAgrees
  SummarySound
