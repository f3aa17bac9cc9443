SPECIFICATION Spec
CONSTANTS
  Cases = {1, 2}
  Lexicon <- MCLexicon
  Numbers <- MCNumbers
  GenArgs <- MCGenArgs
  RerunArgs <- MCRerunArgs
  AnalysisArgs <- MCAnalysisArgs
  PassArgs <- MCPassArgs
  MaxRuns = 3
  MaxFresh = 1
  MaxRanked = 2
  MaxFailures = 1
  MaxPasses = 1
  MaxInterrupts = 1
INVARIANTS
  CorpusSettings
  Inherited
  ScriptHonest
CHECK_DEADLOCK FALSE
