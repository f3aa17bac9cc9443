SPECIFICATION RegrSpec
CONSTANTS
  ArgsLists <- MCArgsLists
  cfg <- MCcfg
  testlist <- MCtestlist
  directed <- MCdirected
  yaml <- MCyaml
  environ <- MCenviron
  compileOpts <- MCcompileOpts
  simOpts <- MCsimOpts
  genCommands <- MCgenCommands
  compileCommands <- MCcompileCommands
  Sims <- MCSims
  MakeJobs = 2
  MaxTests = 2
  MaxMakes <- MCMaxMakes
  MaxRtl = 2
  KeepGoing <- MCKeepGoing
INVARIANTS
  FilesKept
  ReportTrue
  TestsFit
PROPERTIES
  MakeEnds
CHECK_DEADLOCK FALSE
