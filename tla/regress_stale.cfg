SPECIFICATION RegrSpec
CONSTANTS
  ArgsLists <- MCStaleArgsLists
  cfg <- MCcfg
  testlist <- MCtestlist
  directed <- MCdirected
  yaml <- MCyaml
  environ <- MCenviron
  compileOpts <- MCcompileOpts
  simOpts <- MCsimOpts
  genCommands <- MCgenCommands
  compileCommands <- MCcompileCommands
  Sims <- MCSims
  MakeJobs = 2
  MaxTests = 2
  MaxMakes <- MCStaleMaxMakes
  MaxRtl = 2
  KeepGoing = {}
INVARIANTS
  PassMeansPassed
CHECK_DEADLOCK FALSE
