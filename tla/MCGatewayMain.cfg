SPECIFICATION FairSpec
CONSTANTS
  IntMax = 100000
  PortRange = 65536
  Environments <- MCEnvironments
  DotenvFiles <- MCDotenvFiles
  Signals = {"SIGINT", "SIGTERM"}
INVARIANTS
  EnvironmentWins
  PortExact
  CleanShutdown
  PublishHasClient
  NothingOutlives
PROPERTY
  ShutdownEnds
