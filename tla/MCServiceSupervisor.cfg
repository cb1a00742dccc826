CONSTANTS
  Registry <- MCRegistry
  Pids = {1, 2, 3}
  MaxSignals = 2
SPECIFICATION FairSpec
INVARIANTS
  TypeOK
  NeverSignalsForeign
  OneInstance
  LaunchBudget
  GivenUpStaysFailed
  FirstSignalStopsAll
PROPERTIES
  ShutdownCompletes
  FailureIsHandled
