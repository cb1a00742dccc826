CONSTANTS
  Registry <- MCOneService
  Pids = {1, 2}
  MaxSignals = 1
SPECIFICATION FairSpec
PROPERTIES
  RestartIsHonoured
