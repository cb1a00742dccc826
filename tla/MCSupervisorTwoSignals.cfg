CONSTANTS
  Registry <- MCRegistry
  Pids = {1, 2}
  MaxSignals = 2
SPECIFICATION Spec
INVARIANTS
  NoServiceOutlivesInit
