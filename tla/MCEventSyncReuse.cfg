CONSTANTS
  MaxEvents = 3
  Size <- MCSize
  MaxBody = 3
  BatchLimit = 2
  Syncers = {d}
  Daemon = d
  Threads = {t1}
  MaxFaults = 0
  MaxAdmin = 0
SPECIFICATION Spec
INVARIANTS
  NoEventLost
CHECK_DEADLOCK FALSE
