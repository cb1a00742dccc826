CONSTANTS
  MaxEvents = 3
  Size <- MCSize
  MaxBody = 3
  BatchLimit = 2
  Syncers = {d, c}
  Daemon = d
  Threads = {t1, t2}
  MaxFaults = 2
  MaxAdmin = 1
SPECIFICATION FairSpec
INVARIANTS
  TypeOK
  LossNeedsReuse
  SyncedIsHeld
  StoredOnce
  NoGaps
PROPERTIES
  ImplementsEventStore
  QueueDrains
CHECK_DEADLOCK FALSE
