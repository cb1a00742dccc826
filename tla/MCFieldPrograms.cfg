CONSTANTS
  Visitors = {ana, luis}
  Commands = {c1, c2}
  MaxCommands = 4
  Hours = {1}
  SummerTime = {1}
  MaxTime = 2
  MaxCrashes = 1
  Imsis = {i1, i2}
  BadImsi = bad
  Managers = {m1, m2}
  MaxIssued = 3
  MaxFailures = 2
  Pids = {p1, p2}
  Stoppers = {s1, s2}
  MaxDaemonCommands = 4
  MaxKills = 2
  NoPid = nopid
  Torn = torn
  MaxDeviations = 3
  Latencies = {0, 100, 200}
  Jitters = {0, 30, 50}
  Losses = {0, 2, 5, 101}
  Loads = {0, 80, 90, 101}
  MaxRules = 2
  RuleIds = {1, 2}
  FrameIds = {1, 2, 3, 4}
  MaxCanId = 3
  Limits = {10, 300}
  MaxLines = 3
  Bytes = {10, 44, 200}
  Sizes = {0, 8, 9}
  Protocols = {0, 1}
  Lengths = {1, 2, 6, 254, 255}
  Functions = {3, 6, 7}
  MaxReceived = 270
SPECIFICATION Spec
SYMMETRY Slots
INVARIANTS
  TypeOK
  
  LedgerIsTruthful
  OneDaemon
  
  
PROPERTIES
  WorseNeverLooksBetter
CHECK_DEADLOCK FALSE
