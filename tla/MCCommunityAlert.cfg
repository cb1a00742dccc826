CONSTANTS
  Addresses = {"10.0.0.1", "10.0.0.2"}
  PeerLines <- MCPeerLines
  MAX_PEERS = 1
  MAX_CLOCK_SKEW = 1
  MAX_SEEN_NONCES = 2
  Drift = 1
  MaxAlerts = 2
  MaxClock = 2
  MaxLines = 4
  MaxFaults = 2
SPECIFICATION Spec
INVARIANTS
  TypeOK
  RaisedOnce
  NotSuppressed
CHECK_DEADLOCK FALSE
