CONSTANTS
  Appenders = {a}
  Plain = {"x"}
  Special = {"q"}
  MaxPieces = 2
  MaxFaults = 0
  MaxAlter = 0
SPECIFICATION Spec
INVARIANTS
  HonestLedgerVerifies
CHECK_DEADLOCK FALSE
