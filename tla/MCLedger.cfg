CONSTANTS
  Appenders = {a, b}
  Plain = {"x", "y"}
  Special = {"q"}
  MaxPieces = 3
  MaxFaults = 2
  MaxAlter = 1
SPECIFICATION Spec
INVARIANTS
  TypeOK
  NoFalseAlarm
  AlterationDetected
  AckedSurvives
CHECK_DEADLOCK FALSE
