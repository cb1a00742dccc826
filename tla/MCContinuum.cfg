CONSTANTS
  Callers = {p, q}
  Data = {"a", "b", "bar"}
  Invalid = {"bar"}
  MaxEvents = 2
  MaxFaults = 1
  MaxEdits = 1
SPECIFICATION Spec
INVARIANTS
  TypeOK
  HonestLogVerifies
  AlterationIdentified
  CommittedIsLogged
PROPERTIES
  IdentityIsStable
SYMMETRY Symmetry
CHECK_DEADLOCK FALSE
