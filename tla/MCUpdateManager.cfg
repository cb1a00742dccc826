CONSTANTS
  Versions = {1, 2, 3}
  Keys = {"k1", "k2"}
  Procs = {p}
  MaxCrashes = 2
SPECIFICATION Spec
INVARIANTS
  TypeOK
  CurrentComplete
  RollbackLands
  InstalledWasTrusted
  RollbackUndoesApply
PROPERTIES
  ActivatesNewer
