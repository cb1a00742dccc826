CONSTANTS
  Versions = {1, 2}
  Keys = {"k1"}
  Procs = {p, q}
  MaxCrashes = 0
SPECIFICATION Spec
PROPERTIES
  ActivatesNewer
