SPECIFICATION FilesSpec
CONSTANTS
  MaxFaults = 1
  Processes = {p, q}
  Requests = {1, 2}
  Fallback <- MCFallback
  Locks = {1, 2}
  Paths = {f, g}
  Tasks = {1, 2, 3}
  MaxSyncs = 1
  Loads = {1}
  MaxCalls = 1
  Claims = {1}
  Operations = {1}
  Startups = {1}
SYMMETRY Symmetry
INVARIANTS
  FilesTypesOK
  SettledOnce
  OneHolder
CHECK_DEADLOCK FALSE
