SPECIFICATION SharingSpec
CONSTANTS
  MaxSyncs = 2
  Loads = {1, 2}
  MaxCalls = 1
  MaxFaults = 1
  Claims = {1}
  Operations = {1, 2}
  Startups = {1, 2}
INVARIANTS
  TypesOK
  SyncSafe
  AuthorityCurrent
  PendingNotStranded
  ChangesOrdered
CHECK_DEADLOCK FALSE
