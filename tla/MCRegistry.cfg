SPECIFICATION LiveSpec
CONSTANTS
  Agents = {a1}
  Humans = {h1}
  Observer = h1
  Wired = {a1}
  Names <- Aliases
  Candidates <- Tried
  DefaultName <- Wanted
  LogicalIds = {l1}
  Roles = {r1}
  Nobody = nobody
  Timeout = 0
  PruneAfter = 1
  MaxSockets = 2
  MaxRestarts = 1
INVARIANTS
  AddressesReach
PROPERTIES
  LeavingIsTold
  SilentAgentsLeave
CHECK_DEADLOCK FALSE
