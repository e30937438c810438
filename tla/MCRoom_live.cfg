SPECIFICATION LiveSpec
CONSTANTS
  u1 = u1
  u2 = u2
  a1 = a1
  a2 = a2
  Users = {u1, u2}
  Agents = {a1, a2}
  System = system
  Keys = {k1}
  Requests = {}
  Finalizers = {}
  Changes <- Everybody
  Nothing = nothing
  MaxAgents = 2
  Grace = 1
  MaxCrashes = 1
INVARIANTS
  ActiveRoomHasOwner
PROPERTIES
  ArchiveSettles
CHECK_DEADLOCK FALSE
