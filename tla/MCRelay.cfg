SPECIFICATION LiveSpec
CONSTANTS
  b1 = b1
  b2 = b2
  p1 = p1
  p2 = p2
  p3 = p3
  Brokers <- TwoBrokers
  Agents = {p1, p2, p3}
  Home <- Homes
  Nobody = nobody
  Early = {p1, p2}
  Joined = {b2}
  Active = {p3}
  Targets <- SyncTargets
  MaxBuffer = 2
  PollLimit = 2
  FlushBatch = 1
  SyncScan = 3
  SyncLimit = 2
  SeenWindow = 2
  SeenKept = 1
  MaxLog = 7
  MaxLocal = 2
  MaxFaults = 1
INVARIANTS
  GuestsHaveHosts
  AppliedOnce
  Accounted
PROPERTIES
  BacklogDrains
CHECK_DEADLOCK FALSE
