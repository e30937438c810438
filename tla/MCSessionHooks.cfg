SPECIFICATION LiveSpec
CONSTANTS
  Sessions <- AllSessions
  N = 2
  Slots = {1, 2}
  HookPage = 1
  BridgePage = 2
  MaxFailures = 1
  MaxFaults = 1
INVARIANTS
  CursorWithinAcked
PROPERTIES
  EventsAcknowledged
CHECK_DEADLOCK FALSE
