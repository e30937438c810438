SPECIFICATION Spec
CONSTANTS
  Sessions <- ClaudeOnly
  N = 2
  Slots = {1, 2}
  HookPage = 2
  BridgePage = 1
  MaxFailures = 2
  MaxFaults = 0
INVARIANTS
  NothingSkipped
CHECK_DEADLOCK FALSE
