SPECIFICATION ProcessesSpec
CONSTANTS
  Pids = {1, 2}
  Commands = {11, 12}
  MaxKills = 1
  Uses <- MCUses
  Hooks = {1, 2, 3}
  Children = {1, 2}
  MaxFaults = 1
INVARIANTS TypesOK ReadyServes OneStarter EnsuredOnce
PROPERTIES HeartbeatSettles EndsWithParent
CHECK_DEADLOCK FALSE
