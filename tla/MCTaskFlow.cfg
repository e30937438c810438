SPECIFICATION LiveSpec
CONSTANTS
  t1 = t1
  a1 = a1
  a2 = a2
  Tasks = {t1}
  Submissions = {s1, s2}
  Approvals = {a1, a2}
  AskedFor <- OneTask
  None = none
  Roster = {"pm"}
  Threshold = 1
  Dedup = 2
  MaxRestarts = 1
INVARIANTS
  BlockedIsAsked
  NoResultLost
PROPERTIES
  OpenTaskIsEscalated
CHECK_DEADLOCK FALSE
