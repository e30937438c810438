SPECIFICATION PeopleSpec
CONSTANTS
  Tasks = {}
  Submissions = {}
  Approvals = {}
  AskedFor <- NoApproval
  None = none
  Roster = {}
  Threshold = 0
  Dedup = 1
  MaxRestarts = 0
  Hooked = {"h1", "h2"}
  Correlated = {"h1", "h2"}
  Native = {"n1"}
  Offers = {{"accept", "acceptForSession", "decline", "cancel"}, {"accept"},
            {"approved", "approved_for_session", "denied", "abort"}}
  Clients = {1, 2}
  MaxFaults = 1
  Users = {"u"}
  Handlers = {1, 2}
  MaxFailures = 2
INVARIANTS
  TypesOK
  HooksHeedHumans
  CodexRunsByHuman
  Quiet
PROPERTIES
  Recovers
CHECK_DEADLOCK FALSE
