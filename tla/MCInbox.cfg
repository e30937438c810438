SPECIFICATION LiveSpec
CONSTANTS
  Intents = {i1, i2}
  Contents = {c1, c2}
  Participants = {p1, p2}
  Limit = 1
  Legacy = 1
  MaxRestarts = 1
PROPERTIES
  Delivered
  Promise
CHECK_DEADLOCK FALSE
