SPECIFICATION FairSpec
CONSTANTS
  Clients = {c1}
  Tokens = {t1}
  NoToken = none
  Maximum = 1
  Buffer = 1
  MaxNotices = 2
  MaxID = 3
  MaxAttempts = 3
INVARIANTS
  HubConsistent
  HintsReach
PROPERTIES
  StreamsRecover
CHECK_DEADLOCK FALSE
