SPECIFICATION Spec
CONSTANTS
  Events <- MCEvents
  Payload <- MCPayload
  Texts <- MCTexts
  NoTable = NoTable
  Torn = Torn
  None = None
  dm = dm
  chat = chat
  C1 = C1
  D1 = D1
  U1 = U1
  team = team
  own = own
  Hosts = {"local", "remote", "aws"}
  MaxWrites = 2
  MaxDeliveries = 2
  DedupLimit = 1
  Faults = {"ack", "kill", "restart"}
INVARIANTS TypeOK SettledIsCurrent AtMostOnce
PROPERTY RoutesConverge
CHECK_DEADLOCK FALSE
