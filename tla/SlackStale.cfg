SPECIFICATION Spec
CONSTANTS
  Events <- MCEvents
  Payload <- MCPayload
  Texts <- MCTexts
  NoTable = NoTable
  Torn = Torn
  None = None
  dm = dm
  chat = chat
  C1 = C1
  D1 = D1
  U1 = U1
  team = team
  own = own
  Hosts = {"remote"}
  MaxWrites = 3
  MaxDeliveries = 1
  DedupLimit = 1
  Faults = {}
PROPERTY RoutesFollowFile
CHECK_DEADLOCK FALSE
