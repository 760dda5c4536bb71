SPECIFICATION TurnSpec
CONSTANTS
  x1 = x1
  other = other
  Clients = {c1, c2}
  Requests <- TwoMessages
  Readings <- OneReading
  MaxRevision = 3
  Keys <- AllKeys
  Bodies <- AllBodies
  NoBody = NoBody
  Calls <- AllCalls
  IdleTTL = 1
  AbsTTL = 1
  IdemTTL = 1
  MaxNow = 2
  ClientNamedIds = FALSE
INVARIANTS TurnTypeOK AcceptedIsStored CategoryFollowsNeed SequencedOnce
SYMMETRY Symmetry
CHECK_DEADLOCK FALSE
