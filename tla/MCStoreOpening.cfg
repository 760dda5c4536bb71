SPECIFICATION Spec
CONSTANTS
  b1 = b1
  b2 = b2
  k1 = k1
  k2 = k2
  Clients = {c1, c2}
  Keys = {k1, k2}
  Bodies = {b1, b2}
  NoBody = NoBody
  Calls <- OpeningCalls
  IdleTTL = 2
  AbsTTL = 2
  IdemTTL = 2
  MaxNow = 1
  ClientNamedIds = TRUE
PROPERTIES WritesSurvive
CHECK_DEADLOCK FALSE
