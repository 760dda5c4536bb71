SPECIFICATION Spec
CONSTANTS
  b1 = b1
  b2 = b2
  k1 = k1
  k2 = k2
  Clients = {c1, c2}
  Keys = {k1, k2}
  Bodies = {b1, b2}
  NoBody = NoBody
  Calls <- WriteCalls
  IdleTTL = 2
  AbsTTL = 3
  IdemTTL = 3
  MaxNow = 4
  ClientNamedIds = FALSE
INVARIANTS TypeOK HashMirrorsPayload NoLostUpdate NoWriteAfterAbsolute KeyAppliedOnce ReplayIsStored AwaitingMeansAsked
PROPERTIES ImplementsSessionLog
SYMMETRY Symmetry
CHECK_DEADLOCK FALSE
