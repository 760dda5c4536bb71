SPECIFICATION Spec
CONSTANTS
  Items = {i1}
  Hashes = {h1, h2}
  None = None
  Writers = {w1, w2}
  Consumers = {k1, k2}
  MaxAttempt = 2
INVARIANTS TypeOK OutboxIsExact LostOnlyOnReturn ProcessingIsHeld
SYMMETRY Symmetry
CHECK_DEADLOCK FALSE
