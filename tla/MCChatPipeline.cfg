SPECIFICATION Spec
CONSTANTS
  Messages = {m1, m2, m3}
  HasFallback = TRUE
INVARIANTS TypeOK SoloTurnsStay
SYMMETRY Symmetry
CHECK_DEADLOCK FALSE
