SPECIFICATION Spec
CONSTANTS
  Categories = {c1}
  Texts = {t1, t2}
  Invalid = Invalid
  None = None
  Workers = {w1, w2}
  MaxAttempts = 2
  MaxRevision = 2
INVARIANTS TypeOK PublishedIsPointer PublishedIsServed EmbeddingsFitSnapshot
PROPERTIES ImplementsServedCatalog
SYMMETRY Symmetry
CHECK_DEADLOCK FALSE
