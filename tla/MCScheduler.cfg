SPECIFICATION LiveSpec
CONSTANTS
  media = media
  price = price
  Jobs = {1, 2}
  Items <- TwoItems
  Deduplicated <- TwoItems
  Indexed <- MediaOnly
  Priority <- Urgency
  Workers = {w1, w2}
  Enqueuers = {e1, e2}
  MaxAttempts = 2
  NoJob = NoJob
  NoItem = NoItem
  MaxCrashes = 1
  MaxLapses = 1
INVARIANTS TypeOK OneActiveJobPerItem RetryBudget HolderExclusive
PROPERTIES SettledStays ImplementsJobQueue JobsSettle
CHECK_DEADLOCK FALSE
