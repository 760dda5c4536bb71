SPECIFICATION LiveSpec
CONSTANTS
  MaxClarifications = 2
  MaxVersion = 3
  MaxCalls = 2
INVARIANTS TypeOK InProgressHasJob WaitingMeansAsked
PROPERTIES PatchFitsQuery FinalStays SearchSettles
CHECK_DEADLOCK FALSE
