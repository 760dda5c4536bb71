SPECIFICATION Spec
CONSTANTS
  MaxClarifications = 2
  MaxVersion = 2
  MaxCalls = 1
PROPERTY StaleCallsAreHarmless
CHECK_DEADLOCK FALSE
