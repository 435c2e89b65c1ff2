\* A response whose confidence is null.
\* A run stops when a judgment fails or its groups are reduced.
SPECIFICATION Spec
CHECK_DEADLOCK FALSE
CONSTANTS
  Nothing = Nothing
  Runs = {"first", "second"}
  Responses <- MCResponses
  MaxCalls = 2
INVARIANT ConfidenceIsReal
