\* Two runs that reduce up to two groups each with one judge, in every mode.
\* A run stops when a judgment fails or its groups are reduced.
SPECIFICATION Spec
CHECK_DEADLOCK FALSE
CONSTANTS
  Nothing = Nothing
  Runs = {"first", "second"}
  Responses <- MCResponses
  MaxCalls = 2
INVARIANTS
  MetadataIsOwn
  AgreedByResponse
