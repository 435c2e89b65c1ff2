\* Two attempts of a tool with or without a sandbox, with or without limits.
SPECIFICATION SandboxSpec
CONSTANTS
  Retries = 1
  Timeout = TRUE
  Ends = {"small", "large", "unpicklable", "raises", "denied", "crashes"}
  MaxWork = 1
CHECK_DEADLOCK FALSE
INVARIANTS
  NoOverlap
  DecidedByLastAttempt
  AnswersAreTrue
PROPERTIES
  NothingAfterAnswer
  ForcedEnd
