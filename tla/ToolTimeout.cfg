\* Calls end in time, late, or never.  The step stops when it is decided.
SPECIFICATION Spec
CHECK_DEADLOCK FALSE
CONSTANTS
  Retries = 3
  Timeout = TRUE
INVARIANTS
  TypeOK
  NoOverlap
  DecidedByLastAttempt
PROPERTY
  StepDecided
