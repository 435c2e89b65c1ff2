\* A call may hang, as the docstring of ToolTimeout supposes.
SPECIFICATION Spec
CHECK_DEADLOCK FALSE
CONSTANTS
  Retries = 1
  Timeout = TRUE
PROPERTY
  StopsWaiting
