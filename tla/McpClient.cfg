\* Three calls, before, during and after __exit__.
\* A caller that comes too late waits for ever, and so may everyone else.
SPECIFICATION McpSpec
CHECK_DEADLOCK FALSE
CONSTANTS
  Calls = {"list_tools", "search", "fetch"}
  Stop = Stop
INVARIANT
  AnsweredBeforeClosed
PROPERTIES
  SessionCloses
  CallsAnswered
