\* The server is slow to connect, or to end its last call.
SPECIFICATION McpSpec
CHECK_DEADLOCK FALSE
CONSTANTS
  Calls = {"list_tools", "search", "fetch"}
  Stop = Stop
INVARIANT TornDown
