\* The agents share a graph: a call is answered from a node of another agent.
SPECIFICATION Spec
CONSTANTS
  Nothing = Nothing
  Agents <- MCAgents
  Calls = {"candles", "orders"}
  Offers <- MCOffers
  Permitted <- MCPermitted
  Unreliable = {"candles"}
  Unsummarizable = {"candles"}
  UseGraph = {"trend", "pattern"}
  Dedup = {"trend", "pattern"}
  Remembering = {"writer", "pattern"}
  Validating = {"writer"}
  MaxTurns <- MCMaxTurns
  Retries <- MCRetries
  Before = 1
  Threshold = 2
  Batch = 2
  MaxAsked = 1
INVARIANT OwnVerdict
CHECK_DEADLOCK FALSE
