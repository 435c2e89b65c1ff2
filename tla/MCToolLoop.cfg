\* Two loops over one graph, one of them in a conversation with a single shot.
SPECIFICATION Spec
CONSTANTS
  Nothing = Nothing
  Agents <- MCAgents
  Calls = {"candles", "orders"}
  Offers <- MCOffers
  Permitted <- MCPermitted
  Unreliable = {"candles"}
  Unsummarizable = {"candles"}
  UseGraph = {"trend", "pattern"}
  Dedup = {"trend", "pattern"}
  Remembering = {"writer", "pattern"}
  Validating = {"writer"}
  MaxTurns <- MCMaxTurns
  Retries <- MCRetries
  Before = 1
  Threshold = 2
  Batch = 2
  MaxAsked = 1
CHECK_DEADLOCK FALSE
INVARIANTS
  InvokedAgainOnlyIfRacing
  InvocationsAccounted
  TurnsKept
PROPERTIES
  StepEnds
