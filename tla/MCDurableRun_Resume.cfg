\* A run crashes anywhere and is resumed, a failed one is rerun.
SPECIFICATION DSpec
CHECK_DEADLOCK FALSE
CONSTANTS
  Nothing = Nothing
  Tools <- MCTools
  ToolNames <- MCToolNames
  Agents = {}
  Capabilities = {}
  Grants <- NoGrants
  Names <- MCNames
  Values <- MCValues
  ReadBack <- RoundTrip
  Confidences = {}
  Requires <- NoRequires
  Idempotent = {}
  Retries <- NoRetries
  ApprovalFor = {}
  MaxCost = Nothing
  MaxRuntime = FALSE
  Outcomes <- Anything
  Costs <- FreeTools
  Unreliable = {"b"}
  BadUsage = {"c"}
  Unhashable = {}
  Workflows <- ResumedWorkflows
  Checkpointing = TRUE
  Checkpoints <- NoCheckpoints
  Serializable = {"tuple", "list"}
  MaxRestarts = 2
INVARIANT
  ReplayBindsRecorded
PROPERTY
  RecordedStepsRunOnce
