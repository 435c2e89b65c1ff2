\* Fan-in, ballots, strategies, reuse and fallback; capabilities, approvals and retries;
\* usage and limits under concurrency; runs that start from an earlier run's checkpoints.
\* A run stops when it has ended: RunEnds says that it stops nowhere else.
SPECIFICATION Spec
CHECK_DEADLOCK FALSE
CONSTANTS
  Nothing = Nothing
  Tools <- MCTools
  ToolNames <- MCToolNames
  Agents <- MCAgents
  Capabilities <- MCCapabilities
  Grants <- MCGrants
  Names <- MCNames
  Values <- MCValues
  ReadBack <- Same
  Confidences = {1, 2}
  Requires <- MCRequires
  Idempotent = {"fetch", "write"}
  Retries <- MCRetries
  ApprovalFor = {"write"}
  MaxCost = 2
  MaxRuntime = TRUE
  Outcomes <- MCOutcomes
  Costs <- MCCosts
  Unreliable = {"a", "d", "e", "fetch", "write", "log"}
  BadUsage = {"p"}
  Unhashable = {"object"}
  Workflows <- MCWorkflows
  Checkpointing = TRUE
  Checkpoints <- MCCheckpoints
  Serializable = {"red", "blue"}
INVARIANTS
  TypeOK
  NoOrphanThread
  GroupsSummarizeSteps
  RunStatusHonest
  BallotInToolOrder
  AgreedValueWins
  GatedCallsApproved
  AttemptsAccounted
  UsageAccounted
  OvershootOneEntry
  BindingsResolve
PROPERTIES
  FinishedRecordsStay
  ImplementsContract
  RunEnds
