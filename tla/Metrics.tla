------------------------------- MODULE Metrics -------------------------------
(***************************************************************************)
(* aircore/observability.py: the counters kept from the same events as the *)
(* journal, per run and per tool name.  Durations are left out.            *)
(***************************************************************************)
EXTENDS Naturals

CONSTANT ToolNames           \* the keys of by_tool: every name a step can carry

NewStats == [calls |-> 0, successes |-> 0, failures |-> 0, retries |-> 0, usage |-> 0]

(* by_tool is a defaultdict(ToolStats).                                    *)
EmptyMetrics ==
  [stepsTotal |-> 0, stepsSucceeded |-> 0, stepsFailed |-> 0, groupsTotal |-> 0,
   retriesTotal |-> 0, usageTotal |-> 0, byTool |-> [t \in ToolNames |-> NewStats]]

StatsType == [calls : Nat, successes : Nat, failures : Nat, retries : Nat, usage : Nat]

MetricsType ==
  [stepsTotal : Nat, stepsSucceeded : Nat, stepsFailed : Nat, groupsTotal : Nat,
   retriesTotal : Nat, usageTotal : Nat, byTool : [ToolNames -> StatsType]]

CountGroup(m) == [m EXCEPT !.groupsTotal = @ + 1]

CountCall(stats, status) ==
  IF status = "success" THEN [stats EXCEPT !.calls = @ + 1, !.successes = @ + 1]
  ELSE [stats EXCEPT !.calls = @ + 1, !.failures = @ + 1]

CountStep(m, tool, status) ==
  LET counted == [m EXCEPT !.stepsTotal = @ + 1, !.byTool[tool] = CountCall(@, status)]
  IN IF status = "success" THEN [counted EXCEPT !.stepsSucceeded = @ + 1]
     ELSE [counted EXCEPT !.stepsFailed = @ + 1]

CountAgain(stats) == [stats EXCEPT !.retries = @ + 1]

CountRetry(m, tool) ==
  [m EXCEPT !.retriesTotal = @ + 1, !.byTool[tool] = CountAgain(@)]

Charge(stats, usage) == [stats EXCEPT !.usage = @ + usage]

CountUsage(m, tool, usage) ==
  [m EXCEPT !.usageTotal = @ + usage, !.byTool[tool] = Charge(@, usage)]

==============================================================================
