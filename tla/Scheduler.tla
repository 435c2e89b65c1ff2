------------------------------ MODULE Scheduler ------------------------------
(***************************************************************************)
(* aircore/scheduler.py: one Scheduler.run() of one workflow.              *)
(*                                                                         *)
(* The main thread walks the workflow's entries (variable pc).  A plain    *)
(* step runs on the main thread, the members of a parallel or consensus    *)
(* group on one pool thread each; in both cases the thread runs _run_tool, *)
(* whose position is task[s].pc for step id s.  An action ends where other *)
(* threads can observe what it did: at an event (EventBus.emit holds a     *)
(* lock while the journal and the metrics handle it), at a call into user  *)
(* code, or at the cost lock.                                              *)
(***************************************************************************)
EXTENDS Consensus, Journal, Metrics, FiniteSetsExt

CONSTANTS
  Tools,          \* executables; a tool and its name are identified
  Agents,
  Capabilities,
  Requires,       \* [Tools -> SUBSET Capabilities]    Executable.requires
  Grants,         \* [Agents -> SUBSET Capabilities]   Agent.capabilities
  Idempotent,     \* the tools that declare idempotent=True
  Retries,        \* [Tools -> Nat]                    Executable.retries
  ApprovalFor,    \* Policy.approval_for
  MaxCost,        \* Policy.max_cost, Nothing for no limit
  MaxRuntime,     \* whether Policy.max_runtime is set
  Names,          \* binding names (as_=)
  Values,         \* outputs of tools and strategies
  Outcomes,       \* [Tools -> SUBSET Values]: what execute() may return
  Costs,          \* [Tools -> SUBSET (Nat \cup {Nothing})]: what usage() may report
  Unreliable,     \* the tools whose execute() may raise
  BadUsage,       \* the tools whose usage() may raise
  Confidences,    \* the confidence figures a judge may report
  Workflows,      \* the workflows a run may be given
  Checkpointing,  \* whether run() was given a checkpoint_store and a run_id
  Checkpoints,    \* what the store may hold for this run_id before the run
  Serializable,   \* the values json.dumps accepts
  ReadBack        \* [Values -> Values]: what load() returns for a recorded output

Synthetic == "consensus"     \* the name of the step that records an agreed value

Kinds == {"step", "parallel", "consensus", "reuse"}

Strategies == {"majority", "unanimous", "judge"}

EntryType ==
  [kind : Kinds, tools : Seq(Tools), agent : Agents \cup {Nothing},
   bind : Names \cup {Nothing}, source : Nat, strategy : Strategies,
   fallback : Tools \cup {Nothing}, below : Nat]

(* What Workflow.step, parallel and consensus can append.                  *)
WellFormed(w) ==
  \A i \in DOMAIN w :
    /\ w[i].kind = "step" => Len(w[i].tools) = 1 /\ w[i].fallback = Nothing
    /\ w[i].kind # "step" => Len(w[i].tools) >= 2
    /\ w[i].kind = "parallel" => w[i].bind = Nothing /\ w[i].fallback = Nothing
    /\ w[i].kind = "reuse" => /\ w[i].source \in 1 .. i - 1
                              /\ w[w[i].source].kind = "parallel"
                              /\ w[i].tools = w[w[i].source].tools

CheckpointType(c) == \A i \in DOMAIN c : /\ i \in Nat \ {0}
                                         /\ c[i] \in [tool : Tools, output : Values]

ASSUME ToolAssumption ==
  /\ Requires \in [Tools -> SUBSET Capabilities]
  /\ Grants \in [Agents -> SUBSET Capabilities]
  /\ Retries \in [Tools -> Nat]
  /\ Outcomes \in [Tools -> SUBSET Values]
  /\ Costs \in [Tools -> SUBSET (Nat \cup {Nothing})]
  /\ Idempotent \subseteq Tools
  /\ ApprovalFor \subseteq Tools
  /\ ToolNames = Tools \cup {Synthetic}

ASSUME PolicyAssumption == MaxCost \in Nat \cup {Nothing} /\ MaxRuntime \in BOOLEAN

ASSUME WorkflowAssumption ==
  /\ Confidences \subseteq Nat
  /\ \A w \in Workflows : w \in Seq(EntryType) /\ WellFormed(w)

ASSUME CheckpointAssumption ==
  /\ Checkpointing \in BOOLEAN
  /\ ReadBack \in [Values -> Values]
  /\ \A c \in Checkpoints : CheckpointType(c)

ASSUME NothingAssumption ==
  Nothing \notin Nat \cup Tools \cup Names \cup Agents \cup Values \cup BOOLEAN
                 \cup {"success", "failed", "CapabilityDenied", "ApprovalDenied", "raised"}

VARIABLES
  steps,          \* the workflow being run: Workflow._steps
  pc,             \* where the main thread is in run()
  entry,          \* entry_index, from 1
  nextStepId,     \* next_step_id
  overall,        \* overall_status
  task,           \* step id -> the locals of the _run_tool call for it
  ballot,         \* the outputs handed to the current consensus strategy
  agreed,         \* the value that strategy agreed on
  groupOutputs,   \* self._group_outputs, keyed by the group's entry
  cost,           \* self._cumulative_cost_usd
  lastCost,       \* [Tools -> ...]: what usage() says about the latest execute()
  bindings,       \* workflow.bindings
  checkpoint,     \* the records loaded when the run began
  store,          \* the records the store holds for this run_id
  journal,
  metrics

main == <<steps, entry, nextStepId, overall, ballot, agreed, groupOutputs, bindings>>
durable == <<checkpoint, store>>
vars == <<steps, pc, entry, nextStepId, overall, task, ballot, agreed, groupOutputs, cost,
          lastCost, bindings, checkpoint, store, journal, metrics>>

-----------------------------------------------------------------------------
(* The entry being run, and the steps that belong to an entry.             *)

Current == steps[entry]

AsName == Current.bind

TasksOf(e) == {s \in DOMAIN task : task[s].entry = e}

NewTask(tool, agent, e, group) ==
  [tool |-> tool, agent |-> agent, entry |-> e, group |-> group, pc |-> "assigned",
   attempt |-> 0, calls |-> 0, output |-> Nothing, usage |-> Nothing,
   error |-> Nothing, status |-> Nothing]

(* pool.submit(self._run_tool, ...), or the call itself for a plain step.  *)
Assign(first, tools, group) ==
  [s \in DOMAIN task \cup first .. first + Len(tools) - 1 |->
     IF s >= first THEN NewTask(tools[s - first + 1], Current.agent, entry, group)
     ELSE task[s]]

Init ==
  /\ steps \in Workflows
  /\ pc = "next" /\ entry = 1 /\ nextStepId = 1 /\ overall = "success"
  /\ task = << >> /\ ballot = << >> /\ agreed = Nothing /\ groupOutputs = << >>
  /\ cost = 0 /\ lastCost = [t \in Tools |-> Nothing]
  /\ bindings = << >>
  /\ store \in (IF Checkpointing THEN Checkpoints ELSE {<< >>})
  /\ checkpoint = store
  /\ journal = EmptyJournal /\ metrics = EmptyMetrics

-----------------------------------------------------------------------------
(* _run_tool, one action per stretch between two observable points.        *)

(* Advance thread s from position `from` to position `to`.                 *)
Moves(s, from, to) == task[s].pc = from /\ task' = [task EXCEPT ![s].pc = to]

Missing(s) ==
  IF task[s].agent = Nothing THEN {} ELSE Requires[task[s].tool] \ Grants[task[s].agent]

(* A bug the checks must notice: the gate is applied to plain steps only.  *)
GateOutsideGroups(s) == task[s].tool \in ApprovalFor /\ task[s].group = Nothing

NeedsApproval(s) == task[s].tool \in ApprovalFor

StartStep(s) ==
  /\ Moves(s, "assigned", "check")
  /\ journal' = OnStepStarted(journal, s, task[s].tool, task[s].group, FALSE)
  /\ UNCHANGED <<main, pc, cost, lastCost, durable, metrics>>

(* An exception reaches the handler of _run_tool (scheduler.py:273).       *)
Throws(s, error) ==
  task' = [task EXCEPT ![s].pc = "failing", ![s].error = error]

DenyCapability(s) ==
  /\ task[s].pc = "check" /\ Missing(s) # {}
  /\ Throws(s, "CapabilityDenied")
  /\ UNCHANGED <<main, pc, cost, lastCost, durable, journal, metrics>>

RequestApproval(s) ==
  /\ Missing(s) = {} /\ NeedsApproval(s)
  /\ Moves(s, "check", "asking")
  /\ UNCHANGED <<main, pc, cost, lastCost, durable, journal, metrics>>

SkipApproval(s) ==
  /\ Missing(s) = {} /\ ~NeedsApproval(s)
  /\ Moves(s, "check", "call")
  /\ UNCHANGED <<main, pc, cost, lastCost, durable, journal, metrics>>

(* The approval callback answers ...                                       *)
DecideApproval(s, approved) ==
  /\ task[s].pc = "asking"
  /\ IF approved THEN Moves(s, "asking", "call") ELSE Throws(s, "ApprovalDenied")
  /\ journal' = OnApprovalDecided(journal, s, approved)
  /\ UNCHANGED <<main, pc, cost, lastCost, durable, metrics>>

(* ... or raises.                                                          *)
ApprovalRaises(s) ==
  /\ task[s].pc = "asking"
  /\ Throws(s, "raised")
  /\ UNCHANGED <<main, pc, cost, lastCost, durable, journal, metrics>>

CallTool(s) ==
  /\ task[s].pc = "call"
  /\ task' = [task EXCEPT ![s].pc = "running", ![s].calls = @ + 1]
  /\ UNCHANGED <<main, pc, cost, lastCost, durable, journal, metrics>>

(* execute() returns v; a later usage() on the same object will report c.  *)
ToolReturns(s, v, c) ==
  /\ task[s].pc = "running"
  /\ task' = [task EXCEPT ![s].pc = "returned", ![s].output = v]
  /\ lastCost' = [lastCost EXCEPT ![task[s].tool] = c]
  /\ UNCHANGED <<main, pc, cost, durable, journal, metrics>>

(* A bug the checks must notice: one retry too many.                       *)
OneRetryTooMany(s) ==
  task[s].tool \in Idempotent /\ task[s].attempt <= Retries[task[s].tool]

MayRetry(s) == task[s].tool \in Idempotent /\ task[s].attempt < Retries[task[s].tool]

(* execute() raises, or its timeout expires (module ToolTimeout).          *)
ToolRaises(s) ==
  /\ task[s].pc = "running" /\ task[s].tool \in Unreliable
  /\ IF MayRetry(s)
     THEN /\ task' = [task EXCEPT ![s].pc = "call", ![s].attempt = @ + 1]
          /\ journal' = OnRetryAttempted(journal, s, task[s].attempt + 1)
          /\ metrics' = CountRetry(metrics, task[s].tool)
     ELSE Throws(s, "raised") /\ UNCHANGED <<journal, metrics>>
  /\ UNCHANGED <<main, pc, cost, lastCost, durable>>

EmitSucceeded(s) ==
  /\ Moves(s, "returned", "usage")
  /\ journal' = OnToolSucceeded(journal, s, task[s].output)
  /\ UNCHANGED <<main, pc, cost, lastCost, durable, metrics>>

NoUsage(s) ==
  /\ lastCost[task[s].tool] = Nothing
  /\ Moves(s, "usage", "finishing")
  /\ UNCHANGED <<main, pc, cost, lastCost, durable, journal, metrics>>

(* usage() itself raises: ToolSucceeded has been emitted already.          *)
UsageRaises(s) ==
  /\ task[s].pc = "usage" /\ task[s].tool \in BadUsage
  /\ Throws(s, "raised")
  /\ UNCHANGED <<main, pc, cost, lastCost, durable, journal, metrics>>

ReportUsage(s) ==
  /\ task[s].pc = "usage" /\ lastCost[task[s].tool] # Nothing
  /\ task' = [task EXCEPT ![s].pc = "costing", ![s].usage = lastCost[task[s].tool]]
  /\ journal' = OnUsageReported(journal, s, lastCost[task[s].tool])
  /\ metrics' = CountUsage(metrics, task[s].tool, lastCost[task[s].tool])
  /\ UNCHANGED <<main, pc, cost, lastCost, durable>>

(* A bug the checks must notice: the sum is computed without the lock, so  *)
(* a concurrent addition can be lost.                                      *)
LostUpdate(s) ==
  IF \E r \in DOMAIN task \ {s} : task[r].pc = "costing" THEN cost
  ELSE cost + task[s].usage

AddedCost(s) == cost + task[s].usage

AddCost(s) ==
  /\ Moves(s, "costing", "finishing")
  /\ cost' = AddedCost(s)
  /\ UNCHANGED <<main, pc, lastCost, durable, journal, metrics>>

(* StepFinished, and the return of _run_tool.                              *)
Finishes(s, from, status) ==
  /\ task[s].pc = from
  /\ task' = [task EXCEPT ![s].pc = "done", ![s].status = status]
  /\ journal' = OnStepFinished(journal, s, status)
  /\ metrics' = CountStep(metrics, task[s].tool, status)
  /\ UNCHANGED <<main, pc, cost, lastCost, durable>>

FinishSucceeded(s) == Finishes(s, "finishing", "success")

EmitFailed(s) ==
  /\ Moves(s, "failing", "errored")
  /\ journal' = OnToolFailed(journal, s, task[s].error)
  /\ UNCHANGED <<main, pc, cost, lastCost, durable, metrics>>

FinishFailed(s) == Finishes(s, "errored", "failed")

RunTool(s) ==
  \/ StartStep(s) \/ DenyCapability(s) \/ RequestApproval(s) \/ SkipApproval(s)
  \/ \E approved \in BOOLEAN : DecideApproval(s, approved)
  \/ ApprovalRaises(s) \/ CallTool(s)
  \/ \E v \in Outcomes[task[s].tool], c \in Costs[task[s].tool] : ToolReturns(s, v, c)
  \/ ToolRaises(s) \/ EmitSucceeded(s) \/ NoUsage(s) \/ UsageRaises(s)
  \/ ReportUsage(s) \/ AddCost(s) \/ FinishSucceeded(s) \/ EmitFailed(s)
  \/ FinishFailed(s)

-----------------------------------------------------------------------------
(* run(), on the main thread.                                              *)

(* A bug the checks must notice: the loop goes on after a failure.         *)
CarriesOn ==
  /\ overall' = "failed" /\ pc' = "next" /\ entry' = entry + 1
  /\ UNCHANGED bindings

(* A break out of the loop over the entries.                               *)
Stop ==
  /\ overall' = "failed" /\ pc' = "finish"
  /\ UNCHANGED <<entry, bindings>>

(* A bug the checks must notice: a name bound twice keeps its first value. *)
FirstBindingWins(v) ==
  IF AsName = Nothing \/ AsName \in DOMAIN bindings THEN bindings
  ELSE Put(bindings, AsName, v)

Rebind(v) == IF AsName = Nothing THEN bindings ELSE Put(bindings, AsName, v)

(* The entry ended with a status; on success its value v may be bound.     *)
EndEntry(status, v) ==
  IF status = "failed" THEN Stop
  ELSE /\ pc' = "next" /\ entry' = entry + 1
       /\ bindings' = Rebind(v)
       /\ UNCHANGED overall

StopForRuntime ==
  /\ pc = "next" /\ entry \in DOMAIN steps /\ MaxRuntime
  /\ Stop
  /\ UNCHANGED <<steps, nextStepId, task, ballot, agreed, groupOutputs, cost, lastCost,
                 durable, journal, metrics>>

OverBudget == MaxCost # Nothing /\ cost > MaxCost

StopForCost ==
  /\ pc = "next" /\ entry \in DOMAIN steps /\ OverBudget
  /\ Stop
  /\ UNCHANGED <<steps, nextStepId, task, ballot, agreed, groupOutputs, cost, lastCost,
                 durable, journal, metrics>>

MayEnter == pc = "next" /\ entry \in DOMAIN steps /\ ~OverBudget

(* A bug the checks must notice: the checkpoint is consulted one position  *)
(* too far.                                                                *)
RecordedAhead == Current.kind = "step" /\ entry + 1 \in DOMAIN checkpoint

Recorded == Current.kind = "step" /\ entry \in DOMAIN checkpoint

ReplayMatches == checkpoint[entry].tool = Current.tools[1]

ReplayStep ==
  /\ MayEnter /\ Recorded /\ ReplayMatches
  /\ LET started   == OnStepStarted(journal, nextStepId, Current.tools[1], Nothing, TRUE)
         succeeded == OnToolSucceeded(started, nextStepId, checkpoint[entry].output)
     IN journal' = OnStepFinished(succeeded, nextStepId, "success")
  /\ metrics' = CountStep(metrics, Current.tools[1], "success")
  /\ nextStepId' = nextStepId + 1
  /\ EndEntry("success", checkpoint[entry].output)
  /\ UNCHANGED <<steps, task, ballot, agreed, groupOutputs, cost, lastCost, durable>>

(* CheckpointError leaves run(): there is no WorkflowFinished.             *)
RejectCheckpoint ==
  /\ MayEnter /\ Recorded /\ ~ReplayMatches
  /\ pc' = "raised"
  /\ UNCHANGED <<main, task, cost, lastCost, durable, journal, metrics>>

BeginStep ==
  /\ MayEnter /\ Current.kind = "step" /\ ~Recorded
  /\ task' = Assign(nextStepId, Current.tools, Nothing)
  /\ nextStepId' = nextStepId + 1
  /\ pc' = "step"
  /\ UNCHANGED <<steps, entry, overall, ballot, agreed, groupOutputs, bindings, cost,
                 lastCost, durable, journal, metrics>>

(* A bug the checks must notice: a failed step is recorded as well.        *)
RecordsAnyway(status) == Checkpointing

Records(status) == Checkpointing /\ status = "success"

(* _require_json_serializable, before a store of either kind is touched.   *)
JsonSerializable(output) == output \in Serializable

(* The plain step's _run_tool has returned: bind, then record.             *)
EndStep ==
  /\ pc = "step" /\ task[nextStepId - 1].pc = "done"
  /\ LET done     == task[nextStepId - 1]
         recorded == [tool |-> done.tool, output |-> ReadBack[done.output]]
     IN IF Records(done.status) /\ ~JsonSerializable(done.output)
        THEN /\ pc' = "raised"
             /\ bindings' = Rebind(done.output)
             /\ UNCHANGED <<entry, overall, store>>
        ELSE /\ EndEntry(done.status, done.output)
             /\ store' = IF Records(done.status) THEN Put(store, entry, recorded) ELSE store
  /\ UNCHANGED <<steps, nextStepId, task, ballot, agreed, groupOutputs, cost, lastCost,
                 checkpoint, journal, metrics>>

(* GroupStarted, and one pool thread per tool.                             *)
BeginGroup ==
  /\ MayEnter /\ Current.kind \in {"parallel", "consensus"}
  /\ journal' = OnGroupStarted(journal, entry, Current.kind)
  /\ metrics' = CountGroup(metrics)
  /\ task' = Assign(nextStepId, Current.tools, entry)
  /\ nextStepId' = nextStepId + Len(Current.tools)
  /\ pc' = "fanin"
  /\ UNCHANGED <<steps, entry, overall, ballot, agreed, groupOutputs, bindings, cost,
                 lastCost, durable>>

(* A bug the checks must notice: the group ends with its first member.     *)
AnyDone == \E s \in TasksOf(entry) : task[s].pc = "done"

(* A bug the checks must notice: a group waits until all members succeed.  *)
AllSucceeded == \A s \in TasksOf(entry) : task[s].status = "success"

(* Leaving the `with ThreadPoolExecutor` block.                            *)
AllDone == \A s \in TasksOf(entry) : task[s].pc = "done"

(* A bug the checks must notice: the status of the last member decides.    *)
LastStatus == task[nextStepId - 1].status

GroupStatus ==
  IF \E s \in TasksOf(entry) : task[s].status = "failed" THEN "failed" ELSE "success"

(* A bug the checks must notice: outputs in the order the threads started. *)
StartOrderOutputs ==
  LET started == SelectSeq(journal.order, LAMBDA s : s \in TasksOf(entry))
  IN [i \in 1 .. Len(Current.tools) |-> task[started[i]].output]

(* The outputs by step id, whatever the order of completion.               *)
AssignedOutputs ==
  [i \in 1 .. Len(Current.tools) |-> task[nextStepId - Len(Current.tools) + i - 1].output]

EndParallel ==
  /\ pc = "fanin" /\ Current.kind = "parallel" /\ AllDone
  /\ groupOutputs' = IF GroupStatus = "success"
                     THEN Put(groupOutputs, entry, AssignedOutputs) ELSE groupOutputs
  /\ journal' = OnGroupFinished(journal, entry, GroupStatus)
  /\ EndEntry(GroupStatus, Nothing)
  /\ UNCHANGED <<steps, nextStepId, task, ballot, agreed, cost, lastCost, durable, metrics>>

(* A voter failed: the strategy is never called.                           *)
EndVotersFailed ==
  /\ pc = "fanin" /\ Current.kind = "consensus" /\ AllDone /\ GroupStatus = "failed"
  /\ journal' = OnGroupFinished(journal, entry, "failed")
  /\ Stop
  /\ UNCHANGED <<steps, nextStepId, task, ballot, agreed, groupOutputs, cost, lastCost,
                 durable, metrics>>

EndVoters ==
  /\ pc = "fanin" /\ Current.kind = "consensus" /\ AllDone /\ GroupStatus = "success"
  /\ ballot' = AssignedOutputs
  /\ pc' = "reduce"
  /\ UNCHANGED <<steps, entry, nextStepId, overall, task, agreed, groupOutputs, bindings,
                 cost, lastCost, durable, journal, metrics>>

(* The one synthetic step of a consensus group, in the journal j.          *)
RecordSynthetic(j, s, output, error, confidence) ==
  LET started == OnStepStarted(j, s, Synthetic, entry, FALSE)
      noted   == IF confidence = Nothing THEN started
                 ELSE OnStrategyMetadataReported(started, s, confidence)
  IN IF error = Nothing
     THEN OnStepFinished(OnToolSucceeded(noted, s, output), s, "success")
     ELSE OnStepFinished(OnToolFailed(noted, s, error), s, "failed")

(* _emit_failed_consensus_step: the strategy is not asked.                 *)
FailedConsensusStep(j, s) == RecordSynthetic(j, s, Nothing, "raised", Nothing)

(* Reuse mode: the outputs of the parallel group, or a failed step when    *)
(* there are none.                                                         *)
BeginReuse ==
  /\ MayEnter /\ Current.kind = "reuse"
  /\ LET opened == OnGroupStarted(journal, entry, "consensus")
     IN IF Current.source \in DOMAIN groupOutputs
        THEN /\ ballot' = groupOutputs[Current.source]
             /\ pc' = "reduce"
             /\ journal' = opened /\ metrics' = CountGroup(metrics)
             /\ UNCHANGED <<entry, overall, bindings, nextStepId>>
        ELSE /\ journal' = OnGroupFinished(FailedConsensusStep(opened, nextStepId), entry, "failed")
             /\ metrics' = CountStep(CountGroup(metrics), Synthetic, "failed")
             /\ nextStepId' = nextStepId + 1
             /\ Stop
             /\ UNCHANGED ballot
  /\ UNCHANGED <<steps, task, agreed, groupOutputs, cost, lastCost, durable>>

(* What the strategy may answer to the ballot: a value and, from a judge,  *)
(* the confidence describe_last_call() reports.  A judge is arbitrary code.*)
Verdicts ==
  CASE Current.strategy = "majority"  ->
         IF MajorityAgrees(ballot) THEN {<<RankedFirst(ballot), Nothing>>} ELSE {}
    [] Current.strategy = "unanimous" ->
         IF UnanimousAgrees(ballot) THEN {<<ballot[1], Nothing>>} ELSE {}
    [] Current.strategy = "judge"     -> Values \X (Confidences \cup {Nothing})

StrategyMayRaise == Current.strategy = "judge" \/ Verdicts = {}

NeedsFallback(confidence) ==
  /\ Current.fallback # Nothing
  /\ confidence # Nothing /\ confidence < Current.below

(* The strategy agreed and nothing more is to be done.                     *)
Agree ==
  /\ pc = "reduce"
  /\ \E verdict \in Verdicts :
       /\ ~NeedsFallback(verdict[2])
       /\ agreed' = verdict[1]
       /\ journal' = OnGroupFinished(
                       RecordSynthetic(journal, nextStepId, verdict[1], Nothing, verdict[2]),
                       entry, "success")
       /\ EndEntry("success", verdict[1])
  /\ metrics' = CountStep(metrics, Synthetic, "success")
  /\ nextStepId' = nextStepId + 1
  /\ UNCHANGED <<steps, task, ballot, groupOutputs, cost, lastCost, durable>>

(* A bug the checks must notice: the fallback reuses the synthetic id.     *)
SameId == nextStepId

FallbackId == nextStepId + 1

(* It agreed with too little confidence: one more step runs the fallback.  *)
AgreeThenFallBack ==
  /\ pc = "reduce"
  /\ \E verdict \in Verdicts :
       /\ NeedsFallback(verdict[2])
       /\ agreed' = verdict[1]
       /\ journal' = RecordSynthetic(journal, nextStepId, verdict[1], Nothing, verdict[2])
  /\ metrics' = CountStep(metrics, Synthetic, "success")
  /\ task' = Assign(FallbackId, <<Current.fallback>>, entry)
  /\ nextStepId' = FallbackId + 1
  /\ pc' = "fallback"
  /\ UNCHANGED <<steps, entry, overall, ballot, groupOutputs, bindings, cost, lastCost,
                 durable>>

StrategyRaises ==
  /\ pc = "reduce" /\ StrategyMayRaise
  /\ journal' = OnGroupFinished(
                  RecordSynthetic(journal, nextStepId, Nothing, "raised", Nothing),
                  entry, "failed")
  /\ metrics' = CountStep(metrics, Synthetic, "failed")
  /\ nextStepId' = nextStepId + 1
  /\ Stop
  /\ UNCHANGED <<steps, task, ballot, agreed, groupOutputs, cost, lastCost, durable>>

(* A bug the checks must notice: the outcome of the fallback is ignored.   *)
FallbackIgnored == "success"

FallbackStatus == task[nextStepId - 1].status

(* The fallback's own output is bound to nothing.                          *)
EndFallback ==
  /\ pc = "fallback" /\ task[nextStepId - 1].pc = "done"
  /\ journal' = OnGroupFinished(journal, entry, FallbackStatus)
  /\ EndEntry(FallbackStatus, agreed)
  /\ UNCHANGED <<steps, nextStepId, task, ballot, agreed, groupOutputs, cost, lastCost,
                 durable, metrics>>

FinishWorkflow ==
  /\ pc = "finish" \/ (pc = "next" /\ entry \notin DOMAIN steps)
  /\ journal' = OnWorkflowFinished(journal, overall)
  /\ pc' = "done"
  /\ UNCHANGED <<main, task, cost, lastCost, durable, metrics>>

MainThread ==
  \/ StopForRuntime \/ StopForCost \/ ReplayStep \/ RejectCheckpoint
  \/ BeginStep \/ EndStep \/ BeginGroup \/ EndParallel \/ EndVotersFailed \/ EndVoters
  \/ BeginReuse
  \/ Agree \/ AgreeThenFallBack \/ StrategyRaises \/ EndFallback \/ FinishWorkflow

Ended == pc \in {"done", "raised"}

(* run() has returned, or CheckpointError has left it.                     *)
Terminating == Ended /\ UNCHANGED vars

Step == MainThread \/ \E s \in DOMAIN task : RunTool(s)

Next == Step \/ Terminating

(* A thread that can take a step is eventually scheduled, and a call into  *)
(* a tool, a callback or a strategy eventually returns.                    *)
Fairness == WF_vars(Step)

Spec == Init /\ [][Next]_vars /\ Fairness

-----------------------------------------------------------------------------
(* Properties.                                                             *)

Statuses == {"success", "failed"}

Errors == {"CapabilityDenied", "ApprovalDenied", "raised"}

Maybe(S) == S \cup {Nothing}

StepRecordType ==
  [tool : ToolNames, group : Maybe(Nat), replayed : BOOLEAN, status : Maybe(Statuses),
   output : Maybe(Values), error : Maybe(Errors), retries : Nat, usage : Maybe(Nat),
   metadata : Maybe(Nat), approved : Maybe(BOOLEAN)]

GroupRecordType ==
  [kind : {"parallel", "consensus"}, stepIds : Seq(Nat), status : Maybe(Statuses)]

JournalTyped(j) ==
  /\ j = [steps |-> j.steps, order |-> j.order, groups |-> j.groups, status |-> j.status]
  /\ DOMAIN j.steps \subseteq Nat \ {0} /\ j.steps \in [DOMAIN j.steps -> StepRecordType]
  /\ DOMAIN j.groups \subseteq Nat \ {0} /\ j.groups \in [DOMAIN j.groups -> GroupRecordType]
  /\ j.order \in Seq(Nat) /\ j.status \in Maybe(Statuses)

TaskPC == {"assigned", "check", "asking", "call", "running", "returned", "usage",
           "costing", "finishing", "failing", "errored", "done"}

TaskType ==
  [tool : Tools, agent : Maybe(Agents), entry : Nat, group : Maybe(Nat), pc : TaskPC,
   attempt : Nat, calls : Nat, output : Maybe(Values), usage : Maybe(Nat),
   error : Maybe(Errors), status : Maybe(Statuses)]

MainTyped ==
  /\ steps \in Workflows
  /\ pc \in {"next", "step", "fanin", "reduce", "fallback", "finish", "done", "raised"}
  /\ entry \in Nat \ {0} /\ nextStepId \in Nat \ {0} /\ overall \in Statuses
  /\ pc \notin {"next", "finish", "done"} => entry \in DOMAIN steps
  /\ ballot \in Seq(Values) /\ agreed \in Maybe(Values)
  /\ groupOutputs \in [DOMAIN groupOutputs -> Seq(Values)]
  /\ DOMAIN bindings \subseteq Names /\ bindings \in [DOMAIN bindings -> Values]

TasksTyped == DOMAIN task \subseteq Nat \ {0} /\ task \in [DOMAIN task -> TaskType]

(* Every variable has the type the code gives it, and the cursor of the    *)
(* main thread is in range while it is inside an entry.                    *)
TypeOK ==
  /\ MainTyped /\ TasksTyped
  /\ cost \in Nat /\ lastCost \in [Tools -> Maybe(Nat)]
  /\ CheckpointType(checkpoint) /\ CheckpointType(store)
  /\ JournalTyped(journal) /\ metrics \in MetricsType

(* scheduler.py:231-257: the gate in front of execute().  No tool is ever  *)
(* called for an agent that lacks a capability it requires, nor without a  *)
(* journaled approval when the policy asks for one -- in a group as in a   *)
(* plain step, for a fallback as for a voter.                              *)
GatedCallsApproved ==
  \A s \in DOMAIN task :
    task[s].calls > 0 =>
      /\ Missing(s) = {}
      /\ task[s].tool \in ApprovalFor => journal.steps[s].approved = TRUE

(* scheduler.py:284-304: a step calls a non-idempotent tool at most once,  *)
(* an idempotent one at most 1 + retries times, and what the journal says  *)
(* about retries is the number of calls after the first.                   *)
AttemptsAccounted ==
  \A s \in DOMAIN task :
    /\ task[s].calls <= 1 + (IF task[s].tool \in Idempotent THEN Retries[task[s].tool] ELSE 0)
    /\ task[s].pc = "done" /\ task[s].calls > 0
         => journal.steps[s].retries = task[s].calls - 1

(* scheduler.py:353-362, 402-411: fan-in.  A thread that is still running  *)
(* belongs to the entry the main thread is waiting on; nothing of an       *)
(* earlier entry overlaps a later one, or outlives the run.                *)
NoOrphanThread ==
  \A s \in DOMAIN task :
    task[s].pc # "done" => task[s].entry = entry /\ pc \in {"step", "fanin", "fallback"}

(* scheduler.py:364-371, 413-442, 521-536: a group is closed in the journal *)
(* only when every step in it is, and with "success" exactly when all of   *)
(* them -- voters, agreed value and fallback -- succeeded.                  *)
GroupsSummarizeSteps ==
  \A g \in DOMAIN journal.groups :
    LET group    == journal.groups[g]
        statuses == {journal.steps[group.stepIds[i]].status : i \in DOMAIN group.stepIds}
    IN group.status # Nothing =>
         /\ statuses \subseteq Statuses
         /\ group.status = "success" <=> "failed" \notin statuses

(* scheduler.py:167-173: the status of the run.  It is "success" only when *)
(* every entry was carried out and no step failed; a run that ends with    *)
(* "failed" has a failed group or step, or was stopped by a limit; an      *)
(* escaping CheckpointError leaves the journal without a status.           *)
RunStatusHonest ==
  /\ journal.status # Nothing <=> pc = "done"
  /\ journal.status = "success" =>
       /\ entry = Len(steps) + 1
       /\ \A s \in DOMAIN journal.steps : journal.steps[s].status = "success"
       /\ \A g \in DOMAIN journal.groups : journal.groups[g].status = "success"
  /\ journal.status = "failed" =>
       \/ \E s \in DOMAIN journal.steps : journal.steps[s].status = "failed"
       \/ MaxRuntime \/ OverBudget

(* The step of the journal that records what entry e produced: the n-th    *)
(* plain step, by id, for the n-th plain entry; for a consensus the        *)
(* synthetic step, the one of the group that no thread has run.            *)
PlainSteps == {s \in DOMAIN journal.steps : journal.steps[s].group = Nothing}

Rank(s) == Cardinality({r \in PlainSteps : r <= s})

PlainEntries(e) == Cardinality({i \in 1 .. e : steps[i].kind = "step"})

OutcomeStep(e) ==
  IF steps[e].kind = "step"
  THEN CHOOSE s \in PlainSteps : Rank(s) = PlainEntries(e)
  ELSE CHOOSE s \in DOMAIN journal.steps \ DOMAIN task : journal.steps[s].group = e

(* scheduler.py:128-134, 141-146, 154-155: when an entry is reached, every *)
(* name bound by an earlier entry holds the output journaled for the last  *)
(* entry that binds it, replayed or not, and no other name is bound.       *)
BindingsResolve ==
  pc # "raised" =>
    LET Binders(n) == {e \in 1 .. entry - 1 : steps[e].bind = n}
    IN \A n \in Names :
         /\ n \in DOMAIN bindings <=> Binders(n) # {}
         /\ n \in DOMAIN bindings =>
              bindings[n] = journal.steps[OutcomeStep(Max(Binders(n)))].output

(* scheduler.py:365-366, 419, 463-466: what a strategy is given.  Output i *)
(* of the ballot is that of the i-th tool of the group, whatever the order *)
(* in which the threads started or finished, and a reuse group always      *)
(* finds the outputs of its parallel group.                                *)
BallotInToolOrder ==
  /\ pc = "reduce" =>
       LET voted == TasksOf(IF Current.kind = "reuse" THEN Current.source ELSE entry)
       IN /\ Len(ballot) = Len(Current.tools)
          /\ \A s \in voted :
               LET i == Cardinality({r \in voted : r <= s})
               IN task[s].tool = Current.tools[i] /\ ballot[i] = journal.steps[s].output
  /\ (pc = "next" /\ entry \in DOMAIN steps /\ Current.kind = "reuse")
       => Current.source \in DOMAIN groupOutputs

(* consensus.py:60-79: a majority group never settles a tie: the value it  *)
(* records has strictly more votes than any other, whatever order they     *)
(* were cast in; unanimous voters all gave it.                             *)
AgreedValueWins ==
  \A s \in DOMAIN journal.steps :
    (journal.steps[s].tool = Synthetic /\ journal.steps[s].status = "success") =>
      LET group == steps[journal.steps[s].group]
          voted == TasksOf(IF group.kind = "reuse" THEN group.source
                           ELSE journal.steps[s].group) \cap 1 .. s
          For(v) == Cardinality({r \in voted : task[r].output = v})
          won   == journal.steps[s].output
      IN /\ group.strategy = "majority" => \A v \in Values \ {won} : For(v) < For(won)
         /\ group.strategy = "unanimous" => For(won) = Cardinality(voted)

(* scheduler.py:263-268, observability.py:105-109: no usage report is lost *)
(* between concurrent threads.  What the journal and the metrics show is   *)
(* the cost held against the policy plus the additions still to be made.   *)
UsageAccounted ==
  LET Of(s)   == IF journal.steps[s].usage = Nothing THEN 0 ELSE journal.steps[s].usage
      pending == {s \in DOMAIN task : task[s].pc = "costing"}
  IN /\ cost + MapThenSumSet(LAMBDA s : task[s].usage, pending) = metrics.usageTotal
     /\ metrics.usageTotal = MapThenSumSet(Of, DOMAIN journal.steps)
     /\ metrics.usageTotal = MapThenSumSet(LAMBDA t : metrics.byTool[t].usage, ToolNames)

(* scheduler.py:107-109: the limit is exceeded by at most what the entry   *)
(* under way adds: when an entry starts, all the earlier ones together     *)
(* reported no more than max_cost.                                         *)
OvershootOneEntry ==
  MaxCost # Nothing =>
    \A e \in {task[s].entry : s \in DOMAIN task} :
      LET before == {s \in DOMAIN task : task[s].entry < e /\ task[s].usage # Nothing}
      IN MapThenSumSet(LAMBDA s : task[s].usage, before) <= MaxCost

(* observability.py: the metrics are the totals of the journal's records,  *)
(* at every moment, per tool and over the run.                             *)
MetricsMatchJournal ==
  LET With(status, tools) == Cardinality({s \in DOMAIN journal.steps :
        journal.steps[s].status = status /\ journal.steps[s].tool \in tools})
  IN /\ metrics.stepsSucceeded = With("success", ToolNames)
     /\ metrics.stepsFailed = With("failed", ToolNames)
     /\ metrics.stepsTotal = metrics.stepsSucceeded + metrics.stepsFailed
     /\ metrics.retriesTotal =
          MapThenSumSet(LAMBDA s : journal.steps[s].retries, DOMAIN journal.steps)
     /\ metrics.groupsTotal = Cardinality(DOMAIN journal.groups)
     /\ \A t \in ToolNames :
          metrics.byTool[t].calls = With("success", {t}) + With("failed", {t})

(* checkpoint.py, scheduler.py:156-165: once a run has moved past a plain  *)
(* step, a crash no longer loses it: the store holds its tool and output.  *)
PassedStepsRecorded ==
  Checkpointing /\ pc # "raised" =>
    \A e \in 1 .. entry - 1 :
      steps[e].kind = "step" =>
        /\ e \in DOMAIN store /\ store[e].tool = steps[e].tools[1]
        /\ \/ store[e].output = ReadBack[journal.steps[OutcomeStep(e)].output]
           \/ journal.steps[OutcomeStep(e)].replayed

(* journal.py: the record of a finished step never changes again, and the  *)
(* step keeps its place: no two steps of a run share an id.                *)
FinishedRecordsStay ==
  [][\A s \in DOMAIN journal.steps :
       /\ s \in DOMAIN journal'.steps
       /\ journal.steps[s].status # Nothing => journal'.steps[s] = journal.steps[s]]_vars

(* scheduler.py:93-173: whatever fails, and whenever, a run whose tools    *)
(* return comes to an end.                                                 *)
RunEnds == <>Ended

(* The promise of RunContract, read off the journal: an entry's outcome is *)
(* the status of its group, or of the plain step that stands for it.       *)
Shown(status) == IF status = Nothing THEN "running" ELSE status

EntryOutcome(e) ==
  IF steps[e].kind # "step"
  THEN IF e \in DOMAIN journal.groups THEN Shown(journal.groups[e].status) ELSE "todo"
  ELSE IF PlainEntries(e) <= Cardinality(PlainSteps)
       THEN Shown(journal.steps[OutcomeStep(e)].status)
  ELSE IF TasksOf(e) # {} THEN "running" ELSE "todo"

RunResult ==
  CASE pc = "raised" -> "raised"
    [] pc = "done"   -> journal.status
    [] OTHER         -> "running"

Contract == INSTANCE RunContract
              WITH outcome <- [e \in DOMAIN steps |-> EntryOutcome(e)], result <- RunResult

(* workflow.py:257-306, scheduler.py:64-173: threads, retries, fallbacks   *)
(* and replays included, a run does what RunContract promises.             *)
ImplementsContract == Contract!Spec

==============================================================================
