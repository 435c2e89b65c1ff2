# Aircore in TLA+

A verification project for `aircore` (with `airpy`, `airlang` and `aircli`): the
scheduler that runs workflows of tools and agents, the stores that make runs
durable, the agents with their conversations and tools, and the language that
workflows are written in.  Modules model the code action by action, TLC
checks them on small instances, and the theorems about them are proved with TLAPS
for every value of their constants.

`PROJECT.json` lists the components, the runs, the line of the source each
definition stands for, the hazards of the code, and the theorems.

## 1. Inventory

### Components, their state and their operations

| Component | State it keeps | Operations | What makes it correct |
|---|---|---|---|
| `aircore/workflow.py` `Workflow` | `_steps` (tool or group, agent, `as_`), `bindings`, `journal`, `metrics` | `step`, `parallel`, `consensus`, `run`, `_validate` | a run does what the entries say, in order, and ends; what a prompt reads is of this run |
| `aircore/scheduler.py` `Scheduler` | `_cumulative_cost_usd`, `_group_outputs`, the locals of `run()` and of every `_run_tool` | `run`, `_replay_step`, `_run_tool`, `_call_with_retries`, `_execute_with_timeout`, `_run_group`, `_run_consensus_group`, `_apply_consensus_strategy` | fan-in, gates, retries, budget, status, bindings, replay |
| `aircore/events.py` `EventBus` | subscribers, a lock | `subscribe`, `emit` | one event is handled at a time |
| `aircore/journal.py` `Journal` | step and group records | one handler per event | a finished record does not change; a group summarizes its steps |
| `aircore/observability.py` `Metrics` | counters, per run and per tool | one handler per event | the counters are the totals of the journal |
| `aircore/consensus.py` | none (strategies are functions), `ConsensusGroup` | `majority`, `unanimous` | no tie is ever settled |
| `aircore/policy.py`, `approval.py`, `agent.py`, `effects.py` | none | `missing`, the approval callback | no call past its gate |
| `aircore/executable.py`, `tools.py` | an executable's attributes | `execute`, `usage` | as used by the scheduler |
| `aircore/checkpoint.py` | one record per plain step and run_id, in memory or in a JSON file | `load`, `record` | an accepted record survives and comes back as it was |
| `aircore/mindgraph.py` `MindGraph` | nodes, edges, counters, a deduplication index | `add_node`, `link`, `remove`, `collapse`, `compact_oldest`, `neighborhood` | no fact is lost by folding; a folded node's dependents keep their link; a key leads to its own node |
| `aircore/memory.py`, `persistent_memory.py` | scopes of key/value pairs, in memory or in a JSON file | `get`, `set`, `delete`, `clear` | what was stored is kept while nothing interferes; what can be read is whole |
| `aircore/sandbox.py` | a child process, a queue | `run_sandboxed`, `_child_main` | every call is answered once and truly; nothing runs on after the answer |
| `airpy/model_agent.py` `ModelAgent` | `last_response`, `tool_call_log`, the conversation in a memory, a MindGraph | `execute`, `stream`, the tool-calling loop | a repeated call is made again only in a race; a retry repeats no tool; turns are kept; the loop ends |
| `airpy/judge_consensus.py` | `_last_call_metadata` | `__call__`, `describe_last_call` | the details belong to the answer; a consensus is one the response states |
| `airpy/session.py`, `ask.py` | a conversation in a memory, `turn_count`, `ended_at` | `send`, `_trim_history_if_needed`, `close`; `ask` | whole turns, in order, the latest ones |
| `airpy/mcp_tools.py` | a server process, an event loop with its thread, one session task, a queue of calls | `__enter__`, `_session_task`, `_call`, `__exit__` | every call gets its answer; leaving cuts none off and closes the session |
| `airpy/structured_output.py` | none | `extract_json`, `validate_against_schema` | an accepted value is one its schema allows |
| `airpy` providers, schemas, templates | none worth the name | text, HTTP | not modelled |
| `airlang` | tokens, IR, `Bindings`, the workflow being built | `tokenize`, `parse`, `build_workflow`, `execute_ir` | the executor builds the workflow the text says |
| `aircli` | none | `ai run`, HTML | a file is run once; an error it knows is one line |

### How they interact

`Workflow.run()` creates one `Scheduler`, subscribes a new `Journal` and `Metrics` to
a new `EventBus` and calls `Scheduler.run()` on the caller's thread.  The scheduler
writes `workflow.bindings` directly; everything else the outside learns about a run
goes through events.  A group starts one pool thread per tool; they share the event
bus (serialized by its lock), `_cumulative_cost_usd` (serialized by `_cost_lock`) and
one output dictionary per group (one key per thread).  The checkpoint store is read
once, when the run begins, and written after every successful plain step.  Tools,
agents, approval callbacks, strategies and stores are user code that is called
synchronously, so any of them may raise, block or take arbitrarily long.

A tool with a sandbox hands its function to a child process on the worker thread that
the scheduler's own timeout watches, so two clocks run over one call.  A `ModelAgent` is
an executable like a tool; its own tools are called inside its `execute()`, out of the
scheduler's sight.  Conversations live in a memory scope, which may be a file that
several sessions and restarts share.  MCP tools are plain functions that wait on the
session task of one client.  A judge is a strategy: the scheduler calls it on the main
thread of a run and then asks it about that call, and several runs may hold the same
judge.  AirLang's executor only calls the builder methods of a `Workflow`.

### What is hard here

* Threads of a group interleave at every event; the order in which they finish must
  not show in ballots, ids or statuses.
* A step can fail after it has succeeded (`usage()` raises), a group after its agreed
  value was recorded (the fallback fails), a run after its step is in the journal
  (`CheckpointError`).
* A crash may fall between a side effect and its record, or inside the rewriting of
  the checkpoint file; several runs may share that file.
* A timeout races the late answer of the call it gave up, and the next attempt.
* Limits are compared between entries only.
* A tool of an agent has run before its result is summarized and its call is logged.
* The agents of a group share a `MindGraph` and a conversation without a lock of their
  own: a look-up and the node stored for it, and a history read and written back, are
  apart in time.
* A sandboxed function may ignore SIGTERM, put a result that does not fit the pipe, or die;
  the parent joins it before it reads.
* One task of the MCP client serves every caller through one queue; `__exit__` sends its
  signal through the same queue.
* Conversations are read, changed and written whole, by turns that fail half-way.
* What a judge says of its latest call is read after the call has returned.
* AirLang's loop over a body folds statements into their neighbours and looks ahead.
* A graph makes up ids, keeps keys of nodes that are gone, and folds nodes that others
  depend on.

The full list, each at its line and with the properties that would catch it, is
`hazards` in `PROJECT.json`.

## 2. Modules

```
 RunContract   <-- refined by --  Scheduler  -- uses -->  Consensus, Journal, Metrics
                                     ^  ^
                      MCScheduler ---+  +--- DurableRun (crashes, restarts) <-- MCDurableRun
                      SchedulerProofs             | one store of records
                                     ^            +...  FileCheckpointStore (the file)
                                     |
                      DurableRunProofs (about all three)
 ToolTimeout (one call of _call_with_retries)  <-- implemented by --  Sandbox (a child process)
                                                                      SandboxProofs

 MindGraph (a data type)  <-- GraphOwner (one owner, every order of calls) <-- GraphOwnerProofs
                          <-- ToolLoop (model agents that share a graph)   <-- MCToolLoop
                                                                           <-- ToolLoopProofs
 Session (conversations in one file) <-- SessionProofs
 McpClient (the session task)        <-- SessionProofs (about both)
 StructuredOutput (data)  <-- JudgeConsensus (a shared judge) <-- MCJudgeConsensus, JudgeConsensusProofs
 Workflow (the builder)   <-- AirLang (text, IR, workflow, runs) <-- MCAirLang, AirLangProofs
```

### `Scheduler`

One `Scheduler.run()`.  `pc`, `entry`, `nextStepId`, `overall` are the locals of `run()`;
`task[s]` the locals of the `_run_tool` call with step id `s`, with a `pc` of its own:

```
 assigned -> check -> asking -> call -> running -> returned -> usage -> costing -> finishing -> done
                 \________^        \______/ retry                 \________^
 (denied, refused, raised)  -> failing -> errored -> done
```

An action ends where another thread, or user code, can observe what it did: at an
event, at a call into user code, at the cost lock.  What happens in between is local
to the thread, so that a finer split adds interleavings and no behaviour.  `emit` holds the
bus's lock while the journal and the metrics handle the event, so an action that emits
applies their handlers (the operators of `Journal` and `Metrics`) at once.  Two events
emitted back to back with nothing in between that is visible to others are one action
(`StepStarted`/`ToolCalled`, and the four events of a synthetic or replayed step, which
the main thread emits while no other thread runs).

`task` also keeps `calls`, the number of times `execute()` was called: it is history,
no action reads it.  The cost is one number per report, in whole units.  `lastCost[t]` is
what `usage()` of the executable `t` would say now: it belongs to the object, not to the
step, as in the code.  A judge, an approval callback, a tool and `usage()` are arbitrary:
they answer anything in their sets, or raise where the configuration lets them.
The runtime limit may strike before any entry (`StopForRuntime`): time is not modelled.

Left out: wording and durations, `BaseException`s that are not `Exception`s (a
`KeyboardInterrupt` leaves `run()` with the journal open, like a crash), and tools that
change their own attributes during a run.

### `Consensus`, `Journal`, `Metrics`

Pure operators.  `RankedFirst` is `Counter.most_common()[0]`, including its order among
ties (first cast); the journal's and metrics' operators take the state before an event
and return the state after it.

### `RunContract`

The abstract specification: entries are carried out one at a time and in order, none
twice, nothing begins after a failure, the result is a success exactly when every entry
was, and the run ends.  `Scheduler!ImplementsContract` reads the outcome of an entry off
the journal (the status of its group, or of the plain step that stands for it) and the
result off the main thread.

### `DurableRun`

`Scheduler` run again and again over the same store: `Crash` at any point forgets
everything but the store, `Rerun` starts a failed run again.  `effects` counts how often
the plain step of an entry was carried out, `firstOutput` remembers what it returned
when it was recorded; both are history.  `ReadBack` is what `load()` returns for a
recorded output: the identity for `InMemoryCheckpointStore`, for the file what JSON makes of it.
The configurations take the file's, as only the file outlives a process: a tuple comes back as a list.

### `ToolTimeout`

`_execute_with_timeout` inside `_call_with_retries`: the scheduler's thread, a pool of one
worker per attempt, the future's timeout, and the `with` block that joins the worker.  It
refines the step from `running` to `returned`, `call` or `failing` in `Scheduler`, where a
call simply ends in time or raises.

### `Sandbox`

`run_sandboxed` on the worker thread of each attempt, over `ToolTimeout`:

```
 idle -> join -> get -> done                 (the process has exited)
           \-> terminated -> killed -> done   (max_runtime has passed)
```

`child` is the process: `running`, then `flushing` when its function is over, then `exited`
(`ExitProcess`), unless a result larger than the pipe keeps it flushing.  `ended` is how the function
ended (a value, one too large or one that cannot be pickled, an exception, a denied address, a
crash), and `pipe` what can be read.
`Terminate` may leave a process alive that handles SIGTERM; `Kill` does not.  `work` counts
effects of the function; it and `atLimit`, the process when `max_runtime` had passed, are histories.
The parent waits for the process and not for the function: one that has returned or raised just
before is a timeout when its process has not exited, and `AnswersAreTrue` says no more.  A tool has a
sandbox or not, and the sandbox a `max_runtime` or not, so one run covers the timeout with and
without it.  `SandboxProofs` shows that every step is one of `ToolTimeout`, or none that
it can see; it begins with what `ToolTimeout` promises by itself.

### `FileCheckpointStore`

The JSON file, byte positions reduced to missing, empty, torn (some of the text) and
written; `record()` is read, truncate, write some, write the rest.  `disturbed` is
history: the runs in whose `record()` another access to the file, or a crash, has fallen.
Its proofs are the last section of `DurableRunProofs`.

### `MindGraph` and `GraphOwner`

`MindGraph` has no variables: a graph is a record of the object's four attributes, and
each method is an operator from a graph to a graph.  The made-up id `n<k>` is the number
`k`, so that an owner's own id may be one of them.  What a node carries (summary, kind,
full reference) is opaque to the graph.  `GraphOwner` calls the methods in any order.  It
lets a node carry the facts it stands for and the facts it was made to depend on; the
other variables are histories of what the owner did.  `wellNamed` is true until the owner
uses an id twice or one of the form `n<k>`: `add_node` does not look up the ids it
makes up, and then replaces the node that has one, so the properties of the passing run claim nothing
of such an owner, and the model keeps running through it; `FactsKept` is claimed of every owner, and
`GraphOwner_Ids.cfg` refutes it.  `compact_oldest` passes no `full_ref` to the node it makes, so that
of the raw data of the nodes folded, which `mindgraph.py:39` says is never lost, only what the summary
says is left: a fact stands for what a summary says.

### `ToolLoop`

`ModelAgent.execute()` of several agents, each a step of one workflow, over a shared
graph and a shared conversation:

```
 ready -> asking -> succeeded | failed                 (single shot, or the last turn)
             |  ^-> remembering -> succeeded | failed   (memory=)
             v  |
           calling -> invoking                         (a look-up that found nothing)
```

An action ends where another thread can see or change what is shared: after a look-up in
the graph, after a call with the node stored for it, after the reading of the history in
`_remember_turn`, after its writing.  A failed `execute()` is retried as the scheduler
would (`Raise`): a loop never is, though the docstring at `model_agent.py:193-197` has one that ran
out of turns "retried if the agent is idempotent".  `SummaryRaises` is a call whose tool has run and whose
result cannot be summarized, before or after its node was made: the step fails before the call is
logged.  The model is arbitrary: in each turn it answers, asks for any
calls, also of tools that are not there, for nodes by their ids, or raises.
`FoldGraph` is the graph's owner between the steps, with the documented pattern "compact
when larger than a threshold".  `runs`, `missed`, `turns` and `crossed` are histories.

Left out: `stream()` (a workflow does not call it; see `Session`), `usage()` and `last_response` (the
scheduler's side of usage is in `Scheduler`), `mindgraph_savings` and the other figures.

### `Session`

`Session.send()` of several conversations over one `FileMemoryScope`, which is a JSON file
like the checkpoint store's:

```
 idle -> loading -> asking -> answered -> setting -> (file) -> remembered -> ran -> trimming -> idle
              \________\________\__________\______________________/^            \-> cutting -> (file)
```

Every read of the file and every step of its rewriting is an action.  `_remember_turn`
reads the history again; the turn is stored before the answer is validated; a send
that failed is counted and trimmed like any other.  `Ask` and `Stream` use an agent of the same
conversation without the session, so nothing trims; a stream may be abandoned.  `Restart`
starts the process again with new `Session` objects.  `remembered` and `disturbed` are
histories.  The docstring of `max_history_turns` speaks of trimming before each `send()`; the
code trims after it, and so does the model.

### `McpClient`

The thread with the `with` block (`main`), the one `_session_task` (`task`), and the callers.
`ready` is the future of `__enter__`, `queue` is `_commands`.  The server is external: it
answers, fails a call, stays silent, or its connection breaks.  A timeout is an action
that may happen whenever what it waits for has not.  A call made after the loop has
stopped waits for ever, and so does one that is queued behind a silent server; both are
in the model and no property promises otherwise.  When `__enter__` raises there is no `__exit__`, and
when `__exit__` gives up waiting the task goes on; `SessionCloses` says that it closes the connection even so.

### `StructuredOutput` and `JudgeConsensus`

`StructuredOutput` has no variables: a text is a value and the way it stands there (bare, fenced,
in prose, among other braces), `Extracted` what `extract_json` and `json.loads` make of it,
`Valid` the shallow check against a schema, nulls included.  `JudgeConsensus` is one judge object and
several runs in their threads; a run calls it, and asks it about the call in a later step.

### `Workflow` and `AirLang`

`Workflow` is the builder as data.  `AirLang` goes from the text to the runs:

```
 text -> parsing -> parsed -> built -> running -> stopping -> returned -> (running ...)
   \________\ rejected  \ binding | unsupported     \ refused      \ raised
```

An author writes the file item by item, any item in any order, well formed or
not; the parser reads it as it is written (`Declare`, `State`, `Close`, `Reject`).  `Build`
is `build_workflow`: `Turns` has the state of the loop over the body after each turn (the next index,
the parallel block just before, the workflow so far, the exception), and `BuildNode` is one turn.
`BuiltAsWritten` says what the workflow must be without that state.  A run takes one step for each entry: `Scheduler` has
what happens inside.  `aircli` distinguishes `ai run`, which runs a file once and reports,
from a program, which may run the workflow again.

## 3. Runs

| Run | Module and bounds | What it shows |
|---|---|---|
| `scheduler` | `MCScheduler`, 14 workflows of up to four entries, groups of two and three, costs 0..2 against a limit of 2, 7 checkpoints, 122 k states | every interleaving of group threads; ballots, ties, reuse, judges and fallbacks; capabilities, approvals, retries; costs, limits and by how much they are overshot; replay; refinement of `RunContract`; termination |
| `durable_resume` | `MCDurableRun`, 2 workflows, 2 restarts, outputs JSON keeps and one it changes, 17 k states | crashes and reruns: what was recorded is not carried out again, and what it binds |
| `sandbox` | `Sandbox`, two attempts, one effect each, with and without sandbox and `max_runtime`, 52 k states | late answers, timeouts, retries, and every end of a sandboxed function |
| `file_store` | two runs, two positions, one crash each, 19 k states | what survives in the checkpoint file and what does not |
| `mindgraph` | `GraphOwner`, four nodes, one given id, one key, one link, 88 k states | folds, removals and links in any order: facts, dependencies and keys |
| `tool_loop` | `MCToolLoop`, two loops of two turns and a single shot, 355 k states | deduplication, retries, what a log may lack, the shared conversation, termination |
| `airlang` | `MCAirLang`, files of up to three of five declarations and five of eight statements, two runs, 1.9 M states | what is built from a text, and the bindings of its runs |
| `airlang_approval` | the same, with an agent that has a gated tool | **violated**: an agent's loop calls the tool without approval |
| `airlang_memory` | the same, with a memory declaration | **violated**: a run raises and leaves no journal |
| `session` | two conversations of two turns, one turn kept, one restart, 1.3 M states | which turns a memory file holds |
| `mcp` | three callers, 6 k states | answers, and the stop signal among calls |
| `judge` | `MCJudgeConsensus`, two runs of two groups, 16 responses, every mode, 64 k states | whose details are reported, and by what a group agrees and falls back |

Why the bounds are enough.  Threads of a group interact through the shared cost, the
journal and the fan-in only, all of which two threads exercise; three voters are needed
for a majority against a minority and for a three-way order.  A workflow of two entries shows
everything one entry can do to the next; the ones of three and four are there for reuse of one
group by two others and for a name bound twice.  One retry distinguishes "retried" from
"given up", two show that a count is not a flag.  Two restarts are a crash during a resumed run.
Every action of every module is taken in some passing run.

What tells tools apart is their attributes, so the configurations give
each tool the attributes of one case, and the workflows choose the cases.

In `GraphOwner`, `MaxSeq = 4` nodes are enough for a chain of two folds over a dependent, or
a fold, a removal and a re-registration; `MaxLinks = 1` adds an edge after the fact.
In `ToolLoop`, two agents race for one key and one conversation, and the third has no
tools; a response has one call (`MaxAsked = 1`) and a loop two turns, so that a look-up
can follow an answer, and two calls in one response would add no interleaving that two
turns do not have.  `Before = 1`, `Threshold = 2` and `Batch = 2` make the owner fold nodes
between two steps.

In `Sandbox`, two attempts are a call and its retry, and one effect is enough to be late.
In `Session`, with one turn kept, the second turn is the first that is trimmed; two sessions
meet in the file, and one restart falls anywhere.  In `McpClient`, one caller is served, one
waits before the `None` and one behind it.  In `MCJudgeConsensus` each response differs from a good one
in one respect: its shape, one field's value, a field that is missing.  Two groups of each run let
an earlier call's details survive.  In `MCAirLang`, five statements are a parallel block, a
consensus, its `if` with a body, and the artifact behind it; no item is written twice, which
leaves out two agents of one name and two artifacts.

### The violated claims

* `ApprovedBeforeInvoked` (`airlang_approval`): the README says that `approval_for` makes a human decide
  "before specific tools can run at all".  The gate is the scheduler's and goes by the name of an
  entry's executable; a tool in an agent's `tools` is called by `ModelAgent._invoke_tool`,
  which knows no policy.  What does hold, `OnlyAgentsBypassApproval`, is proved.
* `RunsAreJournaled` (`airlang_memory`): `memory session` in a file makes the executor pass one
  scope, `getattr(Memory(), "session")`, where `Workflow` expects a `Memory`.  Every run of
  such a workflow carries out its entries and then raises `AttributeError` in
  `finally: self.memory.temporary.clear()`, before `journal` and `metrics` are assigned.
  `ai run` does not know this exception.

### Further disagreements

They have a configuration of their own, for which TLC finds the counterexample, and are
not among the runs of `PROJECT.json`:

| Command | Claim and what the code does |
|---|---|
| `tlc -config ToolTimeout_Hung.cfg ToolTimeout` | `ToolTimeout`'s docstring promises that the scheduler stops waiting for a non-cooperative call (`executable.py:41-45`).  Leaving the `with ThreadPoolExecutor` block joins the worker, so `ToolTimeout` is raised only after the call has returned.  What the code does guarantee is `NoOverlap` and `DecidedByLastAttempt`. |
| `tlc -config MCDurableRun_Json.cfg MCDurableRun` | "A binding must resolve the same way on a resumed run as it did the first time" (`scheduler.py:129`): `record()` accepts what `json.dumps` accepts, a tuple included, and `load()` returns a list (`ReplayBindsSame`).  What does hold, `ReplayBindsRecorded`, is checked by `durable_resume` and proved: the value is what JSON makes of the recorded execution's output, and of no other. |
| `tlc -config FileStore_Torn.cfg FileCheckpointStore` | "survives a process crash and restart" (`checkpoint.py:154`): `record()` empties the only copy of the file before it writes the new one. |
| `tlc -config FileStore_Shared.cfg FileCheckpointStore` | "a single FileCheckpointStore can be reused across every workflow" (`checkpoint.py:161`): runs that share a file lose each other's records. |
| `tlc -config MCToolLoop_Shared.cfg MCToolLoop` | "the exact same capability checks as a normal workflow step" (`README.md:567`): with `dedup_tool_calls` over a shared graph the look-up comes before the checks, and a refusal is stored under the same key as a value (`OwnVerdict`). |
| `tlc -config MCToolLoop_Log.cfg MCToolLoop` | `tool_call_log` is "the only place to see them after the fact" (`model_agent.py:203`): `_mindgraph_tool_message` stands between the call and its log entry and may raise, in a summarizer of the caller's, in `default_summarize` (a dict whose keys are no strings), or in `estimate_tokens` when the node is already there (`EveryInvocationLogged`).  What does hold, `InvocationsAccounted`, is checked by `tool_loop` and proved: only the last invocation of a step that so failed may be missing. |
| `tlc -config MCToolLoop_Retry.cfg MCToolLoop` | Retrying a single shot "is safe because a single-shot generation call has no side effects to replay" (`model_agent.py:113`): with a memory and an `output_schema`, `_remember_turn` comes before the check of the answer, so each try leaves a turn (`SingleShotsReplayNothing`). |
| `tlc -config GraphOwner_Ids.cfg GraphOwner` | "node id ... already exists" (`mindgraph.py:160`) and "No raw data is ever lost by summarizing it" (39): `add_node` refuses an id that is there when the owner gives it, and looks up none it makes up; after `node_id="n2"`, the second made-up id replaces that node (`FactsKept`). |
| `tlc -config McpClient_Teardown.cfg McpClient` | "Use as a context manager so the subprocess and session are cleanly torn down" (`mcp_tools.py:147`): Python calls no `__exit__` when `__enter__` raises, as it does when the server is slower than `connect_timeout`; the thread and its loop run on, and the task may connect later.  An `__exit__` that gives up after ten seconds leaves them too (`TornDown`). |
| `tlc -config MCJudgeConsensus_Confidence.cfg MCJudgeConsensus` | Structured mode makes the confidence "a real float" (`judge_consensus.py:48`): the check of a schema lets a null pass for any field, so a consensus may come with the confidence `None`, which no fallback threshold catches (`ConfidenceIsReal`). |

One more was met without a configuration: `scheduler.py:525` says that `ConsensusGroup` rejects a
fallback on a strategy that cannot report its field; its constructor does not.

A related limit is not a violation of the code's own words in every place, and is stated
positively: a crash between a step's success and its record repeats the step on resume; once
recorded, it is never carried out again (`RecordedStepsRunOnce`).  So a plain step is carried out
at most once per (re)start (`EffectsBounded`, a theorem).

### Fairness

* `Scheduler`: weak fairness of the whole step relation.  Some thread that can run does
  run (an operating system schedules threads; Python's lock queues are not needed for
  this), and user code that is called returns.  It is enough since every behaviour is
  finite: retries are bounded and the entries are walked once.
* `DurableRun`: none; each of its runs is one of `Scheduler`, whose end is shown there.
* `Sandbox`: the scheduler's thread and its clock, the worker thread, a sandbox's `max_runtime`,
  and every plain call that does not hang; a function in a process owes nothing.
  `ToolTimeout` alone, with four attempts in `ToolTimeout.cfg`, has the same without the sandbox.
* `FileCheckpointStore`: every run; crashes are not fair.
* `ToolLoop`: each agent's step (threads are scheduled, providers and tools return); the
  owner of the graph is not fair.
* `McpClient`: the event loop's thread; a server that is not silent ends the call it serves.
  `__exit__`, its timeouts and the callers are not fair.
* `GraphOwner`, `Session`, `JudgeConsensus` and `AirLang` have no liveness property and assume
  none.

## 4. Proofs

TLAPS checks, for every value of the constants that the named assumptions allow:

* `SchedulerProofs`: about the strategies on every ballot, `RankedFirstLeads`,
  `MajorityIsStrict`, `UnanimousIsShared`; about the scheduler, for every workflow
  `WellFormed` allows, any number of threads, any policy and any behaviour of the tools,
  `TypeCorrect`, `CallsAreGated`, `AttemptsAreAccounted`, `ThreadsAreJoined`
  (from the invariant `IInv`), `GroupsAreHonest`, `ResultIsHonest`, `RecordsAreFinal` (with
  `Books`), `BallotsAreInToolOrder`, `AgreedValuesWin` (with `Polls`).
* `DurableRunProofs`, about whole runs: `ContractIsKept`: a run's steps are steps of `RunContract`
  (with `Course`), `NamesResolve` (with `Named`), `LimitExceededByOneEntry` (with `Charges`),
  `MetricsAreTotals` (with `Tallied`) and, for a finite set of tools, `UsageIsAccounted`
  (with `Accounts`); about `DurableRun`, for any number of crashes and restarts,
  `CrashesAreSurvived` (all of one run's first three invariants hold in each),
  `RecordedStepsAreNotRepeated`, `EffectsAreBounded`, `ReplayIsFaithful`; about the file of
  `FileCheckpointStore`, for any number of runs, positions and crashes, `StoreTypeCorrect`,
  `OnlyTrueRecords`, `RecordsAreKept`, `RecordedNotRepeated`.
* `GraphOwnerProofs`: types, `FactsAreKept`, `DependenciesAreShown`, `KeysAreTrue`, for any ids
  and keys of the owner's and any number of nodes.
* `SandboxProofs`: the types, `CallsNeverOverlap` and `DecisionIsTimely` of the timeout protocol
  for any number of retries; `ImplementsTimeout` (the safety part of the refinement of `ToolTimeout`),
  `SandboxedCallsNeverOverlap`, `SandboxedDecisionIsTimely`, `AnswersTellTheTruth`,
  `NothingRunsOn`, for any number of attempts and any amount of work.
* `JudgeConsensusProofs`: `JudgmentsAreTheirOwn`, `AgreedValuesAreSaid`, for any number of runs
  and groups, and any responses.
* `SessionProofs`: types, `TurnsAreWhole`, `HistoriesAreKept`, for any number of conversations,
  turns and restarts and any length of a history; and of the MCP client, which it instantiates,
  `CallsAreNotCutOff`, `SignalIsNotLost`, for any number of callers.
* `AirLangProofs`: `EveryFileIsBuiltAsWritten`, `BindingsStayCurrent`, `ApprovalBypassedByAgentsOnly`,
  for any items an author may write, any hosts, and bodies, entries and runs of any number.
* `ToolLoopProofs`: types, `AgainOnlyIfRacing`, `InvocationsAreAccounted`, `RememberedTurnsAreKept`,
  for any number of agents, calls, retries and turns, whatever the owner does to the graph.

The scheduler's inductive invariant is

```
 IInv == TypeOK /\ TasksOK /\ MainOK /\ NoOrphanThread
```

`TypeOK` is not inductive alone: an action updates `journal.steps[s]`, which must exist.
`TasksOK` ties each thread's position to its locals and to its own record in the journal
(past the gate it is able and approved; its call count is its attempt or one more; its
record exists once it has started, and shows its retries).  `MainOK` says what the main
thread may rely on at each position: the group it closes is in the journal, the step it
waits for was assigned, the ballot has an output for every tool.  `NoOrphanThread` closes
the circle: between two entries no thread runs.

The argument has two halves.  A step of a thread touches its own locals, its own record
and the counters; the lemma `ThreadStepKeeps` shows once that this leaves every other
thread's facts and the main thread's untouched, and each of the 17 actions supplies the
little that changes (`OnlyStep`, for the journal).  A step of the main thread either leaves all
threads alone while none runs (`SettlesKeeps`) or adds threads that have not begun, with
ids not used before (`AssignedTasks`).  The facts about the journal's and the
metrics' operators are proved once, as lemmas on records.

Seven more invariants of the scheduler stand on `IInv`, two in `SchedulerProofs` and five in
`DurableRunProofs`, most with one lemma for what steps of the threads leave alone and one for
steps of the main thread.

`Books` relates the journal to the threads.  The property about groups is not inductive: it reads
the ids that a group lists, and a handler appends to the list and writes the record in two
places.  `Grouped` says that the list of each group is exactly the steps whose records name it,
so a handler is described by the one record it writes or adds (`Edits`, `Adds`).  `ThreadsBooked`
ties a thread's outcome to the status of its record; `OpenBooked` says that while a group
is open its steps are threads of the entry, so fan-in sees all of them; `ResultBooked` says
that while no entry has failed every record is a success or is `Pending`, a step the
main thread waits for.  That step ids are used once, by three kinds of steps, is
`RecordsStay`, from which `FinishedRecordsStay` follows.

`Polls` says who was polled.  `Seated` fixes the ids of a running group's members as the latest
ones, in tool order; `Polled` relates members, outputs and a ballot by the first of these ids, for
the groups passed (`GroupsPolled`, which a reuse group needs) and for the group being
reduced (`BallotPolled`).  `VerdictsBooked` keeps, for each record that is no
thread's, that it is a replay or the strategy's answer to such a ballot: the votes are those of
threads that have returned, so no later step changes them (`PolledStays`).  `AgreedValueWins`
then follows from `MajorityIsStrict` and `UnanimousIsShared`, as the members with an output
and the votes for it are in bijection (`VotesCounted`).

`Course` says what the entries behind the main thread have left: as many successful plain steps as
there are plain entries (`PastSteps`, told by their rank), and each group's record, closed with
success.  With it `OutcomeStep`, a CHOOSE over step ids, can be computed (`OutcomeSteps`), and the
outcome of an entry told without ids (`Stage`): success before the entry under way, to be
done after it.  A step of a run then moves the outcome of that one entry, or the result, or
nothing (`NextKeepsContract`), which is all that `RunContract` allows.

`Named` is `BindingsResolve` with a relation in the place of the CHOOSE: the value of a name is the
output of a step that stands for the last entry passed that binds it (`StandsFor`, `Bound`).  A
plain entry has one such step as ranks differ, a group as only its strategy's record is no thread's
(`OneVerdict`).

`Accounts` balances five figures.  `UsageAccounted` compares sums over sets, recursive functions
in the library, and what such a function computes is usually shown by induction.  Instead, a
set of least size at which a claim about sums fails cannot exist (`SmallestSet`): so the sum
does not depend on the order in which elements are chosen (`SumFacts`), exists (`SumExists`), and
changes by what one element changes (`OneMore`, `OneChanged`).  Two actions of a thread change a
figure, `ReportUsage` and `AddCost`; for all others, `SpendsNothing` and `SameUse` say that
each figure stays.  `Unreported` is what makes a report an addition: a thread reports once.

`Charges` is what `max_cost` rests on: the cost is the sum of the reports that were added
(`Charged`), a thread that has not come to `usage()` has none, and for each entry begun
(`Begun`) the reports of the earlier entries are within the limit.  The limit is compared when no
thread runs, and then all reports of earlier entries are in the cost; afterwards no thread of an
earlier entry reports, as only the entry under way has threads that have not returned.

`Tallied` is `MetricsMatchJournal` with each counter apart.  Two subscribers of the bus handle each
event, with code of their own, and the theorem says that they agree.  Each step of a run
writes one record of the journal at most (`OneRecord`): a new one or one not yet ended
(`Reaches`), and the metrics count what became of it (`CountsAs`).  That no ended record is
written again is where `Books` is needed; a sum of retries changes by one element's
(`OneChanged`, `OneMore`).

Across crashes, every run begins as the first (`Fresh` is `Init` but for the store), so `IInv`,
`Books` and `Polls` hold in each.  `Ledger` counts what each carries out: a plain step has one
thread a run, so its effects are at most one a run, and in the first exactly what its thread says.
`Resumed` says that a run has loaded all that the earlier ones recorded, and records only
entries it has passed and not loaded; so nothing that is in the store is carried out again.
`Stored` and `Rebound` add, when the store was empty at first, that a record is the entry's first
output as JSON gives it back, and that a resumed run binds it.

For the file, `TrueRecords` (what is read or about to be written was recorded) holds
whatever the runs do; `KeptRecords` (the one writer has read everything) holds until a
`record()` is disturbed.

For the graph, the properties are not inductive alone either.  `Earlier` says that every
number in use is smaller than the next, so that a new fact is a new one.  `NamesKept`
says that every id in use, and every id that the index still names, is either one the graph made up
before or one the owner did: so a made-up id is neither in the graph nor in
the index, and an old key cannot come to life with another's node.  `KeysKept` is
`KeyFindsItsNode` said of the index, and `NeedsMet` is `DependenciesShown` said of the edges: what a
node needs is forgotten or in a node that one of its own edges leads to, which a fold has to redirect.
`Neighborhood` is a recursive function, read at one hop only (`OneHop`).  A fold is first shown to be one explicit record
(`FoldIInv`, step 4), from which the effect on facts and keys is read off.

A sandbox adds facts to those of the timeout protocol, which its own steps keep because they
are that protocol's steps (`SandboxImplements`).  `Fits` says for each attempt that the parent
belongs to a running call, that the pipe holds what the function's end has put there, and that
an answer agrees with both; a step of one attempt leaves the others alone (`OneAttempt`).

The MCP client's invariant is about the queue: a call made inside the `with` block that has no
answer is being served, or stands in the queue before any `None` (`InOrder`), unless the
connection is gone; and a `None` is there, or was taken, only after `__exit__`
(`StopFollowsExit`).  So when the task closes, no such call is left.  `SignalNotLost` is the other
direction, from which, with fairness, `SessionCloses` follows: `Take` is the only step that removes it.

For the judge, `OwnWhileDescribed` and `OwnOnceRead` follow one call from its judgment to what the
run has read; a step of another run either leaves the metadata alone or marks the runs
it disturbs.  `Verdicts` follows the value: it is set only from a response that agrees, and
stays with that response until the next call.  That a confidence found low is a low number, and not
another value that looks like it, is where the wrapper schema is needed (`FieldsTyped`).

For AirLang the difficulty is the loop: `Turns` is a recursive function, and what it computes for
a body of any length is usually shown by induction.  A least number takes its place twice
(`LeastNumber`): there is no least length for which the loop would not exist (`TurnsIs`), and no
least turn after which its state would be wrong.  Right is `Faithful`: so far every
statement that runs something has its entry, an `if` behind a consensus has been folded into it and
is passed over, and a parallel block is pending only directly before what may reduce it.  `AirInv`
carries the parser's blocks (`FileInv`) and what was built through the runs (`RunInv`);
`BindingsSound` follows each name to the last entry done that gives it a value.

For a conversation, `Sound` says of every place where a history can be (the file, a thread's copy,
what is to be written) that it is whole turns, ending at or before the turn under way: any
of them may be written over any other.  `SafeUnlessDisturbed` adds, until a `set()` is
disturbed, that the one writer's copy holds what the file holds of all other conversations.

For the model agents, an invocation's number links four places: `runs`, the outcomes in logs, the
nodes of the graph, and what each agent had missed when it looked a call up (`IInv`).
An agent that has missed a call not yet invoked keeps it missed; one invoked before is
missed only without a node.  `OneRemembers` is the memory: one agent at a
time is in `_remember_turn`, and its copy is the history, until two `crossed`.

Assumptions: `NamesAssumption`, `BoundAssumption`, `ToolAssumption`, `PolicyAssumption`,
`WorkflowAssumption`, `CheckpointAssumption`, `NothingAssumption` (types of the constants; `None`
is none of the other values: the proofs showed that it must differ from every error and status
too), `RestartAssumption`, `ResponsesAssumption` (a null is only null, and scalars have no
fields), `RetriesAssumption`, `TimeoutAssumption`, `FileAssumption`, `SandboxAssumption`,
`StopAssumption`, `MaxCallsAssumption`, `HostsAssumption`, `BoundsAssumption`,
`MaxHistoryAssumption`, `AgentsAssumption`, `OwnerAssumption`.  TLC evaluates them in every run.
Four theorems have hypotheses of their own.  `AgreedValuesWin`: no tool bears
the name of the synthetic step, `"consensus"`, as the journal could not tell their records apart.
`UsageIsAccounted`: there are finitely many tools.  `EffectsAreBounded` and `ReplayIsFaithful`:
the store holds nothing for this `run_id` at first (`Checkpoints = {<< >>}`), as what an unknown
writer left there says nothing of this workflow.  Nothing is assumed of what JSON makes of an output.

Only model-checked:

* liveness (`RunEnds`, `ForcedEnd`, `AllRecorded`, `StepEnds`, `CallsAnswered`, `SessionCloses`) and the
  fairness that is part of `ImplementsContract`;
* the data types under the components, on the values of the configurations: what a strategy or a graph
  operation computes is proved only as far as the theorems above need it.

Every safety invariant that a passing run checks is stated by a theorem.

## 5. Plan

In order of importance; each with its own instance.

1. *done* `Scheduler` with `Consensus`, `Journal`, `Metrics`, `RunContract`; `DurableRun`;
   `ToolTimeout`; `FileCheckpointStore`; their first theorems.
2. *done* `MindGraph` and `GraphOwner` with the proofs of `NothingLost` and `KeyFindsItsNode`;
   `ToolLoop` over it.
3. *done* `Sandbox` over `ToolTimeout`, with the proof that it implements it.
4. *done* `Workflow` and `AirLang`; `Session` over the file memory; `McpClient`;
   `StructuredOutput` and `JudgeConsensus`; the theorems about the sandbox, the client and the judge.
5. The rest of the builder: agents of steps with `require_agent`, `consensus()` with tools of its own,
   `checkpoint_store` with `run_id`, refining `EntryType` and `WellFormed`.
6. *done* Proofs about the journal, consensus, the judge's values, conversations and model agents.
7. *done* Proofs of `RecordedStepsRunOnce` and `ReplayBindsRecorded` for any number of restarts, of
   `BindingsResolve`, `DependenciesShown`, `UsageAccounted`, and of the safety part of
   `ImplementsContract`.
8. *done* Proofs: `BuiltAsWritten` and `BindingsAreCurrent` of `AirLang`, for files of any length;
   `OnlyAgentsBypassApproval`, which is what is true of the violated `ApprovedBeforeInvoked`;
   `OvershootOneEntry` and the sums of `MetricsMatchJournal`.

The runs answer one question each and are kept few: a new module takes the place of
a run whose question a broader one answers too (`sandbox` has the properties of the
timeout protocol, `scheduler` those of groups and of policies).  Every module
keeps its `TypeOK`, and some keep further properties (`MetricsMatchJournal`, `EffectsBounded`,
`OnlyAgentsBypassApproval`, `PassedStepsRecorded`, `SignalNotLost`, `NoneRepeated`,
`AnswersBelongToCalls`): they hold on the configurations of the runs, and are left out of them where
a deeper property of the same run is about the same hazard.  All but
`PassedStepsRecorded` and `AnswersBelongToCalls` are theorems.

## 6. Not modelled

* Providers and network adapters, function schemas, template formatting, the HTML trace and
  the subcommands of `aircli` other than `ai run` of an AirLang file: text in, text out, with no
  state to get wrong across steps.  `ExecutionGraph` is a read-only projection of the journal.
* In AirLang, characters: `Tokenize` accepts or raises.  Arithmetic on durations and the
  cutting of fractions is modelled, the spelling of numbers is not.
* A `PromptTemplate` whose fields are not plain identifiers, and what a template looks like.
* In structured output, nested schemas, which the code does not check either.
* A child process that something outside kills while it flushes a large result, resource
  limits of the platform, and how an address is matched with the allowlist.
* Listeners of the event bus other than the journal and the metrics: nothing in the repository
  adds one, and one that emits would deadlock on the bus's lock (`events.py:200`).
* `usage()` of an agent reports its last response only, so the earlier turns of a loop
  never reach `max_cost`; the model begins at what `usage()` returns.
