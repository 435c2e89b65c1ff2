------------------------------- MODULE ToolLoop -------------------------------
(***************************************************************************)
(* airpy.ModelAgent.execute() as the steps of a workflow run it: single    *)
(* shots and tool-calling loops, one thread per step of a group, over one  *)
(* shared MindGraph and one shared conversation (a MemoryScope and a       *)
(* conversation_id).                                                       *)
(*                                                                         *)
(* A call of the model's is a tool with its arguments, or expand_node with *)
(* a node's id.  An outcome is what tool_call_log says of a call; the      *)
(* outcome of an invocation has the number of that invocation in `runs`.   *)
(* Atomic are: the look-up of a key, the call of a tool with the node made *)
(* for it, the response with the reading of the history, and the writing   *)
(* of the history.  Between any two of them other threads run.             *)
(***************************************************************************)
EXTENDS MindGraph, Sequences

CONSTANTS
  Agents,         \* model agents, each of them one step of the workflow
  Calls,          \* (tool, arguments) pairs
  Offers,         \* [Agents -> SUBSET Calls]: calls of the agent's tools=
  Permitted,      \* [Agents -> SUBSET Calls]: calls that its identity= allows
  Unreliable,     \* calls that may raise
  Unsummarizable, \* calls whose summary may raise: a summarizer of the caller's
                  \* or default_summarize, or estimate_tokens of what is no text
  UseGraph,       \* agents with use_mindgraph=True
  Dedup,          \* agents with dedup_tool_calls=True
  Remembering,    \* agents with memory=
  Validating,     \* agents with output_schema=
  MaxTurns,       \* [Agents -> Nat \ {0}]: max_turns
  Retries,        \* [Agents -> Nat]: retries of an idempotent agent, else 0
  Before,         \* nodes of the owner's own that the graph has at first
  Threshold,      \* the owner folds the graph when it is larger than this,
  Batch,          \* this many nodes at a time
  MaxAsked        \* bound: calls in one response

ASSUME AgentsAssumption ==
  /\ Offers \in [Agents -> SUBSET Calls] /\ Permitted \in [Agents -> SUBSET Calls]
  /\ Unreliable \subseteq Calls /\ Unsummarizable \subseteq Calls
  /\ \A S \in {UseGraph, Dedup, Remembering, Validating} : S \subseteq Agents
  /\ MaxTurns \in [Agents -> Nat \ {0}] /\ Retries \in [Agents -> Nat]
ASSUME OwnerAssumption == Before \in Nat /\ Threshold \in Nat /\ Batch \in Nat \ {0, 1} /\ MaxAsked \in Nat \ {0}
ASSUME NothingAssumption == Nothing \notin Calls \cup Agents \cup Nat

VARIABLES
  graph,          \* the shared MindGraph
  history,        \* the turns under conversation_id in the shared memory
  pc,             \* [Agents -> ...]: where the agent's step is
  tries,          \* [Agents -> Nat]: retries that the scheduler made of the step
  turn,           \* [Agents -> Nat]: `_turn`
  attempt,        \* [Agents -> Nat]: `attempt` of _generate_with_retry
  todo,           \* [Agents -> Seq]: tool_calls of the response still to be made
  log,            \* [Agents -> Seq]: tool_call_log, with the node named to the model
  loaded,         \* [Agents -> Seq]: the history as the agent read it last
  runs,           \* invocations of tools, in order (history variable)
  missed,         \* [Agents -> ...]: invocations in the graph at the look-up (history)
  turns,          \* the turns remembered, in order (history variable)
  crossed         \* whether two agents were remembering at once (history variable)

local == <<tries, turn, attempt, todo, log, loaded, missed>>
vars == <<graph, history, pc, local, runs, turns, crossed>>

(* What the model can ask for, and what it may be answered.                *)
Call(c) == [call |-> c, node |-> Nothing]
Expand(id) == [call |-> "expand_node", node |-> id]
IsExpand(request) == request.call = "expand_node"

Invoked(kind, run) == [kind |-> kind, run |-> run]
Refused(kind) == [kind |-> kind, run |-> 0]

(* An entry of tool_call_log, with the node that the message names: an     *)
(* error is told as it is (_node_reference_text).                          *)
Entry(c, id, outcome) ==
  [call |-> c, node |-> IF outcome.kind = "value" THEN id ELSE Nothing, outcome |-> outcome]

HasTools(a) == Offers[a] # {}
Deduping == UseGraph \cap Dedup

(* The ids that the messages of this execute() name.                       *)
Told(a) == {log[a][i].node : i \in DOMAIN log[a]} \ {Nothing}

(* What add_node makes of an empty graph when the owner calls it so often. *)
FirstGraph ==
  [nodes |-> [n \in 1 .. Before |->
                [seq |-> n, edges |-> {}, carried |-> [call |-> Nothing, outcome |-> Refused("fact")]]],
   seq |-> Before + 1, auto |-> Before + 1, dedup |-> << >>]

Init ==
  /\ graph = FirstGraph /\ history = << >>
  /\ pc = [a \in Agents |-> "ready"]
  /\ tries = [a \in Agents |-> 0] /\ turn = [a \in Agents |-> 0]
  /\ attempt = [a \in Agents |-> 0]
  /\ todo = [a \in Agents |-> << >>] /\ log = [a \in Agents |-> << >>]
  /\ loaded = [a \in Agents |-> << >>] /\ missed = [a \in Agents |-> {}]
  /\ runs = << >> /\ turns = << >> /\ crossed = FALSE

-----------------------------------------------------------------------------
(* How an execute() ends, as the scheduler sees it.                        *)

(* A bug the checks must notice: the scheduler retries a whole loop.       *)
RetriesOfAny(a) == Retries[a]

(* self.retries: a loop is forced to be non-idempotent.                    *)
StepRetries(a) == IF HasTools(a) THEN 0 ELSE Retries[a]

(* A bug the checks must notice: the scheduler never runs out of retries.  *)
SameTry(a) == tries[a]

NextTry(a) == tries[a] + 1

(* execute() raises, and the scheduler retries the step or gives it up.    *)
Raise(a) ==
  IF tries[a] < StepRetries(a)
  THEN pc' = [pc EXCEPT ![a] = "ready"] /\ tries' = [tries EXCEPT ![a] = NextTry(a)]
  ELSE pc' = [pc EXCEPT ![a] = "failed"] /\ UNCHANGED tries

(* _finalize_output: an answer is checked against the schema, if any.      *)
FinalizeOutput(a) ==
  \/ pc' = [pc EXCEPT ![a] = "succeeded"] /\ UNCHANGED tries
  \/ a \in Validating /\ Raise(a)

(* execute() begins: the history for the prompt is read, the logs are new. *)
Execute(a) ==
  /\ pc[a] = "ready"
  /\ pc' = [pc EXCEPT ![a] = "asking"]
  /\ turn' = [turn EXCEPT ![a] = 0] /\ attempt' = [attempt EXCEPT ![a] = 0]
  /\ log' = [log EXCEPT ![a] = << >>]
  /\ loaded' = [loaded EXCEPT ![a] = IF a \in Remembering THEN history ELSE << >>]
  /\ UNCHANGED <<graph, history, tries, todo, runs, missed, turns, crossed>>

-----------------------------------------------------------------------------
(* The provider's response.                                                *)

(* A bug the checks must notice: the answer is added to the history that   *)
(* was loaded for the prompt.                                              *)
ReadForPrompt(a) == loaded[a]

(* _load_history in _remember_turn                                         *)
LoadHistory(a) == history

(* An answer; an agent with a memory first reads the history again.        *)
GenerateAnswer(a) ==
  /\ pc[a] = "asking"
  /\ IF a \in Remembering
     THEN /\ pc' = [pc EXCEPT ![a] = "remembering"]
          /\ loaded' = [loaded EXCEPT ![a] = LoadHistory(a)]
          /\ crossed' = (crossed \/ \E b \in Agents : pc[b] = "remembering")
          /\ UNCHANGED tries
     ELSE FinalizeOutput(a) /\ UNCHANGED <<loaded, crossed>>
  /\ UNCHANGED <<graph, history, turn, attempt, todo, log, runs, missed, turns>>

(* The rest of _remember_turn; only then is the answer checked.            *)
RememberTurn(a) ==
  /\ pc[a] = "remembering"
  /\ LET said == [agent |-> a, try |-> tries[a]] IN
     /\ history' = Append(loaded[a], said)
     /\ turns' = Append(turns, said)
  /\ FinalizeOutput(a)
  /\ UNCHANGED <<graph, turn, attempt, todo, log, loaded, runs, missed, crossed>>

(* A response with tool calls; an id to expand comes from the messages, or *)
(* is one that no graph has.                                               *)
GenerateCalls(a) ==
  /\ pc[a] = "asking" /\ HasTools(a)
  /\ \E size \in 1 .. MaxAsked :
       \E requests \in [1 .. size -> {Call(c) : c \in Calls}
                          \cup (IF a \in UseGraph THEN {Expand(id) : id \in Told(a) \cup {0}} ELSE {})] :
         todo' = [todo EXCEPT ![a] = requests]
  /\ pc' = [pc EXCEPT ![a] = "calling"]
  /\ attempt' = [attempt EXCEPT ![a] = 0]
  /\ UNCHANGED <<graph, history, tries, turn, log, loaded, runs, missed, turns, crossed>>

(* provider.generate raises; only a loop retries the call itself.          *)
GenerateRaises(a) ==
  /\ pc[a] = "asking"
  /\ IF HasTools(a) /\ attempt[a] < Retries[a]
     THEN attempt' = [attempt EXCEPT ![a] = @ + 1] /\ UNCHANGED <<pc, tries>>
     ELSE Raise(a) /\ UNCHANGED attempt
  /\ UNCHANGED <<graph, history, turn, todo, log, loaded, runs, missed, turns, crossed>>

-----------------------------------------------------------------------------
(* The tool calls of a response, one after the other.                      *)

Current(a) == Head(todo[a])

NextTurn(a) == turn[a] + 1

(* The call is logged and answered; after the last one the next turn       *)
(* begins, or ModelAgentToolLoopExceeded is raised.                        *)
Answer(a, entry) ==
  /\ log' = [log EXCEPT ![a] = Append(@, entry)]
  /\ todo' = [todo EXCEPT ![a] = Tail(@)]
  /\ \/ /\ Len(todo[a]) > 1
        /\ pc' = [pc EXCEPT ![a] = "calling"] /\ UNCHANGED <<tries, turn>>
     \/ /\ Len(todo[a]) = 1 /\ NextTurn(a) < MaxTurns[a]
        /\ pc' = [pc EXCEPT ![a] = "asking"] /\ turn' = [turn EXCEPT ![a] = NextTurn(a)]
        /\ UNCHANGED tries
     \/ /\ Len(todo[a]) = 1 /\ NextTurn(a) >= MaxTurns[a]
        /\ Raise(a) /\ UNCHANGED turn

(* A bug the checks must notice: every agent has keys of its own.          *)
KeyOfAgent(a, c) == <<a, c>>

(* _tool_call_dedup_key: the agent is no part of the key.                  *)
DedupKey(a, c) == c

CachedNode(a) == Found(graph, DedupKey(a, Current(a).call))

LooksUp(a) ==
  pc[a] = "calling" /\ a \in Deduping /\ ~IsExpand(Current(a))

(* A node answers for an earlier call with the same key.                   *)
ReuseNode(a) ==
  /\ LooksUp(a) /\ CachedNode(a) # Nothing
  /\ Answer(a, Entry(Current(a).call, CachedNode(a), graph.nodes[CachedNode(a)].carried.outcome))
  /\ UNCHANGED <<graph, history, attempt, loaded, runs, missed, turns, crossed>>

(* No node does: the tool will be called, whatever other threads add.      *)
MissNode(a) ==
  /\ LooksUp(a) /\ CachedNode(a) = Nothing
  /\ pc' = [pc EXCEPT ![a] = "invoking"]
  /\ missed' = [missed EXCEPT ![a] =
                  {graph.nodes[id].carried.outcome.run : id \in Ids(graph)} \ {0}]
  /\ UNCHANGED <<graph, history, tries, turn, attempt, todo, log, loaded, runs, turns, crossed>>

(* _invoke_tool: what the call comes to, and whether the tool is run.      *)
Verdicts(a, c) ==
  IF c \notin Offers[a] THEN {Refused("unknown")}
  ELSE IF c \notin Permitted[a] THEN {Refused("denied")}
  ELSE {Invoked(kind, Len(runs) + 1) : kind \in {"value"} \cup (IF c \in Unreliable THEN {"raised"} ELSE {})}

Runs(a, outcome) ==
  IF outcome.run = 0 THEN runs
  ELSE Append(runs, [call |-> Current(a).call, by |-> a, missed |-> missed[a]])

(* The node that a call of an agent with a graph becomes.                  *)
WithNode(a, outcome) ==
  AddNode(graph, Nothing, {}, IF a \in Dedup THEN DedupKey(a, Current(a).call) ELSE Nothing,
          [call |-> Current(a).call, outcome |-> outcome])

MayInvoke(a) ==
  \/ pc[a] = "invoking"
  \/ pc[a] = "calling" /\ ~IsExpand(Current(a)) /\ a \notin Deduping

(* _invoke_tool, then _mindgraph_tool_message for an agent with a graph: a *)
(* refusal or an error becomes a node like any value.                      *)
InvokeTool(a) ==
  /\ MayInvoke(a)
  /\ \E outcome \in Verdicts(a, Current(a).call) :
       /\ runs' = Runs(a, outcome)
       /\ IF a \in UseGraph
          THEN /\ graph' = WithNode(a, outcome)
               /\ Answer(a, Entry(Current(a).call, MadeUpId(graph), outcome))
          ELSE Answer(a, Entry(Current(a).call, Nothing, outcome)) /\ UNCHANGED graph
  /\ missed' = [missed EXCEPT ![a] = {}]
  /\ UNCHANGED <<history, attempt, loaded, turns, crossed>>

(* The same, but _mindgraph_tool_message raises: the summarizer before the *)
(* node is made, or estimate_tokens after it.  The tool has run, and       *)
(* execute() is left before the call is logged.                            *)
SummaryRaises(a) ==
  /\ MayInvoke(a) /\ a \in UseGraph /\ Current(a).call \in Unsummarizable
  /\ \E outcome \in Verdicts(a, Current(a).call) :
       /\ outcome.kind = "value"
       /\ runs' = Runs(a, outcome)
       /\ graph' \in {graph, WithNode(a, outcome)}
  /\ Raise(a)
  /\ todo' = [todo EXCEPT ![a] = << >>]
  /\ missed' = [missed EXCEPT ![a] = {}]
  /\ UNCHANGED <<history, turn, attempt, log, loaded, turns, crossed>>

(* expand_node, itself a tool of the loop: the node's full_ref.            *)
ExpandNode(a) ==
  /\ pc[a] = "calling" /\ IsExpand(Current(a))
  /\ LET id == Current(a).node IN
     Answer(a, Entry("expand_node", id, IF id \in Ids(graph) THEN graph.nodes[id].carried.outcome
                                        ELSE Refused("missing")))
  /\ UNCHANGED <<graph, history, attempt, loaded, runs, missed, turns, crossed>>

-----------------------------------------------------------------------------
Ended(a) == pc[a] \in {"succeeded", "failed"}

(* The owner of the graph folds it while no agent is using it.             *)
FoldGraph ==
  /\ \A a \in Agents : pc[a] = "ready" \/ Ended(a)
  /\ Size(graph) > Threshold /\ Compacts(graph, Batch)
  /\ graph' = Collapse(graph, Oldest(graph, Batch), [call |-> Nothing, outcome |-> Refused("fact")])
  /\ UNCHANGED <<history, pc, local, runs, turns, crossed>>

Step(a) ==
  \/ Execute(a) \/ GenerateAnswer(a) \/ RememberTurn(a) \/ GenerateCalls(a) \/ GenerateRaises(a)
  \/ ReuseNode(a) \/ MissNode(a) \/ InvokeTool(a) \/ SummaryRaises(a) \/ ExpandNode(a)

Next == FoldGraph \/ \E a \in Agents : Step(a)

(* The threads are fair, providers and tools return.                       *)
Spec == Init /\ [][Next]_vars /\ \A a \in Agents : WF_vars(Step(a))

-----------------------------------------------------------------------------
Kinds == {"value", "raised", "unknown", "denied", "missing", "fact"}

(* The agents' states have the right types; exactly the outcomes of an     *)
(* invocation have its number.                                             *)
TypeOK ==
  /\ pc \in [Agents -> {"ready", "asking", "calling", "invoking", "remembering", "succeeded", "failed"}]
  /\ \A a \in Agents :
       /\ tries[a] \in 0 .. Retries[a] /\ attempt[a] \in 0 .. Retries[a]
       /\ turn[a] \in 0 .. MaxTurns[a] - 1
       /\ (pc[a] \in {"calling", "invoking"}) <=> (todo[a] # << >> /\ ~Ended(a))
       /\ \A i \in DOMAIN log[a] :
            LET outcome == log[a][i].outcome IN
            /\ outcome.kind \in Kinds
            /\ outcome.run \in IF outcome.kind \in {"value", "raised"} THEN DOMAIN runs ELSE {0}
  /\ missed \in [Agents -> SUBSET (DOMAIN runs)] /\ crossed \in BOOLEAN

(* model_agent.py:574-605, README.md "served straight from the first       *)
(* agent's already-summarized node": agents that share a graph invoke a    *)
(* call again only if they looked it up before the first of them had       *)
(* stored its node, or after that node was folded away, or when the first  *)
(* one's summary had left no node.                                         *)
InvokedAgainOnlyIfRacing ==
  \A j \in DOMAIN runs : runs[j].by \in Deduping =>
    \A i \in runs[j].missed : runs[i].by \in Deduping => runs[i].call # runs[j].call

Logged(a, j) ==
  \E i \in DOMAIN log[a] : log[a][i].outcome.run = j /\ log[a][i].call = runs[j].call

(* The last invocation of a step that failed, of a call whose summary may  *)
(* raise.                                                                  *)
LostToSummary(a, j) ==
  /\ pc[a] = "failed" /\ a \in UseGraph /\ runs[j].call \in Unsummarizable
  /\ \A k \in DOMAIN runs : runs[k].by = a => k <= j

(* model_agent.py:117-127, 518-531, 574-614: nothing that is retried has   *)
(* invoked a tool: tool_call_log of a step shows each of its invocations,  *)
(* but for one: the last one before the step failed, if its summary did.   *)
InvocationsAccounted ==
  \A a \in Agents : \A j \in DOMAIN runs :
    runs[j].by = a => Logged(a, j) \/ LostToSummary(a, j)

(* model_agent.py:199-203 and 608-610, as they have it: tool_call_log is   *)
(* the record of what happened inside the loop, with every call that was   *)
(* made, whatever becomes of its summary.                                  *)
EveryInvocationLogged ==
  \A a \in Agents : \A j \in DOMAIN runs : runs[j].by = a => Logged(a, j)

(* model_agent.py:113-116, as it has it: a single shot that is retried     *)
(* replays no side effect: each is remembered once at most.                *)
SingleShotsReplayNothing ==
  \A i, j \in DOMAIN turns :
    turns[i].agent = turns[j].agent /\ ~HasTools(turns[i].agent) => i = j

(* model_agent.py:581-595 and 724-743: what a model is told of a call is   *)
(* the outcome of that very call, its own or another agent's, and a node   *)
(* that it was told of expands to the value that was summarized for it.    *)
AnswersBelongToCalls ==
  \A a \in Agents : \A i \in DOMAIN log[a] :
    LET entry == log[a][i] IN
    IF entry.call = "expand_node"
    THEN entry.outcome.kind = "missing"
         \/ \E j \in 1 .. i - 1 : log[a][j].node = entry.node /\ log[a][j].outcome = entry.outcome
    ELSE entry.outcome.run # 0 => runs[entry.outcome.run].call = entry.call

(* README.md "the exact same capability checks as a normal workflow step": *)
(* what an agent is told of a call depends on its own tools and its own    *)
(* identity: exactly the calls it may not make are refused.                *)
OwnVerdict ==
  \A a \in Agents : \A i \in DOMAIN log[a] :
    LET entry == log[a][i] IN
    entry.call # "expand_node" =>
      /\ entry.outcome.kind = "unknown" <=> entry.call \notin Offers[a]
      /\ entry.outcome.kind = "denied" <=> entry.call \in Offers[a] \ Permitted[a]

(* model_agent.py:488-499: as long as no two agents are in _remember_turn  *)
(* at once, no remembered turn is lost, however their steps overlap.       *)
TurnsKept == ~crossed => history = turns

(* README.md "rather than looping forever": every step ends, answered or   *)
(* failed, whatever the model asks for.                                    *)
StepEnds == \A a \in Agents : <>Ended(a)
==============================================================================
