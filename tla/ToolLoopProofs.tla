---------------------------- MODULE ToolLoopProofs ----------------------------
(***************************************************************************)
(* Proofs about ToolLoop, for any agents, tools, identities, retries and   *)
(* numbers of turns, and any size of the shared graph: which calls are     *)
(* made again, what retries may repeat, and which turns of a shared        *)
(* conversation are kept.                                                  *)
(***************************************************************************)
EXTENDS ToolLoop, SequenceTheorems, FiniteSetTheorems, TLAPS

Positions == {"ready", "asking", "calling", "invoking", "remembering", "succeeded", "failed"}

Outcomes == [kind : Kinds, run : Nat]
Requests == [call : Calls \cup {"expand_node"}, node : Nat \cup {Nothing}]
Entries == [call : Calls \cup {"expand_node"}, node : Nat \cup {Nothing}, outcome : Outcomes]
Invocations == [call : Calls, by : Agents, missed : SUBSET Nat]

(* Exactly the outcome of an invocation has its number, one of `count`.    *)
Numbered(outcome, count) ==
  /\ outcome \in Outcomes
  /\ IF outcome.kind \in {"value", "raised"} THEN outcome.run \in 1 .. count ELSE outcome.run = 0

Types ==
  /\ pc \in [Agents -> Positions]
  /\ tries \in [Agents -> Nat] /\ attempt \in [Agents -> Nat] /\ turn \in [Agents -> Nat]
  /\ todo \in [Agents -> Seq(Requests)] /\ log \in [Agents -> Seq(Entries)]
  /\ DOMAIN loaded = Agents /\ crossed \in BOOLEAN
  /\ runs \in Seq(Invocations) /\ missed \in [Agents -> SUBSET (DOMAIN runs)]

Bounded ==
  \A a \in Agents :
    /\ tries[a] <= Retries[a] /\ attempt[a] <= Retries[a] /\ turn[a] < MaxTurns[a]
    /\ pc[a] \in {"calling", "invoking"} <=> todo[a] # << >>

(* A node, and a graph, as records with their fields.                      *)
Node(seq, edges, carried) == [seq |-> seq, edges |-> edges, carried |-> carried]
Graph(g) == [nodes |-> g.nodes, seq |-> g.seq, auto |-> g.auto, dedup |-> g.dedup]

(* Every id was made up by the graph, and is the number of its node.       *)
GraphOK ==
  /\ graph = Graph(graph)
  /\ graph.auto \in Nat \ {0} /\ graph.seq = graph.auto
  /\ \A id \in Ids(graph) :
       LET node == graph.nodes[id] IN
       /\ id \in Nat /\ id < graph.auto /\ node.seq = id
       /\ node = Node(id, node.edges, node.carried)
       /\ Numbered(node.carried.outcome, Len(runs))
  /\ \A key \in DOMAIN graph.dedup : graph.dedup[key] \in Nat

LogsOK ==
  \A a \in Agents : \A i \in DOMAIN log[a] : Numbered(log[a][i].outcome, Len(runs))

(* An agent that has invoked a tool has tools, and is past its beginning.  *)
Invokers ==
  \A j \in DOMAIN runs : HasTools(runs[j].by) /\ pc[runs[j].by] # "ready"

(* Where an invocation is to be found.                                     *)
Accounted(a, j) == Logged(a, j) \/ LostToSummary(a, j)

(* The key of an invocation whose node is there leads to that node, or to  *)
(* a later one, which is folded later.                                     *)
Keyed ==
  \A id \in Ids(graph) :
    LET run == graph.nodes[id].carried.outcome.run IN
    run # 0 /\ runs[run].by \in Deduping =>
      LET call == runs[run].call IN
      /\ call \in DOMAIN graph.dedup /\ graph.dedup[call] \in Ids(graph)
      /\ graph.dedup[call] >= id

(* What the agent that has looked a call up did not find.                  *)
Unfound(calls, call) == \A i \in calls : runs[i].by \in Deduping => runs[i].call # call
LookedUp ==
  /\ \A a \in Agents : pc[a] = "invoking" =>
       a \in Deduping /\ ~IsExpand(Current(a)) /\ Unfound(missed[a], Current(a).call)
  /\ \A j \in DOMAIN runs : runs[j].missed \subseteq DOMAIN runs

IInv ==
  /\ Types /\ Bounded /\ GraphOK /\ LogsOK /\ Invokers /\ Keyed /\ LookedUp
  /\ \A j \in DOMAIN runs : Accounted(runs[j].by, j)
  /\ InvokedAgainOnlyIfRacing

(* One agent remembers at a time; it has read all of the history.          *)
OneRemembers ==
  crossed \/ /\ history = turns
             /\ \A a \in Agents : pc[a] = "remembering" => loaded[a] = history
             /\ \A a, b \in Agents : pc[a] = "remembering" /\ pc[b] = "remembering" => a = b

-----------------------------------------------------------------------------
(* The parts of the actions.                                               *)

LEMMA NothingIsNew == Nothing \notin Nat /\ Nothing \notin Calls
BY NothingAssumption

LEMMA RaiseFacts ==
  ASSUME Types, Bounded, NEW a \in Agents, Raise(a)
  PROVE  /\ \/ pc' = [pc EXCEPT ![a] = "ready"] /\ ~HasTools(a)
            \/ pc' = [pc EXCEPT ![a] = "failed"]
         /\ tries' \in [Agents -> Nat] /\ \A b \in Agents : tries'[b] <= Retries[b]
<1>1. Retries \in [Agents -> Nat] /\ tries \in [Agents -> Nat] /\ tries[a] \in Nat
  BY AgentsAssumption DEF Types
<1>2. CASE tries[a] < StepRetries(a)
  <2>1. ~HasTools(a) /\ tries[a] < Retries[a]
    BY <1>1, <1>2 DEF StepRetries
  <2>2. pc' = [pc EXCEPT ![a] = "ready"] /\ tries' = [tries EXCEPT ![a] = tries[a] + 1]
    BY <1>2 DEF Raise, NextTry
  <2>3. tries' \in [Agents -> Nat] /\ \A b \in Agents : tries'[b] <= Retries[b]
    BY <1>1, <2>1, <2>2 DEF Bounded
  <2>4. QED
    BY <2>1, <2>2, <2>3
<1>3. CASE ~(tries[a] < StepRetries(a))
  BY <1>1, <1>3 DEF Raise, Bounded
<1>4. QED
  BY <1>2, <1>3

LEMMA FinalizeFacts ==
  ASSUME Types, Bounded, NEW a \in Agents, FinalizeOutput(a)
  PROVE  /\ \/ pc' = [pc EXCEPT ![a] = "ready"] /\ ~HasTools(a)
            \/ pc' = [pc EXCEPT ![a] = "failed"]
            \/ pc' = [pc EXCEPT ![a] = "succeeded"]
         /\ tries' \in [Agents -> Nat] /\ \A b \in Agents : tries'[b] <= Retries[b]
BY RaiseFacts DEF FinalizeOutput, Types, Bounded

LEMMA CurrentType ==
  ASSUME Types, Bounded, NEW a \in Agents, pc[a] \in {"calling", "invoking"}
  PROVE  /\ todo[a] \in Seq(Requests) /\ todo[a] # << >> /\ Current(a) \in Requests
         /\ Tail(todo[a]) \in Seq(Requests) /\ Len(Tail(todo[a])) = Len(todo[a]) - 1
<1>1. todo[a] \in Seq(Requests) /\ todo[a] # << >>
  BY DEF Types, Bounded
<1>2. QED
  BY <1>1, HeadTailProperties DEF Current

(* What the answer to a call does, whatever the call.                      *)
LEMMA AnswerFacts ==
  ASSUME Types, Bounded, NEW a \in Agents, pc[a] \in {"calling", "invoking"},
         NEW entry \in Entries, Answer(a, entry)
  PROVE  /\ log' = [log EXCEPT ![a] = Append(log[a], entry)] /\ log' \in [Agents -> Seq(Entries)]
         /\ todo' = [todo EXCEPT ![a] = Tail(todo[a])] /\ todo' \in [Agents -> Seq(Requests)]
         /\ tries' \in [Agents -> Nat] /\ \A b \in Agents : tries'[b] <= Retries[b]
         /\ turn' \in [Agents -> Nat] /\ \A b \in Agents : turn'[b] < MaxTurns[b]
         /\ \E to \in {"calling", "asking", "ready", "failed"} :
              /\ pc' = [pc EXCEPT ![a] = to]
              /\ to = "calling" <=> todo'[a] # << >>
              /\ to = "ready" => ~HasTools(a)
<1>1. /\ log' = [log EXCEPT ![a] = Append(log[a], entry)]
      /\ todo' = [todo EXCEPT ![a] = Tail(todo[a])]
  BY DEF Answer
<1>2. log[a] \in Seq(Entries) /\ Append(log[a], entry) \in Seq(Entries)
  BY AppendProperties DEF Types
<1>3. log' \in [Agents -> Seq(Entries)]
  BY <1>1, <1>2 DEF Types
<1>4. /\ Tail(todo[a]) \in Seq(Requests) /\ Len(Tail(todo[a])) = Len(todo[a]) - 1
      /\ Len(todo[a]) \in Nat
  BY CurrentType
<1>5. todo' \in [Agents -> Seq(Requests)] /\ todo'[a] = Tail(todo[a])
  BY <1>1, <1>4 DEF Types
<1>6. todo'[a] = << >> <=> Len(todo[a]) = 1
  <2>1. Tail(todo[a]) = << >> <=> Len(Tail(todo[a])) = 0
    BY <1>4, EmptySeq
  <2>2. Len(Tail(todo[a])) = 0 <=> Len(todo[a]) = 1
    BY <1>4
  <2>3. QED
    BY <1>5, <2>1, <2>2
<1>7. CASE Len(todo[a]) > 1 /\ pc' = [pc EXCEPT ![a] = "calling"] /\ UNCHANGED <<tries, turn>>
  <2>1. Len(todo[a]) # 1
    <3>1. PICK n \in Nat : n = Len(todo[a])
      BY <1>4
    <3>2. n > 1
      BY <1>7, <3>1
    <3>3. n # 1
      BY <3>2
    <3>4. QED
      BY <3>1, <3>3
  <2>2. todo'[a] # << >>
    BY <1>6, <2>1
  <2>3. QED
    BY <1>1, <1>3, <1>5, <1>7, <2>2 DEF Types, Bounded
<1>8. CASE /\ Len(todo[a]) = 1 /\ NextTurn(a) < MaxTurns[a]
           /\ pc' = [pc EXCEPT ![a] = "asking"] /\ turn' = [turn EXCEPT ![a] = NextTurn(a)]
           /\ UNCHANGED tries
  <2>1. turn' \in [Agents -> Nat] /\ \A b \in Agents : turn'[b] < MaxTurns[b]
    BY <1>8 DEF Types, Bounded, NextTurn
  <2>2. QED
    BY <1>1, <1>3, <1>5, <1>6, <1>8, <2>1 DEF Types, Bounded
<1>9. CASE Len(todo[a]) = 1 /\ NextTurn(a) >= MaxTurns[a] /\ Raise(a) /\ UNCHANGED turn
  <2>1. PICK to \in {"ready", "failed"} :
          pc' = [pc EXCEPT ![a] = to] /\ (to = "ready" => ~HasTools(a))
    BY <1>9, RaiseFacts
  <2>2. tries' \in [Agents -> Nat] /\ \A b \in Agents : tries'[b] <= Retries[b]
    BY <1>9, RaiseFacts
  <2>3. to # "calling" /\ todo'[a] = << >>
    BY <1>6, <1>9, <2>1
  <2>4. QED
    BY <1>1, <1>3, <1>5, <1>9, <2>1, <2>2, <2>3 DEF Types, Bounded
<1>10. QED
  BY <1>7, <1>8, <1>9 DEF Answer

-----------------------------------------------------------------------------
(* The steps that leave the graph and the tools alone.                     *)

LogsGrow ==
  \A b \in Agents :
    /\ \/ log'[b] = log[b]
       \/ log'[b] = << >> /\ pc[b] = "ready"
       \/ \E entry \in Entries : Numbered(entry.outcome, Len(runs)) /\ log'[b] = Append(log[b], entry)
    /\ pc'[b] = "ready" => pc[b] = "ready" \/ ~HasTools(b)
    /\ pc[b] = "failed" => pc'[b] = "failed"

LookUpsStay ==
  \A b \in Agents : pc'[b] = "invoking" =>
    b \in Deduping /\ ~IsExpand(Current(b)') /\ Unfound(missed'[b], Current(b)'.call)

LEMMA QuietKeeps ==
  ASSUME IInv, Types', Bounded', UNCHANGED <<graph, runs>>, LogsGrow, LookUpsStay
  PROVE  IInv'
<1>1. runs' = runs /\ Len(runs)' = Len(runs) /\ graph' = graph
  OBVIOUS
<1>2. GraphOK'
  BY <1>1 DEF IInv, GraphOK, Ids
<1>3. \A b \in Agents : log[b] \in Seq(Entries)
  BY DEF IInv, Types
<1>4. ASSUME NEW b \in Agents, NEW entry \in Entries, Numbered(entry.outcome, Len(runs)),
             log'[b] = Append(log[b], entry)
      PROVE  /\ \A i \in DOMAIN log'[b] : Numbered(log'[b][i].outcome, Len(runs))
             /\ \A i \in DOMAIN log[b] : i \in DOMAIN log'[b] /\ log'[b][i] = log[b][i]
  <2>1. /\ log'[b] \in Seq(Entries) /\ Len(log'[b]) = Len(log[b]) + 1
        /\ \A i \in 1 .. Len(log[b]) : log'[b][i] = log[b][i]
        /\ log'[b][Len(log[b]) + 1] = entry
    BY <1>3, <1>4, AppendProperties
  <2>2. /\ DOMAIN log'[b] = 1 .. Len(log[b]) + 1 /\ DOMAIN log[b] = 1 .. Len(log[b])
        /\ Len(log[b]) \in Nat
    BY <1>3, <2>1
  <2>3. QED
    BY <1>4, <2>1, <2>2 DEF IInv, LogsOK
<1>5. LogsOK'
  <2> SUFFICES ASSUME NEW b \in Agents
               PROVE  \A i \in DOMAIN log'[b] : Numbered(log'[b][i].outcome, Len(runs))
    BY <1>1 DEF LogsOK
  <2>1. CASE log'[b] = log[b]
    BY <2>1 DEF IInv, LogsOK
  <2>2. CASE log'[b] = << >>
    BY <2>2
  <2>3. QED
    BY <1>4, <2>1, <2>2 DEF LogsGrow
<1>6. ASSUME NEW j \in DOMAIN runs
      PROVE  /\ runs[j].by \in Agents /\ HasTools(runs[j].by)
             /\ pc[runs[j].by] # "ready" /\ pc'[runs[j].by] # "ready"
  <2>1. runs[j] \in Invocations
    BY DEF IInv, Types
  <2>2. runs[j].by \in Agents
    BY <2>1 DEF Invocations
  <2>3. QED
    BY <2>2 DEF IInv, Invokers, LogsGrow
<1>7. ASSUME NEW j \in DOMAIN runs PROVE Accounted(runs[j].by, j)'
  <2>1. PICK b \in Agents : b = runs[j].by
    BY <1>6
  <2>2. pc[b] # "ready" /\ Accounted(b, j)
    BY <1>6, <2>1 DEF IInv
  <2>3. CASE LostToSummary(b, j)
    <3>1. pc[b] = "failed" /\ pc'[b] = "failed"
      BY <2>3 DEF LostToSummary, LogsGrow
    <3>2. LostToSummary(b, j)'
      BY <1>1, <2>3, <3>1 DEF LostToSummary
    <3>3. QED
      BY <1>1, <2>1, <3>2 DEF Accounted
  <2>4. CASE Logged(b, j) /\ log'[b] = log[b]
    <3>1. Logged(b, j)'
      BY <1>1, <2>4 DEF Logged
    <3>2. QED
      BY <1>1, <2>1, <3>1 DEF Accounted
  <2>5. CASE /\ Logged(b, j)
             /\ \E entry \in Entries :
                  Numbered(entry.outcome, Len(runs)) /\ log'[b] = Append(log[b], entry)
    <3>1. Logged(b, j)'
      BY <1>1, <1>4, <2>5 DEF Logged
    <3>2. QED
      BY <1>1, <2>1, <3>1 DEF Accounted
  <2>6. QED
    BY <2>2, <2>3, <2>4, <2>5 DEF LogsGrow, Accounted
<1>8. Keyed' /\ InvokedAgainOnlyIfRacing'
  BY <1>1 DEF IInv, Keyed, InvokedAgainOnlyIfRacing, Ids
<1>9. LookedUp'
  BY <1>1 DEF IInv, LookedUp, LookUpsStay, Unfound
<1>10. Invokers'
  BY <1>1, <1>6 DEF Invokers
<1>11. QED
  BY <1>1, <1>2, <1>5, <1>7, <1>8, <1>9, <1>10 DEF IInv

LEMMA ExecuteKeeps == ASSUME IInv, NEW a \in Agents, Execute(a) PROVE IInv'
<1>1. /\ pc[a] = "ready" /\ pc' = [pc EXCEPT ![a] = "asking"]
      /\ turn' = [turn EXCEPT ![a] = 0] /\ attempt' = [attempt EXCEPT ![a] = 0]
      /\ log' = [log EXCEPT ![a] = << >>]
      /\ UNCHANGED <<graph, history, tries, todo, runs, missed, turns, crossed>>
  BY DEF Execute
<1>2. Types'
  <2>1. << >> \in Seq(Entries)
    OBVIOUS
  <2>2. log' \in [Agents -> Seq(Entries)]
    BY <1>1, <2>1 DEF IInv, Types
  <2>3. DOMAIN loaded' = Agents
    BY DEF Execute, IInv, Types
  <2>4. pc' \in [Agents -> Positions] /\ turn' \in [Agents -> Nat] /\ attempt' \in [Agents -> Nat]
    BY <1>1 DEF IInv, Types, Positions
  <2>5. QED
    BY <1>1, <2>2, <2>3, <2>4 DEF IInv, Types
<1>3. Bounded'
  <2> SUFFICES ASSUME NEW b \in Agents
               PROVE  /\ tries'[b] <= Retries[b] /\ attempt'[b] <= Retries[b] /\ turn'[b] < MaxTurns[b]
                      /\ pc'[b] \in {"calling", "invoking"} <=> todo'[b] # << >>
    BY DEF Bounded
  <2>1. /\ tries[b] <= Retries[b] /\ attempt[b] <= Retries[b] /\ turn[b] < MaxTurns[b]
        /\ pc[b] \in {"calling", "invoking"} <=> todo[b] # << >>
    BY DEF IInv, Bounded
  <2>2. Retries[b] \in Nat /\ MaxTurns[b] \in Nat \ {0}
    BY AgentsAssumption
  <2>3. attempt'[b] <= Retries[b] /\ turn'[b] < MaxTurns[b]
    BY <1>1, <2>1, <2>2 DEF IInv, Types
  <2>4. pc'[b] \in {"calling", "invoking"} <=> todo'[b] # << >>
    BY <1>1, <2>1 DEF IInv, Types
  <2>5. QED
    BY <1>1, <2>1, <2>3, <2>4
<1>4. LogsGrow
  BY <1>1 DEF IInv, Types, LogsGrow
<1>5. LookUpsStay
  BY <1>1 DEF IInv, Types, LookedUp, LookUpsStay, Current
<1>6. QED
  BY <1>1, <1>2, <1>3, <1>4, <1>5, QuietKeeps

(* A step of an agent that asks, remembers, or ends its attempt.           *)
LEMMA MoveKeeps ==
  ASSUME IInv, NEW a \in Agents, pc[a] \in {"asking", "remembering"},
         NEW to \in {"asking", "remembering", "ready", "failed", "succeeded"},
         pc' = [pc EXCEPT ![a] = to], to = "ready" => ~HasTools(a),
         tries' \in [Agents -> Nat], \A b \in Agents : tries'[b] <= Retries[b],
         attempt' \in [Agents -> Nat], \A b \in Agents : attempt'[b] <= Retries[b],
         DOMAIN loaded' = Agents, crossed' \in BOOLEAN,
         UNCHANGED <<graph, turn, todo, log, runs, missed>>
  PROVE  IInv'
<1>1. Types'
  BY DEF IInv, Types, Positions
<1>2. Bounded'
  BY DEF IInv, Types, Bounded
<1>3. LogsGrow
  BY DEF IInv, Types, LogsGrow
<1>4. LookUpsStay
  BY DEF IInv, Types, LookedUp, LookUpsStay, Current, Unfound
<1>5. QED
  BY <1>1, <1>2, <1>3, <1>4, QuietKeeps

LEMMA GenerateAnswerKeeps == ASSUME IInv, NEW a \in Agents, GenerateAnswer(a) PROVE IInv'
<1>1. pc[a] = "asking" /\ UNCHANGED <<graph, history, turn, attempt, todo, log, runs, missed, turns>>
  BY DEF GenerateAnswer
<1>2. CASE a \in Remembering
  <2>1. /\ pc' = [pc EXCEPT ![a] = "remembering"] /\ UNCHANGED tries
        /\ DOMAIN loaded' = Agents /\ crossed' \in BOOLEAN
    BY <1>2 DEF GenerateAnswer, IInv, Types
  <2>2. QED
    BY <1>1, <2>1, MoveKeeps DEF IInv, Types, Bounded
<1>3. CASE a \notin Remembering
  <2>1. FinalizeOutput(a) /\ UNCHANGED <<loaded, crossed>>
    BY <1>3 DEF GenerateAnswer
  <2>2. PICK to \in {"ready", "failed", "succeeded"} :
          pc' = [pc EXCEPT ![a] = to] /\ (to = "ready" => ~HasTools(a))
    BY <2>1, FinalizeFacts DEF IInv
  <2>3. tries' \in [Agents -> Nat] /\ \A b \in Agents : tries'[b] <= Retries[b]
    BY <2>1, FinalizeFacts DEF IInv
  <2>4. QED
    BY <1>1, <2>1, <2>2, <2>3, MoveKeeps DEF IInv, Types, Bounded
<1>4. QED
  BY <1>2, <1>3

LEMMA RememberTurnKeeps == ASSUME IInv, NEW a \in Agents, RememberTurn(a) PROVE IInv'
<1>1. /\ pc[a] = "remembering" /\ FinalizeOutput(a)
      /\ UNCHANGED <<graph, turn, attempt, todo, log, loaded, runs, missed, crossed>>
  BY DEF RememberTurn
<1>2. PICK to \in {"ready", "failed", "succeeded"} :
        pc' = [pc EXCEPT ![a] = to] /\ (to = "ready" => ~HasTools(a))
  BY <1>1, FinalizeFacts DEF IInv
<1>3. tries' \in [Agents -> Nat] /\ \A b \in Agents : tries'[b] <= Retries[b]
  BY <1>1, FinalizeFacts DEF IInv
<1>4. QED
  BY <1>1, <1>2, <1>3, MoveKeeps DEF IInv, Types, Bounded

LEMMA GenerateRaisesKeeps == ASSUME IInv, NEW a \in Agents, GenerateRaises(a) PROVE IInv'
<1>1. /\ pc[a] = "asking"
      /\ UNCHANGED <<graph, history, turn, todo, log, loaded, runs, missed, turns, crossed>>
  BY DEF GenerateRaises
<1>2. CASE HasTools(a) /\ attempt[a] < Retries[a]
  <2>1. attempt' = [attempt EXCEPT ![a] = @ + 1] /\ UNCHANGED <<pc, tries>>
    BY <1>2 DEF GenerateRaises
  <2>2. attempt' \in [Agents -> Nat] /\ \A b \in Agents : attempt'[b] <= Retries[b]
    <3>1. attempt[a] \in Nat /\ Retries[a] \in Nat
      BY AgentsAssumption DEF IInv, Types
    <3>2. attempt' = [attempt EXCEPT ![a] = attempt[a] + 1] /\ attempt[a] + 1 <= Retries[a]
      BY <1>2, <2>1, <3>1
    <3>3. QED
      BY <3>1, <3>2 DEF IInv, Types, Bounded
  <2>3. pc' = [pc EXCEPT ![a] = "asking"]
    BY <1>1, <2>1 DEF IInv, Types
  <2>4. QED
    BY <1>1, <2>1, <2>2, <2>3, MoveKeeps DEF IInv, Types, Bounded
<1>3. CASE ~(HasTools(a) /\ attempt[a] < Retries[a])
  <2>1. Raise(a) /\ UNCHANGED attempt
    BY <1>3 DEF GenerateRaises
  <2>2. PICK to \in {"ready", "failed"} :
          pc' = [pc EXCEPT ![a] = to] /\ (to = "ready" => ~HasTools(a))
    BY <2>1, RaiseFacts DEF IInv
  <2>3. tries' \in [Agents -> Nat] /\ \A b \in Agents : tries'[b] <= Retries[b]
    BY <2>1, RaiseFacts DEF IInv
  <2>4. QED
    BY <1>1, <2>1, <2>2, <2>3, MoveKeeps DEF IInv, Types, Bounded
<1>4. QED
  BY <1>2, <1>3

(* A model asks for ids that it was told of, all of them numbers.          *)
LEMMA ToldAreIds == ASSUME IInv, NEW a \in Agents PROVE Told(a) \subseteq Nat
<1>1. \A i \in DOMAIN log[a] : log[a][i] \in Entries
  BY DEF IInv, Types
<1>2. QED
  BY <1>1 DEF Told, Entries

LEMMA GenerateCallsKeeps == ASSUME IInv, NEW a \in Agents, GenerateCalls(a) PROVE IInv'
<1>1. /\ pc[a] = "asking" /\ pc' = [pc EXCEPT ![a] = "calling"]
      /\ attempt' = [attempt EXCEPT ![a] = 0]
      /\ UNCHANGED <<graph, history, tries, turn, log, loaded, runs, missed, turns, crossed>>
  BY DEF GenerateCalls
<1>2. PICK size \in 1 .. MaxAsked :
        \E requests \in [1 .. size -> {Call(c) : c \in Calls}
                           \cup (IF a \in UseGraph THEN {Expand(id) : id \in Told(a) \cup {0}} ELSE {})] :
          todo' = [todo EXCEPT ![a] = requests]
  BY DEF GenerateCalls
<1>3. PICK requests \in [1 .. size -> {Call(c) : c \in Calls}
                           \cup (IF a \in UseGraph THEN {Expand(id) : id \in Told(a) \cup {0}} ELSE {})] :
        todo' = [todo EXCEPT ![a] = requests]
  BY <1>2
<1>4. requests \in Seq(Requests) /\ requests # << >>
  <2>1. size \in Nat /\ size >= 1
    BY OwnerAssumption
  <2>2. requests \in [1 .. size -> Requests]
    BY ToldAreIds DEF Call, Expand, Requests
  <2>3. requests \in Seq(Requests) /\ Len(requests) = size
    BY <2>1, <2>2
  <2>4. QED
    BY <2>1, <2>3, EmptySeq
<1> HIDE <1>2
<1>5. Types'
  <2>1. todo' \in [Agents -> Seq(Requests)]
    BY <1>3, <1>4 DEF IInv, Types
  <2>2. pc' \in [Agents -> Positions] /\ attempt' \in [Agents -> Nat]
    BY <1>1 DEF IInv, Types, Positions
  <2>3. QED
    BY <1>1, <2>1, <2>2 DEF IInv, Types
<1>6. Bounded'
  <2> SUFFICES ASSUME NEW b \in Agents
               PROVE  /\ tries'[b] <= Retries[b] /\ attempt'[b] <= Retries[b] /\ turn'[b] < MaxTurns[b]
                      /\ pc'[b] \in {"calling", "invoking"} <=> todo'[b] # << >>
    BY DEF Bounded
  <2>1. /\ tries[b] <= Retries[b] /\ attempt[b] <= Retries[b] /\ turn[b] < MaxTurns[b]
        /\ pc[b] \in {"calling", "invoking"} <=> todo[b] # << >>
    BY DEF IInv, Bounded
  <2>2. Retries[b] \in Nat
    BY AgentsAssumption
  <2>3. attempt'[b] <= Retries[b]
    BY <1>1, <2>1, <2>2 DEF IInv, Types
  <2>4. pc'[b] \in {"calling", "invoking"} <=> todo'[b] # << >>
    BY <1>1, <1>3, <1>4, <2>1 DEF IInv, Types
  <2>5. QED
    BY <1>1, <2>1, <2>3, <2>4
<1>7. LogsGrow
  BY <1>1 DEF IInv, Types, LogsGrow
<1>8. LookUpsStay
  BY <1>1, <1>3 DEF IInv, Types, LookedUp, LookUpsStay, Current, Unfound
<1>9. QED
  BY <1>1, <1>5, <1>6, <1>7, <1>8, QuietKeeps

-----------------------------------------------------------------------------
(* The tool calls that invoke nothing.                                     *)

LEMMA AnswerQuietKeeps ==
  ASSUME IInv, NEW a \in Agents, pc[a] \in {"calling", "invoking"},
         NEW entry \in Entries, Numbered(entry.outcome, Len(runs)), Answer(a, entry),
         UNCHANGED <<graph, attempt, loaded, runs, missed, crossed>>
  PROVE  IInv'
<1>1. /\ log' = [log EXCEPT ![a] = Append(log[a], entry)] /\ log' \in [Agents -> Seq(Entries)]
      /\ todo' = [todo EXCEPT ![a] = Tail(todo[a])] /\ todo' \in [Agents -> Seq(Requests)]
      /\ tries' \in [Agents -> Nat] /\ \A b \in Agents : tries'[b] <= Retries[b]
      /\ turn' \in [Agents -> Nat] /\ \A b \in Agents : turn'[b] < MaxTurns[b]
  BY AnswerFacts DEF IInv
<1>2. PICK to \in {"calling", "asking", "ready", "failed"} :
        /\ pc' = [pc EXCEPT ![a] = to]
        /\ to = "calling" <=> todo'[a] # << >>
        /\ to = "ready" => ~HasTools(a)
  BY AnswerFacts DEF IInv
<1>3. Types'
  BY <1>1, <1>2 DEF IInv, Types, Positions
<1>4. Bounded'
  BY <1>1, <1>2 DEF IInv, Types, Bounded
<1>5. LogsGrow
  BY <1>1, <1>2 DEF IInv, Types, LogsGrow
<1>6. LookUpsStay
  BY <1>1, <1>2 DEF IInv, Types, LookedUp, LookUpsStay, Current, Unfound
<1>7. QED
  BY <1>3, <1>4, <1>5, <1>6, QuietKeeps

LEMMA NodeOutcome ==
  ASSUME IInv, NEW id \in Ids(graph)
  PROVE  /\ Numbered(graph.nodes[id].carried.outcome, Len(runs))
         /\ id \in Nat /\ id < graph.auto /\ graph.nodes[id].seq = id
BY DEF IInv, GraphOK

LEMMA EntryType ==
  ASSUME NEW c \in Calls \cup {"expand_node"}, NEW id \in Nat \cup {Nothing},
         NEW outcome \in Outcomes
  PROVE  \E entry \in Entries :
           entry = Entry(c, id, outcome) /\ entry.outcome = outcome /\ entry.call = c
<1>1. PICK node \in Nat \cup {Nothing} :
        node = IF outcome.kind = "value" THEN id ELSE Nothing
  OBVIOUS
<1>2. Entry(c, id, outcome) = [call |-> c, node |-> node, outcome |-> outcome]
  BY <1>1 DEF Entry
<1>3. QED
  BY <1>2 DEF Entries

LEMMA ReuseNodeKeeps == ASSUME IInv, NEW a \in Agents, ReuseNode(a) PROVE IInv'
<1>1. /\ pc[a] = "calling" /\ ~IsExpand(Current(a)) /\ CachedNode(a) # Nothing
      /\ Answer(a, Entry(Current(a).call, CachedNode(a), graph.nodes[CachedNode(a)].carried.outcome))
      /\ UNCHANGED <<graph, attempt, loaded, runs, missed, crossed>>
  BY DEF ReuseNode, LooksUp
<1>2. PICK id \in Ids(graph) : id = CachedNode(a)
  BY <1>1 DEF CachedNode, Found
<1>3. Numbered(graph.nodes[id].carried.outcome, Len(runs)) /\ id \in Nat
  BY NodeOutcome
<1>4. Current(a).call \in Calls
  BY <1>1, CurrentType DEF IInv, IsExpand, Requests
<1>5. PICK outcome \in Outcomes : outcome = graph.nodes[id].carried.outcome
  BY <1>3 DEF Numbered
<1>6. PICK entry \in Entries :
        /\ entry = Entry(Current(a).call, id, outcome)
        /\ entry.outcome = outcome /\ entry.call = Current(a).call
  BY <1>3, <1>4, EntryType
<1>7. QED
  BY <1>1, <1>2, <1>3, <1>5, <1>6, AnswerQuietKeeps

LEMMA ExpandNodeKeeps == ASSUME IInv, NEW a \in Agents, ExpandNode(a) PROVE IInv'
<1> DEFINE id == Current(a).node
           outcome == IF id \in Ids(graph) THEN graph.nodes[id].carried.outcome
                      ELSE Refused("missing")
<1>1. /\ pc[a] = "calling" /\ Answer(a, Entry("expand_node", id, outcome))
      /\ UNCHANGED <<graph, attempt, loaded, runs, missed, crossed>>
  BY DEF ExpandNode
<1>2. Numbered(outcome, Len(runs))
  <2>1. Numbered(Refused("missing"), Len(runs))
    BY DEF Numbered, Refused, Outcomes, Kinds
  <2>2. QED
    BY <2>1, NodeOutcome
<1>3. id \in Nat \cup {Nothing}
  BY <1>1, CurrentType DEF IInv, Requests
<1> HIDE DEF id, outcome
<1>4. PICK entry \in Entries :
        /\ entry = Entry("expand_node", id, outcome)
        /\ entry.outcome = outcome /\ entry.call = "expand_node"
  <2>1. outcome \in Outcomes /\ "expand_node" \in Calls \cup {"expand_node"}
    BY <1>2 DEF Numbered
  <2>2. QED
    BY <1>3, <2>1, EntryType
<1>5. QED
  BY <1>1, <1>2, <1>4, AnswerQuietKeeps

(* What an agent did not find was invoked neither by another agent of the  *)
(* graph nor by itself, as far as the graph goes.                          *)
LEMMA MissNodeKeeps == ASSUME IInv, NEW a \in Agents, MissNode(a) PROVE IInv'
<1> DEFINE seen == {graph.nodes[id].carried.outcome.run : id \in Ids(graph)} \ {0}
<1>1. /\ pc[a] = "calling" /\ a \in Deduping /\ ~IsExpand(Current(a)) /\ CachedNode(a) = Nothing
      /\ pc' = [pc EXCEPT ![a] = "invoking"] /\ missed' = [missed EXCEPT ![a] = seen]
      /\ UNCHANGED <<graph, tries, turn, attempt, todo, log, loaded, runs, crossed>>
  BY DEF MissNode, LooksUp
<1>2. seen \subseteq DOMAIN runs
  <2>1. runs \in Seq(Invocations)
    BY DEF IInv, Types
  <2>2. DOMAIN runs = 1 .. Len(runs)
    BY <2>1
  <2>3. ASSUME NEW id \in Ids(graph), graph.nodes[id].carried.outcome.run # 0
        PROVE  graph.nodes[id].carried.outcome.run \in 1 .. Len(runs)
    BY <2>3, NodeOutcome DEF Numbered
  <2>4. QED
    BY <2>2, <2>3
<1>3. Unfound(seen, Current(a).call)
  <2> SUFFICES ASSUME NEW id \in Ids(graph), NEW i, i = graph.nodes[id].carried.outcome.run,
                      i # 0, runs[i].by \in Deduping, runs[i].call = Current(a).call
               PROVE  FALSE
    BY DEF Unfound
  <2>1. LET call == Current(a).call IN
        call \in DOMAIN graph.dedup /\ graph.dedup[call] \in Ids(graph)
    BY DEF IInv, Keyed
  <2>2. CachedNode(a) \in Nat
    BY <2>1, NodeOutcome DEF CachedNode, Found, DedupKey
  <2>3. QED
    BY <1>1, <2>2, NothingIsNew
<1> HIDE DEF seen
<1>4. Types'
  BY <1>1, <1>2 DEF IInv, Types, Positions
<1>5. Bounded'
  BY <1>1 DEF IInv, Types, Bounded
<1>6. LogsGrow
  BY <1>1 DEF IInv, Types, LogsGrow
<1>7. LookUpsStay
  <2> SUFFICES ASSUME NEW b \in Agents, pc'[b] = "invoking"
               PROVE  b \in Deduping /\ ~IsExpand(Current(b)') /\ Unfound(missed'[b], Current(b)'.call)
    BY DEF LookUpsStay
  <2>1. Current(b)' = Current(b)
    BY <1>1 DEF Current
  <2>2. CASE b = a
    BY <1>1, <1>3, <2>1, <2>2 DEF IInv, Types
  <2>3. CASE b # a
    BY <1>1, <2>1, <2>3 DEF IInv, Types, LookedUp
  <2>4. QED
    BY <2>2, <2>3
<1>8. QED
  BY <1>1, <1>4, <1>5, <1>6, <1>7, QuietKeeps

-----------------------------------------------------------------------------
(* A call of a tool, with the node made for it.                            *)

LEMMA AddNodeFacts ==
  ASSUME IInv, NEW edges, NEW key, NEW carried,
         NEW big, big = AddNode(graph, Nothing, edges, key, carried)
  PROVE  /\ big = Graph(big)
         /\ big.seq = graph.auto + 1 /\ big.auto = graph.auto + 1
         /\ big.dedup = Register(graph, key, graph.auto)
         /\ graph.auto \in Nat \ {0} /\ graph.auto \notin Ids(graph)
         /\ Ids(big) = Ids(graph) \cup {graph.auto}
         /\ big.nodes[graph.auto] = Node(graph.auto, edges, carried)
         /\ \A id \in Ids(graph) : big.nodes[id] = graph.nodes[id]
<1>1. graph.auto \in Nat \ {0} /\ graph.seq = graph.auto
  BY DEF IInv, GraphOK
<1>2. graph.auto \notin Ids(graph)
  <2>1. ~(graph.auto < graph.auto)
    BY <1>1
  <2>2. QED
    BY <2>1, NodeOutcome
<1>3. /\ big.nodes = Put(graph.nodes, graph.auto,
                         [seq |-> graph.auto, edges |-> edges, carried |-> carried])
      /\ big = [nodes |-> big.nodes, seq |-> graph.auto + 1, auto |-> graph.auto + 1,
                dedup |-> Register(graph, key, graph.auto)]
  BY <1>1 DEF AddNode, IdFor, MadeUpId
<1>4. big = Graph(big)
  BY <1>3 DEF Graph
<1>5. QED
  BY <1>1, <1>2, <1>3, <1>4 DEF Put, Ids, Node

LEMMA VerdictFacts ==
  ASSUME NEW a \in Agents, NEW c, NEW outcome \in Verdicts(a, c), Len(runs) \in Nat
  PROVE  /\ outcome \in Outcomes
         /\ \/ Numbered(outcome, Len(runs)) /\ outcome.run = 0
            \/ outcome.kind \in {"value", "raised"} /\ outcome.run = Len(runs) + 1 /\ HasTools(a)
         /\ outcome.kind = "value" => outcome.run = Len(runs) + 1 /\ HasTools(a)
<1>1. CASE outcome \in {Refused("unknown"), Refused("denied")}
  BY <1>1 DEF Refused, Numbered, Outcomes, Kinds
<1>2. CASE /\ c \in Offers[a]
           /\ \E kind \in {"value", "raised"} : outcome = Invoked(kind, Len(runs) + 1)
  BY <1>2 DEF Invoked, Outcomes, Kinds, HasTools
<1>3. QED
  BY <1>1, <1>2 DEF Verdicts

LEMMA InvokeToolFacts ==
  ASSUME IInv, NEW a \in Agents, InvokeTool(a)
  PROVE  /\ pc[a] \in {"calling", "invoking"} /\ Current(a).call \in Calls
         /\ a \in Deduping => pc[a] = "invoking"
         /\ missed' = [missed EXCEPT ![a] = {}] /\ UNCHANGED <<history, attempt, loaded, turns, crossed>>
         /\ \E outcome \in Outcomes, id \in Nat \cup {Nothing} :
              /\ runs' = Runs(a, outcome) /\ Answer(a, Entry(Current(a).call, id, outcome))
              /\ \/ Numbered(outcome, Len(runs)) /\ outcome.run = 0
                 \/ outcome.kind \in {"value", "raised"} /\ outcome.run = Len(runs) + 1 /\ HasTools(a)
              /\ graph' \in {graph, WithNode(a, outcome)}
<1>1. /\ pc[a] \in {"calling", "invoking"} /\ ~IsExpand(Current(a))
      /\ a \in Deduping => pc[a] = "invoking"
  BY DEF InvokeTool, MayInvoke, IInv, LookedUp
<1>2. Current(a).call \in Calls
  BY <1>1, CurrentType DEF IInv, IsExpand, Requests
<1>3. missed' = [missed EXCEPT ![a] = {}] /\ UNCHANGED <<history, attempt, loaded, turns, crossed>>
  BY DEF InvokeTool
<1>4. PICK outcome \in Verdicts(a, Current(a).call) :
        /\ runs' = Runs(a, outcome)
        /\ IF a \in UseGraph
           THEN /\ graph' = WithNode(a, outcome)
                /\ Answer(a, Entry(Current(a).call, MadeUpId(graph), outcome))
           ELSE Answer(a, Entry(Current(a).call, Nothing, outcome)) /\ UNCHANGED graph
  BY DEF InvokeTool
<1>5. Len(runs) \in Nat
  BY DEF IInv, Types
<1>6. /\ outcome \in Outcomes
      /\ \/ Numbered(outcome, Len(runs)) /\ outcome.run = 0
         \/ outcome.kind \in {"value", "raised"} /\ outcome.run = Len(runs) + 1 /\ HasTools(a)
  BY <1>5, VerdictFacts
<1>7. MadeUpId(graph) \in Nat
  BY DEF IInv, GraphOK, MadeUpId
<1>8. QED
  BY <1>1, <1>2, <1>3, <1>4, <1>6, <1>7

LEMMA RunsFacts ==
  ASSUME IInv, NEW a \in Agents, NEW outcome \in Outcomes, Current(a).call \in Calls,
         runs' = Runs(a, outcome),
         \/ Numbered(outcome, Len(runs)) /\ outcome.run = 0
         \/ outcome.kind \in {"value", "raised"} /\ outcome.run = Len(runs) + 1
  PROVE  /\ runs' \in Seq(Invocations) /\ Len(runs) \in Nat /\ Len(runs') \in Nat
         /\ Len(runs) <= Len(runs') /\ Numbered(outcome, Len(runs'))
         /\ \A j \in DOMAIN runs : j \in DOMAIN runs' /\ runs'[j] = runs[j]
         /\ \A j \in DOMAIN runs' \ DOMAIN runs :
              /\ j = outcome.run /\ outcome.run # 0
              /\ runs'[j] = [call |-> Current(a).call, by |-> a, missed |-> missed[a]]
<1>1. runs \in Seq(Invocations) /\ Len(runs) \in Nat /\ DOMAIN runs = 1 .. Len(runs)
  BY DEF IInv, Types
<1>2. CASE outcome.run = 0
  <2>1. Numbered(outcome, Len(runs))
    BY <1>1, <1>2
  <2>2. runs' = runs
    BY <1>2 DEF Runs
  <2>3. QED
    BY <1>1, <2>1, <2>2
<1>3. CASE outcome.kind \in {"value", "raised"} /\ outcome.run = Len(runs) + 1
  <2>1. PICK new \in Invocations :
          new = [call |-> Current(a).call, by |-> a, missed |-> missed[a]]
    <3>1. missed[a] \in SUBSET Nat
      BY <1>1 DEF IInv, Types
    <3>2. QED
      BY <3>1 DEF Invocations
  <2>2. outcome.run # 0
    BY <1>1, <1>3
  <2>3. runs' = Append(runs, new)
    BY <2>1, <2>2 DEF Runs
  <2>4. /\ runs' \in Seq(Invocations) /\ Len(runs') = Len(runs) + 1
        /\ \A j \in 1 .. Len(runs) : runs'[j] = runs[j]
        /\ runs'[Len(runs) + 1] = new
    BY <1>1, <2>3, AppendProperties
  <2>5. DOMAIN runs' = 1 .. Len(runs) + 1
    BY <2>4
  <2>6. Numbered(outcome, Len(runs'))
    BY <1>1, <1>3, <2>4 DEF Numbered
  <2>7. QED
    BY <1>1, <1>3, <2>1, <2>2, <2>4, <2>5, <2>6
<1>4. QED
  BY <1>2, <1>3

(* A call that has invoked its tool or was refused, whether it is answered *)
(* or its step ends: the look-ups of the others stay what they were.       *)
LEMMA InvocationKeeps ==
  ASSUME IInv, NEW a \in Agents, NEW outcome \in Outcomes, NEW call, call = Current(a).call,
         pc[a] \in {"calling", "invoking"}, call \in Calls, a \in Deduping => pc[a] = "invoking",
         runs' = Runs(a, outcome),
         \/ Numbered(outcome, Len(runs)) /\ outcome.run = 0
         \/ outcome.kind \in {"value", "raised"} /\ outcome.run = Len(runs) + 1 /\ HasTools(a),
         graph' \in {graph, WithNode(a, outcome)},
         Types', Bounded', LogsOK', pc'[a] # "invoking", pc'[a] = "ready" => ~HasTools(a),
         \A i \in DOMAIN log[a] : i \in DOMAIN log'[a] /\ log'[a][i] = log[a][i],
         \A b \in Agents \ {a} :
           log'[b] = log[b] /\ pc'[b] = pc[b] /\ todo'[b] = todo[b] /\ missed'[b] = missed[b],
         outcome.run # 0 => Accounted(a, outcome.run)'
  PROVE  IInv'
<1>1. /\ runs' \in Seq(Invocations) /\ Len(runs) \in Nat /\ Len(runs') \in Nat
      /\ Len(runs) <= Len(runs') /\ Numbered(outcome, Len(runs'))
      /\ \A j \in DOMAIN runs : j \in DOMAIN runs' /\ runs'[j] = runs[j]
  BY RunsFacts
<1>2. \A j \in DOMAIN runs' \ DOMAIN runs :
        /\ j = outcome.run /\ outcome.run # 0
        /\ runs'[j] = [call |-> call, by |-> a, missed |-> missed[a]]
  BY RunsFacts
<1>3. DOMAIN runs = 1 .. Len(runs) /\ DOMAIN runs' = 1 .. Len(runs') /\ DOMAIN runs \subseteq DOMAIN runs'
  BY <1>1 DEF IInv, Types
<1>4. ASSUME NEW o, Numbered(o, Len(runs)) PROVE Numbered(o, Len(runs'))
  BY <1>1, <1>4 DEF Numbered
<1>5. ASSUME NEW j \in DOMAIN runs'
      PROVE  \E b \in Agents :
               b = runs'[j].by /\ HasTools(b) /\ pc'[b] # "ready" /\ Accounted(b, j)'
  <2>1. CASE j \in DOMAIN runs
    <3>1. PICK b \in Agents : b = runs[j].by /\ runs'[j] = runs[j]
      <4>1. runs[j] \in Invocations
        BY <2>1 DEF IInv, Types
      <4>2. QED
        BY <1>1, <2>1, <4>1 DEF Invocations
    <3>2. HasTools(b) /\ pc[b] # "ready" /\ Accounted(b, j)
      BY <2>1, <3>1 DEF IInv, Invokers
    <3>3. pc'[b] # "ready"
      BY <3>2
    <3>4. CASE Logged(b, j)
      <4>1. \A i \in DOMAIN log[b] : i \in DOMAIN log'[b] /\ log'[b][i] = log[b][i]
        OBVIOUS
      <4>2. Logged(b, j)'
        BY <3>1, <3>4, <4>1 DEF Logged
      <4>3. QED
        BY <3>1, <3>2, <3>3, <4>2 DEF Accounted
    <3>5. CASE LostToSummary(b, j)
      <4>1. b # a /\ pc'[b] = "failed"
        BY <3>5 DEF LostToSummary
      <4>2. \A k \in DOMAIN runs' : runs'[k].by = b => k \in DOMAIN runs /\ runs[k].by = b
        BY <1>1, <1>2, <4>1
      <4>3. LostToSummary(b, j)'
        BY <3>1, <3>5, <4>1, <4>2 DEF LostToSummary
      <4>4. QED
        BY <3>1, <3>2, <3>3, <4>3 DEF Accounted
    <3>6. QED
      BY <3>2, <3>4, <3>5 DEF Accounted
  <2>2. CASE j \notin DOMAIN runs
    <3>1. j = outcome.run /\ outcome.run # 0 /\ HasTools(a) /\ runs'[j].by = a
      BY <1>2, <2>2
    <3>2. QED
      BY <3>1
  <2>3. QED
    BY <2>1, <2>2
<1>6. LookedUp'
  <2>1. ASSUME NEW b \in Agents, pc'[b] = "invoking"
        PROVE  b \in Deduping /\ ~IsExpand(Current(b)') /\ Unfound(missed[b], Current(b).call)'
    <3>1. b # a
      BY <2>1
    <3>2. pc[b] = "invoking" /\ Current(b)' = Current(b) /\ missed'[b] = missed[b]
      BY <2>1, <3>1 DEF Current
    <3>3. b \in Deduping /\ ~IsExpand(Current(b)) /\ Unfound(missed[b], Current(b).call)
      BY <3>2 DEF IInv, LookedUp
    <3>4. missed[b] \subseteq DOMAIN runs
      BY DEF IInv, Types
    <3>5. QED
      BY <1>1, <3>2, <3>3, <3>4 DEF Unfound
  <2>2. ASSUME NEW j \in DOMAIN runs' PROVE runs'[j].missed \subseteq DOMAIN runs'
    <3>1. CASE j \in DOMAIN runs
      BY <1>1, <1>3, <3>1 DEF IInv, LookedUp
    <3>2. CASE j \notin DOMAIN runs
      BY <1>2, <1>3, <3>2 DEF IInv, Types
    <3>3. QED
      BY <3>1, <3>2
  <2>3. QED
    BY <2>1, <2>2 DEF LookedUp, Unfound
<1>7. InvokedAgainOnlyIfRacing'
  <2> SUFFICES ASSUME NEW j \in DOMAIN runs', runs'[j].by \in Deduping,
                      NEW i \in runs'[j].missed, runs'[i].by \in Deduping
               PROVE  runs'[i].call # runs'[j].call
    BY DEF InvokedAgainOnlyIfRacing
  <2>1. CASE j \in DOMAIN runs
    <3>1. runs'[j] = runs[j] /\ i \in DOMAIN runs /\ runs'[i] = runs[i]
      BY <1>1, <2>1 DEF IInv, LookedUp
    <3>2. QED
      BY <2>1, <3>1 DEF IInv, InvokedAgainOnlyIfRacing
  <2>2. CASE j \notin DOMAIN runs
    <3>1. runs'[j] = [call |-> call, by |-> a, missed |-> missed[a]]
      BY <1>2, <2>2
    <3>2. i \in DOMAIN runs /\ runs'[i] = runs[i]
      BY <1>1, <3>1 DEF IInv, Types
    <3>3. Unfound(missed[a], call)
      BY <3>1 DEF IInv, LookedUp
    <3>4. QED
      BY <3>1, <3>2, <3>3 DEF Unfound
  <2>3. QED
    BY <2>1, <2>2
<1>8. Invokers' /\ (\A j \in DOMAIN runs : Accounted(runs[j].by, j))'
  BY <1>5 DEF Invokers
<1>9. CASE graph' = graph
  <2>1. GraphOK'
    BY <1>4, <1>9 DEF IInv, GraphOK, Ids
  <2>2. ASSUME NEW id \in Ids(graph)
        PROVE  LET run == graph.nodes[id].carried.outcome.run IN run # 0 => runs'[run] = runs[run]
    BY <1>1, <1>3, NodeOutcome DEF Numbered
  <2>3. Keyed'
    BY <1>9, <2>2 DEF IInv, Keyed, Ids
  <2>4. QED
    BY <1>6, <1>7, <1>8, <2>1, <2>3 DEF IInv
<1>10. CASE graph' = WithNode(a, outcome)
  <2> DEFINE key == IF a \in Dedup THEN call ELSE Nothing
             carried == [call |-> call, outcome |-> outcome]
             new == graph.auto
  <2>1. graph' = AddNode(graph, Nothing, {}, key, carried)
    BY <1>10 DEF WithNode, DedupKey
  <2> HIDE DEF key, carried
  <2>2. /\ graph'.dedup = Register(graph, key, new)
        /\ new \in Nat \ {0} /\ new \notin Ids(graph)
        /\ Ids(graph') = Ids(graph) \cup {new}
        /\ graph'.nodes[new] = Node(new, {}, carried)
        /\ \A id \in Ids(graph) : graph'.nodes[id] = graph.nodes[id]
    BY <2>1, AddNodeFacts
  <2>3. \A id \in Ids(graph) : id \in Nat /\ id < new
    BY NodeOutcome
  <2>4. carried.outcome = outcome
    BY DEF carried
  <2>5. /\ a \in Dedup => graph'.dedup = Put(graph.dedup, call, new)
        /\ a \notin Dedup => graph'.dedup = graph.dedup
    BY <2>2, NothingIsNew DEF Register, key
  <2>6. GraphOK'
    <3>1. ASSUME NEW id \in Ids(graph')
          PROVE  LET node == graph'.nodes[id] IN
                 /\ id \in Nat /\ id < new + 1 /\ node.seq = id
                 /\ node = Node(id, node.edges, node.carried)
                 /\ Numbered(node.carried.outcome, Len(runs'))
      <4>1. CASE id = new
        BY <1>1, <2>2, <2>4, <4>1 DEF Node
      <4>2. CASE id \in Ids(graph)
        <5>1. id \in Nat /\ id < new + 1
          BY <2>2, <2>3, <4>2
        <5>2. /\ graph.nodes[id].seq = id /\ Numbered(graph.nodes[id].carried.outcome, Len(runs'))
              /\ graph.nodes[id] = Node(id, graph.nodes[id].edges, graph.nodes[id].carried)
          BY <1>4, <4>2 DEF IInv, GraphOK
        <5>3. QED
          BY <2>2, <4>2, <5>1, <5>2
      <4>3. QED
        BY <2>2, <4>1, <4>2
    <3>2. \A k \in DOMAIN graph'.dedup : graph'.dedup[k] \in Nat
      BY <2>2, <2>5 DEF IInv, GraphOK, Put
    <3>3. /\ graph'.auto = new + 1 /\ graph'.seq = new + 1 /\ new + 1 \in Nat \ {0}
          /\ graph' = Graph(graph')
      BY <2>1, <2>2, AddNodeFacts
    <3>4. QED
      BY <3>1, <3>2, <3>3 DEF GraphOK, Ids
  <2>7. Keyed'
    <3> SUFFICES ASSUME NEW id \in Ids(graph'), NEW run, NEW c,
                        run = graph'.nodes[id].carried.outcome.run,
                        run # 0, runs'[run].by \in Deduping, c = runs'[run].call
                 PROVE  /\ c \in DOMAIN graph'.dedup /\ graph'.dedup[c] \in Ids(graph')
                        /\ graph'.dedup[c] >= id
      BY DEF Keyed, Ids
    <3>1. CASE id = new
      <4>1. run = outcome.run /\ run = Len(runs) + 1
        BY <2>2, <2>4, <3>1 DEF Node
      <4>2. run \in DOMAIN runs' \ DOMAIN runs
        BY <1>1, <1>3, <4>1 DEF Numbered
      <4>3. runs'[run].call = call /\ runs'[run].by = a
        BY <1>2, <4>2
      <4>4. graph'.dedup = Put(graph.dedup, call, new)
        BY <2>5, <4>3 DEF Deduping
      <4>5. c \in DOMAIN graph'.dedup /\ graph'.dedup[c] = new
        BY <4>3, <4>4 DEF Put
      <4>6. new \in Ids(graph') /\ new >= new
        BY <2>2
      <4>7. QED
        BY <3>1, <4>5, <4>6
    <3>2. CASE id \in Ids(graph)
      <4>1. run = graph.nodes[id].carried.outcome.run
        BY <2>2, <3>2
      <4>2. run \in DOMAIN runs
        BY <1>3, <3>2, <4>1, NodeOutcome DEF Numbered
      <4>3. c = runs[run].call
        BY <1>1, <4>2
      <4>4. /\ c \in DOMAIN graph.dedup /\ graph.dedup[c] \in Ids(graph)
            /\ graph.dedup[c] >= id
        BY <1>1, <3>2, <4>1, <4>2, <4>3 DEF IInv, Keyed
      <4>5. id \in Nat /\ id < new
        BY <2>3, <3>2
      <4>6. c \in DOMAIN graph'.dedup /\ graph'.dedup[c] \in {graph.dedup[c], new}
        BY <2>5, <4>4 DEF Put
      <4>7. new \in Ids(graph') /\ new >= id /\ Ids(graph) \subseteq Ids(graph')
        BY <2>2, <4>5
      <4>8. QED
        BY <4>4, <4>6, <4>7
    <3>3. QED
      BY <2>2, <3>1, <3>2
  <2>8. QED
    BY <1>6, <1>7, <1>8, <2>6, <2>7 DEF IInv
<1>11. QED
  BY <1>9, <1>10

LEMMA InvokeToolKeeps == ASSUME IInv, NEW a \in Agents, InvokeTool(a) PROVE IInv'
<1> DEFINE call == Current(a).call
<1>1. /\ pc[a] \in {"calling", "invoking"} /\ call \in Calls /\ (a \in Deduping => pc[a] = "invoking")
      /\ missed' = [missed EXCEPT ![a] = {}] /\ UNCHANGED <<attempt, loaded, crossed>>
  BY InvokeToolFacts
<1>2. PICK outcome \in Outcomes, given \in Nat \cup {Nothing} :
        /\ runs' = Runs(a, outcome) /\ Answer(a, Entry(call, given, outcome))
        /\ \/ Numbered(outcome, Len(runs)) /\ outcome.run = 0
           \/ outcome.kind \in {"value", "raised"} /\ outcome.run = Len(runs) + 1 /\ HasTools(a)
        /\ graph' \in {graph, WithNode(a, outcome)}
  BY InvokeToolFacts
<1>3. /\ runs' \in Seq(Invocations) /\ Len(runs) \in Nat /\ Len(runs') \in Nat
      /\ Len(runs) <= Len(runs') /\ Numbered(outcome, Len(runs'))
      /\ \A j \in DOMAIN runs : j \in DOMAIN runs' /\ runs'[j] = runs[j]
  BY <1>1, <1>2, RunsFacts
<1>4. DOMAIN runs = 1 .. Len(runs) /\ DOMAIN runs' = 1 .. Len(runs') /\ DOMAIN runs \subseteq DOMAIN runs'
  BY <1>3 DEF IInv, Types
<1>5. ASSUME NEW o, Numbered(o, Len(runs)) PROVE Numbered(o, Len(runs'))
  BY <1>3, <1>5 DEF Numbered
<1>6. PICK entry \in Entries :
        entry = Entry(call, given, outcome) /\ entry.outcome = outcome /\ entry.call = call
  BY <1>1, EntryType
<1>7. /\ log' = [log EXCEPT ![a] = Append(log[a], entry)] /\ log' \in [Agents -> Seq(Entries)]
      /\ todo' = [todo EXCEPT ![a] = Tail(todo[a])] /\ todo' \in [Agents -> Seq(Requests)]
      /\ tries' \in [Agents -> Nat] /\ \A b \in Agents : tries'[b] <= Retries[b]
      /\ turn' \in [Agents -> Nat] /\ \A b \in Agents : turn'[b] < MaxTurns[b]
  BY <1>1, <1>2, <1>6, AnswerFacts DEF IInv
<1>8. PICK to \in {"calling", "asking", "ready", "failed"} :
        /\ pc' = [pc EXCEPT ![a] = to]
        /\ to = "calling" <=> todo'[a] # << >>
        /\ to = "ready" => ~HasTools(a)
  BY <1>1, <1>2, <1>6, AnswerFacts DEF IInv
<1>9. Types'
  <2>1. missed' \in [Agents -> SUBSET (DOMAIN runs')]
    BY <1>1, <1>4 DEF IInv, Types
  <2>2. pc' \in [Agents -> Positions]
    BY <1>8 DEF IInv, Types, Positions
  <2>3. QED
    BY <1>1, <1>3, <1>7, <2>1, <2>2 DEF IInv, Types
<1>10. Bounded'
  BY <1>1, <1>7, <1>8 DEF IInv, Types, Bounded
<1>11. /\ \A i \in DOMAIN log[a] : i \in DOMAIN log'[a] /\ log'[a][i] = log[a][i]
       /\ \A i \in DOMAIN log'[a] : i \in DOMAIN log[a] \/ log'[a][i] = entry
       /\ Len(log[a]) + 1 \in DOMAIN log'[a] /\ log'[a][Len(log[a]) + 1] = entry
  <2>1. log[a] \in Seq(Entries) /\ log'[a] = Append(log[a], entry)
    BY <1>7 DEF IInv, Types
  <2>2. /\ log'[a] \in Seq(Entries) /\ Len(log'[a]) = Len(log[a]) + 1
        /\ \A i \in 1 .. Len(log[a]) : log'[a][i] = log[a][i]
        /\ log'[a][Len(log[a]) + 1] = entry
    BY <2>1, AppendProperties
  <2>3. DOMAIN log'[a] = 1 .. Len(log[a]) + 1 /\ DOMAIN log[a] = 1 .. Len(log[a]) /\ Len(log[a]) \in Nat
    BY <2>1, <2>2
  <2>4. QED
    BY <2>2, <2>3
<1>12. \A b \in Agents \ {a} :
         log'[b] = log[b] /\ pc'[b] = pc[b] /\ todo'[b] = todo[b] /\ missed'[b] = missed[b]
  BY <1>1, <1>7, <1>8 DEF IInv, Types
<1>13. LogsOK'
  <2> SUFFICES ASSUME NEW b \in Agents, NEW i \in DOMAIN log'[b]
               PROVE  Numbered(log'[b][i].outcome, Len(runs'))
    BY DEF LogsOK
  <2>1. CASE i \in DOMAIN log[b] /\ log'[b][i] = log[b][i]
    BY <1>5, <2>1 DEF IInv, LogsOK
  <2>2. CASE b = a /\ log'[b][i] = entry
    BY <1>3, <1>6, <2>2
  <2>3. QED
    BY <1>11, <1>12, <2>1, <2>2
<1>14. outcome.run # 0 => Accounted(a, outcome.run)'
  <2> SUFFICES ASSUME outcome.run # 0 PROVE Logged(a, outcome.run)'
    BY DEF Accounted
  <2>1. outcome.run = Len(runs) + 1
    BY <1>2
  <2>2. runs'[outcome.run].call = call
    <3>1. runs' = Append(runs, [call |-> call, by |-> a, missed |-> missed[a]])
      BY <1>2 DEF Runs
    <3>2. QED
      BY <2>1, <3>1 DEF IInv, Types
  <2>3. QED
    BY <1>6, <1>11, <2>2 DEF Logged
<1>15. pc'[a] # "invoking" /\ (pc'[a] = "ready" => ~HasTools(a))
  BY <1>8 DEF IInv, Types
<1>16. QED
  BY <1>1, <1>2, <1>9, <1>10, <1>11, <1>12, <1>13, <1>14, <1>15, InvocationKeeps

LEMMA SummaryRaisesKeeps == ASSUME IInv, NEW a \in Agents, SummaryRaises(a) PROVE IInv'
<1> DEFINE call == Current(a).call
<1>1. /\ pc[a] \in {"calling", "invoking"} /\ ~IsExpand(Current(a))
      /\ a \in Deduping => pc[a] = "invoking"
  BY DEF SummaryRaises, MayInvoke, IInv, LookedUp
<1>2. call \in Calls
  BY <1>1, CurrentType DEF IInv, IsExpand, Requests
<1>3. /\ a \in UseGraph /\ call \in Unsummarizable /\ Raise(a)
      /\ todo' = [todo EXCEPT ![a] = << >>] /\ missed' = [missed EXCEPT ![a] = {}]
      /\ UNCHANGED <<turn, attempt, log, loaded, crossed>>
  BY DEF SummaryRaises
<1>4. PICK outcome \in Verdicts(a, call) :
        /\ outcome.kind = "value" /\ runs' = Runs(a, outcome)
        /\ graph' \in {graph, WithNode(a, outcome)}
  BY DEF SummaryRaises
<1>5. runs \in Seq(Invocations) /\ Len(runs) \in Nat /\ DOMAIN runs = 1 .. Len(runs)
  BY DEF IInv, Types
<1>6. outcome \in Outcomes /\ outcome.run = Len(runs) + 1 /\ outcome.run # 0 /\ HasTools(a)
  BY <1>4, <1>5, VerdictFacts
<1>7. /\ pc' = [pc EXCEPT ![a] = "failed"] /\ tries' \in [Agents -> Nat]
      /\ \A b \in Agents : tries'[b] <= Retries[b]
  BY <1>3, <1>6, RaiseFacts DEF IInv
<1>8. /\ runs' \in Seq(Invocations) /\ Len(runs) <= Len(runs')
      /\ \A j \in DOMAIN runs : j \in DOMAIN runs' /\ runs'[j] = runs[j]
  BY <1>2, <1>4, <1>6, RunsFacts
<1>9. runs' = Append(runs, [call |-> call, by |-> a, missed |-> missed[a]])
  BY <1>4, <1>6 DEF Runs
<1>10. /\ DOMAIN runs' = 1 .. Len(runs) + 1 /\ runs'[Len(runs) + 1].call = call
       /\ Len(runs') = Len(runs) + 1
  BY <1>5, <1>9
<1>11. Types'
  <2>1. << >> \in Seq(Requests)
    OBVIOUS
  <2>2. todo' \in [Agents -> Seq(Requests)]
    BY <1>3, <2>1 DEF IInv, Types
  <2>3. missed' \in [Agents -> SUBSET (DOMAIN runs')]
    BY <1>3, <1>8 DEF IInv, Types
  <2>4. pc' \in [Agents -> Positions]
    BY <1>7 DEF IInv, Types, Positions
  <2>5. QED
    BY <1>3, <1>7, <1>8, <2>2, <2>3, <2>4 DEF IInv, Types
<1>12. Bounded'
  BY <1>3, <1>7 DEF IInv, Types, Bounded
<1>13. LogsOK'
  BY <1>3, <1>5, <1>10 DEF IInv, LogsOK, Numbered
<1>14. Accounted(a, outcome.run)'
  <2>1. pc'[a] = "failed"
    BY <1>7 DEF IInv, Types
  <2>2. runs'[outcome.run].call \in Unsummarizable
    BY <1>3, <1>6, <1>10
  <2>3. \A k \in DOMAIN runs' : k <= outcome.run
    BY <1>5, <1>6, <1>10
  <2>4. QED
    BY <1>3, <2>1, <2>2, <2>3 DEF Accounted, LostToSummary
<1>15. pc'[a] # "invoking" /\ pc'[a] # "ready"
  BY <1>7 DEF IInv, Types
<1>16. \A b \in Agents \ {a} :
         log'[b] = log[b] /\ pc'[b] = pc[b] /\ todo'[b] = todo[b] /\ missed'[b] = missed[b]
  BY <1>3, <1>7 DEF IInv, Types
<1>17. outcome.kind \in {"value", "raised"}
  BY <1>4
<1>18. QED
  BY <1>1, <1>2, <1>3, <1>4, <1>6, <1>11, <1>12, <1>13, <1>14, <1>15, <1>16, <1>17, InvocationKeeps

-----------------------------------------------------------------------------
(* The owner folds the oldest nodes.                                       *)

LEMMA CollapseFacts ==
  ASSUME IInv, NEW ids \in SUBSET Ids(graph), NEW carried,
         NEW folded, folded = Collapse(graph, ids, carried)
  PROVE  /\ folded = Graph(folded) /\ folded.dedup = graph.dedup
         /\ folded.seq = graph.auto + 1 /\ folded.auto = graph.auto + 1
         /\ Ids(folded) = (Ids(graph) \ ids) \cup {graph.auto}
         /\ folded.nodes[graph.auto] = Node(graph.auto, {}, carried)
         /\ \A id \in Ids(graph) \ ids :
              folded.nodes[id] = Node(id, folded.nodes[id].edges, graph.nodes[id].carried)
<1> DEFINE new == graph.auto
<1>1. PICK big : big = AddNode(graph, Nothing, {}, Nothing, carried)
  OBVIOUS
<1>2. /\ big = Graph(big) /\ big.seq = new + 1 /\ big.auto = new + 1
      /\ big.dedup = Register(graph, Nothing, new) /\ new \notin Ids(graph)
      /\ Ids(big) = Ids(graph) \cup {new} /\ big.nodes[new] = Node(new, {}, carried)
      /\ \A id \in Ids(graph) : big.nodes[id] = graph.nodes[id]
  BY <1>1, AddNodeFacts
<1>3. PICK kept : kept = Restrict(big.nodes, Ids(big) \ ids)
  OBVIOUS
<1>4. /\ DOMAIN kept = (Ids(graph) \ ids) \cup {new} /\ kept[new] = Node(new, {}, carried)
      /\ \A id \in Ids(graph) \ ids : kept[id] = graph.nodes[id]
  BY <1>2, <1>3 DEF Restrict
<1>5. PICK relinked : relinked = RelinkedNodes(kept, ids, new)
  OBVIOUS
<1>6. folded = [nodes |-> relinked, seq |-> big.seq, auto |-> big.auto, dedup |-> big.dedup]
  <2>1. RemoveNodes(big, ids) = [nodes |-> kept, seq |-> big.seq, auto |-> big.auto, dedup |-> big.dedup]
    BY <1>2, <1>3 DEF RemoveNodes, Graph, Ids
  <2>2. folded = [RemoveNodes(big, ids) EXCEPT !.nodes = RelinkedNodes(@, ids, new)]
    BY <1>1 DEF Collapse, MadeUpId
  <2>3. QED
    BY <1>5, <2>1, <2>2
<1>7. DOMAIN relinked = (Ids(graph) \ ids) \cup {new} /\ relinked[new] = Node(new, {}, carried)
  BY <1>4, <1>5 DEF RelinkedNodes
<1>8. ASSUME NEW id \in Ids(graph) \ ids
      PROVE  relinked[id] = Node(id, relinked[id].edges, graph.nodes[id].carried)
  <2>1. id # new /\ id \in DOMAIN kept /\ kept[id] = graph.nodes[id]
    BY <1>2, <1>4
  <2>2. PICK edges : edges = Relinked(kept[id].edges, ids, new)
    OBVIOUS
  <2>3. relinked[id] = [kept[id] EXCEPT !.edges = Relinked(@, ids, new)]
    BY <1>5, <2>1 DEF RelinkedNodes
  <2>4. kept[id] = Node(id, graph.nodes[id].edges, graph.nodes[id].carried)
    BY <2>1 DEF IInv, GraphOK
  <2>5. relinked[id] = Node(id, edges, graph.nodes[id].carried)
    BY <2>2, <2>3, <2>4 DEF Node
  <2>6. QED
    BY <2>5 DEF Node
<1>9. folded.dedup = graph.dedup
  BY <1>2, <1>6 DEF Register
<1>10. QED
  BY <1>2, <1>6, <1>7, <1>8, <1>9 DEF Graph, Ids

(* What is folded is older than what is not.                               *)
LEMMA OldestFirst ==
  ASSUME IInv, NEW n \in Nat, NEW id \in Ids(graph) \ Oldest(graph, n),
         NEW later \in Ids(graph), later >= id
  PROVE  later \notin Oldest(graph, n)
<1> DEFINE Below(x) == {other \in Ids(graph) : graph.nodes[other].seq < graph.nodes[x].seq}
<1>1. \A x \in Ids(graph) : x \in Nat /\ x < graph.auto /\ graph.nodes[x].seq = x
  BY NodeOutcome
<1>2. graph.auto \in Nat
  BY DEF IInv, GraphOK
<1>3. IsFiniteSet(Below(later)) /\ Cardinality(Below(later)) \in Nat
  <2>1. Below(later) \in SUBSET Nat /\ \A x \in Below(later) : x <= graph.auto
    BY <1>1, <1>2
  <2>2. QED
    BY <1>2, <2>1, FS_BoundedSetOfNaturals, FS_CardinalityType
<1>4. Below(id) \subseteq Below(later)
  BY <1>1
<1>5. Cardinality(Below(id)) \in Nat /\ Cardinality(Below(id)) <= Cardinality(Below(later))
  BY <1>3, <1>4, FS_Subset, FS_CardinalityType
<1>6. ~(Cardinality(Below(id)) < n)
  BY DEF Oldest
<1>7. ~(Cardinality(Below(later)) < n)
  BY <1>3, <1>5, <1>6
<1>8. QED
  BY <1>7 DEF Oldest

LEMMA FoldGraphKeeps == ASSUME IInv, FoldGraph PROVE IInv'
<1> DEFINE carried == [call |-> Nothing, outcome |-> Refused("fact")]
           ids == Oldest(graph, Batch)
           new == graph.auto
<1>1. graph' = Collapse(graph, ids, carried) /\ UNCHANGED <<pc, local, runs, crossed>>
  BY DEF FoldGraph
<1>2. UNCHANGED <<tries, turn, attempt, todo, log, loaded, missed>>
  BY <1>1 DEF local
<1>3. Types' /\ Bounded' /\ LogsOK' /\ Invokers' /\ LookedUp' /\ InvokedAgainOnlyIfRacing'
  <2>1. Types' /\ Bounded'
    BY <1>1, <1>2 DEF IInv, Types, Bounded
  <2>2. LogsOK' /\ Invokers' /\ InvokedAgainOnlyIfRacing'
    BY <1>1, <1>2 DEF IInv, LogsOK, Invokers, InvokedAgainOnlyIfRacing
  <2>3. LookedUp'
    BY <1>1, <1>2 DEF IInv, LookedUp, Unfound, Current
  <2>4. QED
    BY <2>1, <2>2, <2>3
<1>4. (\A j \in DOMAIN runs : Accounted(runs[j].by, j))'
  BY <1>1, <1>2 DEF IInv, Accounted, Logged, LostToSummary
<1>5. ids \subseteq Ids(graph) /\ Batch \in Nat
  BY OwnerAssumption DEF Oldest
<1>6. Numbered(carried.outcome, Len(runs)) /\ carried.outcome.run = 0
  BY DEF Numbered, Refused, Outcomes, Kinds
<1> HIDE DEF ids, carried
<1>7. /\ graph' = Graph(graph') /\ graph'.dedup = graph.dedup
      /\ graph'.seq = new + 1 /\ graph'.auto = new + 1
      /\ Ids(graph') = (Ids(graph) \ ids) \cup {new}
      /\ graph'.nodes[new] = Node(new, {}, carried)
      /\ \A id \in Ids(graph) \ ids :
           graph'.nodes[id] = Node(id, graph'.nodes[id].edges, graph.nodes[id].carried)
  <2>1. PICK some \in SUBSET Ids(graph) : some = ids
    BY <1>5
  <2>2. PICK facts, folded : facts = carried /\ folded = graph'
    OBVIOUS
  <2>3. folded = Collapse(graph, some, facts)
    BY <1>1, <2>1, <2>2
  <2>4. /\ folded = Graph(folded) /\ folded.dedup = graph.dedup
        /\ folded.seq = new + 1 /\ folded.auto = new + 1
        /\ Ids(folded) = (Ids(graph) \ some) \cup {new}
        /\ folded.nodes[new] = Node(new, {}, facts)
        /\ \A id \in Ids(graph) \ some :
             folded.nodes[id] = Node(id, folded.nodes[id].edges, graph.nodes[id].carried)
    BY <2>3, CollapseFacts
  <2>5. QED
    BY <2>1, <2>2, <2>4
<1>8. new \in Nat \ {0}
  BY DEF IInv, GraphOK
<1>9. GraphOK'
  <2>1. ASSUME NEW id \in Ids(graph')
        PROVE  LET node == graph'.nodes[id] IN
               /\ id \in Nat /\ id < new + 1 /\ node.seq = id
               /\ node = Node(id, node.edges, node.carried)
               /\ Numbered(node.carried.outcome, Len(runs))
    <3>1. CASE id = new
      BY <1>6, <1>7, <1>8, <3>1 DEF Node
    <3>2. CASE id \in Ids(graph) \ ids
      <4>1. id \in Nat /\ id < new + 1
        BY <1>8, <3>2, NodeOutcome
      <4>2. Numbered(graph.nodes[id].carried.outcome, Len(runs))
        BY <3>2, NodeOutcome
      <4>3. graph'.nodes[id] = Node(id, graph'.nodes[id].edges, graph.nodes[id].carried)
        BY <1>7, <3>2
      <4>4. graph'.nodes[id].seq = id /\ graph'.nodes[id].carried = graph.nodes[id].carried
        BY <4>3 DEF Node
      <4>5. QED
        BY <4>1, <4>2, <4>3, <4>4
    <3>3. QED
      BY <1>7, <3>1, <3>2
  <2>2. \A k \in DOMAIN graph'.dedup : graph'.dedup[k] \in Nat
    BY <1>7 DEF IInv, GraphOK
  <2>3. graph'.auto \in Nat \ {0} /\ graph'.seq = graph'.auto
    BY <1>7, <1>8
  <2>4. QED
    BY <1>1, <1>7, <2>1, <2>2, <2>3 DEF GraphOK, Ids
<1>10. Keyed'
  <2> SUFFICES ASSUME NEW id \in Ids(graph'), NEW run, NEW c,
                      run = graph'.nodes[id].carried.outcome.run,
                      run # 0, runs[run].by \in Deduping, c = runs[run].call
               PROVE  /\ c \in DOMAIN graph'.dedup /\ graph'.dedup[c] \in Ids(graph')
                      /\ graph'.dedup[c] >= id
    BY <1>1 DEF Keyed, Ids
  <2>1. id # new
    BY <1>6, <1>7 DEF Node
  <2>2. id \in Ids(graph) \ ids /\ graph'.nodes[id].carried = graph.nodes[id].carried
    <3>1. id \in Ids(graph) \ ids
      BY <1>7, <2>1
    <3>2. graph'.nodes[id] = Node(id, graph'.nodes[id].edges, graph.nodes[id].carried)
      BY <1>7, <3>1
    <3>3. QED
      BY <3>1, <3>2 DEF Node
  <2>3. /\ c \in DOMAIN graph.dedup /\ graph.dedup[c] \in Ids(graph)
        /\ graph.dedup[c] >= id
    BY <2>2 DEF IInv, Keyed
  <2>4. graph.dedup[c] \notin ids
    BY <1>5, <2>2, <2>3, OldestFirst DEF ids
  <2>5. QED
    BY <1>7, <2>3, <2>4
<1>11. QED
  BY <1>3, <1>4, <1>9, <1>10 DEF IInv

-----------------------------------------------------------------------------
(* The invariant, and what follows.                                        *)

LEMMA InitIInv == Init => IInv
<1> SUFFICES ASSUME Init PROVE IInv
  OBVIOUS
<1>1. runs = << >> /\ Len(runs) = 0 /\ DOMAIN runs = {}
  BY DEF Init
<1>2. Types
  <2>1. << >> \in Seq(Requests) /\ << >> \in Seq(Entries) /\ runs \in Seq(Invocations)
    BY <1>1
  <2>2. QED
    BY <2>1 DEF Init, Types, Positions
<1>3. Bounded
  BY AgentsAssumption DEF Init, Bounded
<1>4. GraphOK
  <2>1. ASSUME NEW n \in 1 .. Before
        PROVE  graph.nodes[n] = Node(n, {}, [call |-> Nothing, outcome |-> Refused("fact")])
    BY <2>1 DEF Init, FirstGraph, Node
  <2>2. Numbered(Refused("fact"), Len(runs))
    BY DEF Numbered, Refused, Outcomes, Kinds
  <2>3. /\ Ids(graph) = 1 .. Before /\ graph.auto = Before + 1 /\ graph.seq = Before + 1
        /\ DOMAIN graph.dedup = {} /\ graph = Graph(graph)
    BY DEF Init, FirstGraph, Ids, Graph
  <2>4. ASSUME NEW id \in Ids(graph)
        PROVE  LET node == graph.nodes[id] IN
               /\ id \in Nat /\ id < graph.auto /\ node.seq = id
               /\ node = Node(id, node.edges, node.carried)
               /\ Numbered(node.carried.outcome, Len(runs))
    <3>1. id \in Nat /\ id < graph.auto /\ id \in 1 .. Before
      BY <2>3, OwnerAssumption
    <3>2. graph.nodes[id] = Node(id, {}, [call |-> Nothing, outcome |-> Refused("fact")])
      BY <2>1, <3>1
    <3>3. QED
      BY <2>2, <3>1, <3>2 DEF Node
  <2>5. graph.auto \in Nat \ {0}
    BY <2>3, OwnerAssumption
  <2>6. QED
    BY <2>3, <2>4, <2>5 DEF GraphOK
<1>5. Keyed
  <2>1. ASSUME NEW id \in Ids(graph) PROVE graph.nodes[id].carried.outcome.run = 0
    BY DEF Init, FirstGraph, Ids, Refused
  <2>2. QED
    BY <2>1 DEF Keyed
<1>6. LogsOK /\ Invokers /\ LookedUp /\ InvokedAgainOnlyIfRacing
  BY <1>1 DEF Init, LogsOK, Invokers, LookedUp, InvokedAgainOnlyIfRacing
<1>7. QED
  BY <1>1, <1>2, <1>3, <1>4, <1>5, <1>6 DEF IInv

LEMMA StepIInv == IInv /\ [Next]_vars => IInv'
<1> SUFFICES ASSUME IInv, [Next]_vars PROVE IInv'
  OBVIOUS
<1>1. CASE UNCHANGED vars
  <2>1. UNCHANGED <<graph, pc, runs, crossed>> /\ UNCHANGED local
    BY <1>1 DEF vars
  <2>2. UNCHANGED <<tries, turn, attempt, todo, log, loaded, missed>>
    BY <2>1 DEF local
  <2>3. Types' /\ Bounded'
    BY <2>1, <2>2 DEF IInv, Types, Bounded
  <2>4. LogsGrow
    BY <2>1, <2>2 DEF LogsGrow
  <2>5. LookUpsStay
    BY <2>1, <2>2 DEF IInv, LookedUp, LookUpsStay, Current, Unfound
  <2>6. QED
    BY <2>1, <2>3, <2>4, <2>5, QuietKeeps
<1>2. CASE FoldGraph
  BY <1>2, FoldGraphKeeps
<1>3. ASSUME NEW a \in Agents, Step(a) PROVE IInv'
  BY <1>3, ExecuteKeeps, GenerateAnswerKeeps, RememberTurnKeeps, GenerateCallsKeeps,
     GenerateRaisesKeeps, ReuseNodeKeeps, MissNodeKeeps, InvokeToolKeeps, SummaryRaisesKeeps,
     ExpandNodeKeeps DEF Step
<1>4. QED
  BY <1>1, <1>2, <1>3 DEF Next

LEMMA Invariance == Spec => []IInv
BY InitIInv, StepIInv, PTL DEF Spec

(* The agents keep the types of their state, and no more tries, attempts   *)
(* and turns than retries= and max_turns allow; every outcome in a log is  *)
(* numbered by an invocation exactly when there was one.                   *)
THEOREM TypeCorrect == Spec => []TypeOK
<1>1. IInv => TypeOK
  <2> SUFFICES ASSUME IInv PROVE TypeOK
    OBVIOUS
  <2>1. /\ pc \in [Agents -> Positions] /\ missed \in [Agents -> SUBSET (DOMAIN runs)]
        /\ crossed \in BOOLEAN /\ DOMAIN runs = 1 .. Len(runs)
    BY DEF IInv, Types
  <2>2. ASSUME NEW a \in Agents
        PROVE  /\ tries[a] \in 0 .. Retries[a] /\ attempt[a] \in 0 .. Retries[a]
               /\ turn[a] \in 0 .. MaxTurns[a] - 1
               /\ (pc[a] \in {"calling", "invoking"}) <=> (todo[a] # << >> /\ ~Ended(a))
    <3>1. /\ tries[a] \in Nat /\ attempt[a] \in Nat /\ turn[a] \in Nat
          /\ Retries[a] \in Nat /\ MaxTurns[a] \in Nat
      BY AgentsAssumption DEF IInv, Types
    <3>2. /\ tries[a] <= Retries[a] /\ attempt[a] <= Retries[a] /\ turn[a] < MaxTurns[a]
          /\ pc[a] \in {"calling", "invoking"} <=> todo[a] # << >>
      BY DEF IInv, Bounded
    <3>3. QED
      BY <3>1, <3>2 DEF Ended
  <2>3. ASSUME NEW a \in Agents, NEW i \in DOMAIN log[a]
        PROVE  LET outcome == log[a][i].outcome IN
               /\ outcome.kind \in Kinds
               /\ outcome.run \in IF outcome.kind \in {"value", "raised"} THEN DOMAIN runs ELSE {0}
    <3>1. Numbered(log[a][i].outcome, Len(runs))
      BY DEF IInv, LogsOK
    <3>2. QED
      BY <2>1, <3>1 DEF Numbered, Outcomes
  <2>4. QED
    BY <2>1, <2>2, <2>3 DEF TypeOK, Positions
<1>2. QED
  BY <1>1, Invariance, PTL

(* model_agent.py:574-605: whatever the agents, their calls and the times  *)
(* at which the owner folds the graph, agents that share it invoke a call  *)
(* again only if they looked it up while no node answered for it.          *)
THEOREM AgainOnlyIfRacing == Spec => []InvokedAgainOnlyIfRacing
<1>1. IInv => InvokedAgainOnlyIfRacing
  BY DEF IInv
<1>2. QED
  BY <1>1, Invariance, PTL

(* model_agent.py:117-127 and 518-531: nothing that is retried has invoked *)
(* a tool, for any number of retries: each of a step's invocations is in   *)
(* its tool_call_log, but for the last one before a step failed on the     *)
(* summary of what that invocation returned.                               *)
THEOREM InvocationsAreAccounted == Spec => []InvocationsAccounted
<1>1. IInv => InvocationsAccounted
  BY DEF IInv, Accounted, InvocationsAccounted
<1>2. QED
  BY <1>1, Invariance, PTL

-----------------------------------------------------------------------------
(* The shared conversation.                                                *)

LEMMA InitOneRemembers == Init => OneRemembers
BY DEF Init, OneRemembers

LEMMA StepOneRemembers == IInv /\ OneRemembers /\ [Next]_vars => OneRemembers'
<1> SUFFICES ASSUME IInv, OneRemembers, [Next]_vars, ~crossed' PROVE OneRemembers'
  BY DEF OneRemembers
<1>1. ASSUME NEW a \in Agents, GenerateAnswer(a) PROVE OneRemembers'
  <2>1. pc[a] = "asking" /\ history' = history /\ turns' = turns
    BY <1>1 DEF GenerateAnswer
  <2>2. CASE a \in Remembering
    <3>1. /\ pc' = [pc EXCEPT ![a] = "remembering"] /\ loaded' = [loaded EXCEPT ![a] = history]
          /\ ~crossed /\ \A b \in Agents : pc[b] # "remembering"
      BY <1>1, <2>2 DEF GenerateAnswer, LoadHistory
    <3>2. QED
      BY <2>1, <3>1 DEF OneRemembers, IInv, Types
  <2>3. CASE a \notin Remembering
    <3>1. FinalizeOutput(a) /\ UNCHANGED <<loaded, crossed>>
      BY <1>1, <2>3 DEF GenerateAnswer
    <3>2. \A b \in Agents : pc'[b] = "remembering" => pc[b] = "remembering"
      BY <3>1, FinalizeFacts DEF IInv, Types
    <3>3. QED
      BY <2>1, <3>1, <3>2 DEF OneRemembers
  <2>4. QED
    BY <2>2, <2>3
<1>2. ASSUME NEW a \in Agents, RememberTurn(a) PROVE OneRemembers'
  <2> DEFINE said == [agent |-> a, try |-> tries[a]]
  <2>1. /\ pc[a] = "remembering" /\ history' = Append(loaded[a], said) /\ turns' = Append(turns, said)
        /\ FinalizeOutput(a) /\ UNCHANGED <<loaded, crossed>>
    BY <1>2 DEF RememberTurn
  <2>2. history = turns /\ loaded[a] = history /\ \A b \in Agents : pc[b] = "remembering" => b = a
    BY <2>1 DEF OneRemembers
  <2>3. \A b \in Agents : pc'[b] # "remembering"
    <3>1. PICK to \in {"ready", "failed", "succeeded"} : pc' = [pc EXCEPT ![a] = to]
      BY <2>1, FinalizeFacts DEF IInv
    <3>2. DOMAIN pc = Agents
      BY DEF IInv, Types
    <3>3. QED
      BY <2>2, <3>1, <3>2
  <2>4. QED
    BY <2>1, <2>2, <2>3 DEF OneRemembers
<1>3. ASSUME UNCHANGED <<history, turns, crossed>>,
             \A b \in Agents : pc'[b] = "remembering" =>
               pc[b] = "remembering" /\ loaded'[b] = loaded[b]
      PROVE  OneRemembers'
  BY <1>3 DEF OneRemembers
<1>4. ASSUME NEW a \in Agents, Execute(a) PROVE OneRemembers'
  BY <1>3, <1>4 DEF Execute, IInv, Types
<1>5. ASSUME NEW a \in Agents, GenerateCalls(a) \/ MissNode(a) PROVE OneRemembers'
  BY <1>3, <1>5 DEF GenerateCalls, MissNode, IInv, Types
<1>6. ASSUME NEW a \in Agents, GenerateRaises(a) PROVE OneRemembers'
  <2>1. pc' = pc \/ \E to \in {"ready", "failed"} : pc' = [pc EXCEPT ![a] = to]
    BY <1>6, RaiseFacts DEF GenerateRaises, IInv
  <2>2. QED
    BY <1>3, <1>6, <2>1 DEF GenerateRaises, IInv, Types
<1>7. ASSUME NEW a \in Agents, NEW entry, Answer(a, entry), UNCHANGED <<history, loaded, turns, crossed>>
      PROVE  OneRemembers'
  <2>1. \E to \in {"calling", "asking", "ready", "failed"} : pc' = [pc EXCEPT ![a] = to]
    BY <1>7, RaiseFacts DEF Answer, IInv
  <2>2. QED
    BY <1>3, <1>7, <2>1 DEF IInv, Types
<1>8. ASSUME NEW a \in Agents, ReuseNode(a) \/ ExpandNode(a) PROVE OneRemembers'
  BY <1>7, <1>8 DEF ReuseNode, ExpandNode
<1>9. ASSUME NEW a \in Agents, InvokeTool(a) PROVE OneRemembers'
  BY <1>7, <1>9, InvokeToolFacts
<1>10. ASSUME NEW a \in Agents, SummaryRaises(a) PROVE OneRemembers'
  <2>1. \E to \in {"ready", "failed"} : pc' = [pc EXCEPT ![a] = to]
    BY <1>10, RaiseFacts DEF SummaryRaises, IInv
  <2>2. QED
    BY <1>3, <1>10, <2>1 DEF SummaryRaises, IInv, Types
<1>11. CASE FoldGraph
  BY <1>3, <1>11 DEF FoldGraph, local
<1>12. CASE UNCHANGED vars
  BY <1>3, <1>12 DEF vars, local
<1>13. QED
  BY <1>1, <1>2, <1>4, <1>5, <1>6, <1>8, <1>9, <1>10, <1>11, <1>12 DEF Next, Step

(* model_agent.py:488-499: for any number of agents, turns and retries, no *)
(* turn of the shared conversation is lost as long as no two of them are   *)
(* in _remember_turn at once.                                              *)
THEOREM RememberedTurnsAreKept == Spec => []TurnsKept
<1>1. OneRemembers => TurnsKept
  BY DEF OneRemembers, TurnsKept
<1>2. Spec => []OneRemembers
  BY InitOneRemembers, StepOneRemembers, Invariance, PTL DEF Spec
<1>3. QED
  BY <1>1, <1>2, PTL

==============================================================================
