--------------------------- MODULE DurableRunProofs ---------------------------
(***************************************************************************)
(* Proofs about whole runs of Scheduler, on the three invariants of        *)
(* SchedulerProofs: that a run survives the crashes of DurableRun, that it *)
(* keeps the promise of RunContract, what is bound to the names, what a    *)
(* run is charged, what its metrics count, and what the file behind the    *)
(* store keeps.                                                            *)
(*                                                                         *)
(* The runs of DurableRun: all that holds of a run holds in each of them,  *)
(* as StartOver is Init with another store; Ledger counts what each run    *)
(* carries out, Resumed says what a run has loaded and recorded, Stored    *)
(* and Rebound what that makes of the store and the bindings.              *)
(*                                                                         *)
(* Five more invariants of a run. Course says what the entries behind the *)
(* main thread have left in the journal: a plain entry a step of its rank, *)
(* a group its record, each with a success. Under Course the outcome of an *)
(* entry can be told without step ids (Stage), and every step of a run     *)
(* moves one of these outcomes, the result, or nothing: RunContract. Named *)
(* says by which of those steps each name was bound. Accounts balances the *)
(* cost, the journal and the metrics, over a theory of sums that needs no  *)
(* induction. Charges says what the cost is made of when an entry begins,  *)
(* Tallied that each event is counted once.                                *)
(***************************************************************************)
EXTENDS DurableRun, FileCheckpointStore, SchedulerProofs

-----------------------------------------------------------------------------
(* Crashes and restarts (DurableRun).  What a run finds of the earlier     *)
(* ones is in the store, and nowhere else.                                 *)

(* A thread of entry e has returned with success in the run under way.     *)
Carried(e) == \E s \in TasksOf(e) : task[s].status = "success"

(* A plain step has one thread a run, and so is carried out at most once   *)
(* in each: in the first run exactly if that thread has succeeded.         *)
Ledger ==
  /\ restarts \in Nat /\ effects \in [DOMAIN steps -> Nat]
  /\ \A s \in DOMAIN task : task[s].pc # "done" => task[s].status = Nothing
  /\ \A e \in DOMAIN steps : steps[e].kind = "step" =>
       /\ \A r, s \in TasksOf(e) : r = s
       /\ effects[e] <= restarts + (IF Carried(e) THEN 1 ELSE 0)
       /\ restarts = 0 => effects[e] = IF Carried(e) THEN 1 ELSE 0

(* The run has loaded what the earlier ones recorded; what it has recorded *)
(* itself are entries it has passed, none of them loaded.                  *)
Resumed ==
  /\ \A e \in DOMAIN checkpoint : e \in DOMAIN store /\ checkpoint[e] = store[e]
  /\ \A e \in DOMAIN store : e \in DOMAIN checkpoint \/ e < entry
  /\ pc = "step" => entry \notin DOMAIN checkpoint

(* No entry after e that the run has passed binds the name that e binds.   *)
LastBinder(e) ==
  /\ e < entry /\ steps[e].bind # Nothing
  /\ \A later \in e + 1 .. entry - 1 : steps[later].bind # steps[e].bind

(* When the store was empty at first: it holds, as json gives it back, the *)
(* first output of each plain step that was passed.                        *)
Stored ==
  /\ restarts = 0 => \A e \in DOMAIN store : Carried(e)
  /\ \A e \in DOMAIN store : /\ e \in DOMAIN steps /\ steps[e].kind = "step"
                             /\ e \in DOMAIN firstOutput /\ firstOutput[e] \in Values
                             /\ store[e].output = ReadBack[firstOutput[e]]
  /\ Checkpointing => DOMAIN firstOutput \subseteq DOMAIN store

(* What a run has replayed is bound.                                       *)
Rebound ==
  pc # "raised" =>
    \A e \in DOMAIN checkpoint :
      LastBinder(e) => /\ steps[e].bind \in DOMAIN bindings
                       /\ bindings[steps[e].bind] = checkpoint[e].output

Durably == IInv /\ Books /\ Polls /\ Ledger /\ Resumed

Remembered == Durably /\ Stored /\ Rebound

(* What a step of a thread leaves alone.                                   *)
LEMMA ThreadMoves ==
  ASSUME IInv, NEW s \in DOMAIN task, RunTool(s)
  PROVE  /\ task[s].pc # "done" /\ DOMAIN task' = DOMAIN task
         /\ \A r \in DOMAIN task \ {s} : task'[r] = task[r]
         /\ task'[s].entry = task[s].entry
         /\ task'[s].pc = "done" \/ task'[s].status = task[s].status
         /\ UNCHANGED <<steps, pc, entry, bindings, checkpoint, store>>
<1>1. task = [r \in DOMAIN task |-> task[r]] /\ task[s] \in TaskType
  BY DEF IInv, TypeOK, TasksTyped
<1>2. CASE StartStep(s) \/ RequestApproval(s) \/ SkipApproval(s) \/ NoUsage(s)
  <2>1. PICK at \in TaskPC : /\ task' = [task EXCEPT ![s].pc = at] /\ task[s].pc # "done"
                             /\ UNCHANGED <<main, pc, durable>>
    BY <1>2 DEF StartStep, RequestApproval, SkipApproval, NoUsage, Moves, TaskPC
  <2>2. QED
    BY <1>1, <2>1 DEF TaskType, main, durable
<1>3. CASE DenyCapability(s) \/ ApprovalRaises(s) \/ UsageRaises(s)
  <2>1. PICK error : /\ task' = [task EXCEPT ![s].pc = "failing", ![s].error = error]
                     /\ task[s].pc # "done" /\ UNCHANGED <<main, pc, durable>>
    BY <1>3 DEF DenyCapability, ApprovalRaises, UsageRaises, Throws
  <2>2. QED
    BY <1>1, <2>1 DEF TaskType, main, durable
<1>4. CASE \E approved \in BOOLEAN : DecideApproval(s, approved)
  BY <1>1, <1>4 DEF DecideApproval, Moves, Throws, TaskType, main, durable
<1>5. CASE CallTool(s)
  BY <1>1, <1>5 DEF CallTool, TaskType, main, durable
<1>6. CASE \E v \in Outcomes[task[s].tool], c \in Costs[task[s].tool] : ToolReturns(s, v, c)
  BY <1>1, <1>6 DEF ToolReturns, TaskType, main, durable
<1>7. CASE ToolRaises(s)
  BY <1>1, <1>7 DEF ToolRaises, Throws, TaskType, main, durable
<1>8. CASE EmitSucceeded(s) \/ AddCost(s) \/ EmitFailed(s)
  <2>1. PICK at \in TaskPC : /\ task' = [task EXCEPT ![s].pc = at] /\ task[s].pc # "done"
                             /\ UNCHANGED <<main, pc, durable>>
    BY <1>8 DEF EmitSucceeded, AddCost, EmitFailed, Moves, TaskPC
  <2>2. QED
    BY <1>1, <2>1 DEF TaskType, main, durable
<1>9. CASE ReportUsage(s)
  BY <1>1, <1>9 DEF ReportUsage, TaskType, main, durable
<1>10. CASE FinishSucceeded(s) \/ FinishFailed(s)
  BY <1>1, <1>10 DEF FinishSucceeded, FinishFailed, Finishes, TaskType, main, durable
<1>11. QED
  BY <1>2, <1>3, <1>4, <1>5, <1>6, <1>7, <1>8, <1>9, <1>10 DEF RunTool

(* What a step of the main thread does to the threads and to the store.    *)
LEMMA NewThreads ==
  ASSUME IInv, entry \in DOMAIN steps, NEW first \in {nextStepId, nextStepId + 1},
         NEW given \in Seq(Tools), NEW group, task' = Assign(first, given, group)
  PROVE  /\ \A s \in DOMAIN task : s \in DOMAIN task' /\ task'[s] = task[s]
         /\ \A s \in DOMAIN task' \ DOMAIN task :
              /\ task'[s].entry = entry /\ task'[s].status = Nothing
              /\ task'[s].usage = Nothing
              /\ task'[s].pc # "done" /\ s \in first .. first + Len(given) - 1
<1>1. nextStepId \in Nat /\ \A s \in DOMAIN task : s \in Nat /\ s < nextStepId
  BY DEF IInv, TypeOK, MainTyped, TasksTyped, TasksOK
<1>2. DOMAIN task' = DOMAIN task \cup first .. first + Len(given) - 1
  BY DEF Assign
<1>3. \A s \in DOMAIN task' :
        task'[s] = IF s >= first THEN NewTask(given[s - first + 1], Current.agent, entry, group)
                   ELSE task[s]
  BY DEF Assign
<1>4. \A s \in DOMAIN task : ~(s >= first)
  BY <1>1
<1>5. \A s \in DOMAIN task' \ DOMAIN task : s >= first /\ s \in first .. first + Len(given) - 1
  BY <1>1, <1>2
<1>6. ASSUME NEW s \in DOMAIN task' \ DOMAIN task
      PROVE  /\ task'[s].entry = entry /\ task'[s].status = Nothing
             /\ task'[s].usage = Nothing /\ task'[s].pc # "done"
             /\ s \in first .. first + Len(given) - 1
  <2>1. task'[s] = NewTask(given[s - first + 1], Current.agent, entry, group)
    BY <1>3, <1>5
  <2>2. QED
    BY <1>5, <2>1 DEF NewTask
<1>7. \A s \in DOMAIN task : s \in DOMAIN task' /\ task'[s] = task[s]
  BY <1>2, <1>3, <1>4
<1>8. QED
  BY <1>6, <1>7

ThreadsKept ==
  /\ \A s \in DOMAIN task : s \in DOMAIN task' /\ task'[s] = task[s]
  /\ \A s \in DOMAIN task' \ DOMAIN task :
       /\ task'[s].entry = entry /\ task'[s].status = Nothing
       /\ task'[s].usage = Nothing /\ task'[s].pc # "done"
       /\ steps[entry].kind = "step" => pc = "next" /\ s = nextStepId

LEMMA MainMoves ==
  ASSUME IInv, Polls, MainThread
  PROVE  ThreadsKept /\ steps' = steps /\ checkpoint' = checkpoint /\ (EndStep \/ store' = store)
<1>1. CASE BeginStep
  <2>1. /\ entry \in DOMAIN steps /\ Current.kind = "step" /\ pc = "next"
        /\ task' = Assign(nextStepId, Current.tools, Nothing)
        /\ steps' = steps /\ checkpoint' = checkpoint /\ store' = store
    BY <1>1 DEF BeginStep, MayEnter, durable
  <2>2. Current.tools \in Seq(Tools) /\ Len(Current.tools) = 1 /\ nextStepId \in Nat
    BY <2>1, CurrentType, MainFacts
  <2>3. nextStepId .. nextStepId + 1 - 1 = {nextStepId}
    BY <2>2
  <2>4. QED
    BY <2>1, <2>2, <2>3, NewThreads DEF ThreadsKept
<1>2. CASE BeginGroup
  <2>1. /\ entry \in DOMAIN steps /\ Current.kind # "step"
        /\ task' = Assign(nextStepId, Current.tools, entry)
        /\ steps' = steps /\ checkpoint' = checkpoint /\ store' = store
    BY <1>2 DEF BeginGroup, MayEnter, durable
  <2>2. QED
    BY <2>1, CurrentType, NewThreads DEF ThreadsKept, Current
<1>3. CASE AgreeThenFallBack
  <2>1. /\ entry \in DOMAIN steps /\ Current.kind # "step"
        /\ task' = Assign(nextStepId + 1, <<Current.fallback>>, entry)
        /\ steps' = steps /\ checkpoint' = checkpoint /\ store' = store
    BY <1>3, MainFacts DEF AgreeThenFallBack, FallbackId, Polls, Placed, durable
  <2>2. Current.fallback \in Tools
    BY <1>3, <2>1, CurrentType DEF AgreeThenFallBack, NeedsFallback, Maybe
  <2>3. <<Current.fallback>> \in Seq(Tools)
    BY <2>2
  <2>4. QED
    BY <2>1, <2>3, NewThreads DEF ThreadsKept, Current
<1>4. CASE \/ StopForRuntime \/ StopForCost \/ ReplayStep \/ RejectCheckpoint \/ EndStep
           \/ EndParallel \/ EndVotersFailed \/ EndVoters
  BY <1>4 DEF StopForRuntime, StopForCost, ReplayStep, RejectCheckpoint, EndStep, EndParallel,
              EndVotersFailed, EndVoters, ThreadsKept, durable, main
<1>5. CASE BeginReuse \/ Agree \/ StrategyRaises \/ EndFallback \/ FinishWorkflow
  BY <1>5 DEF BeginReuse, Agree, StrategyRaises, EndFallback, FinishWorkflow, ThreadsKept,
              durable, main
<1>6. QED
  BY <1>1, <1>2, <1>3, <1>4, <1>5 DEF MainThread

LEMMA ThreadKeepsLedger ==
  ASSUME Durably, NEW s \in DOMAIN task, RunTool(s), DStep
  PROVE  Ledger'
<1> DEFINE Tally(e) == {r \in JustSucceeded : task[r].entry = e}
           done == task'[s].status = "success"
<1>1. /\ task[s].pc # "done" /\ DOMAIN task' = DOMAIN task
      /\ \A r \in DOMAIN task \ {s} : task'[r] = task[r]
      /\ task'[s].entry = task[s].entry
      /\ task'[s].pc = "done" \/ task'[s].status = task[s].status
      /\ steps' = steps
  BY ThreadMoves DEF Durably
<1>2. /\ restarts \in Nat /\ restarts' = restarts
      /\ effects \in [DOMAIN steps -> Nat]
      /\ effects' = [e \in DOMAIN steps |-> effects[e] + Cardinality(Tally(e))]
      /\ \A r \in DOMAIN task : task[r].pc # "done" => task[r].status = Nothing
      /\ \A e \in DOMAIN steps : steps[e].kind = "step" =>
           /\ \A r, q \in TasksOf(e) : r = q
           /\ effects[e] <= restarts + (IF Carried(e) THEN 1 ELSE 0)
           /\ restarts = 0 => effects[e] = IF Carried(e) THEN 1 ELSE 0
  BY DEF Durably, Ledger, DStep
<1>3. Nothing # "success"
  BY NothingAssumption
<1>4. \A e : Tally(e) = IF done /\ e = task[s].entry THEN {s} ELSE {}
  BY <1>1, <1>2, <1>3 DEF JustSucceeded
<1>5. \A e : TasksOf(e)' = TasksOf(e)
  BY <1>1 DEF TasksOf
<1>6. ASSUME NEW e \in DOMAIN steps, steps[e].kind = "step"
      PROVE  Carried(e)' <=> (Carried(e) \/ (done /\ e = task[s].entry))
  BY <1>1, <1>2, <1>3, <1>5, <1>6 DEF Carried, TasksOf
<1>7. ASSUME NEW e \in DOMAIN steps, steps[e].kind = "step", e = task[s].entry
      PROVE  ~Carried(e)
  <2>1. \A r \in TasksOf(e) : r = s
    BY <1>2, <1>7 DEF TasksOf
  <2>2. QED
    BY <1>1, <1>2, <1>3, <2>1 DEF Carried, TasksOf
<1> HIDE DEF Tally, done
<1>8. \A e \in DOMAIN steps : effects[e] \in Nat /\ effects'[e] =
        effects[e] + (IF done /\ e = task[s].entry THEN 1 ELSE 0)
  <2> TAKE e \in DOMAIN steps
  <2>1. effects[e] \in Nat /\ effects'[e] = effects[e] + Cardinality(Tally(e))
    BY <1>2
  <2>2. Cardinality({}) = 0 /\ Cardinality({s}) = 1
    BY FS_EmptySet, FS_Singleton
  <2>3. Cardinality(Tally(e)) = IF done /\ e = task[s].entry THEN 1 ELSE 0
    BY <1>4, <2>2
  <2>4. QED
    BY <2>1, <2>3
<1>9. effects' \in [DOMAIN steps -> Nat]
  <2>1. effects' = [e \in DOMAIN steps |-> effects'[e]]
    BY <1>2
  <2>2. \A e \in DOMAIN steps : effects'[e] \in Nat
    BY <1>8
  <2>3. QED
    BY <2>1, <2>2
<1>10. ASSUME NEW e \in DOMAIN steps, steps[e].kind = "step"
       PROVE  /\ \A r, q \in TasksOf(e)' : r = q
              /\ effects'[e] <= restarts + (IF Carried(e)' THEN 1 ELSE 0)
              /\ restarts = 0 => effects'[e] = IF Carried(e)' THEN 1 ELSE 0
  <2>1. /\ \A r, q \in TasksOf(e) : r = q
        /\ effects[e] <= restarts + (IF Carried(e) THEN 1 ELSE 0)
        /\ restarts = 0 => effects[e] = IF Carried(e) THEN 1 ELSE 0
    BY <1>2, <1>10
  <2>2. CASE done /\ e = task[s].entry
    <3>1. Carried(e)' /\ ~Carried(e) /\ effects'[e] = effects[e] + 1 /\ effects[e] \in Nat
      BY <1>6, <1>7, <1>8, <1>10, <2>2
    <3>2. QED
      BY <1>2, <1>5, <2>1, <3>1
  <2>3. CASE ~(done /\ e = task[s].entry)
    <3>1. (Carried(e)' <=> Carried(e)) /\ effects'[e] = effects[e] /\ effects[e] \in Nat
      BY <1>6, <1>8, <1>10, <2>3
    <3>2. QED
      BY <1>5, <2>1, <3>1
  <2>4. QED
    BY <2>2, <2>3
<1>11. \A r \in DOMAIN task' : task'[r].pc # "done" => task'[r].status = Nothing
  BY <1>1, <1>2
<1>12. QED
  BY <1>1, <1>2, <1>9, <1>10, <1>11 DEF Ledger

LEMMA MainKeepsLedger ==
  ASSUME Durably, MainThread, DStep
  PROVE  Ledger'
<1>1. ThreadsKept /\ steps' = steps
  BY MainMoves DEF Durably
<1>2. /\ restarts \in Nat /\ restarts' = restarts
      /\ effects \in [DOMAIN steps -> Nat]
      /\ effects' = [e \in DOMAIN steps |->
                       effects[e] + Cardinality({r \in JustSucceeded : task[r].entry = e})]
      /\ \A r \in DOMAIN task : task[r].pc # "done" => task[r].status = Nothing
      /\ \A e \in DOMAIN steps : steps[e].kind = "step" =>
           /\ \A r, q \in TasksOf(e) : r = q
           /\ effects[e] <= restarts + (IF Carried(e) THEN 1 ELSE 0)
           /\ restarts = 0 => effects[e] = IF Carried(e) THEN 1 ELSE 0
  BY DEF Durably, Ledger, DStep
<1>3. Nothing # "success"
  BY NothingAssumption
<1>4. JustSucceeded = {}
  BY <1>1, <1>2, <1>3 DEF JustSucceeded, ThreadsKept
<1>5. effects' = effects
  <2>1. \A e : {r \in JustSucceeded : task[r].entry = e} = {}
    BY <1>4
  <2>2. \A e \in DOMAIN steps : effects[e] + 0 = effects[e]
    BY <1>2
  <2>3. Cardinality({}) = 0
    BY FS_EmptySet
  <2>4. QED
    BY <1>2, <2>1, <2>2, <2>3
<1>6. \A e : Carried(e)' <=> Carried(e)
  BY <1>1, <1>3 DEF Carried, TasksOf, ThreadsKept
<1>7. ASSUME NEW e \in DOMAIN steps, steps[e].kind = "step"
      PROVE  \A r, q \in TasksOf(e)' : r = q
  <2>1. CASE e = entry /\ pc = "next"
    <3>1. \A r \in DOMAIN task : task[r].entry # entry
      BY <2>1 DEF Durably, Books, ThreadsBooked, Reached
    <3>2. \A r \in TasksOf(e)' : r = nextStepId
      BY <1>1, <1>7, <2>1, <3>1 DEF TasksOf, ThreadsKept
    <3>3. QED
      BY <3>2
  <2>2. CASE ~(e = entry /\ pc = "next")
    <3>1. TasksOf(e)' = TasksOf(e)
      BY <1>1, <1>7, <2>2 DEF TasksOf, ThreadsKept
    <3>2. QED
      BY <1>2, <1>7, <3>1
  <2>3. QED
    BY <2>1, <2>2
<1>8. \A r \in DOMAIN task' : task'[r].pc # "done" => task'[r].status = Nothing
  BY <1>1, <1>2 DEF ThreadsKept
<1>9. QED
  BY <1>1, <1>2, <1>5, <1>6, <1>7, <1>8 DEF Ledger

(* The run moves on to the next entry, and the value v may be bound.       *)
Passes(v) == pc' = "next" /\ entry' = entry + 1 /\ bindings' = Rebind(v)

Waits == entry' = entry /\ bindings' = bindings /\ pc' # "next"

LEMMA MainGoesOn ==
  ASSUME IInv, Polls, MainThread, ~EndStep
  PROVE  /\ pc \notin {"raised", "step"} /\ (pc' = "step" => entry \notin DOMAIN checkpoint)
         /\ \/ Waits
            \/ \E v : /\ Passes(v) /\ entry \in DOMAIN steps
                      /\ Current.kind = "step" =>
                           entry \in DOMAIN checkpoint /\ v = checkpoint[entry].output
<1>1. CASE StopForRuntime \/ StopForCost \/ RejectCheckpoint \/ EndVotersFailed
  BY <1>1 DEF StopForRuntime, StopForCost, RejectCheckpoint, EndVotersFailed, MayEnter, Stop,
              Waits, main
<1>2. CASE ReplayStep
  BY <1>2 DEF ReplayStep, MayEnter, Recorded, EndEntry, Passes
<1>3. CASE BeginStep \/ BeginGroup \/ EndVoters
  BY <1>3 DEF BeginStep, BeginGroup, EndVoters, MayEnter, Recorded, Waits
<1>4. CASE EndParallel
  BY <1>4, MainFacts DEF EndParallel, EndEntry, Stop, Passes, Waits
<1>5. CASE BeginReuse \/ StrategyRaises
  BY <1>5 DEF BeginReuse, StrategyRaises, MayEnter, Stop, Waits
<1>6. CASE Agree
  <2>1. pc = "reduce" /\ Current.kind # "step" /\ entry \in DOMAIN steps
    BY <1>6, MainFacts DEF Agree, Polls, Placed
  <2>2. PICK v : EndEntry("success", v)
    BY <1>6 DEF Agree
  <2>3. QED
    BY <2>1, <2>2 DEF EndEntry, Passes
<1>7. CASE AgreeThenFallBack
  BY <1>7 DEF AgreeThenFallBack, Waits
<1>8. CASE EndFallback
  <2>1. pc = "fallback" /\ Current.kind # "step" /\ entry \in DOMAIN steps
    BY <1>8, MainFacts DEF EndFallback, Polls, Placed
  <2>2. EndEntry(FallbackStatus, agreed)
    BY <1>8 DEF EndFallback
  <2>3. QED
    BY <2>1, <2>2 DEF EndEntry, Stop, Passes, Waits
<1>9. CASE FinishWorkflow
  BY <1>9 DEF FinishWorkflow, Waits, main
<1>10. QED
  BY <1>1, <1>2, <1>3, <1>4, <1>5, <1>6, <1>7, <1>8, <1>9 DEF MainThread

(* How a plain step ends: recorded if it succeeded, unless json refuses.   *)
LEMMA StepEnds ==
  ASSUME IInv, EndStep, NEW done, done = task[nextStepId - 1]
  PROVE  /\ pc = "step" /\ entry \in DOMAIN steps /\ nextStepId - 1 \in TasksOf(entry)
         /\ task' = task
         /\ \/ Waits /\ store' = store
            \/ pc' = "raised" /\ entry' = entry /\ store' = store
            \/ /\ Passes(done.output) /\ done.status = "success" /\ done.output \in Values
               /\ store' = IF Checkpointing
                           THEN Put(store, entry, [tool |-> done.tool,
                                                   output |-> ReadBack[done.output]])
                           ELSE store
<1>1. /\ pc = "step" /\ done.pc = "done" /\ entry \in DOMAIN steps
      /\ nextStepId - 1 \in TasksOf(entry) /\ task' = task
  BY MainFacts DEF EndStep, IInv, MainOK
<1>2. done.status \in Statuses /\ (done.status = "success" => done.output \in Values)
  BY <1>1, ReturnedFacts DEF TasksOf
<1>3. \/ pc' = "raised" /\ entry' = entry /\ store' = store
      \/ /\ EndEntry(done.status, done.output)
         /\ store' = IF Records(done.status)
                     THEN Put(store, entry, [tool |-> done.tool,
                                             output |-> ReadBack[done.output]])
                     ELSE store
  BY DEF EndStep
<1>4. CASE done.status = "failed"
  BY <1>1, <1>3, <1>4 DEF EndEntry, Stop, Records, Waits
<1>5. CASE done.status = "success"
  BY <1>1, <1>2, <1>3, <1>5 DEF EndEntry, Records, Passes
<1>6. QED
  BY <1>2, <1>4, <1>5 DEF Statuses

LEMMA StepKeepsResumed ==
  ASSUME Durably, Step
  PROVE  Resumed'
<1>1. /\ \A e \in DOMAIN checkpoint : e \in DOMAIN store /\ checkpoint[e] = store[e]
      /\ \A e \in DOMAIN store : e \in Nat /\ (e \in DOMAIN checkpoint \/ e < entry)
      /\ pc = "step" => entry \notin DOMAIN checkpoint
      /\ entry \in Nat
  BY MainFacts DEF Durably, Resumed, CheckpointType
<1>2. CASE MainThread /\ ~EndStep
  <2>1. checkpoint' = checkpoint /\ store' = store /\ entry' \in {entry, entry + 1}
    BY <1>2, MainMoves, MainGoesOn DEF Durably, Waits, Passes
  <2>2. pc' = "step" => entry' = entry /\ entry \notin DOMAIN checkpoint
    BY <1>2, MainGoesOn DEF Durably, Waits, Passes
  <2>3. QED
    BY <1>1, <2>1, <2>2 DEF Resumed
<1>3. CASE EndStep
  <2> DEFINE done == task[nextStepId - 1]
  <2>1. checkpoint' = checkpoint /\ pc = "step"
    BY <1>3 DEF EndStep
  <2>2. \/ entry' = entry /\ store' = store /\ pc' # "step"
        \/ /\ entry' = entry + 1 /\ pc' = "next"
           /\ \/ store' = store
              \/ \E record : store' = Put(store, entry, record)
    <3> HIDE DEF done
    <3>1. done = task[nextStepId - 1]
      BY DEF done
    <3>2. Waits => entry' = entry /\ pc' # "step"
      BY <1>3 DEF EndStep, EndEntry, Stop, Waits
    <3>3. QED
      BY <1>3, <3>1, <3>2, StepEnds DEF Durably, Passes
  <2>3. CASE entry' = entry /\ store' = store /\ pc' # "step"
    BY <1>1, <2>1, <2>3 DEF Resumed
  <2>4. CASE entry' = entry + 1 /\ pc' = "next" /\ store' = store
    BY <1>1, <2>1, <2>4 DEF Resumed
  <2>5. CASE entry' = entry + 1 /\ pc' = "next" /\ \E record : store' = Put(store, entry, record)
    <3>1. PICK record : store' = Put(store, entry, record)
      BY <2>5
    <3>2. /\ DOMAIN store' = DOMAIN store \cup {entry}
          /\ \A e \in DOMAIN store : e # entry => store'[e] = store[e]
      BY <3>1 DEF Put
    <3>3. entry \notin DOMAIN checkpoint
      BY <1>1, <2>1
    <3>4. QED
      BY <1>1, <2>1, <2>5, <3>2, <3>3 DEF Resumed
  <2>6. QED
    BY <2>2, <2>3, <2>4, <2>5
<1>4. CASE \E s \in DOMAIN task : RunTool(s)
  <2>1. UNCHANGED <<pc, entry, checkpoint, store>>
    BY <1>4, ThreadMoves DEF Durably
  <2>2. QED
    BY <2>1 DEF Durably, Resumed
<1>5. QED
  BY <1>2, <1>3, <1>4 DEF Step

LEMMA PassBinds ==
  ASSUME Remembered, NEW v, Passes(v), pc # "raised", steps' = steps, checkpoint' = checkpoint,
         entry \in DOMAIN steps, entry \in DOMAIN checkpoint => v = checkpoint[entry].output
  PROVE  Rebound'
<1> SUFFICES ASSUME NEW e \in DOMAIN checkpoint, LastBinder(e)'
             PROVE  /\ steps[e].bind \in DOMAIN bindings'
                    /\ bindings'[steps[e].bind] = checkpoint[e].output
  BY DEF Rebound
<1>1. /\ e \in Nat /\ entry \in Nat /\ entry' = entry + 1
      /\ bindings' = IF steps[entry].bind = Nothing THEN bindings
                     ELSE Put(bindings, steps[entry].bind, v)
  BY MainFacts DEF Remembered, Durably, CheckpointType, Passes, Rebind, AsName, Current
<1>2. /\ e < entry + 1 /\ steps[e].bind # Nothing
      /\ \A later \in e + 1 .. entry + 1 - 1 : steps[later].bind # steps[e].bind
  BY <1>1 DEF LastBinder
<1>3. CASE e = entry
  BY <1>1, <1>2, <1>3 DEF Put
<1>4. CASE e # entry
  <2>1. e < entry /\ entry \in e + 1 .. entry + 1 - 1
    BY <1>1, <1>2, <1>4
  <2>2. LastBinder(e) /\ steps[entry].bind # steps[e].bind
    BY <1>1, <1>2, <2>1 DEF LastBinder
  <2>3. steps[e].bind \in DOMAIN bindings /\ bindings[steps[e].bind] = checkpoint[e].output
    BY <2>2 DEF Remembered, Rebound
  <2>4. QED
    BY <1>1, <2>2, <2>3 DEF Put
<1>5. QED
  BY <1>3, <1>4

LEMMA WaitBinds ==
  ASSUME Remembered, Waits, pc # "raised", steps' = steps, checkpoint' = checkpoint
  PROVE  Rebound'
BY DEF Remembered, Rebound, LastBinder, Waits

LEMMA MainStepRemembers ==
  ASSUME Remembered, MainThread, ~EndStep, DStep
  PROVE  Stored' /\ Rebound'
<1>1. /\ pc \notin {"raised", "step"} /\ ThreadsKept
      /\ steps' = steps /\ checkpoint' = checkpoint /\ store' = store
  BY MainGoesOn, MainMoves DEF Remembered, Durably
<1>2. restarts' = restarts /\ firstOutput' = firstOutput
  BY <1>1 DEF DStep
<1>3. \A e : Carried(e) => Carried(e)'
  BY <1>1 DEF Carried, TasksOf, ThreadsKept
<1>4. Stored'
  BY <1>1, <1>2, <1>3 DEF Remembered, Stored
<1>5. CASE Waits
  BY <1>1, <1>4, <1>5, WaitBinds
<1>6. ASSUME NEW v, Passes(v), entry \in DOMAIN steps,
             Current.kind = "step" => entry \in DOMAIN checkpoint /\ v = checkpoint[entry].output
      PROVE  Rebound'
  <2>1. entry \in DOMAIN checkpoint => Current.kind = "step"
    BY DEF Remembered, Durably, Resumed, Stored, Current
  <2>2. QED
    BY <1>1, <1>6, <2>1, PassBinds
<1>7. QED
  BY <1>4, <1>5, <1>6, MainGoesOn DEF Remembered, Durably

LEMMA EndStepRemembers ==
  ASSUME Remembered, EndStep, DStep
  PROVE  Stored' /\ Rebound'
<1>1. PICK done : done = task[nextStepId - 1]
  OBVIOUS
<1>2. /\ pc = "step" /\ entry \in DOMAIN steps /\ nextStepId - 1 \in TasksOf(entry)
      /\ task' = task /\ steps' = steps /\ checkpoint' = checkpoint
      /\ Current.kind = "step"
  BY <1>1, StepEnds DEF Remembered, Durably, EndStep, Polls, Placed
<1>3. entry \notin DOMAIN checkpoint /\ entry \notin DOMAIN store
  BY <1>2, MainFacts DEF Remembered, Durably, Resumed
<1>4. /\ restarts' = restarts
      /\ firstOutput' = IF pc' = "next" /\ entry \notin DOMAIN firstOutput
                        THEN Put(firstOutput, entry, done.output) ELSE firstOutput
  BY <1>1, <1>2 DEF DStep
<1>5. \A e : Carried(e)' <=> Carried(e)
  BY <1>2 DEF Carried, TasksOf
<1>6. CASE (Waits \/ pc' = "raised") /\ store' = store
  <2>1. firstOutput' = firstOutput
    BY <1>4, <1>6 DEF Waits
  <2>2. Stored'
    BY <1>2, <1>4, <1>5, <1>6, <2>1 DEF Remembered, Stored
  <2>3. Rebound'
    BY <1>2, <1>6, WaitBinds DEF Rebound
  <2>4. QED
    BY <2>2, <2>3
<1>7. CASE /\ Passes(done.output) /\ done.status = "success" /\ done.output \in Values
           /\ store' = IF Checkpointing
                       THEN Put(store, entry, [tool |-> done.tool,
                                               output |-> ReadBack[done.output]])
                       ELSE store
  <2>1. Rebound'
    BY <1>2, <1>3, <1>7, PassBinds
  <2>2. \A e : e = entry => Carried(e)'
    BY <1>1, <1>2, <1>5, <1>7 DEF Carried
  <2>3. CASE Checkpointing
    <3>1. entry \notin DOMAIN firstOutput
      BY <1>3, <2>3 DEF Remembered, Stored
    <3>2. /\ DOMAIN firstOutput' = DOMAIN firstOutput \cup {entry}
          /\ firstOutput'[entry] = done.output
          /\ \A e \in DOMAIN firstOutput : firstOutput'[e] = firstOutput[e]
      BY <1>4, <1>7, <3>1 DEF Put, Passes
    <3>3. /\ DOMAIN store' = DOMAIN store \cup {entry}
          /\ store'[entry].output = ReadBack[done.output]
          /\ \A e \in DOMAIN store : store'[e] = store[e]
      BY <1>3, <1>7, <2>3 DEF Put
    <3>4. \A e \in DOMAIN store' :
            /\ e \in DOMAIN steps /\ steps[e].kind = "step"
            /\ e \in DOMAIN firstOutput' /\ firstOutput'[e] \in Values
            /\ store'[e].output = ReadBack[firstOutput'[e]]
      BY <1>2, <1>7, <3>2, <3>3 DEF Remembered, Stored, Current
    <3>5. restarts = 0 => \A e \in DOMAIN store' : Carried(e)'
      BY <1>5, <2>2, <3>3 DEF Remembered, Stored
    <3>6. DOMAIN firstOutput' \subseteq DOMAIN store'
      BY <2>3, <3>2, <3>3 DEF Remembered, Stored
    <3>7. QED
      BY <1>2, <1>4, <2>1, <3>4, <3>5, <3>6 DEF Stored
  <2>4. CASE ~Checkpointing
    <3>1. \A e \in DOMAIN firstOutput : e \in DOMAIN firstOutput' /\ firstOutput'[e] = firstOutput[e]
      BY <1>4 DEF Put
    <3>2. store' = store
      BY <1>7, <2>4
    <3>3. QED
      BY <1>2, <1>4, <1>5, <2>1, <2>4, <3>1, <3>2 DEF Remembered, Stored
  <2>5. QED
    BY <2>3, <2>4
<1>8. QED
  BY <1>1, <1>6, <1>7, StepEnds DEF Remembered, Durably

LEMMA ThreadRemembers ==
  ASSUME Remembered, NEW s \in DOMAIN task, RunTool(s), DStep
  PROVE  Stored' /\ Rebound'
<1>1. /\ task[s].pc # "done" /\ DOMAIN task' = DOMAIN task
      /\ \A r \in DOMAIN task \ {s} : task'[r] = task[r]
      /\ task'[s].entry = task[s].entry
      /\ UNCHANGED <<steps, pc, entry, bindings, checkpoint, store>>
  BY ThreadMoves DEF Remembered, Durably
<1>2. restarts' = restarts /\ firstOutput' = firstOutput
  BY <1>1 DEF DStep
<1>3. \A e : Carried(e) => Carried(e)'
  <2>1. task[s].status # "success"
    BY <1>1, NothingAssumption DEF Remembered, Durably, Ledger
  <2>2. QED
    BY <1>1, <2>1 DEF Carried, TasksOf
<1>4. QED
  BY <1>1, <1>2, <1>3 DEF Remembered, Stored, Rebound, LastBinder

LEMMA StutterRemembers ==
  ASSUME UNCHANGED durableVars
  PROVE  (Durably => Durably') /\ (Remembered => Remembered')
<1>1. UNCHANGED vars /\ UNCHANGED history
  BY DEF durableVars
<1>2. Ledger => Ledger'
  BY <1>1 DEF Ledger, Carried, TasksOf, vars, history
<1>3. Resumed => Resumed'
  BY <1>1 DEF Resumed, vars
<1>4. Stored => Stored'
  BY <1>1 DEF Stored, Carried, TasksOf, vars, history
<1>5. Rebound => Rebound'
  BY <1>1 DEF Rebound, LastBinder, vars
<1>6. Durably => IInv' /\ Books' /\ Polls'
  BY <1>1, NextPreserves, NextKeepsBooks, NextKeepsPolls DEF Durably
<1>7. QED
  BY <1>2, <1>3, <1>4, <1>5, <1>6 DEF Durably, Remembered

(* A run that starts over begins as the first one did, but for the store.  *)
LEMMA RestartIsFresh == Durably /\ Restart => Fresh'
<1> SUFFICES ASSUME Durably, Restart PROVE Fresh'
  OBVIOUS
<1>1. /\ steps \in Workflows /\ CheckpointType(store)
      /\ steps' = steps /\ store' = store /\ checkpoint' = store
  BY MainFacts DEF Durably, Restart, StartOver, Loaded
<1>2. CheckpointType(store)'
  BY <1>1 DEF CheckpointType
<1>3. QED
  BY <1>1, <1>2 DEF Restart, StartOver, Loaded, Fresh

NothingBegun == \A e : ~Carried(e) /\ TasksOf(e) = {}

LEMMA FreshRun ==
  ASSUME Fresh
  PROVE  Resumed /\ Rebound /\ NothingBegun
<1>1. /\ task = << >> /\ DOMAIN task = {} /\ entry = 1 /\ pc = "next" /\ checkpoint = store
      /\ \A e \in DOMAIN checkpoint : e \in Nat \ {0}
  BY DEF Fresh, CheckpointType
<1>2. \A e : TasksOf(e) = {}
  BY <1>1 DEF TasksOf
<1>3. Resumed
  BY <1>1 DEF Resumed
<1>4. Rebound
  <2>1. \A e \in DOMAIN checkpoint : ~(e < entry)
    BY <1>1
  <2>2. QED
    BY <2>1 DEF Rebound, LastBinder
<1>5. QED
  BY <1>2, <1>3, <1>4 DEF NothingBegun, Carried

LEMMA DInitDurably == DInit => Durably
<1> SUFFICES ASSUME DInit PROVE Durably
  OBVIOUS
<1>1. Fresh /\ restarts = 0 /\ effects = [e \in DOMAIN steps |-> 0]
  BY InitIsFresh DEF DInit
<1>2. Ledger
  BY <1>1, FreshRun DEF Ledger, Fresh, NothingBegun
<1>3. QED
  BY <1>1, <1>2, FreshRun, FreshEstablishes, FreshKeepsBooks, FreshKeepsPolls DEF Durably

LEMMA RestartKeepsLedger ==
  ASSUME Durably, Restart, NothingBegun'
  PROVE  Ledger'
<1>1. /\ restarts \in Nat /\ restarts' = restarts + 1 /\ steps' = steps
      /\ effects \in [DOMAIN steps -> Nat] /\ effects' = effects
      /\ task' = << >>
  BY DEF Durably, Ledger, Restart, StartOver, Loaded
<1>2. ASSUME NEW e \in DOMAIN steps, steps[e].kind = "step"
      PROVE  effects[e] <= restarts + 1 + 0
  <2>1. effects[e] <= restarts + (IF Carried(e) THEN 1 ELSE 0) /\ effects[e] \in Nat
    BY <1>1, <1>2 DEF Durably, Ledger
  <2>2. QED
    BY <1>1, <2>1
<1>3. restarts' \in Nat /\ restarts' # 0 /\ DOMAIN task' = {}
  BY <1>1
<1>4. QED
  BY <1>1, <1>2, <1>3 DEF Ledger, NothingBegun

LEMMA DNextDurably == Durably /\ [DNext]_durableVars => Durably'
<1>1. Fresh => Resumed /\ Rebound /\ NothingBegun
  BY FreshRun
<1>2. Fresh' => Resumed' /\ Rebound' /\ NothingBegun'
  BY <1>1, PTL
<1>3. Fresh' => IInv' /\ Books' /\ Polls'
  BY FreshEstablishes, FreshKeepsBooks, FreshKeepsPolls, PTL
<1> SUFFICES ASSUME Durably, [DNext]_durableVars PROVE Durably'
  OBVIOUS
<1>4. CASE DStep
  <2>1. Step
    BY <1>4 DEF DStep
  <2>2. IInv' /\ Books' /\ Polls'
    BY <2>1, NextPreserves, NextKeepsBooks, NextKeepsPolls DEF Durably, Next
  <2>3. Resumed'
    BY <2>1, StepKeepsResumed
  <2>4. Ledger'
    BY <1>4, <2>1, ThreadKeepsLedger, MainKeepsLedger DEF Step
  <2>5. QED
    BY <2>2, <2>3, <2>4 DEF Durably
<1>5. CASE Restart
  <2>1. Fresh'
    BY <1>5, RestartIsFresh
  <2>2. Ledger'
    BY <1>2, <1>5, <2>1, RestartKeepsLedger
  <2>3. QED
    BY <1>2, <1>3, <2>1, <2>2 DEF Durably
<1>6. CASE UNCHANGED durableVars
  BY <1>6, StutterRemembers
<1>7. QED
  BY <1>4, <1>5, <1>6 DEF DNext, Crash, Rerun

(* All of the invariants of one run hold across any number of crashes.     *)
THEOREM CrashesAreSurvived == DSpec => []Durably
BY DInitDurably, DNextDurably, PTL DEF DSpec

LEMMA DInitRemembered ==
  ASSUME Checkpoints = {<< >>}
  PROVE  DInit => Remembered
<1> SUFFICES ASSUME DInit PROVE Remembered
  OBVIOUS
<1>1. store = << >> /\ firstOutput = << >> /\ DOMAIN << >> = {}
  BY DEF DInit, Init
<1>2. Stored
  BY <1>1 DEF Stored
<1>3. Fresh
  BY InitIsFresh DEF DInit
<1>4. QED
  BY <1>2, <1>3, FreshRun, DInitDurably DEF Remembered

LEMMA DNextRemembered == Remembered /\ [DNext]_durableVars => Remembered'
<1>1. Fresh' => Rebound'
  <2>1. Fresh => Rebound
    BY FreshRun
  <2>2. QED
    BY <2>1, PTL
<1> SUFFICES ASSUME Remembered, [DNext]_durableVars PROVE Remembered'
  OBVIOUS
<1>2. Durably'
  BY DNextDurably DEF Remembered
<1>3. CASE DStep
  <2>1. Step
    BY <1>3 DEF DStep
  <2>2. Stored' /\ Rebound'
    BY <1>3, <2>1, MainStepRemembers, EndStepRemembers, ThreadRemembers DEF Step
  <2>3. QED
    BY <1>2, <2>2 DEF Remembered
<1>4. CASE Restart
  <2>1. Fresh'
    BY <1>4, RestartIsFresh DEF Remembered
  <2>2. restarts' # 0 /\ UNCHANGED <<steps, store, firstOutput>>
    BY <1>4 DEF Restart, StartOver, Loaded, Remembered, Durably, Ledger
  <2>3. Stored'
    BY <2>2 DEF Remembered, Stored
  <2>4. QED
    BY <1>1, <1>2, <2>1, <2>3 DEF Remembered
<1>5. CASE UNCHANGED durableVars
  BY <1>5, StutterRemembers
<1>6. QED
  BY <1>3, <1>4, <1>5 DEF DNext, Crash, Rerun

(* checkpoint.py, points 1 and 2: from an empty store, a plain step is     *)
(* carried out at most once a run, however many runs crash, and exactly    *)
(* once if the first run recorded it.                                      *)
THEOREM EffectsAreBounded ==
  ASSUME Checkpoints = {<< >>}
  PROVE  DSpec => []EffectsBounded
<1>1. Remembered => EffectsBounded
  <2> SUFFICES ASSUME Remembered, NEW e \in DOMAIN steps, steps[e].kind = "step"
               PROVE  /\ effects[e] <= 1 + restarts
                      /\ (e \in DOMAIN store /\ restarts = 0) => effects[e] = 1
    BY DEF EffectsBounded
  <2>1. /\ restarts \in Nat /\ effects[e] \in Nat
        /\ effects[e] <= restarts + (IF Carried(e) THEN 1 ELSE 0)
        /\ restarts = 0 => effects[e] = IF Carried(e) THEN 1 ELSE 0
    BY DEF Remembered, Durably, Ledger
  <2>2. restarts = 0 /\ e \in DOMAIN store => Carried(e)
    BY DEF Remembered, Stored
  <2>3. QED
    BY <2>1, <2>2
<1>2. QED
  BY <1>1, DInitRemembered, DNextRemembered, PTL DEF DSpec

(* scheduler.py:126-134: from an empty store, and whatever JSON makes of   *)
(* each output, a name that a replayed plain step binds holds what JSON    *)
(* makes of the output of the execution that was recorded, for any number  *)
(* of crashes and reruns.                                                  *)
THEOREM ReplayIsFaithful ==
  ASSUME Checkpoints = {<< >>}
  PROVE  DSpec => []ReplayBindsRecorded
<1>1. Remembered => ReplayBindsRecorded
  <2> SUFFICES ASSUME Remembered, pc # "raised", NEW e \in DOMAIN firstOutput,
                      ReplayedAndBound(e)
               PROVE  bindings[steps[e].bind] = ReadBack[firstOutput[e]]
    BY DEF ReplayBindsRecorded
  <2>1. bindings[steps[e].bind] = checkpoint[e].output
    BY DEF Remembered, Rebound, LastBinder, ReplayedAndBound
  <2>2. checkpoint[e].output = ReadBack[firstOutput[e]]
    BY DEF Remembered, Durably, Resumed, Stored, ReplayedAndBound
  <2>3. QED
    BY <2>1, <2>2
<1>2. QED
  BY <1>1, DInitRemembered, DNextRemembered, PTL DEF DSpec

LEMMA RecordedStays ==
  ASSUME Durably, [DNext]_durableVars, NEW e \in DOMAIN store
  PROVE  /\ e \in DOMAIN store' /\ store'[e] = store[e]
         /\ (e \in DOMAIN steps /\ steps[e].kind = "step") => effects'[e] = effects[e]
<1>1. CASE DStep
  <2>1. e \in DOMAIN checkpoint \/ e < entry
    BY DEF Durably, Resumed
  <2>2. pc = "step" => e # entry
    BY <2>1, MainFacts DEF Durably, Resumed
  <2>3. e \in DOMAIN store' /\ store'[e] = store[e]
    <3>1. CASE EndStep
      <4>1. PICK done : done = task[nextStepId - 1]
        OBVIOUS
      <4>2. /\ pc = "step"
            /\ store' = store \/ \E record : store' = Put(store, entry, record)
        BY <3>1, <4>1, StepEnds DEF Durably
      <4>3. QED
        BY <2>2, <4>2 DEF Put
    <3>2. CASE MainThread /\ ~EndStep
      BY <3>2, MainMoves DEF Durably
    <3>3. CASE \E s \in DOMAIN task : RunTool(s)
      BY <3>3, ThreadMoves DEF Durably
    <3>4. QED
      BY <1>1, <3>1, <3>2, <3>3 DEF DStep, Step
  <2>4. ASSUME e \in DOMAIN steps, steps[e].kind = "step"
        PROVE  effects'[e] = effects[e]
    <3>1. \A s \in JustSucceeded : task[s].entry # e
      <4>1. SUFFICES ASSUME NEW s \in DOMAIN task, task[s].pc # "done", task[s].entry = e
                     PROVE  FALSE
        BY DEF JustSucceeded
      <4>2. e = entry /\ pc \in {"step", "fanin", "fallback"}
        BY <4>1, RunningThread DEF Durably
      <4>3. pc = "step"
        BY <2>4, <4>2 DEF Durably, Polls, Placed, Current
      <4>4. QED
        BY <2>2, <4>2, <4>3
    <3>2. {s \in JustSucceeded : task[s].entry = e} = {}
      BY <3>1
    <3>3. effects'[e] = effects[e] + Cardinality({s \in JustSucceeded : task[s].entry = e})
      BY <1>1, <2>4 DEF DStep
    <3>4. effects[e] \in Nat
      BY <2>4 DEF Durably, Ledger
    <3>5. effects'[e] = effects[e] + 0
      BY <3>2, <3>3, FS_EmptySet
    <3>6. QED
      BY <3>4, <3>5
  <2>5. QED
    BY <2>3, <2>4
<1>2. CASE Restart
  BY <1>2 DEF Restart, StartOver, Loaded
<1>3. CASE UNCHANGED durableVars
  BY <1>3 DEF durableVars, vars, history
<1>4. QED
  BY <1>1, <1>2, <1>3 DEF DNext, Crash, Rerun

(* checkpoint.py, points 1 and 2: whatever the store held at first and     *)
(* wherever the runs crash, a plain step that is in the store is never     *)
(* carried out again, and its record never changes.                        *)
THEOREM RecordedStepsAreNotRepeated == DSpec => RecordedStepsRunOnce
<1>1. Durably /\ [DNext]_durableVars
        => [\A e \in DOMAIN store :
              /\ e \in DOMAIN store' /\ store'[e] = store[e]
              /\ (e \in DOMAIN steps /\ steps[e].kind = "step")
                   => effects'[e] = effects[e]]_durableVars
  BY RecordedStays
<1>2. QED
  BY <1>1, CrashesAreSurvived, PTL DEF DSpec, RecordedStepsRunOnce

-----------------------------------------------------------------------------
(* What a run promises (RunContract).                                      *)

(* The records of the plain steps that were passed.                        *)
PastSteps == PlainSteps \ TasksOf(entry)

(* The entries before the one under way were carried out, each by its own  *)
(* record: a plain step by one in PastSteps, which has as many, a group by *)
(* the group's.  A run that stops has not carried out the entry it is at.  *)
Course ==
  /\ \A s \in DOMAIN task : task[s].group = Nothing <=> steps[task[s].entry].kind = "step"
  /\ \A s \in TasksOf(entry) : Current.kind = "step" => s = nextStepId - 1
  /\ Cardinality(PastSteps) = PlainEntries(entry - 1)
  /\ \A s \in PastSteps : journal.steps[s].status = "success"
  /\ \A e \in 1 .. entry - 1 :
       steps[e].kind # "step" => e \in DOMAIN journal.groups /\ journal.groups[e].status = "success"
  /\ pc = "finish" =>
       /\ entry \in DOMAIN steps
       /\ IF Current.kind = "step" THEN \A s \in TasksOf(entry) : task[s].status # "success"
          ELSE entry \in DOMAIN journal.groups => journal.groups[entry].status # "success"

(* The outcome of entry e, without step ids: the entries before the one    *)
(* under way were a success, the later ones are to be done.                *)
Stage(e) ==
  CASE e < entry -> "success"
    [] e > entry -> "todo"
    [] e = entry /\ steps[e].kind = "step" ->
         IF TasksOf(e) = {} THEN "todo"
         ELSE IF task[nextStepId - 1].pc = "done" THEN task[nextStepId - 1].status ELSE "running"
    [] e = entry /\ steps[e].kind # "step" ->
         IF e \notin DOMAIN journal.groups THEN "todo"
         ELSE IF pc \in InGroup THEN "running" ELSE journal.groups[e].status

(* The rank of a number in a finite set: ranks grow, and none is left out. *)
LEMMA RanksGrow ==
  ASSUME NEW P \in SUBSET Nat, IsFiniteSet(P), NEW s \in P, NEW t \in P, s < t
  PROVE  Cardinality({r \in P : r <= s}) < Cardinality({r \in P : r <= t})
<1> DEFINE A == {r \in P : r <= s}
           B == {r \in P : r <= t}
<1>1. A \in SUBSET B /\ t \in B /\ t \notin A
  <2>1. ASSUME NEW r \in P, r <= s
        PROVE  r <= t
    BY <2>1
  <2>2. t <= t /\ ~(t <= s)
    OBVIOUS
  <2>3. QED
    BY <2>1, <2>2
<1>2. IsFiniteSet(B)
  <2>1. B \in SUBSET P
    OBVIOUS
  <2>2. QED
    BY <2>1, FS_Subset
<1> HIDE DEF A, B
<1>3. IsFiniteSet(A) /\ Cardinality(A) <= Cardinality(B) /\ Cardinality(A) # Cardinality(B)
  BY <1>1, <1>2, FS_Subset
<1>4. Cardinality(A) \in Nat /\ Cardinality(B) \in Nat
  BY <1>2, <1>3, FS_CardinalityType
<1>5. Cardinality(A) < Cardinality(B)
  BY <1>3, <1>4
<1>6. QED
  BY <1>5 DEF A, B

LEMMA RanksAreTaken ==
  ASSUME NEW P \in SUBSET Nat, IsFiniteSet(P), NEW k \in 1 .. Cardinality(P)
  PROVE  \E s \in P : Cardinality({r \in P : r <= s}) = k
<1> DEFINE n == Cardinality(P)
           rank == [s \in P |-> Cardinality({r \in P : r <= s})]
<1>1. n \in Nat
  BY FS_CardinalityType
<1>2. IsFiniteSet(1 .. n) /\ Cardinality(1 .. n) = n
  BY <1>1, FS_Interval
<1>3. ASSUME NEW s \in P
      PROVE  rank[s] \in 1 .. n
  <2>1. PICK Q : Q = {r \in P : r <= s}
    OBVIOUS
  <2>2. Q \in SUBSET P /\ s \in Q
    BY <2>1
  <2>3. IsFiniteSet(Q) /\ Cardinality(Q) <= n
    BY <2>2, FS_Subset
  <2>4. Cardinality(Q) \in Nat /\ Cardinality(Q) # 0
    BY <2>2, <2>3, FS_CardinalityType, FS_EmptySet
  <2>5. rank[s] = Cardinality(Q)
    BY <2>1
  <2>6. QED
    BY <1>1, <2>3, <2>4, <2>5
<1>4. rank \in [P -> 1 .. n]
  BY <1>3
<1>5. ASSUME NEW s \in P, NEW t \in P, rank[s] = rank[t]
      PROVE  s = t
  <2>1. ~(s < t) /\ ~(t < s)
    <3>1. s < t => rank[s] < rank[t]
      BY RanksGrow
    <3>2. t < s => rank[t] < rank[s]
      BY RanksGrow
    <3>3. rank[s] \in Nat /\ rank[t] \in Nat
      BY <1>1, <1>3
    <3> HIDE DEF rank
    <3>4. QED
      BY <1>5, <3>1, <3>2, <3>3
  <2>2. QED
    BY <2>1
<1> HIDE DEF rank
<1>6. rank \in Injection(P, 1 .. n)
  BY <1>4, <1>5, Zenon DEF Injection, IsInjective
<1>7. rank \in Surjection(P, 1 .. n)
  BY <1>2, <1>6, FS_Injection
<1>8. PICK s \in P : rank[s] = k
  BY <1>7, Zenon DEF Surjection
<1>9. QED
  BY <1>8 DEF rank

(* How many of the entries up to e are plain steps.                        *)
LEMMA PlainCount ==
  ASSUME NEW e \in Nat
  PROVE  /\ PlainEntries(e) \in Nat /\ PlainEntries(0) = 0
         /\ PlainEntries(e + 1) = PlainEntries(e) + (IF steps[e + 1].kind = "step" THEN 1 ELSE 0)
<1> DEFINE C(n) == {i \in 1 .. n : steps[i].kind = "step"}
<1>1. \A n \in Nat : IsFiniteSet(C(n)) /\ Cardinality(C(n)) \in Nat
  <2> TAKE n \in Nat
  <2>1. IsFiniteSet(1 .. n)
    BY FS_Interval
  <2>2. C(n) \in SUBSET (1 .. n)
    OBVIOUS
  <2>3. QED
    BY <2>1, <2>2, FS_Subset, FS_CardinalityType
<1>0. \A n : PlainEntries(n) = Cardinality(C(n))
  BY DEF PlainEntries
<1>2. C(0) = {}
  OBVIOUS
<1>3. Cardinality(C(0)) = 0
  BY <1>2, FS_EmptySet
<1>4. e + 1 \notin C(e)
  OBVIOUS
<1>5. CASE steps[e + 1].kind = "step"
  <2>1. C(e + 1) = C(e) \cup {e + 1}
    BY <1>5
  <2>2. PICK Q : Q = C(e)
    OBVIOUS
  <2>3. Cardinality(Q \cup {e + 1}) = Cardinality(Q) + 1
    BY <1>1, <1>4, <2>2, FS_AddElement
  <2>4. QED
    BY <1>0, <1>1, <1>3, <1>5, <2>1, <2>2, <2>3
<1>6. CASE steps[e + 1].kind # "step"
  <2>1. C(e + 1) = C(e)
    BY <1>6
  <2>2. PlainEntries(e + 1) = PlainEntries(e) /\ PlainEntries(e) \in Nat
    BY <1>0, <1>1, <2>1
  <2>3. QED
    BY <1>0, <1>3, <1>6, <2>2
<1>7. QED
  BY <1>5, <1>6

LEMMA PlainCountGrows ==
  ASSUME NEW e \in Nat, NEW f \in Nat, e <= f
  PROVE  PlainEntries(e) <= PlainEntries(f)
<1>1. PICK C, D : /\ C = {i \in 1 .. e : steps[i].kind = "step"}
                  /\ D = {i \in 1 .. f : steps[i].kind = "step"}
  OBVIOUS
<1>2. C \in SUBSET D /\ D \in SUBSET (1 .. f)
  BY <1>1
<1>3. IsFiniteSet(1 .. f)
  BY FS_Interval
<1>4. IsFiniteSet(D)
  BY <1>2, <1>3, FS_Subset
<1>5. Cardinality(C) <= Cardinality(D)
  BY <1>2, <1>4, FS_Subset
<1>6. QED
  BY <1>1, <1>5 DEF PlainEntries

LEMMA PlainStepsFinite ==
  ASSUME IInv, Books
  PROVE  /\ PlainSteps \in SUBSET Nat /\ IsFiniteSet(PlainSteps) /\ IsFiniteSet(PastSteps)
         /\ \A s \in PlainSteps : s <= nextStepId - 1
<1>1. /\ nextStepId \in Nat \ {0} /\ DOMAIN journal.steps \subseteq Nat
      /\ \A s \in DOMAIN journal.steps : s < nextStepId
  BY MainFacts DEF JournalTyped, Books, StepsBooked
<1>2. PlainSteps \in SUBSET Nat /\ \A s \in PlainSteps : s <= nextStepId - 1
  BY <1>1 DEF PlainSteps
<1>3. IsFiniteSet(PlainSteps)
  <2>1. PICK n \in Nat : n = nextStepId - 1
    BY <1>1
  <2>2. QED
    BY <1>2, <2>1, FS_BoundedSetOfNaturals
<1>4. PastSteps \in SUBSET PlainSteps
  BY DEF PastSteps
<1>5. QED
  BY <1>2, <1>3, <1>4, FS_Subset

(* The plain step under way is the latest, if it has a record yet.         *)
LEMMA LatestStep ==
  ASSUME IInv, Books, Course
  PROVE  \/ PlainSteps = PastSteps
         \/ /\ PlainSteps = PastSteps \cup {nextStepId - 1} /\ nextStepId - 1 \notin PastSteps
            /\ nextStepId - 1 \in TasksOf(entry) /\ Current.kind = "step"
<1>1. \A s \in PlainSteps \cap TasksOf(entry) : Current.kind = "step" /\ s = nextStepId - 1
  <2> TAKE s \in PlainSteps \cap TasksOf(entry)
  <2>1. s \in DOMAIN task /\ task[s].entry = entry /\ journal.steps[s].group = Nothing
    BY DEF TasksOf, PlainSteps
  <2>2. s \in DOMAIN journal.steps
    BY DEF PlainSteps
  <2>3. task[s].group = Nothing
    BY <2>1, <2>2 DEF Books, ThreadsBooked, RecordFits
  <2>4. QED
    BY <2>1, <2>3 DEF Course, Current
<1>2. PlainSteps = PastSteps \cup (PlainSteps \cap TasksOf(entry))
  BY DEF PastSteps
<1>3. QED
  BY <1>1, <1>2 DEF PastSteps

(* The record that stands for each entry begun so far.                     *)
LEMMA OutcomeSteps ==
  ASSUME IInv, Books, Course
  PROVE  /\ \A e \in 1 .. entry - 1 : steps[e].kind = "step" =>
              /\ OutcomeStep(e) \in PastSteps /\ Rank(OutcomeStep(e)) = PlainEntries(e)
              /\ PlainEntries(e) <= Cardinality(PlainSteps)
         /\ PlainSteps # PastSteps =>
              OutcomeStep(entry) = nextStepId - 1 /\ PlainEntries(entry) <= Cardinality(PlainSteps)
         /\ PlainSteps = PastSteps => Cardinality(PlainSteps) = PlainEntries(entry - 1)
         /\ Cardinality(PlainSteps) \in Nat /\ Cardinality(PlainSteps) <= PlainEntries(entry)
<1> DEFINE last == nextStepId - 1
           n == PlainEntries(entry - 1)
<1>1. /\ PlainSteps \in SUBSET Nat /\ IsFiniteSet(PlainSteps) /\ IsFiniteSet(PastSteps)
      /\ \A s \in PlainSteps : s <= last
  BY PlainStepsFinite
<1>2. Cardinality(PastSteps) = n /\ n \in Nat /\ entry \in Nat \ {0} /\ entry - 1 \in Nat
      /\ PlainEntries(entry) = n + (IF Current.kind = "step" THEN 1 ELSE 0)
  <2>1. entry \in Nat \ {0}
    BY MainFacts
  <2>2. PICK e \in Nat : entry = e + 1
    BY <2>1
  <2>3. QED
    BY <2>1, <2>2, PlainCount DEF Course, Current
<1>3. CASE PlainSteps = PastSteps
  <2>1. Cardinality(PlainSteps) = n /\ n <= PlainEntries(entry)
    BY <1>2, <1>3
  <2>2. ASSUME NEW e \in 1 .. entry - 1, steps[e].kind = "step"
        PROVE  /\ OutcomeStep(e) \in PastSteps /\ Rank(OutcomeStep(e)) = PlainEntries(e)
               /\ PlainEntries(e) <= Cardinality(PlainSteps)
    <3>1. PlainEntries(e) \in 1 .. Cardinality(PlainSteps)
      <4>1. PICK d \in Nat : e = d + 1
        BY <1>2
      <4>2. PlainEntries(d) \in Nat /\ PlainEntries(d + 1) = PlainEntries(d) + 1
        BY <2>2, <4>1, PlainCount
      <4>3. PlainEntries(e) <= n
        BY <1>2, PlainCountGrows
      <4>4. QED
        BY <1>2, <2>1, <4>1, <4>2, <4>3
    <3>2. \E s \in PlainSteps : Rank(s) = PlainEntries(e)
      BY <1>1, <3>1, RanksAreTaken DEF Rank
    <3>3. OutcomeStep(e) = CHOOSE s \in PlainSteps : Rank(s) = PlainEntries(e)
      BY <2>2 DEF OutcomeStep
    <3>4. OutcomeStep(e) \in PlainSteps /\ Rank(OutcomeStep(e)) = PlainEntries(e)
      BY <3>2, <3>3
    <3>5. QED
      BY <1>2, <1>3, <2>1, <3>1, <3>4
  <2>3. QED
    BY <1>2, <1>3, <2>1, <2>2
<1>4. CASE PlainSteps # PastSteps
  <2>1. /\ PlainSteps = PastSteps \cup {last} /\ last \notin PastSteps
        /\ last \in TasksOf(entry) /\ Current.kind = "step"
    BY <1>4, LatestStep
  <2>2. Cardinality(PlainSteps) = n + 1 /\ PlainEntries(entry) = n + 1
    <3> HIDE DEF last
    <3>1. Cardinality(PastSteps \cup {last}) = Cardinality(PastSteps) + 1
      BY <1>1, <2>1, FS_AddElement
    <3>2. QED
      BY <1>2, <2>1, <3>1
  <2>3. Rank(last) = n + 1
    <3>1. {r \in PlainSteps : r <= last} = PlainSteps
      BY <1>1
    <3>2. QED
      BY <2>2, <3>1 DEF Rank
  <2>4. \A s \in PastSteps : Rank(s) \in Nat /\ Rank(s) < n + 1
    <3> TAKE s \in PastSteps
    <3>1. s \in PlainSteps /\ last \in PlainSteps /\ s < last
      <4>1. s \in PlainSteps /\ s # last /\ s <= last /\ s \in Nat /\ last \in PlainSteps /\ last \in Nat
        BY <1>1, <2>1
      <4> HIDE DEF last
      <4>2. QED
        BY <4>1
    <3>2. Rank(s) < Rank(last)
      BY <1>1, <3>1, RanksGrow DEF Rank
    <3>3. Rank(s) \in Nat
      <4>1. {r \in PlainSteps : r <= s} \in SUBSET PlainSteps
        OBVIOUS
      <4>2. IsFiniteSet({r \in PlainSteps : r <= s})
        BY <1>1, <4>1, FS_Subset
      <4>3. QED
        BY <4>2, FS_CardinalityType DEF Rank
    <3>4. QED
      BY <2>3, <3>2, <3>3
  <2>5. ASSUME NEW e \in 1 .. entry - 1, steps[e].kind = "step"
        PROVE  /\ OutcomeStep(e) \in PastSteps /\ Rank(OutcomeStep(e)) = PlainEntries(e)
               /\ PlainEntries(e) <= Cardinality(PlainSteps)
    <3>1. PlainEntries(e) \in 1 .. Cardinality(PlainSteps) /\ PlainEntries(e) <= n
      <4>1. PICK d \in Nat : e = d + 1
        BY <1>2
      <4>2. PlainEntries(d) \in Nat /\ PlainEntries(d + 1) = PlainEntries(d) + 1
        BY <2>5, <4>1, PlainCount
      <4>3. PlainEntries(e) <= n
        BY <1>2, PlainCountGrows
      <4>4. QED
        BY <1>2, <2>2, <4>1, <4>2, <4>3
    <3>2. \E s \in PlainSteps : Rank(s) = PlainEntries(e)
      BY <1>1, <3>1, RanksAreTaken DEF Rank
    <3>3. OutcomeStep(e) = CHOOSE s \in PlainSteps : Rank(s) = PlainEntries(e)
      BY <2>5 DEF OutcomeStep
    <3>4. OutcomeStep(e) \in PlainSteps /\ Rank(OutcomeStep(e)) = PlainEntries(e)
      BY <3>2, <3>3
    <3>5. OutcomeStep(e) # last
      BY <1>2, <2>3, <3>1, <3>4
    <3>6. QED
      BY <2>1, <3>1, <3>4, <3>5
  <2>6. OutcomeStep(entry) = last
    <3>1. OutcomeStep(entry) = CHOOSE s \in PlainSteps : Rank(s) = PlainEntries(entry)
      BY <2>1 DEF OutcomeStep, Current
    <3>2. last \in PlainSteps /\ Rank(last) = PlainEntries(entry)
      BY <2>1, <2>2, <2>3
    <3>3. OutcomeStep(entry) \in PlainSteps /\ Rank(OutcomeStep(entry)) = PlainEntries(entry)
      BY <3>1, <3>2
    <3>4. OutcomeStep(entry) \notin PastSteps
      BY <2>2, <2>4, <3>3
    <3>5. QED
      BY <2>1, <3>3, <3>4
  <2>7. QED
    BY <1>2, <1>4, <2>2, <2>5, <2>6
<1>5. QED
  BY <1>3, <1>4

LEMMA OutcomeIsStage ==
  ASSUME IInv, Books, Course, NEW e \in DOMAIN steps
  PROVE  EntryOutcome(e) = Stage(e)
<1> DEFINE last == nextStepId - 1
<1>1. /\ e \in Nat \ {0} /\ entry \in Nat \ {0}
      /\ JournalTyped(journal) /\ \A st \in Statuses : st # Nothing
  <2>1. steps \in Seq(EntryType)
    BY MainFacts, WorkflowAssumption
  <2>2. QED
    BY <2>1, MainFacts, NothingAssumption DEF Statuses
<1>2. /\ e > entry => e \notin DOMAIN journal.groups
      /\ \A g \in DOMAIN journal.groups : journal.groups[g].status = Nothing <=> g = entry /\ pc \in InGroup
      /\ e > entry => TasksOf(e) = {}
  <2>1. e > entry => ~Reached(e)
    BY <1>1 DEF Reached
  <2>2. QED
    BY <2>1 DEF Books, GroupsBooked, ThreadsBooked, TasksOf
<1>3. CASE e < entry /\ steps[e].kind # "step"
  <2>1. e \in DOMAIN journal.groups /\ journal.groups[e].status = "success"
    BY <1>1, <1>3 DEF Course
  <2>2. QED
    BY <1>1, <1>3, <2>1 DEF EntryOutcome, Shown, Stage, Statuses
<1>4. CASE e < entry /\ steps[e].kind = "step"
  <2>1. OutcomeStep(e) \in PastSteps /\ PlainEntries(e) <= Cardinality(PlainSteps)
    BY <1>1, <1>4, OutcomeSteps
  <2>2. journal.steps[OutcomeStep(e)].status = "success"
    BY <2>1 DEF Course
  <2>3. QED
    BY <1>1, <1>4, <2>1, <2>2 DEF EntryOutcome, Shown, Stage, Statuses
<1>5. CASE e > entry /\ steps[e].kind # "step"
  BY <1>1, <1>2, <1>5, NothingAssumption DEF EntryOutcome, Shown, Stage
<1>6. CASE e > entry /\ steps[e].kind = "step"
  <2>1. PICK d \in Nat : e = d + 1
    BY <1>1
  <2>2. /\ PlainEntries(d) \in Nat /\ PlainEntries(e) = PlainEntries(d) + 1
        /\ PlainEntries(entry) \in Nat /\ PlainEntries(entry) <= PlainEntries(d)
    BY <1>1, <1>6, <2>1, PlainCount, PlainCountGrows
  <2>3. ~(PlainEntries(e) <= Cardinality(PlainSteps))
    BY <2>2, OutcomeSteps
  <2>4. QED
    BY <1>1, <1>2, <1>6, <2>3, NothingAssumption DEF EntryOutcome, Shown, Stage
<1>7. CASE e = entry /\ steps[e].kind # "step"
  <2>1. e \in DOMAIN journal.groups => journal.groups[e].status = Nothing <=> pc \in InGroup
    BY <1>2, <1>7
  <2>2. QED
    BY <1>1, <1>7, <2>1, NothingAssumption DEF EntryOutcome, Shown, Stage
<1>8. CASE e = entry /\ steps[e].kind = "step" /\ TasksOf(e) = {}
  <2>1. PlainSteps = PastSteps
    BY <1>8, LatestStep
  <2>2. PICK d \in Nat : e = d + 1
    BY <1>1
  <2>3. PlainEntries(d) \in Nat /\ PlainEntries(e) = PlainEntries(d) + 1 /\ entry - 1 = d
    BY <1>8, <2>2, PlainCount
  <2>4. ~(PlainEntries(e) <= Cardinality(PlainSteps))
    BY <2>1, <2>3, OutcomeSteps
  <2>5. QED
    BY <1>1, <1>8, <2>4, NothingAssumption DEF EntryOutcome, Shown, Stage
<1>9. CASE e = entry /\ steps[e].kind = "step" /\ TasksOf(e) # {}
  <2>1. last \in TasksOf(entry) /\ TasksOf(entry) = {last}
    BY <1>9 DEF Course, Current
  <2>2. last \in DOMAIN task /\ task[last].entry = entry
    BY <2>1 DEF TasksOf
  <2>3. task[last].group = Nothing /\ RecordFits(last, task[last], journal)
    BY <1>9, <2>2 DEF Course, Books, ThreadsBooked
  <2> HIDE DEF last
  <2>4. task[last].pc = "done" => task[last].status \in Statuses
    BY <2>2, ReturnedFacts
  <2>5. CASE last \in PlainSteps
    <3>1. PlainSteps # PastSteps
      BY <2>1, <2>5 DEF PastSteps
    <3>2. OutcomeStep(e) = last /\ PlainEntries(e) <= Cardinality(PlainSteps)
      BY <1>9, <3>1, OutcomeSteps DEF last
    <3>3. last \in DOMAIN journal.steps
      BY <2>5 DEF PlainSteps
    <3>4. journal.steps[last].status = IF task[last].pc = "done" THEN task[last].status ELSE Nothing
      BY <2>3, <3>3 DEF RecordFits
    <3>5. EntryOutcome(e) = IF task[last].pc = "done" THEN task[last].status ELSE "running"
      BY <1>1, <1>9, <2>4, <3>2, <3>4 DEF EntryOutcome, Shown
    <3>6. QED
      BY <1>1, <1>9, <3>5 DEF Stage, last
  <2>6. CASE last \notin PlainSteps
    <3>1. PlainSteps = PastSteps
      <4>1. PlainSteps \cap TasksOf(entry) = {}
        BY <2>1, <2>6
      <4>2. QED
        BY <4>1 DEF PastSteps
    <3>2. PICK d \in Nat : e = d + 1
      BY <1>1
    <3>3. PlainEntries(d) \in Nat /\ PlainEntries(e) = PlainEntries(d) + 1 /\ entry - 1 = d
      BY <1>9, <3>2, PlainCount
    <3>4. ~(PlainEntries(e) <= Cardinality(PlainSteps))
      BY <3>1, <3>3, OutcomeSteps
    <3>5. EntryOutcome(e) = "running"
      BY <1>9, <3>4 DEF EntryOutcome, Shown
    <3>6. task[last].pc = "assigned"
      BY <2>3, <2>6 DEF RecordFits, PlainSteps
    <3>7. QED
      BY <1>1, <1>9, <3>5, <3>6 DEF Stage, last
  <2>7. QED
    BY <2>5, <2>6
<1>10. QED
  BY <1>1, <1>3, <1>4, <1>5, <1>6, <1>7, <1>8, <1>9

-----------------------------------------------------------------------------
(* A step of a thread keeps the course.                                    *)

GroupsKept ==
  /\ DOMAIN journal'.groups = DOMAIN journal.groups
  /\ \A g \in DOMAIN journal.groups : journal'.groups[g].status = journal.groups[g].status

LEMMA RunToolWrites ==
  ASSUME IInv, Polls, NEW s \in DOMAIN task, RunTool(s)
  PROVE  ThreadWrites(s)
BY SilentStepsWrite, StartStepWrites, ReportsWrite, EmitSucceededWrites DEF RunTool

(* What a handler does to one record leaves the groups alone.              *)
LEMMA EditsKeepGroupRecords ==
  ASSUME IInv, NEW s \in DOMAIN journal.steps,
         \/ \E v \in Maybe(Values) : journal' = OnToolSucceeded(journal, s, v)
         \/ \E e \in Maybe(Errors) : journal' = OnToolFailed(journal, s, e)
         \/ \E n : journal' = OnRetryAttempted(journal, s, n)
         \/ \E u : journal' = OnUsageReported(journal, s, u)
         \/ \E b : journal' = OnApprovalDecided(journal, s, b)
         \/ \E st : journal' = OnStepFinished(journal, s, st)
  PROVE  GroupsKept
<1>1. PICK a, b, c, d : journal = [steps |-> a, order |-> b, groups |-> c, status |-> d]
  BY MainFacts, JournalShape
<1>2. journal'.groups = journal.groups
  BY <1>1 DEF OnToolSucceeded, OnToolFailed, OnRetryAttempted, OnUsageReported,
              OnApprovalDecided, OnStepFinished
<1>3. QED
  BY <1>2 DEF GroupsKept

LEMMA ThreadKeepsGroups ==
  ASSUME IInv, Books, NEW s \in DOMAIN task, RunTool(s)
  PROVE  GroupsKept
<1>1. task[s] \in TaskType /\ (task[s].pc # "assigned" => s \in DOMAIN journal.steps)
  BY ThreadFacts
<1>2. CASE StartStep(s)
  <2> DEFINE k == OnStepStarted(journal, s, task[s].tool, task[s].group, FALSE)
  <2>1. journal' = k /\ task[s].pc = "assigned"
    BY <1>2 DEF StartStep, Moves
  <2>2. /\ s \notin DOMAIN journal.steps /\ s \in Nat \ {0} /\ FALSE \in BOOLEAN
        /\ task[s].group \in DOMAIN journal.groups \cup {Nothing} /\ task[s].tool \in ToolNames
    BY <1>1, <2>1, RunningThread, MainFacts, ToolAssumption
       DEF Books, ThreadsBooked, RecordFits, TaskType, IInv, TypeOK, TasksTyped
  <2>3. Adds(journal, k, s, task[s].group, Nothing)
    BY <2>2, FreshIds, StartedAdds
  <2> HIDE DEF k
  <2>4. QED
    BY <2>1, <2>3 DEF Adds, GroupsKept
<1>3. CASE \/ DenyCapability(s) \/ RequestApproval(s) \/ SkipApproval(s) \/ ApprovalRaises(s)
           \/ CallTool(s) \/ NoUsage(s) \/ UsageRaises(s) \/ AddCost(s)
           \/ \E v \in Outcomes[task[s].tool], c \in Costs[task[s].tool] : ToolReturns(s, v, c)
  <2>1. journal' = journal
    BY <1>3 DEF DenyCapability, RequestApproval, SkipApproval, ApprovalRaises, CallTool, NoUsage,
                UsageRaises, AddCost, ToolReturns
  <2>2. QED
    BY <2>1 DEF GroupsKept
<1>4. CASE \E approved \in BOOLEAN : DecideApproval(s, approved)
  BY <1>1, <1>4, EditsKeepGroupRecords DEF DecideApproval
<1>5. CASE ToolRaises(s)
  <2>1. \/ journal' = journal
        \/ \E n : journal' = OnRetryAttempted(journal, s, n)
    BY <1>5 DEF ToolRaises
  <2>2. QED
    BY <1>1, <1>5, <2>1, EditsKeepGroupRecords DEF GroupsKept, ToolRaises
<1>6. CASE EmitSucceeded(s) \/ EmitFailed(s) \/ ReportUsage(s)
  <2>1. task[s].output \in Maybe(Values) /\ task[s].error \in Maybe(Errors)
    BY <1>1 DEF TaskType
  <2>2. QED
    BY <1>1, <1>6, <2>1, EditsKeepGroupRecords DEF EmitSucceeded, EmitFailed, ReportUsage, Moves
<1>7. CASE FinishSucceeded(s) \/ FinishFailed(s)
  BY <1>1, <1>7, EditsKeepGroupRecords DEF FinishSucceeded, FinishFailed, Finishes
<1>8. QED
  BY <1>2, <1>3, <1>4, <1>5, <1>6, <1>7 DEF RunTool

LEMMA ThreadKeepsCourse ==
  ASSUME IInv, Books, Polls, Course, NEW s \in DOMAIN task, RunTool(s)
  PROVE  Course'
<1>1. /\ steps' = steps /\ pc' = pc /\ entry' = entry /\ nextStepId' = nextStepId
      /\ \A r \in DOMAIN journal.steps \ {s} :
           r \in DOMAIN journal'.steps /\ journal'.steps[r] = journal.steps[r]
      /\ DOMAIN journal'.steps \subseteq DOMAIN journal.steps \cup {s}
  BY RunToolWrites DEF ThreadWrites, main
<1>2. /\ DOMAIN task' = DOMAIN task /\ task[s].pc # "done"
      /\ \A r \in DOMAIN task : task'[r].entry = task[r].entry /\ task'[r].group = task[r].group
  BY RunToolWrites DEF ThreadWrites, SameCall, IInv, TypeOK, TasksTyped
<1>3. s \in TasksOf(entry) /\ pc # "finish"
  BY <1>2, RunningThread DEF TasksOf
<1>4. \A e : TasksOf(e)' = TasksOf(e)
  BY <1>2 DEF TasksOf
<1>5. PastSteps' = PastSteps /\ \A r \in PastSteps : journal'.steps[r] = journal.steps[r]
  BY <1>1, <1>3, <1>4 DEF PastSteps, PlainSteps
<1>6. GroupsKept
  BY ThreadKeepsGroups
<1>7. \A e : PlainEntries(e)' = PlainEntries(e)
  BY <1>1 DEF PlainEntries
<1>8. \A r \in DOMAIN task' : task'[r].group = Nothing <=> steps'[task'[r].entry].kind = "step"
  BY <1>1, <1>2 DEF Course
<1>9. \A r \in TasksOf(entry)' : Current'.kind = "step" => r = nextStepId' - 1
  BY <1>1, <1>4 DEF Course, Current
<1>10. Cardinality(PastSteps') = PlainEntries(entry - 1)'
  BY <1>1, <1>5, <1>7 DEF Course
<1>11. \A r \in PastSteps' : journal'.steps[r].status = "success"
  BY <1>5 DEF Course
<1>12. \A e \in 1 .. entry' - 1 : steps'[e].kind # "step" =>
          e \in DOMAIN journal'.groups /\ journal'.groups[e].status = "success"
  BY <1>1, <1>6 DEF Course, GroupsKept
<1>13. QED
  BY <1>1, <1>3, <1>8, <1>9, <1>10, <1>11, <1>12 DEF Course

-----------------------------------------------------------------------------
(* A step of the main thread keeps the course.                             *)

(* What the main thread writes: no record there is changes, and a new one  *)
(* belongs to a group, unless it replays a plain step.                     *)
Files ==
  /\ OldGroups(journal')
  /\ \A s \in DOMAIN journal.steps : s \in DOMAIN journal'.steps /\ journal'.steps[s] = journal.steps[s]
  /\ \A s \in DOMAIN journal'.steps \ DOMAIN journal.steps : journal'.steps[s].group = entry

LEMMA ClosesOld ==
  ASSUME IInv, Books, NEW m, JournalTyped(m), OldGroups(m), entry \in DOMAIN m.groups,
         NEW st \in Statuses, journal' = OnGroupFinished(m, entry, st)
  PROVE  /\ OldGroups(journal') /\ journal'.steps = m.steps
         /\ entry \in DOMAIN journal'.groups /\ journal'.groups[entry].status = st
<1>1. PICK k : k = OnGroupFinished(m, entry, st)
  OBVIOUS
<1>2. Marks(m, k, entry, st)
  BY <1>1, ClosedGroup DEF OldGroups
<1>3. k.steps = m.steps /\ DOMAIN k.groups = DOMAIN m.groups
  BY <1>2 DEF Marks
<1>4. OldGroups(k)
  BY <1>2, <1>3 DEF Marks, OldGroups
<1>5. QED
  BY <1>1, <1>2, <1>3, <1>4 DEF Marks

LEMMA SyntheticFiles ==
  ASSUME IInv, Books, NEW j, JournalTyped(j), j.steps = journal.steps, OldGroups(j),
         entry \in DOMAIN j.groups, NEW output \in Maybe(Values), NEW error \in Maybe(Errors),
         NEW confidence \in Maybe(Nat), NEW st \in Statuses, NEW k,
         k = RecordSynthetic(j, nextStepId, output, error, confidence),
         journal' = k \/ journal' = OnGroupFinished(k, entry, st)
  PROVE  /\ Files
         /\ journal' = OnGroupFinished(k, entry, st) => journal'.groups[entry].status = st
<1> DEFINE status == IF error = Nothing THEN "success" ELSE "failed"
<1>1. nextStepId \in Nat \ {0} /\ nextStepId \notin DOMAIN journal.steps
  BY MainFacts, FreshIds
<1>2. Adds(j, k, nextStepId, entry, status)
  BY <1>1, SyntheticAdds DEF OldGroups
<1> HIDE DEF status
<1>3. /\ JournalTyped(k) /\ OldGroups(k) /\ entry \in DOMAIN k.groups
      /\ \A s \in DOMAIN journal.steps : s \in DOMAIN k.steps /\ k.steps[s] = journal.steps[s]
      /\ \A s \in DOMAIN k.steps \ DOMAIN journal.steps : k.steps[s].group = entry
  BY <1>1, <1>2 DEF Adds, OnlyStep, OldGroups
<1>4. /\ OldGroups(journal') /\ journal'.steps = k.steps
      /\ journal' = OnGroupFinished(k, entry, st) => journal'.groups[entry].status = st
  BY <1>3, ClosesOld
<1>5. QED
  BY <1>3, <1>4 DEF Files

LEMMA MainFiles ==
  ASSUME IInv, Books, Polls, MainThread, ~ReplayStep
  PROVE  Files
<1>0. JournalTyped(journal) /\ OldGroups(journal)
  BY FreshIds, OldJournal
<1>1. CASE \/ StopForRuntime \/ StopForCost \/ RejectCheckpoint \/ BeginStep \/ EndStep \/ EndVoters
  <2>1. journal' = journal
    BY <1>1 DEF StopForRuntime, StopForCost, RejectCheckpoint, BeginStep, EndStep, EndVoters
  <2>2. QED
    BY <1>0, <2>1 DEF Files
<1>2. CASE BeginGroup \/ BeginReuse
  <2>1. PICK kind \in {"parallel", "consensus"} :
          pc = "next" /\ journal' = OnGroupStarted(journal, entry, kind)
    <3>1. BeginReuse => Current.source \in DOMAIN groupOutputs
      BY SourcePolled DEF BeginReuse, MayEnter
    <3>2. QED
      BY <1>2, <3>1 DEF BeginGroup, BeginReuse, MayEnter
  <2>2. PICK k : k = OnGroupStarted(journal, entry, kind)
    OBVIOUS
  <2>3. k.steps = journal.steps /\ OldGroups(k)
    BY <2>1, <2>2, OpenedEntry
  <2>4. QED
    BY <2>1, <2>2, <2>3 DEF Files
<1>3. CASE EndParallel \/ EndVotersFailed \/ EndFallback
  <2>1. PICK st \in Statuses : journal' = OnGroupFinished(journal, entry, st)
    <3>1. EndFallback => FallbackStatus \in Statuses
      BY ReturnedFacts DEF EndFallback, FallbackStatus, IInv, MainOK, TasksOf
    <3>2. GroupStatus \in Statuses /\ "failed" \in Statuses
      BY DEF GroupStatus, Statuses
    <3>3. QED
      BY <1>3, <3>1, <3>2 DEF EndParallel, EndVotersFailed, EndFallback
  <2>2. entry \in DOMAIN journal.groups
    BY <1>3 DEF EndParallel, EndVotersFailed, EndFallback, Books, OpenBooked, InGroup
  <2>3. OldGroups(journal') /\ journal'.steps = journal.steps
    BY <1>0, <2>1, <2>2, ClosesOld
  <2>4. QED
    BY <2>3 DEF Files
<1>4. CASE Agree \/ AgreeThenFallBack \/ StrategyRaises
  <2>1. entry \in DOMAIN journal.groups /\ entry \in DOMAIN steps /\ pc = "reduce"
    BY <1>4, MainFacts DEF Agree, AgreeThenFallBack, StrategyRaises, Books, OpenBooked, InGroup
  <2>2. /\ Nothing \in Maybe(Errors) /\ "raised" \in Maybe(Errors)
        /\ Nothing \in Maybe(Values) /\ Nothing \in Maybe(Nat)
        /\ "success" \in Statuses /\ "failed" \in Statuses
    BY DEF Maybe, Errors, Statuses
  <2>3. PICK v \in Maybe(Values), error \in Maybe(Errors), confidence \in Maybe(Nat), st \in Statuses :
          \/ journal' = RecordSynthetic(journal, nextStepId, v, error, confidence)
          \/ journal' = OnGroupFinished(
                          RecordSynthetic(journal, nextStepId, v, error, confidence), entry, st)
    <3>1. CASE StrategyRaises
      BY <2>2, <3>1 DEF StrategyRaises
    <3>2. CASE Agree \/ AgreeThenFallBack
      <4>1. PICK verdict \in Verdicts :
              \/ journal' = RecordSynthetic(journal, nextStepId, verdict[1], Nothing, verdict[2])
              \/ journal' = OnGroupFinished(
                     RecordSynthetic(journal, nextStepId, verdict[1], Nothing, verdict[2]),
                     entry, "success")
        BY <3>2 DEF Agree, AgreeThenFallBack
      <4>2. verdict[1] \in Maybe(Values) /\ verdict[2] \in Maybe(Nat)
        BY <2>1, VerdictsType DEF Maybe
      <4>3. QED
        BY <2>2, <4>1, <4>2
    <3>3. QED
      BY <1>4, <3>1, <3>2
  <2>4. PICK k : k = RecordSynthetic(journal, nextStepId, v, error, confidence)
    OBVIOUS
  <2>5. QED
    BY <1>0, <2>1, <2>3, <2>4, SyntheticFiles
<1>5. CASE FinishWorkflow
  <2>1. PICK a, b, c, d : journal = [steps |-> a, order |-> b, groups |-> c, status |-> d]
    BY <1>0, JournalShape
  <2>2. journal'.steps = journal.steps /\ journal'.groups = journal.groups
    BY <1>5, <2>1 DEF FinishWorkflow, OnWorkflowFinished
  <2>3. \A g : Members(journal', g) = Members(journal, g)
    BY <2>2 DEF Members
  <2>4. QED
    BY <1>0, <2>2, <2>3 DEF Files, OldGroups, Grouped
<1>6. QED
  BY <1>1, <1>2, <1>3, <1>4, <1>5 DEF MainThread

(* The cursor stays or moves on by one, to where an entry can begin.       *)
LEMMA EntryMoves ==
  ASSUME IInv, Polls, MainThread
  PROVE  \/ entry' = entry /\ pc' # "next"
         \/ entry' = entry + 1 /\ pc' = "next" /\ entry \in DOMAIN steps
<1>1. CASE EndStep
  BY <1>1, MainFacts DEF EndStep, EndEntry, Stop
<1>2. CASE ~EndStep
  BY <1>2, MainGoesOn DEF Waits, Passes
<1>3. QED
  BY <1>1, <1>2

LEMMA MainRecords ==
  ASSUME IInv, Books, Polls, MainThread
  PROVE  \A s \in DOMAIN journal.steps :
           s \in DOMAIN journal'.steps /\ journal'.steps[s] = journal.steps[s]
<1>1. CASE ReplayStep
  BY <1>1, ReplayAdds, FreshIds DEF Adds, OnlyStep
<1>2. CASE ~ReplayStep
  BY <1>2, MainFiles DEF Files
<1>3. QED
  BY <1>1, <1>2

(* When the main thread gives an entry up, a group is marked as failed.    *)
LEMMA StopMarks ==
  ASSUME IInv, Books, Polls, MainThread, pc' = "finish"
  PROVE  /\ entry \in DOMAIN steps /\ entry' = entry
         /\ \/ pc = "next" /\ journal' = journal /\ task' = task
            \/ EndStep /\ task[nextStepId - 1].status = "failed" /\ journal' = journal
            \/ /\ pc \in InGroup /\ Current.kind # "step"
               /\ journal'.groups[entry].status = "failed"
<1>0. JournalTyped(journal) /\ OldGroups(journal)
  BY FreshIds, OldJournal
<1>1. CASE StopForRuntime \/ StopForCost
  BY <1>1 DEF StopForRuntime, StopForCost, Stop
<1>2. CASE EndStep
  BY <1>2, MainFacts DEF EndStep, EndEntry, Stop
<1>3. CASE EndParallel \/ EndVotersFailed \/ EndFallback
  <2>1. /\ journal' = OnGroupFinished(journal, entry, "failed") /\ entry' = entry
        /\ entry \in DOMAIN journal.groups /\ entry \in DOMAIN steps /\ Current.kind # "step"
        /\ pc \in InGroup
    BY <1>3, MainFacts DEF EndParallel, EndVotersFailed, EndFallback, EndEntry, Stop, Books,
       OpenBooked, InGroup, Polls, Placed
  <2>2. "failed" \in Statuses
    BY DEF Statuses
  <2>3. journal'.groups[entry].status = "failed"
    BY <1>0, <2>1, <2>2, ClosesOld
  <2>4. QED
    BY <2>1, <2>3
<1>4. CASE StrategyRaises
  <2>1. /\ journal' = OnGroupFinished(
                        RecordSynthetic(journal, nextStepId, Nothing, "raised", Nothing),
                        entry, "failed")
        /\ entry' = entry
        /\ entry \in DOMAIN journal.groups /\ entry \in DOMAIN steps /\ Current.kind # "step"
        /\ pc \in InGroup
    BY <1>4, MainFacts DEF StrategyRaises, Stop, Books, OpenBooked, InGroup, Polls, Placed
  <2>2. /\ "failed" \in Statuses /\ "raised" \in Maybe(Errors)
        /\ Nothing \in Maybe(Values) /\ Nothing \in Maybe(Nat)
    BY DEF Maybe, Errors, Statuses
  <2>3. PICK k : k = RecordSynthetic(journal, nextStepId, Nothing, "raised", Nothing)
    OBVIOUS
  <2>4. journal' = OnGroupFinished(k, entry, "failed")
    BY <2>1, <2>3
  <2>5. journal'.groups[entry].status = "failed"
    BY <1>0, <2>1, <2>2, <2>3, <2>4, SyntheticFiles
  <2>6. QED
    BY <2>1, <2>5
<1>5. CASE BeginReuse
  <2>1. Current.source \in DOMAIN groupOutputs
    BY <1>5, SourcePolled DEF BeginReuse, MayEnter
  <2>2. pc' = "reduce"
    BY <1>5, <2>1 DEF BeginReuse
  <2>3. QED
    BY <2>2
<1>6. CASE \/ ReplayStep \/ RejectCheckpoint \/ BeginStep \/ BeginGroup \/ EndVoters
           \/ Agree \/ AgreeThenFallBack \/ FinishWorkflow
  BY <1>6 DEF ReplayStep, RejectCheckpoint, BeginStep, BeginGroup, EndVoters, Agree,
              AgreeThenFallBack, FinishWorkflow, EndEntry
<1>7. QED
  BY <1>1, <1>2, <1>3, <1>4, <1>5, <1>6 DEF MainThread

(* Once a plain step has its thread no step is numbered before the next.   *)
LEMMA NumberStays ==
  ASSUME IInv, Books, Polls, MainThread, TasksOf(entry) # {}, Current.kind = "step"
  PROVE  nextStepId' = nextStepId /\ (EndStep \/ FinishWorkflow)
<1>1. pc # "next" /\ pc \notin {"fanin", "reduce", "fallback"}
  BY DEF Books, ThreadsBooked, Reached, TasksOf, Polls, Placed
<1>2. EndStep \/ FinishWorkflow
  BY <1>1 DEF MainThread, StopForRuntime, StopForCost, ReplayStep, RejectCheckpoint, BeginStep,
     BeginGroup, EndParallel, EndVotersFailed, EndVoters, BeginReuse, Agree, AgreeThenFallBack,
     StrategyRaises, EndFallback, MayEnter
<1>3. QED
  BY <1>2 DEF EndStep, FinishWorkflow, main

(* The threads there are, and those of a step of the main thread.          *)
LEMMA MainKeepsThreads ==
  ASSUME IInv, Books, Polls, Course, MainThread, IInv', Books', Polls'
  PROVE  /\ \A s \in DOMAIN task' : task'[s].group = Nothing <=> steps'[task'[s].entry].kind = "step"
         /\ \A s \in TasksOf(entry)' : steps'[entry'].kind = "step" => s = nextStepId' - 1
         /\ pc' = "next" => TasksOf(entry)' = {}
         /\ \A s \in DOMAIN task' \ DOMAIN task : s \notin DOMAIN journal.steps /\ entry' = entry
<1>1. ThreadsKept /\ steps' = steps /\ Nothing # entry
  BY MainMoves, FreshIds
<1>2. ASSUME NEW s \in DOMAIN task' \ DOMAIN task
      PROVE  /\ entry' = entry /\ pc' \in {"step", "fanin", "fallback"} /\ task'[s].entry = entry
             /\ pc' \in {"step", "fallback"} => s = nextStepId' - 1
             /\ s \in DOMAIN journal'.steps => journal'.steps[s].status = Nothing
  <2>1. task'[s].entry = entry /\ task'[s].pc # "done"
    BY <1>1 DEF ThreadsKept
  <2>2. NoOrphanThread' /\ MainOK' /\ ThreadsBooked'
    BY DEF IInv, Books
  <2>3. s \in DOMAIN journal'.steps => journal'.steps[s].status = Nothing
    BY <2>1, <2>2 DEF ThreadsBooked, RecordFits
  <2>4. entry' = entry /\ pc' \in {"step", "fanin", "fallback"}
    BY <2>1, <2>2 DEF NoOrphanThread
  <2>5. pc' \in {"step", "fallback"} => s = nextStepId' - 1
    BY <2>1, <2>2 DEF MainOK
  <2>6. QED
    BY <2>1, <2>3, <2>4, <2>5
<1>3. /\ pc' \in InGroup => \A s \in TasksOf(entry)' : task'[s].group = entry'
      /\ pc' = "step" => task'[nextStepId' - 1].group = Nothing /\ steps'[entry'].kind = "step"
      /\ pc' \in {"fanin", "fallback"} => steps'[entry'].kind # "step"
      /\ \A s \in DOMAIN task' : task'[s].entry = entry' => pc' # "next"
  BY DEF Books, OpenBooked, ThreadsBooked, Reached, Polls, Placed, Current
<1>4. ASSUME NEW s \in DOMAIN task'
      PROVE  task'[s].group = Nothing <=> steps'[task'[s].entry].kind = "step"
  <2>1. CASE s \in DOMAIN task
    BY <1>1, <2>1 DEF ThreadsKept, Course
  <2>2. CASE s \notin DOMAIN task
    <3>1. CASE pc' = "step"
      BY <1>1, <1>2, <1>3, <2>2, <3>1
    <3>2. CASE pc' \in {"fanin", "fallback"}
      <4>1. s \in TasksOf(entry)' /\ entry' = entry /\ task'[s].entry = entry
        BY <1>2, <2>2 DEF TasksOf
      <4>2. QED
        BY <1>1, <1>3, <3>2, <4>1 DEF InGroup
    <3>3. QED
      BY <1>2, <2>2, <3>1, <3>2
  <2>3. QED
    BY <2>1, <2>2
<1>5. pc' = "next" => TasksOf(entry)' = {}
  BY <1>3 DEF TasksOf
<1>6. ASSUME NEW s \in TasksOf(entry)', steps'[entry'].kind = "step"
      PROVE  s = nextStepId' - 1
  <2>1. s \in DOMAIN task' /\ task'[s].entry = entry' /\ pc' # "next"
    BY <1>5 DEF TasksOf
  <2>2. CASE s \notin DOMAIN task
    BY <1>2, <1>3, <1>6, <2>1, <2>2
  <2>3. CASE s \in DOMAIN task
    <3>1. task[s].entry = entry' /\ Reached(entry')
      BY <1>1, <2>1, <2>3 DEF ThreadsKept, Books, ThreadsBooked
    <3>2. entry' = entry
      BY <2>1, <3>1, MainFacts, EntryMoves DEF Reached
    <3>3. s \in TasksOf(entry) /\ Current.kind = "step"
      BY <1>1, <1>6, <2>3, <3>1, <3>2 DEF TasksOf, Current
    <3>4. QED
      BY <3>3, NumberStays DEF Course
  <2>4. QED
    BY <2>2, <2>3
<1>7. ASSUME NEW s \in DOMAIN task' \ DOMAIN task
      PROVE  s \notin DOMAIN journal.steps /\ entry' = entry
  <2>1. s \in DOMAIN journal.steps => /\ journal.steps[s].status \in Statuses
                                      /\ s \in DOMAIN journal'.steps
                                      /\ journal'.steps[s] = journal.steps[s]
    BY MainRecords DEF Books, StepsBooked
  <2>2. QED
    BY <1>2, <2>1, NothingIsNew
<1>8. QED
  BY <1>4, <1>5, <1>6, <1>7

(* Only its own end, or a replay, takes the run past a plain step.         *)
LEMMA PassedByEndStep ==
  ASSUME IInv, Books, Polls, MainThread, entry' = entry + 1, Current.kind = "step"
  PROVE  ReplayStep \/ EndStep
<1>1. pc' = "next" /\ entry \in DOMAIN steps
  BY EntryMoves, MainFacts
<1>2. pc \notin {"fanin", "reduce", "fallback"}
  BY DEF Polls, Placed
<1>3. QED
  BY <1>1, <1>2 DEF MainThread, StopForRuntime, StopForCost, RejectCheckpoint, BeginStep,
     BeginGroup, EndParallel, EndVotersFailed, EndVoters, BeginReuse, Agree, AgreeThenFallBack,
     StrategyRaises, EndFallback, MayEnter, FinishWorkflow, Stop

(* A group is passed from inside it.                                       *)
LEMMA PassedFromGroup ==
  ASSUME IInv, Books, Polls, MainThread, entry' = entry + 1, Current.kind # "step"
  PROVE  pc \in InGroup /\ entry \in DOMAIN journal.groups
<1>1. pc' = "next" /\ entry \in DOMAIN steps
  BY EntryMoves, MainFacts
<1>2. pc # "step"
  BY DEF Polls, Placed
<1>3. pc \in InGroup
  <2>1. BeginReuse => pc' # "next"
    BY DEF BeginReuse, Stop
  <2>2. QED
    BY <1>1, <1>2, <2>1 DEF MainThread, StopForRuntime, StopForCost, ReplayStep, Recorded,
       RejectCheckpoint, BeginStep, EndStep,
       BeginGroup, EndParallel, EndVotersFailed, EndVoters, Agree, AgreeThenFallBack,
       StrategyRaises, EndFallback, MayEnter, FinishWorkflow, Stop, InGroup
<1>4. QED
  BY <1>3 DEF Books, OpenBooked

LEMMA WellBetweenEntries == IInv /\ Books /\ pc = "next" => AllWell(journal)
BY UnderWay

(* The records of the steps passed, when the entry stays ...               *)
LEMMA PastStays ==
  ASSUME IInv, Books, Polls, Course, MainThread, IInv', Books', Polls', entry' = entry
  PROVE  PastSteps' = PastSteps
<1>1. /\ \A s \in DOMAIN task' \ DOMAIN task : s \notin DOMAIN journal.steps
      /\ ThreadsKept
  BY MainKeepsThreads, MainMoves
<1>2. PlainSteps' = PlainSteps
  <2>1. ~ReplayStep
    <3>1. ReplayStep => entry' = entry + 1
      BY DEF ReplayStep, EndEntry
    <3>2. QED
      BY <3>1, MainFacts
  <2>2. entry # Nothing
    BY FreshIds
  <2>3. QED
    BY <2>1, <2>2, MainFiles DEF Files, PlainSteps
<1>3. PlainSteps \cap TasksOf(entry)' = PlainSteps \cap TasksOf(entry)
  BY <1>1 DEF ThreadsKept, TasksOf, PlainSteps
<1>4. QED
  BY <1>2, <1>3 DEF PastSteps

(* ... and when it is passed: a plain step adds its own.                   *)
LEMMA PastGrows ==
  ASSUME IInv, Books, Polls, Course, MainThread, IInv', Books', Polls', entry' = entry + 1
  PROVE  IF Current.kind = "step"
         THEN \E s : s \notin PastSteps /\ PastSteps' = PastSteps \cup {s}
         ELSE PastSteps' = PastSteps
<1>1. PastSteps' = PlainSteps'
  <2>1. pc' = "next"
    BY EntryMoves, MainFacts
  <2>2. TasksOf(entry)' = {}
    BY <2>1, MainKeepsThreads
  <2>3. QED
    BY <2>2 DEF PastSteps
<1>2. CASE ReplayStep
  <2>1. TasksOf(entry) = {} /\ Current.kind = "step"
    BY <1>2 DEF ReplayStep, MayEnter, Recorded, Books, ThreadsBooked, Reached, TasksOf
  <2>2. Adds(journal, journal', nextStepId, Nothing, "success") /\ nextStepId \notin DOMAIN journal.steps
    BY <1>2, ReplayAdds, FreshIds
  <2>3. PlainSteps' = PlainSteps \cup {nextStepId} /\ nextStepId \notin PlainSteps
    BY <2>2 DEF Adds, OnlyStep, PlainSteps
  <2>4. QED
    BY <1>1, <2>1, <2>3 DEF PastSteps
<1>3. CASE ~ReplayStep
  <2>1. PlainSteps' = PlainSteps
    <3>1. entry # Nothing
      BY FreshIds
    <3>2. QED
      BY <1>3, <3>1, MainFiles DEF Files, PlainSteps
  <2>2. CASE Current.kind # "step"
    BY <1>1, <2>1, <2>2, LatestStep
  <2>3. CASE Current.kind = "step"
    <3>1. EndStep
      BY <1>3, <2>3, PassedByEndStep
    <3>2. nextStepId - 1 \in PlainSteps /\ nextStepId - 1 \in TasksOf(entry)
      <4>1. nextStepId - 1 \in DOMAIN task /\ task[nextStepId - 1].pc = "done"
            /\ nextStepId - 1 \in TasksOf(entry) /\ task[nextStepId - 1].group = Nothing
        BY <3>1 DEF EndStep, IInv, MainOK, TasksOf, Books, OpenBooked
      <4>2. QED
        BY <4>1 DEF Books, ThreadsBooked, RecordFits, PlainSteps
    <3>3. nextStepId - 1 \notin PastSteps /\ PlainSteps = PastSteps \cup {nextStepId - 1}
      BY <3>2, LatestStep DEF PastSteps
    <3>4. QED
      BY <1>1, <2>1, <2>3, <3>3
  <2>4. QED
    BY <2>2, <2>3
<1>4. QED
  BY <1>2, <1>3

LEMMA MainKeepsCourse ==
  ASSUME IInv, Books, Polls, Course, MainThread, IInv', Books', Polls'
  PROVE  Course'
<1>1. /\ \A s \in DOMAIN task' : task'[s].group = Nothing <=> steps'[task'[s].entry].kind = "step"
      /\ \A s \in TasksOf(entry)' : steps'[entry'].kind = "step" => s = nextStepId' - 1
      /\ \A s \in DOMAIN task' \ DOMAIN task : s \notin DOMAIN journal.steps /\ entry' = entry
      /\ ThreadsKept /\ steps' = steps
  BY MainKeepsThreads, MainMoves
<1>2. /\ entry \in Nat \ {0} /\ entry # Nothing
      /\ \A s \in DOMAIN journal.steps :
           s \in DOMAIN journal'.steps /\ journal'.steps[s] = journal.steps[s]
  BY MainFacts, FreshIds, MainRecords
<1>3. \A e : PlainEntries(e)' = PlainEntries(e)
  BY <1>1 DEF PlainEntries
<1>4. OldGroups(journal')
  <2>1. ReplayStep => OldGroups(journal')
    BY ReplayAdds, OldJournal DEF Adds, OldGroups
  <2>2. QED
    BY <2>1, MainFiles DEF Files
<1>5. \A e \in 1 .. entry - 1 : steps[e].kind # "step" =>
        e \in DOMAIN journal'.groups /\ journal'.groups[e].status = "success"
  <2> TAKE e \in 1 .. entry - 1
  <2>1. e # entry
    BY <1>2
  <2>2. QED
    BY <1>4, <2>1 DEF Course, OldGroups
<1>6. CASE entry' = entry
  <2>1. PastSteps' = PastSteps
    BY <1>6, PastStays
  <2>2. Cardinality(PastSteps') = PlainEntries(entry - 1)'
    BY <1>3, <1>6, <2>1 DEF Course
  <2>3. \A s \in PastSteps' : journal'.steps[s].status = "success"
    BY <1>2, <2>1 DEF Course, PastSteps, PlainSteps
  <2>4. ASSUME pc' = "finish"
        PROVE  /\ entry' \in DOMAIN steps'
               /\ IF steps'[entry'].kind = "step"
                  THEN \A s \in TasksOf(entry)' : task'[s].status # "success"
                  ELSE entry' \in DOMAIN journal'.groups => journal'.groups[entry'].status # "success"
    <3>1. /\ entry \in DOMAIN steps
          /\ \/ pc = "next" /\ journal' = journal
             \/ EndStep /\ task[nextStepId - 1].status = "failed" /\ journal' = journal
             \/ Current.kind # "step" /\ journal'.groups[entry].status = "failed"
      BY <2>4, StopMarks
    <3>2. CASE pc = "next" /\ journal' = journal
      <4>1. TasksOf(entry)' = {}
        <5>1. \A s \in DOMAIN task : task[s].entry # entry
          BY <3>2 DEF Books, ThreadsBooked, Reached
        <5>2. NoThread'
          BY <2>4 DEF IInv, NoOrphanThread, NoThread
        <5>3. \A s \in DOMAIN task' : s \in DOMAIN task /\ task'[s] = task[s]
          BY <1>1, <5>2 DEF ThreadsKept, NoThread
        <5>4. QED
          BY <1>6, <5>1, <5>3 DEF TasksOf
      <4>2. entry \notin DOMAIN journal.groups
        BY <3>2, FreshIds
      <4>3. QED
        BY <1>1, <1>6, <3>1, <3>2, <4>1, <4>2
    <3>3. CASE EndStep /\ task[nextStepId - 1].status = "failed" /\ journal' = journal
      <4>1. task' = task /\ Current.kind = "step" /\ nextStepId' = nextStepId
        BY <3>3 DEF EndStep, Polls, Placed
      <4>2. QED
        BY <1>1, <1>6, <3>1, <3>3, <4>1 DEF Current
    <3>4. CASE Current.kind # "step" /\ journal'.groups[entry].status = "failed"
      BY <1>1, <1>6, <3>1, <3>4 DEF Current
    <3>5. QED
      BY <3>1, <3>2, <3>3, <3>4
  <2>5. QED
    BY <1>1, <1>5, <1>6, <2>2, <2>3, <2>4 DEF Course, Current
<1>7. CASE entry' = entry + 1
  <2>1. pc' = "next" /\ AllWell(journal')
    <3>1. pc' = "next"
      BY <1>2, <1>7, EntryMoves
    <3>2. (IInv /\ Books /\ pc = "next" => AllWell(journal))'
      BY WellBetweenEntries, PTL
    <3>3. QED
      BY <3>1, <3>2 DEF AllWell
  <2>2. PlainEntries(entry) = PlainEntries(entry - 1) + (IF Current.kind = "step" THEN 1 ELSE 0)
    <3>1. PICK e \in Nat : entry = e + 1
      BY <1>2
    <3>2. QED
      BY <3>1, PlainCount DEF Current
  <2>3. Cardinality(PastSteps') = PlainEntries(entry)
    <3>1. IsFiniteSet(PastSteps) /\ Cardinality(PastSteps) = PlainEntries(entry - 1)
      BY PlainStepsFinite DEF Course
    <3>2. CASE Current.kind # "step"
      <4>1. PastSteps' = PastSteps
        BY <1>7, <3>2, PastGrows
      <4>2. PlainEntries(entry - 1) \in Nat
        <5>1. PICK e \in Nat : e = entry - 1
          BY <1>2
        <5>2. QED
          BY <5>1, PlainCount
      <4>3. QED
        BY <2>2, <3>1, <3>2, <4>1, <4>2
    <3>3. CASE Current.kind = "step"
      <4>1. PICK s : s \notin PastSteps /\ PastSteps' = PastSteps \cup {s}
        BY <1>7, <3>3, PastGrows
      <4>2. Cardinality(PastSteps \cup {s}) = Cardinality(PastSteps) + 1
        BY <3>1, <4>1, FS_AddElement
      <4>3. QED
        BY <2>2, <3>1, <3>3, <4>1, <4>2
    <3>4. QED
      BY <3>2, <3>3
  <2>4. Cardinality(PastSteps') = PlainEntries(entry - 1)'
    <3>1. entry' - 1 = entry
      BY <1>2, <1>7
    <3>2. PlainEntries(entry - 1)' = PlainEntries(entry)
      BY <1>1, <3>1 DEF PlainEntries
    <3>3. QED
      BY <2>3, <3>2
  <2>5. \A s \in PastSteps' : journal'.steps[s].status = "success"
    BY <2>1 DEF PastSteps, PlainSteps, AllWell
  <2>6. Current.kind # "step" =>
          entry \in DOMAIN journal'.groups /\ journal'.groups[entry].status = "success"
    <3> SUFFICES ASSUME Current.kind # "step"
                 PROVE  entry \in DOMAIN journal'.groups /\ journal'.groups[entry].status = "success"
      OBVIOUS
    <3>1. entry \in DOMAIN journal'.groups
      BY <1>4, <1>7, PassedFromGroup DEF OldGroups
    <3>2. entry # entry'
      BY <1>2, <1>7
    <3>3. Summarized(journal', entry)
      BY <3>1, <3>2 DEF Books, GroupsBooked
    <3>4. QED
      BY <2>1, <3>1, <3>3 DEF Summarized, AllWell, Members
  <2>7. \A e \in 1 .. entry' - 1 : steps'[e].kind # "step" =>
          e \in DOMAIN journal'.groups /\ journal'.groups[e].status = "success"
    <3> TAKE e \in 1 .. entry' - 1
    <3>1. e = entry \/ e \in 1 .. entry - 1
      BY <1>2, <1>7
    <3>2. QED
      BY <1>1, <1>5, <2>6, <3>1 DEF Current
  <2>8. QED
    BY <1>1, <2>1, <2>4, <2>5, <2>7 DEF Course, Current
<1>8. QED
  BY <1>6, <1>7, EntryMoves

LEMMA FreshCourse == Fresh => Course
<1> SUFFICES ASSUME Fresh PROVE Course
  OBVIOUS
<1>1. /\ journal.steps = << >> /\ journal.groups = << >> /\ task = << >> /\ pc = "next"
      /\ entry = 1 /\ DOMAIN << >> = {}
  BY DEF Fresh, EmptyJournal
<1>2. PastSteps = {}
  BY <1>1 DEF PastSteps, PlainSteps
<1>3. Cardinality(PastSteps) = PlainEntries(entry - 1)
  <2>1. PlainEntries(0) = 0 /\ Cardinality({}) = 0 /\ entry - 1 = 0
    BY <1>1, PlainCount, FS_EmptySet
  <2>2. QED
    BY <1>2, <2>1
<1>4. QED
  BY <1>1, <1>2, <1>3 DEF Course, TasksOf

LEMMA NextKeepsCourse ==
  /\ IInv /\ Books /\ Polls /\ Course /\ [Next]_vars /\ IInv' /\ Books' /\ Polls'
  => Course'
<1> SUFFICES ASSUME IInv, Books, Polls, Course, [Next]_vars, IInv', Books', Polls'
             PROVE  Course'
  OBVIOUS
<1>1. CASE MainThread
  BY <1>1, MainKeepsCourse
<1>2. CASE \E s \in DOMAIN task : RunTool(s)
  BY <1>2, ThreadKeepsCourse
<1>3. CASE UNCHANGED vars
  BY <1>3 DEF vars, Course, PastSteps, PlainSteps, PlainEntries, TasksOf, Current
<1>4. QED
  BY <1>1, <1>2, <1>3 DEF Next, Step, Terminating

(* Every run keeps its course: the entries behind it were carried out, in  *)
(* order and each by its own step or group.                                *)
THEOREM CourseIsKept == Spec => []Course
<1>1. Init => Course
  BY InitIsFresh, FreshCourse
<1>2. QED
  BY <1>1, NextKeepsCourse, Inductive, BooksAreKept, PollsAreKept, PTL DEF Spec

-----------------------------------------------------------------------------
(* A run does what RunContract promises.                                   *)

Board == [e \in DOMAIN steps |-> Stage(e)]

Shows == [e \in DOMAIN steps |-> EntryOutcome(e)] = Board

LEMMA BoardShown == IInv /\ Books /\ Course => Shows
BY OutcomeIsStage DEF Shows, Board

(* The stage of entry i turns from one into another.                       *)
Turns(i, from, to) ==
  /\ i \in DOMAIN steps /\ Stage(i) = from /\ \A j \in 1 .. i - 1 : j \in DOMAIN steps /\ Stage(j) = "success"
  /\ Board' = [Board EXCEPT ![i] = to]
  /\ RunResult = "running" /\ RunResult' = "running"

LEMMA TurnsAreChanges ==
  ASSUME Shows, Shows', NEW i, NEW from, NEW to, Turns(i, from, to)
  PROVE  Contract!Changes(i, from, to)
<1>1. \A e \in DOMAIN steps : Board[e] = Stage(e)
  BY DEF Board
<1>2. DOMAIN Board = DOMAIN steps
  BY DEF Board
<1>3. QED
  BY <1>1, <1>2 DEF Turns, Shows, Contract!Changes, Contract!Turn, Contract!Passed

LEMMA TurnsAllowed ==
  ASSUME Shows, Shows', NEW i,
         \/ Turns(i, "todo", "running") \/ Turns(i, "running", "success")
         \/ Turns(i, "running", "failed") \/ Turns(i, "todo", "success")
  PROVE  Contract!Next
<1>1. i \in DOMAIN [e \in DOMAIN steps |-> EntryOutcome(e)]
  BY DEF Turns
<1>2. Contract!Begin(i) \/ Contract!Pass(i) \/ Contract!Fail(i) \/ Contract!Skip(i)
  BY TurnsAreChanges DEF Contract!Begin, Contract!Pass, Contract!Fail, Contract!Skip
<1>3. QED
  BY <1>1, <1>2 DEF Contract!Next

(* Nothing that the contract speaks of changes.                            *)
LEMMA BoardStays ==
  ASSUME Shows, Shows', Board' = Board, RunResult' = RunResult
  PROVE  UNCHANGED Contract!contractVars
BY DEF Shows, Contract!contractVars

LEMMA RunConcludes ==
  ASSUME Shows, Shows', Board' = Board, RunResult = "running",
         \A e \in DOMAIN steps : Stage(e) # "running",
         \/ RunResult' = "raised"
         \/ RunResult' = IF \A e \in DOMAIN steps : Stage(e) = "success"
                         THEN "success" ELSE "failed"
  PROVE  Contract!Next
<1>1. DOMAIN Board = DOMAIN steps /\ \A e \in DOMAIN steps : Board[e] = Stage(e)
  BY DEF Board
<1>2. Contract!Conclude
  BY <1>1 DEF Shows, Contract!Conclude
<1>3. QED
  BY <1>2 DEF Contract!Next

-----------------------------------------------------------------------------
(* What the board shows, and how a step of the run changes it.             *)

Here == Stage(entry)

Staged ==
  /\ \A e \in DOMAIN steps :
       Stage(e) = IF e < entry THEN "success" ELSE IF e > entry THEN "todo" ELSE Here
  /\ pc = "next" /\ entry \in DOMAIN steps => Here = "todo"
  /\ pc \in InGroup => Here = "running"
  /\ pc = "step" => Here = IF task[nextStepId - 1].pc = "done" THEN task[nextStepId - 1].status
                           ELSE "running"
  /\ pc = "finish" => entry \in DOMAIN steps /\ Here \in {"todo", "failed"}

LEMMA StagesAre == IInv /\ Books /\ Polls /\ Course => Staged
<1> SUFFICES ASSUME IInv, Books, Polls, Course PROVE Staged
  OBVIOUS
<1>1. /\ entry \in Nat /\ DOMAIN steps \subseteq Nat
      /\ pc \in InGroup \cup {"step"} => entry \in DOMAIN steps
  <2>1. steps \in Seq(EntryType)
    BY MainFacts, WorkflowAssumption
  <2>2. QED
    BY <2>1, MainFacts DEF InGroup
<1>2. Here = IF Current.kind = "step"
             THEN IF TasksOf(entry) = {} THEN "todo"
                  ELSE IF task[nextStepId - 1].pc = "done" THEN task[nextStepId - 1].status
                       ELSE "running"
             ELSE IF entry \notin DOMAIN journal.groups THEN "todo"
                  ELSE IF pc \in InGroup THEN "running" ELSE journal.groups[entry].status
  BY <1>1 DEF Here, Stage, Current
<1>3. \A e \in DOMAIN steps :
        Stage(e) = IF e < entry THEN "success" ELSE IF e > entry THEN "todo" ELSE Here
  <2> TAKE e \in DOMAIN steps
  <2>1. e < entry => Stage(e) = "success"
    BY <1>1 DEF Stage
  <2>2. e > entry => Stage(e) = "todo"
    BY <1>1 DEF Stage
  <2>3. ~(e < entry) /\ ~(e > entry) => e = entry
    BY <1>1
  <2>4. QED
    BY <2>1, <2>2, <2>3 DEF Here
<1>4. pc = "next" => Here = "todo"
  <2>1. pc = "next" => TasksOf(entry) = {}
    BY DEF Books, ThreadsBooked, Reached, TasksOf
  <2>2. QED
    BY <1>2, <2>1, FreshIds
<1>5. pc \in InGroup => Here = "running"
  <2>1. pc \in InGroup => Current.kind # "step" /\ entry \in DOMAIN journal.groups
    BY DEF Polls, Placed, Books, OpenBooked, InGroup
  <2>2. QED
    BY <1>2, <2>1
<1>6. pc = "step" => Here = IF task[nextStepId - 1].pc = "done" THEN task[nextStepId - 1].status
                            ELSE "running"
  <2>1. pc = "step" => Current.kind = "step" /\ TasksOf(entry) # {}
    BY DEF Polls, Placed, IInv, MainOK
  <2>2. QED
    BY <1>2, <2>1
<1>7. pc = "finish" => entry \in DOMAIN steps /\ Here \in {"todo", "failed"}
  <2> SUFFICES ASSUME pc = "finish" PROVE entry \in DOMAIN steps /\ Here \in {"todo", "failed"}
    OBVIOUS
  <2>1. CASE Current.kind = "step" /\ TasksOf(entry) # {}
    <3>1. nextStepId - 1 \in TasksOf(entry) /\ nextStepId - 1 \in DOMAIN task
      BY <2>1 DEF Course, TasksOf
    <3>2. task[nextStepId - 1].pc = "done" /\ task[nextStepId - 1].status # "success"
      BY <2>1, <3>1 DEF Course, IInv, NoOrphanThread
    <3>3. task[nextStepId - 1].status = "failed"
      BY <3>1, <3>2, ReturnedFacts DEF Statuses
    <3>4. QED
      BY <1>2, <2>1, <3>2, <3>3 DEF Course
  <2>2. CASE Current.kind # "step" /\ entry \in DOMAIN journal.groups
    <3>1. journal.groups[entry].status # Nothing /\ journal.groups[entry] \in GroupRecordType
      BY <2>2, FreshIds DEF Books, GroupsBooked, InGroup, JournalTyped
    <3>2. journal.groups[entry].status = "failed"
      BY <2>2, <3>1 DEF Course, GroupRecordType, Statuses, Maybe
    <3>3. QED
      BY <1>2, <2>2, <3>2 DEF Course, InGroup
  <2>3. QED
    BY <1>2, <2>1, <2>2 DEF Course
<1>8. QED
  BY <1>3, <1>4, <1>5, <1>6, <1>7 DEF Staged

(* Only the entry under way changes, also when the run passes it.          *)
LEMMA BoardMoves ==
  ASSUME IInv, Staged, Staged', steps' = steps
  PROVE  /\ entry' = entry => Board' = [Board EXCEPT ![entry] = Here']
         /\ entry' = entry + 1 /\ pc' = "next" => Board' = [Board EXCEPT ![entry] = "success"]
         /\ entry \in DOMAIN steps => Board[entry] = Here
<1>1. entry \in Nat /\ DOMAIN steps \subseteq Nat
  <2>1. steps \in Seq(EntryType)
    BY MainFacts, WorkflowAssumption
  <2>2. QED
    BY <2>1, MainFacts
<1>2. Board = [e \in DOMAIN steps |->
                 IF e < entry THEN "success" ELSE IF e > entry THEN "todo" ELSE Here]
  BY DEF Board, Staged
<1>3. Board' = [e \in DOMAIN steps |->
                  IF e < entry' THEN "success" ELSE IF e > entry' THEN "todo" ELSE Here']
  BY DEF Board, Staged
<1>4. entry' = entry => Board' = [Board EXCEPT ![entry] = Here']
  <2>1. ASSUME NEW e \in DOMAIN steps
        PROVE  e = entry => ~(e < entry) /\ ~(e > entry)
    BY <1>1
  <2>2. ASSUME NEW e \in DOMAIN steps
        PROVE  e # entry => e < entry \/ e > entry
    BY <1>1
  <2>3. QED
    BY <1>2, <1>3, <2>1, <2>2
<1>5. entry' = entry + 1 /\ pc' = "next" => Board' = [Board EXCEPT ![entry] = "success"]
  <2> SUFFICES ASSUME entry' = entry + 1, pc' = "next"
               PROVE  Board' = [Board EXCEPT ![entry] = "success"]
    OBVIOUS
  <2>1. entry' \in DOMAIN steps => Here' = "todo"
    BY DEF Staged
  <2>2. ASSUME NEW e \in DOMAIN steps
        PROVE  Board'[e] = [Board EXCEPT ![entry] = "success"][e]
    <3>1. CASE e < entry
      <4>1. e < entry' /\ e # entry
        BY <1>1, <3>1
      <4>2. QED
        BY <1>2, <1>3, <3>1, <4>1
    <3>2. CASE e = entry
      <4>1. e < entry'
        BY <1>1, <3>2
      <4>2. QED
        BY <1>2, <1>3, <3>2, <4>1
    <3>3. CASE e > entry
      <4>1. ~(e < entry) /\ e # entry /\ ~(e < entry') /\ (e > entry' \/ e = entry')
        BY <1>1, <3>3
      <4>2. QED
        BY <1>2, <1>3, <2>1, <3>3, <4>1
    <3>4. QED
      BY <1>1, <3>1, <3>2, <3>3
  <2>3. DOMAIN Board' = DOMAIN steps /\ DOMAIN Board = DOMAIN steps
    BY <1>2, <1>3
  <2>4. QED
    BY <1>2, <1>3, <2>2, <2>3
<1>6. entry \in DOMAIN steps => Board[entry] = Here
  BY DEF Board, Here
<1>7. QED
  BY <1>4, <1>5, <1>6

Proper == IInv /\ Books /\ Polls /\ Course

(* The entry under way turns into what it is afterwards, or keeps still.   *)
LEMMA EntryTurns ==
  ASSUME Proper, Proper', Shows, Shows', Staged, Staged', steps' = steps, entry \in DOMAIN steps,
         pc \notin {"raised", "done"}, pc' \notin {"raised", "done"}, NEW to,
         \/ entry' = entry /\ to = Here'
         \/ entry' = entry + 1 /\ pc' = "next" /\ to = "success",
         \/ to = Here
         \/ Here = "todo" /\ to = "running"
         \/ Here = "running" /\ to \in {"success", "failed"}
         \/ Here = "todo" /\ to = "success"
  PROVE  [Contract!Next]_(Contract!contractVars)
<1>1. Board' = [Board EXCEPT ![entry] = to] /\ Board[entry] = Here
  BY BoardMoves DEF Proper
<1>2. RunResult = "running" /\ RunResult' = "running"
  BY DEF RunResult
<1>3. CASE to = Here
  <2>1. Board' = Board
    BY <1>1, <1>3 DEF Board
  <2>2. QED
    BY <1>2, <2>1, BoardStays
<1>4. CASE to # Here
  <2>1. \A j \in 1 .. entry - 1 : j \in DOMAIN steps /\ Stage(j) = "success"
    <3>1. steps \in Seq(EntryType) /\ entry \in Nat
      BY MainFacts, WorkflowAssumption DEF Proper
    <3>2. \A j \in 1 .. entry - 1 : j \in DOMAIN steps /\ j < entry
      BY <3>1
    <3>3. QED
      BY <3>2 DEF Staged
  <2>2. Turns(entry, Here, to)
    BY <1>1, <1>2, <2>1 DEF Turns, Here
  <2>3. Contract!Next
    BY <1>4, <2>2, TurnsAllowed
  <2>4. QED
    BY <2>3
<1>5. QED
  BY <1>3, <1>4

LEMMA ThreadTurns ==
  ASSUME Proper, Proper', Shows, Shows', Staged, Staged', NEW s \in DOMAIN task, RunTool(s)
  PROVE  [Contract!Next]_(Contract!contractVars)
<1>1. /\ steps' = steps /\ pc' = pc /\ entry' = entry /\ nextStepId' = nextStepId
      /\ DOMAIN task' = DOMAIN task /\ task[s].pc # "done"
  BY RunToolWrites DEF Proper, ThreadWrites, main, IInv, TypeOK, TasksTyped
<1>2. /\ task[s].entry = entry /\ pc \in {"step", "fanin", "fallback"} /\ entry \in DOMAIN steps
  BY <1>1, MainFacts DEF Proper, IInv, NoOrphanThread
<1>3. \/ Here' = Here
      \/ Here = "running" /\ Here' \in {"success", "failed"}
  <2>1. CASE pc # "step"
    BY <1>1, <1>2, <2>1 DEF Staged, InGroup
  <2>2. CASE pc = "step"
    <3>1. s = nextStepId - 1
      BY <1>1, <2>2 DEF Proper, IInv, MainOK
    <3>2. Here = "running"
      BY <1>1, <2>2, <3>1 DEF Staged
    <3>3. Here' = IF task'[s].pc = "done" THEN task'[s].status ELSE "running"
      BY <1>1, <2>2, <3>1 DEF Staged
    <3>4. task'[s].pc = "done" => task'[s].status \in Statuses
      BY <1>1 DEF Proper, IInv, TasksOK, Fits, ValuesFit
    <3>5. QED
      BY <3>2, <3>3, <3>4 DEF Statuses
  <2>3. QED
    BY <2>1, <2>2
<1>4. QED
  BY <1>1, <1>2, <1>3, EntryTurns

(* Where a step of the main thread takes the run within an entry.          *)
LEMMA MainLeads ==
  ASSUME IInv, Polls, MainThread
  PROVE  /\ pc \notin {"raised", "done"}
         /\ pc' = "done" => FinishWorkflow
         /\ pc' = "raised" => RejectCheckpoint \/ (EndStep /\ task[nextStepId - 1].status = "success")
         /\ pc' = "step" => BeginStep
         /\ pc' \in InGroup => (pc = "next" /\ entry \in DOMAIN steps) \/ pc \in InGroup
         /\ pc' \in {"next", "finish", "done", "raised", "step"} \cup InGroup
<1>1. CASE EndStep
  BY <1>1 DEF EndStep, EndEntry, Stop, Records, InGroup
<1>2. CASE StopForRuntime \/ StopForCost \/ RejectCheckpoint \/ BeginStep \/ BeginGroup
  <2>1. CASE StopForRuntime \/ StopForCost
    BY <2>1 DEF StopForRuntime, StopForCost, Stop, InGroup
  <2>2. CASE RejectCheckpoint
    BY <2>2 DEF RejectCheckpoint, MayEnter, InGroup
  <2>3. CASE BeginStep \/ BeginGroup
    BY <2>3 DEF BeginStep, BeginGroup, MayEnter, InGroup
  <2>4. QED
    BY <1>2, <2>1, <2>2, <2>3
<1>3. CASE ReplayStep
  <2>1. pc = "next" /\ EndEntry("success", checkpoint[entry].output)
    BY <1>3 DEF ReplayStep, MayEnter
  <2>2. QED
    BY <2>1 DEF EndEntry, InGroup
<1>4. CASE EndParallel \/ EndVotersFailed \/ EndVoters
  BY <1>4 DEF EndParallel, EndVotersFailed, EndVoters, EndEntry, Stop, InGroup
<1>5. CASE Agree
  <2>1. PICK v : pc = "reduce" /\ EndEntry("success", v)
    BY <1>5 DEF Agree
  <2>2. QED
    BY <2>1 DEF EndEntry, InGroup
<1>6. CASE AgreeThenFallBack \/ StrategyRaises \/ EndFallback \/ FinishWorkflow
  BY <1>6 DEF AgreeThenFallBack, StrategyRaises, EndFallback, FinishWorkflow, EndEntry, Stop,
     InGroup
<1>7. CASE BeginReuse
  <2>1. pc = "next" /\ entry \in DOMAIN steps /\ pc' \in {"reduce", "finish"}
    BY <1>7 DEF BeginReuse, MayEnter, Stop
  <2>2. QED
    BY <2>1 DEF InGroup
<1>8. QED
  BY <1>1, <1>2, <1>3, <1>4, <1>5, <1>6, <1>7 DEF MainThread

(* The run passes the entry.                                               *)
LEMMA PassTurns ==
  ASSUME Proper, Proper', Shows, Shows', Staged, Staged', MainThread, entry' # entry
  PROVE  [Contract!Next]_(Contract!contractVars)
<1>1. entry' = entry + 1 /\ pc' = "next" /\ entry \in DOMAIN steps /\ steps' = steps
  BY EntryMoves, MainMoves DEF Proper
<1>2. Here \in {"todo", "running", "success"}
  <2>1. CASE Current.kind # "step"
    BY <1>1, <2>1, PassedFromGroup DEF Proper, Staged
  <2>2. CASE ReplayStep
    BY <1>1, <2>2 DEF ReplayStep, MayEnter, Staged
  <2>3. CASE EndStep
    <3>1. pc = "step" /\ task[nextStepId - 1].pc = "done" /\ task[nextStepId - 1].status = "success"
      <4>1. pc = "step" /\ task[nextStepId - 1].pc = "done" /\ nextStepId - 1 \in DOMAIN task
        BY <2>3 DEF EndStep, Proper, IInv, MainOK, TasksOf
      <4>2. task[nextStepId - 1].status # "failed"
        BY <1>1, <2>3 DEF EndStep, EndEntry, Stop, Records
      <4>3. QED
        BY <4>1, <4>2, ReturnedFacts DEF Proper, Statuses
    <3>2. QED
      BY <3>1 DEF Staged
  <2>4. QED
    BY <1>1, <2>1, <2>2, <2>3, PassedByEndStep DEF Proper
<1>3. pc \notin {"raised", "done"}
  BY MainLeads DEF Proper
<1>4. QED
  BY <1>1, <1>2, <1>3, EntryTurns

(* The run stays at the entry, and goes on.                                *)
LEMMA StayTurns ==
  ASSUME Proper, Proper', Shows, Shows', Staged, Staged', MainThread, entry' = entry,
         pc' \notin {"raised", "done"}
  PROVE  [Contract!Next]_(Contract!contractVars)
<1>1. /\ steps' = steps /\ ThreadsKept /\ pc' # "next" /\ pc \notin {"raised", "done"}
      /\ pc' \in {"finish", "step"} \cup InGroup
  <2>1. pc' # "next"
    BY EntryMoves, MainFacts DEF Proper
  <2>2. QED
    BY <2>1, MainMoves, MainLeads DEF Proper
<1>2. CASE pc' = "step"
  <2>1. BeginStep
    BY <1>2, MainLeads DEF Proper
  <2>2. pc = "next" /\ entry \in DOMAIN steps /\ nextStepId' = nextStepId + 1
    BY <2>1 DEF BeginStep, MayEnter
  <2>3. nextStepId' - 1 \in DOMAIN task' \ DOMAIN task
    <3>1. nextStepId' - 1 \in DOMAIN task'
      BY <1>2 DEF Proper, IInv, MainOK, TasksOf
    <3>2. nextStepId' - 1 = nextStepId /\ nextStepId \notin DOMAIN task
      BY <2>2, MainFacts DEF Proper
    <3>3. QED
      BY <3>1, <3>2
  <2>4. Here = "todo" /\ Here' = "running"
    BY <1>1, <1>2, <2>2, <2>3 DEF Staged, ThreadsKept
  <2>5. QED
    BY <1>1, <1>2, <2>2, <2>4, EntryTurns
<1>3. CASE pc' \in InGroup
  <2>1. (pc = "next" /\ entry \in DOMAIN steps) \/ pc \in InGroup
    BY <1>3, MainLeads DEF Proper
  <2>2. Here' = "running" /\ Here \in {"todo", "running"} /\ entry \in DOMAIN steps
    BY <1>3, <2>1, MainFacts DEF Staged, Proper, InGroup
  <2>3. QED
    BY <1>1, <2>2, EntryTurns
<1>4. CASE pc' = "finish"
  <2>1. /\ entry \in DOMAIN steps
        /\ \/ pc = "next" /\ journal' = journal /\ task' = task
           \/ EndStep /\ task[nextStepId - 1].status = "failed" /\ journal' = journal
           \/ /\ pc \in InGroup /\ Current.kind # "step"
              /\ journal'.groups[entry].status = "failed"
    BY <1>4, StopMarks DEF Proper
  <2>2. entry \in Nat
    BY MainFacts DEF Proper
  <2>3. CASE pc = "next" /\ journal' = journal /\ task' = task
    <3>1. TasksOf(entry) = {} /\ entry \notin DOMAIN journal.groups
      BY <2>3, FreshIds DEF Proper, Books, ThreadsBooked, Reached, TasksOf
    <3>2. Here' = "todo" /\ Here = "todo"
      BY <1>1, <2>1, <2>2, <2>3, <3>1 DEF Here, Stage, TasksOf, Staged
    <3>3. QED
      BY <1>1, <2>1, <3>2, EntryTurns
  <2>4. CASE EndStep /\ task[nextStepId - 1].status = "failed" /\ journal' = journal
    <3>1. /\ task' = task /\ nextStepId' = nextStepId /\ steps[entry].kind = "step"
          /\ pc = "step" /\ task[nextStepId - 1].pc = "done" /\ nextStepId - 1 \in TasksOf(entry)
      BY <2>4 DEF EndStep, Proper, Polls, Placed, Current, IInv, MainOK
    <3>2. Here = "failed"
      BY <2>4, <3>1 DEF Staged
    <3>3. Here' = "failed"
      BY <1>1, <2>2, <2>4, <3>1 DEF Here, Stage, TasksOf
    <3>4. QED
      BY <1>1, <2>1, <3>2, <3>3, EntryTurns
  <2>5. CASE pc \in InGroup /\ Current.kind # "step" /\ journal'.groups[entry].status = "failed"
    <3>1. entry \in DOMAIN journal'.groups
      <4>1. entry \in DOMAIN journal.groups /\ ~ReplayStep
        BY <2>5 DEF Proper, Books, OpenBooked, ReplayStep, MayEnter, InGroup
      <4>2. QED
        BY <4>1, MainFiles DEF Proper, Files, OldGroups
    <3>2. Here = "running" /\ Here' = "failed"
      BY <1>1, <1>4, <2>2, <2>5, <3>1 DEF Staged, Here, Stage, Current, InGroup
    <3>3. QED
      BY <1>1, <2>1, <3>2, EntryTurns
  <2>6. QED
    BY <2>1, <2>3, <2>4, <2>5
<1>5. QED
  BY <1>1, <1>2, <1>3, <1>4

(* The run is over.                                                        *)
LEMMA EndTurns ==
  ASSUME Proper, Proper', Shows, Shows', Staged, Staged', MainThread, entry' = entry,
         pc' \in {"raised", "done"}
  PROVE  Contract!Next
<1>1. /\ steps' = steps /\ pc \notin {"raised", "done"} /\ RunResult = "running"
      /\ pc' = "done" => FinishWorkflow
      /\ pc' = "raised" => RejectCheckpoint \/ (EndStep /\ task[nextStepId - 1].status = "success")
  BY MainMoves, MainLeads DEF Proper, RunResult
<1>2. steps \in Seq(EntryType) /\ entry \in Nat /\ DOMAIN steps = 1 .. Len(steps) /\ Len(steps) \in Nat
  <2>1. steps \in Seq(EntryType) /\ entry \in Nat
    BY MainFacts, WorkflowAssumption DEF Proper
  <2>2. QED
    BY <2>1
<1>3. /\ task' = task /\ nextStepId' = nextStepId
      /\ journal'.groups = journal.groups /\ (steps[entry].kind # "step" => pc' = "done")
  <2>1. CASE RejectCheckpoint
    BY <2>1 DEF RejectCheckpoint, Recorded, Current, main
  <2>2. CASE EndStep
    BY <2>2 DEF EndStep, Proper, Polls, Placed, Current
  <2>3. CASE FinishWorkflow
    <3>1. PICK a, b, c, d : journal = [steps |-> a, order |-> b, groups |-> c, status |-> d]
      BY MainFacts, JournalShape DEF Proper
    <3>2. QED
      BY <2>3, <3>1 DEF FinishWorkflow, OnWorkflowFinished, main
  <2>4. QED
    BY <1>1, <2>1, <2>2, <2>3
<1>4. Here' = Here
  <2>1. steps[entry].kind # "step" => pc \notin InGroup /\ pc' \notin InGroup
    BY <1>1, <1>3 DEF FinishWorkflow, InGroup
  <2>2. QED
    BY <1>1, <1>2, <1>3, <2>1 DEF Here, Stage, TasksOf
<1>5. Board' = Board
  <2>1. Board' = [Board EXCEPT ![entry] = Here] /\ (entry \in DOMAIN steps => Board[entry] = Here)
    BY <1>1, <1>4, BoardMoves DEF Proper
  <2>2. QED
    BY <2>1 DEF Board
<1>6. CASE pc' = "raised"
  <2>1. entry \in DOMAIN steps /\ Here \in {"todo", "success"}
    <3>1. CASE RejectCheckpoint
      BY <3>1 DEF RejectCheckpoint, MayEnter, Staged
    <3>2. CASE EndStep /\ task[nextStepId - 1].status = "success"
      BY <1>1, <1>6, <3>2, MainFacts DEF EndStep, Staged, Proper
    <3>3. QED
      BY <1>1, <1>6, <3>1, <3>2
  <2>2. \A e \in DOMAIN steps : Stage(e) # "running"
    BY <2>1 DEF Staged
  <2>3. RunResult' = "raised"
    BY <1>6 DEF RunResult
  <2>4. QED
    BY <1>1, <1>5, <2>2, <2>3, RunConcludes
<1>7. CASE pc' = "done"
  <2>1. /\ pc = "finish" \/ (pc = "next" /\ entry \notin DOMAIN steps)
        /\ overall' = overall /\ overall \in Statuses
    BY <1>1, <1>7, MainFacts DEF FinishWorkflow, main, Proper
  <2>2. RunResult' = overall
    BY <1>7, <2>1 DEF RunResult, Proper, Books, ResultBooked
  <2>3. CASE pc = "finish"
    <3>1. entry \in DOMAIN steps /\ Here \in {"todo", "failed"} /\ overall = "failed"
      BY <2>1, <2>3 DEF Staged, Proper, Books, ResultBooked, Statuses
    <3>2. \A e \in DOMAIN steps : Stage(e) # "running"
      BY <3>1 DEF Staged
    <3>3. Stage(entry) # "success"
      BY <3>1 DEF Here
    <3>4. RunResult' = IF \A e \in DOMAIN steps : Stage(e) = "success" THEN "success" ELSE "failed"
      BY <2>2, <3>1, <3>3
    <3>5. QED
      BY <1>1, <1>5, <3>2, <3>4, RunConcludes
  <2>4. CASE pc = "next" /\ entry \notin DOMAIN steps
    <3>1. overall = "success" /\ entry <= Len(steps) + 1
      BY <2>1, <2>4 DEF Proper, Books, ResultBooked, Statuses
    <3>2. entry # 0
      BY MainFacts DEF Proper
    <3>3. \A e \in DOMAIN steps : e < entry
      BY <1>2, <2>4, <3>1, <3>2
    <3>4. \A e \in DOMAIN steps : Stage(e) = "success"
      BY <3>3 DEF Staged
    <3>5. RunResult' = IF \A e \in DOMAIN steps : Stage(e) = "success" THEN "success" ELSE "failed"
      BY <2>2, <3>1, <3>4
    <3>6. QED
      BY <1>1, <1>5, <3>4, <3>5, RunConcludes
  <2>5. QED
    BY <2>1, <2>3, <2>4
<1>8. QED
  BY <1>6, <1>7

LEMMA ProperShows == Proper => Shows /\ Staged
BY BoardShown, StagesAre DEF Proper

LEMMA NextKeepsContract ==
  Proper /\ [Next]_vars /\ Proper' => [Contract!Next]_(Contract!contractVars)
<1> SUFFICES ASSUME Proper, Proper', [Next]_vars
             PROVE  [Contract!Next]_(Contract!contractVars)
  OBVIOUS
<1>1. Shows /\ Staged
  BY ProperShows
<1>2. Shows' /\ Staged'
  <2>1. (Proper => Shows /\ Staged)'
    BY ProperShows, PTL
  <2>2. QED
    BY <2>1
<1>3. CASE MainThread
  <2>1. CASE entry' # entry
    BY <1>1, <1>2, <1>3, <2>1, PassTurns
  <2>2. CASE entry' = entry /\ pc' \notin {"raised", "done"}
    BY <1>1, <1>2, <1>3, <2>2, StayTurns
  <2>3. CASE entry' = entry /\ pc' \in {"raised", "done"}
    BY <1>1, <1>2, <1>3, <2>3, EndTurns
  <2>4. QED
    BY <2>1, <2>2, <2>3
<1>4. CASE \E s \in DOMAIN task : RunTool(s)
  BY <1>1, <1>2, <1>4, ThreadTurns
<1>5. CASE UNCHANGED vars
  <2>1. Board' = Board /\ RunResult' = RunResult
    BY <1>5 DEF vars, Board, Stage, TasksOf, RunResult
  <2>2. QED
    BY <1>1, <1>2, <2>1, BoardStays
<1>6. QED
  BY <1>3, <1>4, <1>5 DEF Next, Step, Terminating

LEMMA InitKeepsContract == Init /\ Proper => Contract!Init
<1> SUFFICES ASSUME Init, Proper PROVE Contract!Init
  OBVIOUS
<1>1. Shows /\ Staged /\ pc = "next" /\ entry = 1 /\ RunResult = "running"
  BY ProperShows DEF Init, RunResult
<1>2. DOMAIN steps \subseteq Nat \ {0}
  <2>1. steps \in Seq(EntryType)
    BY MainFacts, WorkflowAssumption DEF Proper
  <2>2. QED
    BY <2>1
<1>3. \A e \in DOMAIN steps : Stage(e) = "todo"
  <2> TAKE e \in DOMAIN steps
  <2>1. ~(e < entry) /\ (e > entry \/ e = entry)
    BY <1>1, <1>2
  <2>2. QED
    BY <1>1, <2>1 DEF Staged
<1>4. QED
  BY <1>1, <1>3 DEF Shows, Board, Contract!Init

(* scheduler.py:93-173: run() keeps the promise of RunContract, whatever   *)
(* its threads, groups, strategies, retries and checkpoints do: entries    *)
(* are carried out one at a time, in order and none twice, none begins     *)
(* after a failure, and the result is what became of all of them.          *)
THEOREM ContractIsKept == Spec => Contract!Init /\ [][Contract!Next]_(Contract!contractVars)
<1>1. Spec => []Proper
  BY Inductive, BooksAreKept, PollsAreKept, CourseIsKept, PTL DEF Proper
<1>2. QED
  BY <1>1, InitKeepsContract, NextKeepsContract, PTL DEF Spec

-----------------------------------------------------------------------------
(* What the names are bound to: a fifth invariant.                         *)

(* Step s records what entry e produced (OutcomeStep, as a relation).      *)
StandsFor(s, e) ==
  IF steps[e].kind = "step"
  THEN s \in PastSteps /\ Cardinality({r \in PastSteps : r <= s}) = PlainEntries(e)
  ELSE s \in DOMAIN journal.steps \ DOMAIN task /\ journal.steps[s].group = e

(* A group has at most one step of no thread, and none before it has asked *)
(* its strategy.                                                           *)
OneVerdict ==
  /\ \A r, s \in DOMAIN journal.steps \ DOMAIN task :
       journal.steps[r].group = journal.steps[s].group => r = s \/ journal.steps[r].group = Nothing
  /\ pc = "reduce" => Members(journal, entry) \subseteq DOMAIN task

(* A name holds what the last entry that binds it produced.                *)
Bound ==
  /\ DOMAIN bindings = {steps[e].bind : e \in 1 .. entry - 1} \ {Nothing}
  /\ \A e \in 1 .. entry - 1 :
       LastBinder(e) => \E s : StandsFor(s, e) /\ bindings[steps[e].bind] = journal.steps[s].output

Named ==
  /\ OneVerdict
  /\ pc = "fallback" => \E s : StandsFor(s, entry) /\ journal.steps[s].output = agreed
  /\ pc # "raised" => Bound

(* The steps of the run only add to what it has passed.                    *)
PastAdds ==
  /\ steps' = steps
  /\ PastSteps \subseteq PastSteps'
  /\ \A s \in PastSteps : \A r \in PastSteps' \ PastSteps : ~(r <= s)
  /\ \A s \in DOMAIN task' \ DOMAIN task : s \notin DOMAIN journal.steps
  /\ \A s \in DOMAIN journal.steps :
       s \in DOMAIN journal'.steps /\ (journal.steps[s].status # Nothing => journal'.steps[s] = journal.steps[s])

LEMMA StandsStay ==
  ASSUME IInv, Books, Course, PastAdds, NEW s, NEW e, StandsFor(s, e)
  PROVE  StandsFor(s, e)' /\ journal'.steps[s].output = journal.steps[s].output
<1>1. PlainEntries(e)' = PlainEntries(e)
  BY DEF PastAdds, PlainEntries
<1>2. CASE steps[e].kind = "step"
  <2>1. s \in PastSteps /\ s \in DOMAIN journal.steps /\ journal.steps[s].status = "success"
    BY <1>2 DEF StandsFor, Course, PastSteps, PlainSteps
  <2>2. journal'.steps[s] = journal.steps[s]
    BY <2>1, NothingIsNew DEF PastAdds, Statuses
  <2>3. {r \in PastSteps' : r <= s} = {r \in PastSteps : r <= s}
    BY <2>1 DEF PastAdds
  <2>4. QED
    BY <1>1, <1>2, <2>1, <2>2, <2>3 DEF StandsFor, PastAdds
<1>3. CASE steps[e].kind # "step"
  <2>1. /\ s \in DOMAIN journal.steps \ DOMAIN task /\ journal.steps[s].group = e
        /\ journal.steps[s].status # Nothing
    BY <1>3, NothingIsNew DEF StandsFor, Books, StepsBooked
  <2>2. s \in DOMAIN journal'.steps \ DOMAIN task' /\ journal'.steps[s] = journal.steps[s]
    BY <2>1 DEF PastAdds
  <2>3. QED
    BY <1>3, <2>1, <2>2 DEF StandsFor, PastAdds
<1>4. QED
  BY <1>2, <1>3

LEMMA ThreadKeepsNamed ==
  ASSUME Proper, RecordsStay, Named, NEW s \in DOMAIN task, RunTool(s)
  PROVE  Named'
<1>1. /\ steps' = steps /\ pc' = pc /\ entry' = entry /\ agreed' = agreed /\ bindings' = bindings
      /\ \A r \in DOMAIN journal.steps \ {s} :
           r \in DOMAIN journal'.steps /\ journal'.steps[r] = journal.steps[r]
      /\ DOMAIN journal'.steps \subseteq DOMAIN journal.steps \cup {s}
  BY RunToolWrites DEF Proper, ThreadWrites, main
<1>2. /\ DOMAIN task' = DOMAIN task /\ task[s].pc # "done"
      /\ \A r \in DOMAIN task : task'[r].entry = task[r].entry
  BY RunToolWrites DEF Proper, ThreadWrites, SameCall, IInv, TypeOK, TasksTyped
<1>3. s \in TasksOf(entry) /\ pc # "reduce"
  BY <1>2, RunningThread DEF Proper, TasksOf
<1>4. PastSteps' = PastSteps
  BY <1>1, <1>2, <1>3 DEF PastSteps, PlainSteps, TasksOf
<1>5. PastAdds
  BY <1>1, <1>2, <1>4 DEF PastAdds, RecordsStay
<1>6. \A r \in DOMAIN journal'.steps \ DOMAIN task' :
        r \in DOMAIN journal.steps \ DOMAIN task /\ journal'.steps[r] = journal.steps[r]
  BY <1>1, <1>2
<1>7. OneVerdict'
  BY <1>1, <1>3, <1>6 DEF Named, OneVerdict
<1>8. ASSUME NEW r, NEW e, StandsFor(r, e)
      PROVE  StandsFor(r, e)' /\ journal'.steps[r].output = journal.steps[r].output
  BY <1>5, <1>8, StandsStay DEF Proper
<1>9. pc' = "fallback" => \E r : StandsFor(r, entry)' /\ journal'.steps[r].output = agreed'
  <2> SUFFICES ASSUME pc = "fallback"
               PROVE  \E r : StandsFor(r, entry)' /\ journal'.steps[r].output = agreed'
    BY <1>1
  <2>1. PICK e, r : e = entry /\ StandsFor(r, e) /\ journal.steps[r].output = agreed
    BY DEF Named
  <2>2. StandsFor(r, e)' /\ journal'.steps[r].output = agreed
    BY <1>8, <2>1
  <2>3. StandsFor(r, entry)'
    BY <1>1, <2>1, <2>2 DEF StandsFor
  <2>4. QED
    BY <1>1, <2>2, <2>3
<1>10. pc' # "raised" => Bound'
  <2> SUFFICES ASSUME pc # "raised" PROVE Bound'
    BY <1>1
  <2>1. ASSUME NEW e \in 1 .. entry - 1, LastBinder(e)'
        PROVE  \E r : StandsFor(r, e)' /\ bindings'[steps'[e].bind] = journal'.steps[r].output
    <3>1. LastBinder(e)
      BY <1>1, <2>1 DEF LastBinder
    <3>2. PICK r : StandsFor(r, e) /\ bindings[steps[e].bind] = journal.steps[r].output
      BY <3>1 DEF Named, Bound
    <3>3. QED
      BY <1>1, <1>8, <3>2
  <2>2. QED
    BY <1>1, <2>1 DEF Named, Bound
<1>11. QED
  BY <1>7, <1>9, <1>10 DEF Named

(* The steps of the main thread that write the record of a strategy ...    *)
Speaks == Agree \/ AgreeThenFallBack \/ StrategyRaises

LEMMA SpeaksSays ==
  ASSUME IInv, Books, Polls, Speaks
  PROVE  /\ pc = "reduce" /\ nextStepId \in DOMAIN journal'.steps \ DOMAIN task'
         /\ \E v \in Maybe(Values), error \in Maybe(Errors) :
              /\ Says(journal, journal', nextStepId, v, error)
              /\ \/ error = Nothing /\ Agree /\ EndEntry("success", v)
                 \/ error = Nothing /\ AgreeThenFallBack /\ agreed' = v
                 \/ error = "raised" /\ StrategyRaises
<1>0. /\ JournalTyped(journal) /\ Grouped(journal) /\ pc = "reduce"
      /\ nextStepId \in Nat \ {0} /\ nextStepId \notin DOMAIN journal.steps
      /\ entry \in DOMAIN journal.groups /\ entry \in Nat \ {0} /\ nextStepId \notin DOMAIN task
  BY FreshIds, MainFacts DEF Speaks, Agree, AgreeThenFallBack, StrategyRaises, Books, OpenBooked,
     InGroup
<1>1. nextStepId \notin DOMAIN task'
  <2>1. CASE AgreeThenFallBack
    <3>1. DOMAIN task' = DOMAIN task \cup nextStepId + 1 .. nextStepId + 1 + 1 - 1
      BY <2>1 DEF AgreeThenFallBack, FallbackId, Assign
    <3>2. QED
      BY <1>0, <3>1
  <2>2. CASE Agree \/ StrategyRaises
    BY <1>0, <2>2 DEF Agree, StrategyRaises
  <2>3. QED
    BY <2>1, <2>2 DEF Speaks
<1>2. /\ Nothing \in Maybe(Errors) /\ "raised" \in Maybe(Errors)
      /\ Nothing \in Maybe(Values) /\ Nothing \in Maybe(Nat)
      /\ "success" \in Statuses /\ "failed" \in Statuses
  BY DEF Maybe, Errors, Statuses
<1>3. ASSUME NEW v \in Maybe(Values), NEW error \in Maybe(Errors), NEW confidence \in Maybe(Nat),
             NEW k, k = RecordSynthetic(journal, nextStepId, v, error, confidence),
             NEW st \in Statuses, journal' = k \/ journal' = OnGroupFinished(k, entry, st)
      PROVE  Says(journal, journal', nextStepId, v, error) /\ nextStepId \in DOMAIN journal'.steps
  <2>1. Says(journal, k, nextStepId, v, error)
    BY <1>0, <1>3, SyntheticSays
  <2>2. OnlyStep(journal, k, nextStepId)
    BY <1>0, <1>3, SyntheticRecorded
  <2>3. journal'.steps = k.steps
    <3>1. PICK l : l = OnGroupFinished(k, entry, st)
      OBVIOUS
    <3>2. JournalTyped(k)
      BY <2>2 DEF OnlyStep
    <3>3. l.steps = k.steps
      BY <1>0, <3>1, <3>2, GroupHandlers
    <3>4. QED
      BY <1>3, <3>1, <3>3
  <2>4. QED
    BY <2>1, <2>2, <2>3 DEF Says, OnlyStep
<1>4. CASE StrategyRaises
  <2>1. PICK k : k = RecordSynthetic(journal, nextStepId, Nothing, "raised", Nothing)
    OBVIOUS
  <2>2. journal' = OnGroupFinished(k, entry, "failed")
    BY <1>4, <2>1 DEF StrategyRaises
  <2>3. Says(journal, journal', nextStepId, Nothing, "raised") /\ nextStepId \in DOMAIN journal'.steps
    BY <1>2, <1>3, <2>1, <2>2
  <2>4. QED
    BY <1>0, <1>1, <1>2, <1>4, <2>3
<1>5. CASE Agree \/ AgreeThenFallBack
  <2>1. PICK verdict \in Verdicts :
          \/ /\ Agree /\ EndEntry("success", verdict[1])
             /\ journal' = OnGroupFinished(
                  RecordSynthetic(journal, nextStepId, verdict[1], Nothing, verdict[2]),
                  entry, "success")
          \/ /\ AgreeThenFallBack /\ agreed' = verdict[1]
             /\ journal' = RecordSynthetic(journal, nextStepId, verdict[1], Nothing, verdict[2])
    BY <1>5 DEF Agree, AgreeThenFallBack
  <2>2. verdict[1] \in Maybe(Values) /\ verdict[2] \in Maybe(Nat)
    BY <1>0, VerdictsType DEF Maybe
  <2>3. PICK v \in Maybe(Values), confidence \in Maybe(Nat) :
          v = verdict[1] /\ confidence = verdict[2]
    BY <2>2
  <2>4. PICK k : k = RecordSynthetic(journal, nextStepId, v, Nothing, confidence)
    OBVIOUS
  <2>5. journal' = k \/ journal' = OnGroupFinished(k, entry, "success")
    BY <2>1, <2>3, <2>4
  <2>6. Says(journal, journal', nextStepId, v, Nothing) /\ nextStepId \in DOMAIN journal'.steps
    BY <1>2, <1>3, <2>4, <2>5
  <2>7. QED
    BY <1>0, <1>1, <1>2, <2>1, <2>3, <2>6
<1>6. QED
  BY <1>4, <1>5 DEF Speaks

(* ... and those that write no record at all.                              *)
LEMMA QuietMain ==
  ASSUME IInv, Books, Polls, MainThread, ~Speaks, ~ReplayStep
  PROVE  journal'.steps = journal.steps
<1>0. JournalTyped(journal) /\ entry \in Nat \ {0} /\ overall \in Statuses
  BY MainFacts
<1>1. CASE \/ StopForRuntime \/ StopForCost \/ RejectCheckpoint \/ BeginStep \/ EndStep \/ EndVoters
  BY <1>1 DEF StopForRuntime, StopForCost, RejectCheckpoint, BeginStep, EndStep, EndVoters
<1>2. CASE BeginGroup \/ BeginReuse
  <2>1. PICK kind \in {"parallel", "consensus"} : journal' = OnGroupStarted(journal, entry, kind)
    <3>1. BeginReuse => Current.source \in DOMAIN groupOutputs
      BY SourcePolled DEF BeginReuse, MayEnter
    <3>2. QED
      BY <1>2, <3>1 DEF BeginGroup, BeginReuse
  <2>2. QED
    BY <1>0, <2>1, GroupHandlers
<1>3. CASE EndParallel \/ EndVotersFailed \/ EndFallback
  <2>1. PICK st \in Statuses : journal' = OnGroupFinished(journal, entry, st)
    <3>1. EndFallback => FallbackStatus \in Statuses
      BY ReturnedFacts DEF EndFallback, FallbackStatus, IInv, MainOK, TasksOf
    <3>2. GroupStatus \in Statuses /\ "failed" \in Statuses
      BY DEF GroupStatus, Statuses
    <3>3. QED
      BY <1>3, <3>1, <3>2 DEF EndParallel, EndVotersFailed, EndFallback
  <2>2. QED
    BY <1>0, <2>1, GroupHandlers
<1>4. CASE FinishWorkflow
  BY <1>0, <1>4, GroupHandlers DEF FinishWorkflow
<1>5. QED
  BY <1>1, <1>2, <1>3, <1>4 DEF MainThread, Speaks

(* A plain step that the run passes is the latest.                         *)
LEMMA PastEnds ==
  ASSUME Proper, Proper', MainThread, entry' = entry + 1, Current.kind = "step", NEW m,
         m = nextStepId' - 1
  PROVE  /\ m \in PastSteps' \ PastSteps /\ m \in Nat
         /\ \A r \in PastSteps' : r \in Nat /\ r <= m
         /\ ReplayStep \/ (EndStep /\ m = nextStepId - 1)
<1>1. /\ pc' = "next" /\ TasksOf(entry)' = {} /\ (ReplayStep \/ EndStep)
      /\ nextStepId \in Nat \ {0} /\ nextStepId' \in Nat \ {0}
  <2>1. pc' = "next"
    BY EntryMoves, MainFacts DEF Proper
  <2>2. TasksOf(entry)' = {}
    BY <2>1, MainKeepsThreads DEF Proper
  <2>3. nextStepId' \in Nat \ {0}
    BY DEF Proper, IInv, TypeOK, MainTyped
  <2>4. QED
    BY <2>1, <2>2, <2>3, MainFacts, PassedByEndStep DEF Proper
<1>2. PastSteps' = PlainSteps'
  BY <1>1 DEF PastSteps
<1>3. \A r \in PlainSteps' : r \in Nat /\ r < nextStepId'
  BY DEF PlainSteps, Proper, IInv, TypeOK, JournalTyped, Books, StepsBooked
<1>4. \A r \in PastSteps' : r \in Nat /\ r <= m
  BY <1>1, <1>2, <1>3
<1>5. CASE ReplayStep
  <2>1. nextStepId' = nextStepId + 1
    BY <1>5 DEF ReplayStep
  <2>2. m = nextStepId
    BY <1>1, <2>1
  <2>3. m \in PlainSteps' /\ m \notin PastSteps
    BY <1>5, <2>2, ReplayAdds DEF Adds, OnlyStep, PlainSteps, PastSteps, Proper
  <2>4. QED
    BY <1>2, <1>4, <1>5, <2>3
<1>6. CASE EndStep
  <2>1. nextStepId' = nextStepId /\ journal' = journal /\ task[nextStepId - 1].pc = "done" /\ pc = "step"
    BY <1>6 DEF EndStep
  <2>2. nextStepId - 1 \in TasksOf(entry) /\ nextStepId - 1 \in DOMAIN task
        /\ task[nextStepId - 1].group = Nothing
    BY <2>1 DEF Proper, IInv, MainOK, Books, OpenBooked, TasksOf
  <2>3. nextStepId - 1 \in PlainSteps
    BY <2>1, <2>2 DEF Proper, Books, ThreadsBooked, RecordFits, PlainSteps
  <2>4. m \in PlainSteps' /\ m \notin PastSteps /\ m = nextStepId - 1
    BY <2>1, <2>2, <2>3 DEF PlainSteps, PastSteps
  <2>5. QED
    BY <1>2, <1>4, <1>6, <2>4
<1>7. QED
  BY <1>1, <1>5, <1>6

LEMMA MainAddsPast ==
  ASSUME Proper, Proper', MainThread
  PROVE  PastAdds
<1>1. /\ steps' = steps /\ \A s \in DOMAIN task' \ DOMAIN task : s \notin DOMAIN journal.steps
      /\ \A s \in DOMAIN journal.steps :
           s \in DOMAIN journal'.steps /\ journal'.steps[s] = journal.steps[s]
  BY MainMoves, MainKeepsThreads, MainRecords DEF Proper
<1>2. CASE entry' = entry
  <2>1. PastSteps' = PastSteps
    BY <1>2, PastStays DEF Proper
  <2>2. QED
    BY <1>1, <2>1 DEF PastAdds
<1>3. CASE entry' = entry + 1 /\ Current.kind # "step"
  <2>1. PastSteps' = PastSteps
    BY <1>3, PastGrows DEF Proper
  <2>2. QED
    BY <1>1, <2>1 DEF PastAdds
<1>4. CASE entry' = entry + 1 /\ Current.kind = "step"
  <2>1. PICK m : m = nextStepId' - 1
    OBVIOUS
  <2>2. m \in PastSteps' \ PastSteps /\ m \in Nat /\ \A r \in PastSteps' : r \in Nat /\ r <= m
    BY <1>4, <2>1, PastEnds
  <2>3. PICK s : s \notin PastSteps /\ PastSteps' = PastSteps \cup {s}
    BY <1>4, PastGrows DEF Proper
  <2>4. PastSteps' = PastSteps \cup {m}
    BY <2>2, <2>3
  <2>5. \A r \in PastSteps : ~(m <= r)
    <3> TAKE r \in PastSteps
    <3>1. r \in Nat /\ r <= m /\ r # m
      BY <2>2, <2>4
    <3>2. QED
      BY <2>2, <3>1
  <2>6. QED
    BY <1>1, <2>4, <2>5 DEF PastAdds
<1>5. QED
  BY <1>2, <1>3, <1>4, EntryMoves DEF Proper

LEMMA MainKeepsVerdicts ==
  ASSUME Proper, Proper', Named, MainThread
  PROVE  OneVerdict'
<1>0. /\ DOMAIN task \subseteq DOMAIN task' /\ PastAdds
      /\ \A s \in DOMAIN journal.steps : journal'.steps[s] = journal.steps[s]
  BY MainAddsPast, MainMoves, MainRecords DEF Proper, ThreadsKept
<1>1. CASE Speaks
  <2>1. /\ pc = "reduce" /\ DOMAIN journal'.steps \subseteq DOMAIN journal.steps \cup {nextStepId}
        /\ journal'.steps[nextStepId].group = entry
    BY <1>1, SpeaksSays DEF Proper, Says
  <2>2. \A s \in DOMAIN journal.steps \ DOMAIN task : journal.steps[s].group # entry
    BY <2>1 DEF Named, OneVerdict, Members
  <2>3. pc' # "reduce"
    BY <1>1 DEF Speaks, Agree, AgreeThenFallBack, StrategyRaises, EndEntry, Stop
  <2>4. QED
    BY <1>0, <2>1, <2>2, <2>3 DEF Named, OneVerdict
<1>2. CASE ReplayStep
  <2>1. /\ DOMAIN journal'.steps \subseteq DOMAIN journal.steps \cup {nextStepId}
        /\ journal'.steps[nextStepId].group = Nothing
    BY <1>2, ReplayAdds DEF Proper, Adds, OnlyStep
  <2>2. pc' # "reduce"
    BY <1>2 DEF ReplayStep, EndEntry
  <2>3. QED
    BY <1>0, <2>1, <2>2 DEF Named, OneVerdict
<1>3. CASE ~Speaks /\ ~ReplayStep
  <2>1. journal'.steps = journal.steps
    BY <1>3, QuietMain DEF Proper
  <2>2. ASSUME pc' = "reduce"
        PROVE  entry' = entry /\ Members(journal, entry) \subseteq DOMAIN task
    <3>1. EndVoters \/ BeginReuse
      BY <1>3, <2>2 DEF MainThread, Speaks, StopForRuntime, StopForCost, RejectCheckpoint,
         BeginStep,
                        EndStep, BeginGroup, EndParallel, EndVotersFailed, EndFallback, FinishWorkflow,
                        EndEntry, Stop
    <3>2. CASE EndVoters
      BY <3>2 DEF EndVoters, Proper, Books, OpenBooked
    <3>3. CASE BeginReuse
      <4>1. pc = "next" /\ entry' = entry
        BY <3>3, <2>2 DEF BeginReuse, MayEnter, Stop
      <4>2. QED
        BY <4>1, FreshIds DEF Proper
    <3>4. QED
      BY <3>1, <3>2, <3>3
  <2>3. pc' = "reduce" => Members(journal', entry') \subseteq DOMAIN task'
    BY <1>0, <2>1, <2>2 DEF Members
  <2>4. \A r, s \in DOMAIN journal'.steps \ DOMAIN task' :
          journal'.steps[r].group = journal'.steps[s].group
            => r = s \/ journal'.steps[r].group = Nothing
    BY <1>0, <2>1 DEF Named, OneVerdict
  <2>5. QED
    BY <2>3, <2>4 DEF OneVerdict
<1>4. QED
  BY <1>1, <1>2, <1>3

LEMMA MainFallsBack ==
  ASSUME Proper, Proper', MainThread, pc' = "fallback"
  PROVE  \E s : StandsFor(s, entry)' /\ journal'.steps[s].output = agreed'
<1>1. AgreeThenFallBack /\ entry' = entry /\ steps' = steps
  BY DEF MainThread, StopForRuntime, StopForCost, ReplayStep, RejectCheckpoint, BeginStep, EndStep,
         BeginGroup, EndParallel, EndVotersFailed, EndVoters, BeginReuse, Agree, StrategyRaises,
         EndFallback, FinishWorkflow, AgreeThenFallBack, EndEntry, Stop
<1>2. ~Agree /\ ~StrategyRaises
  BY DEF Agree, StrategyRaises, EndEntry, Stop
<1>3. /\ nextStepId \in DOMAIN journal'.steps \ DOMAIN task' /\ pc = "reduce"
      /\ journal'.steps[nextStepId].group = entry /\ journal'.steps[nextStepId].output = agreed'
  BY <1>1, <1>2, SpeaksSays DEF Proper, Speaks, Says
<1>4. steps[entry].kind # "step"
  BY <1>3 DEF Proper, Polls, Placed, Current
<1>5. QED
  BY <1>1, <1>3, <1>4 DEF StandsFor

LEMMA ReplaySays ==
  ASSUME IInv, Books, ReplayStep
  PROVE  journal'.steps[nextStepId].output = checkpoint[entry].output
<1> DEFINE started == OnStepStarted(journal, nextStepId, Current.tools[1], Nothing, TRUE)
<1>1. entry \in DOMAIN steps /\ entry \in DOMAIN checkpoint
  BY DEF ReplayStep, MayEnter, Recorded
<1>2. PICK v, tool : v = checkpoint[entry].output /\ tool = Current.tools[1]
  OBVIOUS
<1>3. v \in Maybe(Values) /\ tool \in ToolNames
  <2>1. CheckpointType(checkpoint)
    BY MainFacts
  <2>2. Current.tools \in Seq(Tools) /\ Current.tools # << >>
    BY <1>1, CurrentType
  <2>3. QED
    BY <1>1, <1>2, <2>1, <2>2, ToolAssumption DEF CheckpointType, Maybe
<1>4. PICK j : j = OnStepStarted(journal, nextStepId, tool, Nothing, TRUE)
  OBVIOUS
<1>5. JournalTyped(j) /\ nextStepId \in DOMAIN j.steps
  <2>1. /\ nextStepId \in Nat \ {0} /\ JournalTyped(journal) /\ Nothing \in Maybe(Nat)
        /\ TRUE \in BOOLEAN
    BY MainFacts DEF Maybe
  <2>2. OnlyStep(journal, j, nextStepId)
    BY <1>3, <1>4, <2>1, StartedJournal
  <2>3. QED
    BY <2>2 DEF OnlyStep
<1>6. PICK k : k = OnToolSucceeded(j, nextStepId, v)
  OBVIOUS
<1>7. JournalTyped(k) /\ nextStepId \in DOMAIN k.steps /\ k.steps[nextStepId].output = v
  <2>1. OnlyStep(j, k, nextStepId) /\ k.steps[nextStepId] = [j.steps[nextStepId] EXCEPT !.output = v]
    BY <1>3, <1>5, <1>6, StepHandlers
  <2>2. j.steps[nextStepId] \in StepRecordType
    BY <1>5 DEF JournalTyped
  <2>3. QED
    BY <2>1, <2>2 DEF OnlyStep, StepRecordType
<1>8. PICK l : l = OnStepFinished(k, nextStepId, "success")
  OBVIOUS
<1>9. l.steps[nextStepId].output = v
  <2>1. "success" \in Maybe(Statuses)
    BY DEF Maybe, Statuses
  <2>2. l.steps[nextStepId] = [k.steps[nextStepId] EXCEPT !.status = "success"]
    BY <1>7, <1>8, <2>1, StepHandlers
  <2>3. k.steps[nextStepId] \in StepRecordType
    BY <1>7 DEF JournalTyped
  <2>4. QED
    BY <1>7, <2>2, <2>3 DEF StepRecordType
<1>10. journal' = l
  BY <1>2, <1>4, <1>6, <1>8 DEF ReplayStep
<1>11. QED
  BY <1>2, <1>9, <1>10

(* A plain step that the run passes stands for its entry.                  *)
LEMMA PastStands ==
  ASSUME Proper, Proper', MainThread, entry' = entry + 1, Current.kind = "step",
         NEW e, e = entry, NEW m, m = nextStepId' - 1
  PROVE  StandsFor(m, e)'
<1>1. /\ m \in PastSteps' /\ \A r \in PastSteps' : r <= m
      /\ steps' = steps /\ steps[e].kind = "step" /\ e \in Nat
  BY PastEnds, MainMoves, MainFacts DEF Proper, Current
<1>2. {r \in PastSteps' : r <= m} = PastSteps'
  BY <1>1
<1>3. Cardinality(PastSteps') = PlainEntries(entry - 1)'
  BY DEF Proper, Course
<1>4. PlainEntries(entry - 1)' = PlainEntries(e)'
  BY <1>1 DEF PlainEntries
<1>5. QED
  BY <1>1, <1>2, <1>3, <1>4 DEF StandsFor

(* What an entry hands on is the output of the step that stands for it.    *)
LEMMA HandedOn ==
  ASSUME Proper, Proper', Named, MainThread, entry' = entry + 1, Current.bind # Nothing,
         NEW e, e = entry
  PROVE  \E s : StandsFor(s, e)' /\ bindings' = Rebind(journal'.steps[s].output)
<1>0. entry \in Nat /\ steps' = steps /\ entry # entry + 1 /\ "success" # "failed"
  BY MainFacts, MainMoves DEF Proper
<1>1. ReplayStep \/ EndStep \/ EndParallel \/ Agree \/ EndFallback
  BY <1>0 DEF MainThread, StopForRuntime, StopForCost, RejectCheckpoint, BeginStep, BeginGroup,
              EndVotersFailed, EndVoters, BeginReuse, AgreeThenFallBack, StrategyRaises,
              FinishWorkflow, Stop, main
<1>2. CASE ReplayStep
  <2>1. /\ Current.kind = "step" /\ nextStepId' = nextStepId + 1
        /\ bindings' = Rebind(checkpoint[entry].output)
    BY <1>0, <1>2 DEF ReplayStep, Recorded, EndEntry
  <2>2. PICK m : m = nextStepId' - 1
    OBVIOUS
  <2>3. m = nextStepId
    BY <2>1, <2>2, MainFacts DEF Proper
  <2>4. StandsFor(m, e)'
    BY <2>1, <2>2, PastStands
  <2>5. journal'.steps[m].output = checkpoint[entry].output
    BY <1>2, <2>3, ReplaySays DEF Proper
  <2>6. QED
    BY <2>1, <2>4, <2>5
<1>3. CASE EndStep
  <2>1. /\ pc = "step" /\ Current.kind = "step" /\ nextStepId' = nextStepId /\ journal' = journal
    BY <1>3 DEF EndStep, Proper, Polls, Placed
  <2>2. PICK m, done : m = nextStepId' - 1 /\ m = nextStepId - 1 /\ done = task[nextStepId - 1]
    BY <2>1
  <2>3. StandsFor(m, e)'
    BY <2>1, <2>2, PastStands
  <2>4. Passes(done.output) /\ done.status = "success" /\ m \in DOMAIN task
    BY <1>0, <1>3, <2>2, StepEnds DEF Proper, TasksOf, Waits
  <2>5. journal.steps[m].output = done.output
    BY <1>3, <2>2, <2>4 DEF EndStep, Proper, Polls, OutputsBooked, RecordHolds
  <2>6. QED
    BY <2>1, <2>3, <2>4, <2>5 DEF Passes
<1>4. CASE EndParallel
  <2>1. Current.kind = "parallel" /\ entry \in DOMAIN steps
    BY <1>4, MainFacts DEF EndParallel, Proper
  <2>2. QED
    BY <2>1, CurrentType DEF Proper
<1>5. CASE Agree
  <2>1. pc' = "next" /\ pc = "reduce"
    BY <1>0, <1>5 DEF Agree, EndEntry, Stop
  <2>2. ~StrategyRaises /\ ~AgreeThenFallBack
    BY <2>1 DEF StrategyRaises, AgreeThenFallBack, Stop
  <2>3. PICK v : Says(journal, journal', nextStepId, v, Nothing) /\ EndEntry("success", v)
    BY <1>5, <2>2, SpeaksSays DEF Proper, Speaks
  <2>4. nextStepId \in DOMAIN journal'.steps \ DOMAIN task'
    BY <1>5, SpeaksSays DEF Proper, Speaks
  <2>5. steps[e].kind # "step"
    BY <2>1 DEF Proper, Polls, Placed, Current
  <2>6. PICK m : m = nextStepId
    OBVIOUS
  <2>7. StandsFor(m, e)'
    BY <1>0, <2>3, <2>4, <2>5, <2>6 DEF StandsFor, Says
  <2>8. bindings' = Rebind(v) /\ journal'.steps[m].output = v
    BY <1>0, <2>3, <2>6 DEF EndEntry, Says
  <2>9. QED
    BY <2>7, <2>8
<1>6. CASE EndFallback
  <2>1. pc = "fallback" /\ bindings' = Rebind(agreed)
    BY <1>0, <1>6 DEF EndFallback, EndEntry, Stop
  <2>2. PICK s : StandsFor(s, e) /\ journal.steps[s].output = agreed
    BY <2>1 DEF Named
  <2>3. StandsFor(s, e)' /\ journal'.steps[s].output = agreed
    BY <2>2, MainAddsPast, StandsStay DEF Proper
  <2>4. QED
    BY <2>1, <2>3
<1>7. QED
  BY <1>1, <1>2, <1>3, <1>4, <1>5, <1>6

LEMMA MainKeepsBound ==
  ASSUME Proper, Proper', Named, MainThread, pc' # "raised"
  PROVE  Bound'
<1>0. steps' = steps /\ entry \in Nat \ {0} /\ entry # entry + 1 /\ pc # "raised" /\ Bound
  <2>1. pc # "raised"
    BY DEF MainThread, StopForRuntime, StopForCost, ReplayStep, RejectCheckpoint, BeginStep,
       EndStep,
           BeginGroup, EndParallel, EndVotersFailed, EndVoters, BeginReuse, Agree,
           AgreeThenFallBack, StrategyRaises, EndFallback, FinishWorkflow, MayEnter
  <2>2. entry \in Nat \ {0} /\ entry # entry + 1
    BY MainFacts DEF Proper
  <2>3. QED
    BY <2>1, <2>2, MainMoves DEF Proper, Named
<1>1. ASSUME NEW s, NEW e, StandsFor(s, e)
      PROVE  StandsFor(s, e)' /\ journal'.steps[s].output = journal.steps[s].output
  BY <1>1, MainAddsPast, StandsStay DEF Proper
<1>2. ASSUME NEW e \in 1 .. entry - 1, LastBinder(e)
      PROVE  \E s : StandsFor(s, e)' /\ bindings[steps[e].bind] = journal'.steps[s].output
  <2>1. PICK s : StandsFor(s, e) /\ bindings[steps[e].bind] = journal.steps[s].output
    BY <1>0, <1>2 DEF Bound
  <2>2. QED
    BY <1>1, <2>1
<1>3. CASE entry' = entry
  <2>1. bindings' = bindings
    <3>1. CASE EndStep
      BY <1>0, <1>3, <3>1 DEF EndStep, EndEntry, Stop
    <3>2. CASE ~EndStep
      BY <1>0, <1>3, <3>2, MainGoesOn DEF Proper, Waits, Passes
    <3>3. QED
      BY <3>1, <3>2
  <2>2. \A e \in 1 .. entry - 1 : LastBinder(e)' => LastBinder(e)
    BY <1>0, <1>3 DEF LastBinder
  <2>3. \A e \in 1 .. entry' - 1 :
          LastBinder(e)' => \E s : StandsFor(s, e)' /\ bindings'[steps'[e].bind] = journal'.steps[s].output
    BY <1>0, <1>2, <1>3, <2>1, <2>2
  <2>4. QED
    BY <1>0, <1>3, <2>1, <2>3 DEF Bound
<1>4. CASE entry' = entry + 1
  <2>1. entry' - 1 = entry /\ 1 .. entry = (1 .. entry - 1) \cup {entry}
    BY <1>0, <1>4
  <2>2. \A e \in 1 .. entry - 1 :
          LastBinder(e)' => LastBinder(e) /\ steps[e].bind # steps[entry].bind
    BY <1>0, <1>4 DEF LastBinder
  <2>3. CASE Current.bind = Nothing
    <3>1. bindings' = bindings
      <4>1. \E v : Passes(v)
        <5>1. CASE EndStep
          <6>1. PICK done : done = task[nextStepId - 1]
            OBVIOUS
          <6>2. Passes(done.output)
            BY <1>0, <1>4, <5>1, <6>1, StepEnds DEF Proper, Waits
          <6>3. QED
            BY <6>2
        <5>2. QED
          BY <1>0, <1>4, <5>1, MainGoesOn DEF Proper, Waits
      <4>2. QED
        BY <2>3, <4>1 DEF Passes, Rebind, AsName
    <3>2. {steps[e].bind : e \in 1 .. entry} \ {Nothing}
            = {steps[e].bind : e \in 1 .. entry - 1} \ {Nothing}
      BY <2>1, <2>3 DEF Current
    <3>3. DOMAIN bindings' = {steps'[e].bind : e \in 1 .. entry' - 1} \ {Nothing}
      BY <1>0, <2>1, <3>1, <3>2 DEF Bound
    <3>4. \A e \in 1 .. entry' - 1 :
            LastBinder(e)' =>
              \E s : StandsFor(s, e)' /\ bindings'[steps'[e].bind] = journal'.steps[s].output
      BY <1>0, <1>2, <2>1, <2>2, <2>3, <3>1 DEF LastBinder, Current
    <3>5. QED
      BY <3>3, <3>4 DEF Bound
  <2>4. CASE Current.bind # Nothing
    <3>1. PICK f, t : f = entry /\ StandsFor(t, f)' /\ bindings' = Rebind(journal'.steps[t].output)
      BY <1>4, <2>4, HandedOn
    <3>2. /\ DOMAIN bindings' = DOMAIN bindings \cup {steps[f].bind}
          /\ bindings'[steps[f].bind] = journal'.steps[t].output
          /\ \A n \in DOMAIN bindings : n # steps[f].bind => bindings'[n] = bindings[n]
      BY <2>4, <3>1 DEF Rebind, AsName, Current, Put
    <3>3. {steps[e].bind : e \in 1 .. entry} \ {Nothing}
            = ({steps[e].bind : e \in 1 .. entry - 1} \ {Nothing}) \cup {steps[f].bind}
      BY <2>1, <2>4, <3>1 DEF Current
    <3>4. ASSUME NEW e \in 1 .. entry - 1, LastBinder(e)'
          PROVE  \E s : StandsFor(s, e)' /\ bindings'[steps'[e].bind] = journal'.steps[s].output
      <4>1. LastBinder(e) /\ steps[e].bind # steps[f].bind
        BY <2>2, <3>1, <3>4
      <4>2. steps[e].bind \in DOMAIN bindings
        BY <1>0, <4>1 DEF LastBinder, Bound
      <4>3. QED
        BY <1>0, <1>2, <3>2, <4>1, <4>2
    <3>5. \A e \in 1 .. entry' - 1 :
            LastBinder(e)' =>
              \E s : StandsFor(s, e)' /\ bindings'[steps'[e].bind] = journal'.steps[s].output
      <4> TAKE e \in 1 .. entry' - 1
      <4>1. CASE e = entry
        BY <1>0, <3>1, <3>2, <4>1
      <4>2. CASE e # entry
        BY <2>1, <3>4, <4>2
      <4>3. QED
        BY <4>1, <4>2
    <3>6. QED
      BY <1>0, <2>1, <3>2, <3>3, <3>5 DEF Bound
  <2>5. QED
    BY <2>3, <2>4
<1>5. QED
  BY <1>3, <1>4, EntryMoves DEF Proper

LEMMA NextKeepsNamed ==
  Proper /\ Named /\ [Next]_vars /\ Proper' => Named'
<1> SUFFICES ASSUME Proper, Named, [Next]_vars, Proper' PROVE Named'
  OBVIOUS
<1>1. CASE MainThread
  BY <1>1, MainKeepsVerdicts, MainFallsBack, MainKeepsBound DEF Named
<1>2. CASE \E s \in DOMAIN task : RunTool(s)
  BY <1>2, ThreadKeepsNamed, NextKeepsBooks DEF Proper
<1>3. CASE UNCHANGED vars
  <2>1. PastSteps' = PastSteps /\ \A e : PlainEntries(e)' = PlainEntries(e)
    BY <1>3 DEF vars, PastSteps, PlainSteps, PlainEntries, TasksOf
  <2>2. \A s, e : StandsFor(s, e)' <=> StandsFor(s, e)
    BY <1>3, <2>1 DEF vars, StandsFor
  <2>3. OneVerdict'
    BY <1>3 DEF vars, Named, OneVerdict, Members
  <2>4. pc' # "raised" => Bound'
    BY <1>3, <2>2 DEF vars, Named, Bound, LastBinder
  <2>5. pc' = "fallback" => \E s : StandsFor(s, entry)' /\ journal'.steps[s].output = agreed'
    <3> SUFFICES ASSUME pc = "fallback"
                 PROVE  \E s : StandsFor(s, entry)' /\ journal'.steps[s].output = agreed'
      BY <1>3 DEF vars
    <3>1. PICK e, s : e = entry /\ StandsFor(s, e) /\ journal.steps[s].output = agreed
      BY DEF Named
    <3>2. StandsFor(s, e)'
      BY <2>2, <3>1
    <3>3. StandsFor(s, entry)'
      BY <1>3, <3>1, <3>2 DEF vars, StandsFor
    <3>4. QED
      BY <1>3, <3>1, <3>3 DEF vars
  <2>6. QED
    BY <2>3, <2>4, <2>5 DEF Named
<1>4. QED
  BY <1>1, <1>2, <1>3 DEF Next, Step, Terminating

LEMMA FreshNamed == Fresh => Named
<1> SUFFICES ASSUME Fresh PROVE Named
  OBVIOUS
<1>1. /\ pc = "next" /\ entry = 1 /\ DOMAIN bindings = {} /\ DOMAIN journal.steps = {}
  BY DEF Fresh, EmptyJournal
<1>2. 1 .. entry - 1 = {}
  BY <1>1
<1>3. QED
  BY <1>1, <1>2 DEF Named, OneVerdict, Bound

(* Every run binds its names to what the steps of its entries recorded.    *)
THEOREM NamesAreBound == Spec => []Named
<1>1. Init => Named
  BY InitIsFresh, FreshNamed
<1>2. QED
  BY <1>1, NextKeepsNamed, Inductive, BooksAreKept, PollsAreKept, CourseIsKept, PTL DEF Spec, Proper

LEMMA GreatestNumber ==
  ASSUME NEW k \in Nat, NEW T \in SUBSET (1 .. k), T # {}
  PROVE  \E x \in T : \A y \in T : x >= y
<1>1. PICK U : U = {k - x : x \in T}
  OBVIOUS
<1>2. U \in SUBSET Nat /\ U # {}
  <2>1. \A x \in T : k - x \in Nat
    OBVIOUS
  <2>2. QED
    BY <1>1, <2>1
<1>3. PICK u \in U : \A y \in U : u <= y
  BY <1>2, LeastNumber
<1>4. PICK x \in T : u = k - x
  BY <1>1, <1>3
<1>5. ASSUME NEW y \in T
      PROVE  x >= y
  <2>1. k - x <= k - y
    BY <1>1, <1>3, <1>4
  <2>2. QED
    BY <2>1
<1>6. QED
  BY <1>5

(* The step that stands for an entry is its outcome.                       *)
LEMMA StandsForOutcome ==
  ASSUME Proper, Named, NEW e \in 1 .. entry - 1, NEW s, StandsFor(s, e)
  PROVE  OutcomeStep(e) = s
<1>0. /\ PlainSteps \in SUBSET Nat /\ IsFiniteSet(PlainSteps) /\ IsFiniteSet(PastSteps)
      /\ PastSteps \subseteq PlainSteps
  BY PlainStepsFinite DEF Proper, PastSteps
<1>1. CASE steps[e].kind = "step"
  <2>1. PICK r : r = OutcomeStep(e)
    OBVIOUS
  <2>2. r \in PastSteps /\ Rank(r) = PlainEntries(e)
    BY <1>1, <2>1, OutcomeSteps DEF Proper
  <2>3. s \in PastSteps /\ Cardinality({t \in PastSteps : t <= s}) = PlainEntries(e)
    BY <1>1 DEF StandsFor
  <2>4. {t \in PastSteps : t <= r} = {t \in PlainSteps : t <= r}
    <3>1. CASE PlainSteps = PastSteps
      BY <3>1
    <3>2. CASE PlainSteps # PastSteps
      <4>1. PlainSteps = PastSteps \cup {nextStepId - 1} /\ nextStepId - 1 \notin PastSteps
        BY <3>2, LatestStep DEF Proper
      <4>2. nextStepId \in Nat /\ \A t \in PlainSteps : t < nextStepId
        BY MainFacts DEF Proper, Books, StepsBooked, PlainSteps
      <4>3. ~(nextStepId - 1 <= r)
        BY <1>0, <2>2, <4>1, <4>2
      <4>4. QED
        BY <4>1, <4>3
    <3>3. QED
      BY <3>1, <3>2
  <2>5. Cardinality({t \in PastSteps : t <= r}) = Cardinality({t \in PastSteps : t <= s})
    BY <2>2, <2>3, <2>4 DEF Rank
  <2>6. PICK P, C : P = PastSteps /\ C = Cardinality({t \in PastSteps : t <= r})
    OBVIOUS
  <2>7. P \in SUBSET Nat /\ IsFiniteSet(P) /\ r \in P /\ s \in P
    BY <1>0, <2>2, <2>3, <2>6
  <2>8. C \in Nat
    <3>1. IsFiniteSet({t \in P : t <= r})
      BY <2>7, FS_Subset
    <3>2. QED
      BY <2>6, <3>1, FS_CardinalityType
  <2>9. ~(r < s)
    BY <2>5, <2>6, <2>7, <2>8, RanksGrow
  <2>10. ~(s < r)
    BY <2>5, <2>6, <2>7, <2>8, RanksGrow
  <2>11. QED
    BY <2>1, <2>7, <2>9, <2>10
<1>2. CASE steps[e].kind # "step"
  <2>1. s \in DOMAIN journal.steps \ DOMAIN task /\ journal.steps[s].group = e /\ e # Nothing
    BY <1>2, NothingAssumption DEF StandsFor
  <2>2. \A r \in DOMAIN journal.steps \ DOMAIN task : journal.steps[r].group = e => r = s
    BY <2>1 DEF Named, OneVerdict
  <2>3. QED
    BY <1>2, <2>1, <2>2 DEF OutcomeStep
<1>3. QED
  BY <1>1, <1>2

(* scheduler.py:128-134, 141-146, 154-155: when an entry is reached, every *)
(* name bound by an earlier entry holds the output journaled for the last  *)
(* of them, and no other name is bound, for every workflow and checkpoint. *)
THEOREM NamesResolve == Spec => []BindingsResolve
<1>1. ASSUME Proper, Named
      PROVE  BindingsResolve
  <2> SUFFICES ASSUME pc # "raised", NEW n \in Names,
                      NEW B, B = {e \in 1 .. entry - 1 : steps[e].bind = n}
               PROVE  /\ n \in DOMAIN bindings <=> B # {}
                      /\ n \in DOMAIN bindings => bindings[n] = journal.steps[OutcomeStep(Max(B))].output
    BY DEF BindingsResolve
  <2>1. n # Nothing /\ entry \in Nat \ {0} /\ Bound
    BY <1>1, MainFacts, NothingAssumption DEF Proper, Named
  <2>2. n \in DOMAIN bindings <=> B # {}
    BY <2>1 DEF Bound
  <2>3. ASSUME B # {}
        PROVE  bindings[n] = journal.steps[OutcomeStep(Max(B))].output
    <3>1. PICK k : k = entry - 1
      OBVIOUS
    <3>2. k \in Nat /\ B \in SUBSET (1 .. k)
      BY <2>1, <3>1
    <3>3. \E x \in B : \A y \in B : x >= y
      BY <2>3, <3>2, GreatestNumber
    <3>4. PICK e : e = Max(B)
      OBVIOUS
    <3>5. e \in B /\ \A y \in B : e >= y
      BY <3>3, <3>4 DEF Max
    <3>6. LastBinder(e) /\ steps[e].bind = n /\ e \in 1 .. entry - 1
      BY <2>1, <3>5 DEF LastBinder
    <3>7. PICK s : StandsFor(s, e) /\ bindings[n] = journal.steps[s].output
      BY <2>1, <3>6 DEF Bound
    <3>8. OutcomeStep(e) = s
      BY <1>1, <3>6, <3>7, StandsForOutcome
    <3>9. QED
      BY <3>4, <3>7, <3>8
  <2>4. QED
    BY <2>2, <2>3
<1>2. Spec => [](Proper /\ Named)
  BY Inductive, BooksAreKept, PollsAreKept, CourseIsKept, NamesAreBound, PTL DEF Proper
<1>3. QED
  BY <1>1, <1>2, PTL

-----------------------------------------------------------------------------
(* Sums over finite sets (MapThenSumSet), without induction: a set of      *)
(* least size at which a claim fails does not exist.                       *)

Pick(T) == CHOOSE x \in T : TRUE

(* F gives each subset of S the sum of g over it.                          *)
SumsUp(F, g, S) ==
  F = [T \in SUBSET S |-> IF T = {} THEN 0 ELSE g[Pick(T)] + F[T \ {Pick(T)}]]

Total(g) == MapThenSumSet(LAMBDA x : g[x], DOMAIN g)

(* If a claim about finite sets fails, it fails for a smallest one.        *)
LEMMA SmallestSet ==
  ASSUME NEW S, IsFiniteSet(S), NEW C \in SUBSET SUBSET S, C # {}
  PROVE  \E T \in C : \A U \in SUBSET T : U # T => U \notin C
<1>1. PICK sizes : sizes = {Cardinality(T) : T \in C}
  OBVIOUS
<1>2. \A T \in SUBSET S : IsFiniteSet(T) /\ Cardinality(T) \in Nat
  BY FS_Subset, FS_CardinalityType
<1>3. sizes \in SUBSET Nat /\ sizes # {}
  BY <1>1, <1>2
<1>4. PICK n \in sizes : \A m \in sizes : n <= m
  BY <1>3, LeastNumber
<1>5. PICK T \in C : Cardinality(T) = n
  BY <1>1, <1>4
<1>6. ASSUME NEW U \in SUBSET T, U # T
      PROVE  U \notin C
  <2>1. Cardinality(U) < Cardinality(T)
    BY <1>2, <1>5, <1>6, FS_Subset
  <2>2. Cardinality(U) \in Nat /\ Cardinality(T) \in Nat
    BY <1>2, <1>5, <1>6
  <2>3. SUFFICES ASSUME U \in C PROVE FALSE
    OBVIOUS
  <2>4. Cardinality(U) \in sizes
    BY <1>1, <2>3
  <2>5. n <= Cardinality(U)
    BY <1>4, <2>4
  <2>6. QED
    BY <1>5, <2>1, <2>2, <2>5
<1>7. QED
  BY <1>6

LEMMA PickMember ==
  ASSUME NEW T, T # {}
  PROVE  Pick(T) \in T
BY DEF Pick

(* What a sum is worth does not depend on the order.                       *)
LEMMA SumFacts ==
  ASSUME NEW S, IsFiniteSet(S), NEW g, \A x \in S : g[x] \in Nat, NEW F, SumsUp(F, g, S)
  PROVE  /\ F[{}] = 0
         /\ \A T \in SUBSET S : F[T] \in Nat
         /\ \A T \in SUBSET S : \A x \in T : F[T] = g[x] + F[T \ {x}]
<1>1. /\ DOMAIN F = SUBSET S /\ F[{}] = 0
      /\ \A T \in SUBSET S : T # {} => F[T] = g[Pick(T)] + F[T \ {Pick(T)}]
  BY DEF SumsUp
<1>2. \A T \in SUBSET S : F[T] \in Nat
  <2> DEFINE C == {T \in SUBSET S : F[T] \notin Nat}
  <2>1. SUFFICES ASSUME C # {} PROVE FALSE
    OBVIOUS
  <2>2. PICK T \in C : \A U \in SUBSET T : U # T => U \notin C
    <3> HIDE DEF C
    <3>1. C \in SUBSET SUBSET S
      BY DEF C
    <3>2. QED
      BY <2>1, <3>1, SmallestSet
  <2>3. F[T] \notin Nat /\ T \in SUBSET S
    BY <2>2
  <2>3a. T # {}
    <3>1. F[{}] \in Nat
      BY <1>1
    <3>2. QED
      BY <2>3, <3>1
  <2>3b. Pick(T) \in T
    BY <2>3a, PickMember
  <2>4. F[T \ {Pick(T)}] \in Nat /\ g[Pick(T)] \in Nat
    BY <2>2, <2>3, <2>3b
  <2>5. QED
    BY <1>1, <2>3, <2>3a, <2>4
<1>3. \A T \in SUBSET S : \A x \in T : F[T] = g[x] + F[T \ {x}]
  <2> DEFINE C == {T \in SUBSET S : \E x \in T : F[T] # g[x] + F[T \ {x}]}
  <2>1. SUFFICES ASSUME C # {} PROVE FALSE
    OBVIOUS
  <2>2. PICK T \in C : \A U \in SUBSET T : U # T => U \notin C
    <3> HIDE DEF C
    <3>1. C \in SUBSET SUBSET S
      BY DEF C
    <3>2. QED
      BY <2>1, <3>1, SmallestSet
  <2>3. PICK x \in T : F[T] # g[x] + F[T \ {x}]
    BY <2>2
  <2>4. PICK c : c = Pick(T)
    OBVIOUS
  <2>5. c \in T /\ c # x /\ F[T] = g[c] + F[T \ {c}]
    BY <1>1, <2>2, <2>3, <2>4, PickMember
  <2>6. F[T \ {c}] = g[x] + F[(T \ {c}) \ {x}]
    BY <2>2, <2>3, <2>5
  <2>7. F[T \ {x}] = g[c] + F[(T \ {x}) \ {c}]
    BY <2>2, <2>3, <2>5
  <2>8. (T \ {c}) \ {x} = (T \ {x}) \ {c}
    OBVIOUS
  <2>9. g[c] \in Nat /\ g[x] \in Nat /\ F[(T \ {c}) \ {x}] \in Nat
    BY <1>2, <2>2, <2>3, <2>5
  <2>10. PICK rest : rest = F[(T \ {c}) \ {x}]
    OBVIOUS
  <2>11. F[T] = g[c] + (g[x] + rest) /\ F[T \ {x}] = g[c] + rest
    BY <2>5, <2>6, <2>7, <2>8, <2>10
  <2>12. F[T] = g[x] + (g[c] + rest)
    <3> HIDE DEF C
    <3>1. QED
      BY <2>9, <2>10, <2>11
  <2>13. QED
    BY <2>3, <2>11, <2>12
<1>4. QED
  BY <1>1, <1>2, <1>3

(* There is one way to add up ...                                          *)
LEMMA SumsAgree ==
  ASSUME NEW S, IsFiniteSet(S), NEW g, \A x \in S : g[x] \in Nat, NEW F, SumsUp(F, g, S), NEW G, SumsUp(G, g, S)
  PROVE  F = G
<1>a. /\ F[{}] = 0
      /\ \A U \in SUBSET S : \A y \in U : F[U] = g[y] + F[U \ {y}]
  BY SumFacts
<1>b. /\ G[{}] = 0
      /\ \A U \in SUBSET S : \A y \in U : G[U] = g[y] + G[U \ {y}]
  BY SumFacts
<1> DEFINE C == {T \in SUBSET S : F[T] # G[T]}
<1>1. CASE C # {}
  <2>1. PICK T \in C : \A U \in SUBSET T : U # T => U \notin C
    <3> HIDE DEF C
    <3>1. C \in SUBSET SUBSET S
      BY DEF C
    <3>2. QED
      BY <1>1, <3>1, SmallestSet
  <2>2. T # {}
    BY <1>a, <1>b, <2>1
  <2>3. PICK x \in T : TRUE
    BY <2>2
  <2>4. F[T] = g[x] + F[T \ {x}] /\ G[T] = g[x] + G[T \ {x}]
    <3>1. T \in SUBSET S
      BY <2>1
    <3> HIDE DEF C
    <3>2. QED
      BY <1>a, <1>b, <2>3, <3>1
  <2>5. F[T \ {x}] = G[T \ {x}]
    BY <2>1, <2>3
  <2>6. QED
    BY <2>1, <2>4, <2>5
<1>2. CASE C = {}
  BY <1>2 DEF SumsUp
<1>3. QED
  BY <1>1, <1>2

(* ... which adds up the subsets as well.                                  *)
LEMMA PartialSums ==
  ASSUME NEW S, NEW g, NEW F, SumsUp(F, g, S), NEW T \in SUBSET S
  PROVE  \E G : SumsUp(G, g, T) /\ G[T] = F[T]
<1> DEFINE G == [U \in SUBSET T |-> F[U]]
<1>1. \A U \in SUBSET T :
        F[U] = IF U = {} THEN 0 ELSE g[Pick(U)] + F[U \ {Pick(U)}]
  BY DEF SumsUp
<1>2. \A U \in SUBSET T : U \ {Pick(U)} \in SUBSET T
  OBVIOUS
<1>3. G = [U \in SUBSET T |-> IF U = {} THEN 0 ELSE g[Pick(U)] + G[U \ {Pick(U)}]]
  BY <1>1, <1>2
<1>4. SumsUp(G, g, T) /\ G[T] = F[T]
  BY <1>3 DEF SumsUp
<1>5. QED
  BY <1>4

(* Every finite set has a sum.                                             *)
LEMMA SumExists ==
  ASSUME NEW S, IsFiniteSet(S), NEW g, \A x \in S : g[x] \in Nat
  PROVE  \E F : SumsUp(F, g, S)
<1> DEFINE C == {T \in SUBSET S : ~ \E F : SumsUp(F, g, T)}
<1>1. SUFFICES ASSUME C # {} PROVE FALSE
  OBVIOUS
<1>2. PICK T \in C : \A U \in SUBSET T : U # T => U \notin C
  <2> HIDE DEF C
  <2>1. C \in SUBSET SUBSET S
    BY DEF C
  <2>2. QED
    BY <1>1, <2>1, SmallestSet
<1>3. /\ T \in SUBSET S /\ ~ \E F : SumsUp(F, g, T)
      /\ \A U \in SUBSET T : U # T => \E F : SumsUp(F, g, U)
  BY <1>2
<1> HIDE DEF C
<1> DEFINE part == [U \in SUBSET T |-> (CHOOSE F : SumsUp(F, g, U))[U]]
           F    == [U \in SUBSET T |-> IF U = {} THEN 0 ELSE g[Pick(U)] + part[U \ {Pick(U)}]]
<1>4. ASSUME NEW U \in SUBSET T, U # T
      PROVE  F[U] = part[U]
  <2>1. PICK G : SumsUp(G, g, U) /\ part[U] = G[U]
    BY <1>3, <1>4
  <2>2. CASE U = {}
    BY <2>1, <2>2 DEF SumsUp
  <2>3. CASE U # {}
    <3>1. PICK V \in SUBSET U : V = U \ {Pick(U)}
      OBVIOUS
    <3>2. Pick(U) \in U
      BY <2>3, PickMember
    <3>3. V \in SUBSET T /\ V # T
      BY <3>1, <1>4
    <3>4. PICK H : SumsUp(H, g, V) /\ part[V] = H[V]
      BY <1>3, <3>3
    <3>5. PICK K : SumsUp(K, g, V) /\ K[V] = G[V]
      BY <2>1, PartialSums
    <3>6. IsFiniteSet(V) /\ \A x \in V : g[x] \in Nat
      BY <1>3, <3>3, FS_Subset
    <3>7. H = K
      BY <3>4, <3>5, <3>6, SumsAgree
    <3>8. G[U] = g[Pick(U)] + G[V]
      BY <2>1, <2>3, <3>1 DEF SumsUp
    <3>9. QED
      BY <2>1, <2>3, <3>1, <3>4, <3>5, <3>7, <3>8
  <2>4. QED
    BY <2>2, <2>3
<1>5. ASSUME NEW U \in SUBSET T, U # {}
      PROVE  F[U] = g[Pick(U)] + F[U \ {Pick(U)}]
  <2>1. U \ {Pick(U)} \in SUBSET T /\ U \ {Pick(U)} # T
    BY <1>5, PickMember
  <2>2. F[U \ {Pick(U)}] = part[U \ {Pick(U)}]
    BY <1>4, <2>1
  <2>3. QED
    BY <1>5, <2>2
<1>6. SumsUp(F, g, T)
  <2>1. F[{}] = 0
    OBVIOUS
  <2>2. F = [U \in SUBSET T |-> F[U]]
    OBVIOUS
  <2> HIDE DEF F
  <2>3. QED
    BY <1>5, <2>1, <2>2 DEF SumsUp
<1>7. QED
  BY <1>3, <1>6

(* MapThenSumSet chooses that way.                                         *)
LEMMA TotalIs ==
  ASSUME NEW S, IsFiniteSet(S), NEW g \in [S -> Nat]
  PROVE  \E F : /\ SumsUp(F, g, S) /\ Total(g) = F[S]
                /\ \A G : SumsUp(G, g, S) => G = F
<1> DEFINE iter == CHOOSE iter : iter = [s \in SUBSET S |->
                     IF s = {} THEN 0 ELSE g[CHOOSE x \in s : TRUE] + iter[s \ {CHOOSE x \in s : TRUE}]]
<1>0. DOMAIN g = S /\ \A x \in S : g[x] \in Nat
  OBVIOUS
<1>1. Total(g) = iter[S]
  BY <1>0 DEF Total, MapThenSumSet, MapThenFoldSet
<1>2. PICK F : SumsUp(F, g, S)
  BY <1>0, SumExists
<1>3. F = [s \in SUBSET S |-> IF s = {} THEN 0 ELSE g[CHOOSE x \in s : TRUE] + F[s \ {CHOOSE x \in s : TRUE}]]
  BY <1>2 DEF SumsUp, Pick
<1>4. SumsUp(iter, g, S)
  BY <1>3 DEF SumsUp, Pick
<1> HIDE DEF iter
<1>5. \A G : SumsUp(G, g, S) => G = iter
  BY <1>0, <1>4, SumsAgree
<1>6. QED
  BY <1>1, <1>4, <1>5

(* A total is any of its numbers and the total of the others.              *)
LEMMA TotalParts ==
  ASSUME NEW S, IsFiniteSet(S), NEW g \in [S -> Nat]
  PROVE  /\ Total(g) \in Nat
         /\ \A x \in S : Total(g) = g[x] + Total([y \in S \ {x} |-> g[y]])
<1>0. \A x \in S : g[x] \in Nat
  OBVIOUS
<1>1. PICK F : SumsUp(F, g, S) /\ Total(g) = F[S]
  BY TotalIs
<1>2. Total(g) \in Nat
  BY <1>0, <1>1, SumFacts
<1>3. ASSUME NEW x \in S
      PROVE  Total(g) = g[x] + Total([y \in S \ {x} |-> g[y]])
  <2>1. PICK T \in SUBSET S : T = S \ {x}
    OBVIOUS
  <2>2. PICK h : h = [y \in T |-> g[y]]
    OBVIOUS
  <2>3. IsFiniteSet(T) /\ h \in [T -> Nat]
    BY <2>1, <2>2, <1>0, FS_Subset
  <2>4. PICK H : /\ SumsUp(H, h, T) /\ Total(h) = H[T]
                 /\ \A G : SumsUp(G, h, T) => G = H
    BY <2>3, TotalIs
  <2>5. PICK G : SumsUp(G, g, T) /\ G[T] = F[T]
    BY <1>1, PartialSums
  <2>6. \A U \in SUBSET T : U # {} => h[Pick(U)] = g[Pick(U)]
    BY <2>2, PickMember
  <2>7. SumsUp(G, h, T)
    BY <2>5, <2>6 DEF SumsUp
  <2>8. F[S] = g[x] + F[S \ {x}]
    BY <1>0, <1>1, SumFacts
  <2>9. QED
    BY <1>1, <2>1, <2>2, <2>4, <2>5, <2>7, <2>8
<1>4. QED
  BY <1>2, <1>3

LEMMA TotalZero ==
  ASSUME NEW S, IsFiniteSet(S), NEW g \in [S -> Nat], \A x \in S : g[x] = 0
  PROVE  Total(g) = 0
<1>1. PICK F : Total(g) = F[S] /\ \A G : SumsUp(G, g, S) => G = F
  BY TotalIs
<1> DEFINE zero == [T \in SUBSET S |-> 0]
<1>2. \A T \in SUBSET S : T # {} => g[Pick(T)] = 0
  BY PickMember
<1>3. SumsUp(zero, g, S)
  BY <1>2 DEF SumsUp
<1>4. QED
  BY <1>1, <1>3

(* A number more, a number changed.                                        *)
LEMMA OneMore ==
  ASSUME NEW S, IsFiniteSet(S), NEW g \in [S -> Nat], NEW x, x \notin S,
         NEW h \in [S \cup {x} -> Nat], \A y \in S : h[y] = g[y]
  PROVE  Total(h) = Total(g) + h[x]
<1>1. IsFiniteSet(S \cup {x})
  BY FS_AddElement
<1>2. (S \cup {x}) \ {x} = S
  OBVIOUS
<1>3. [y \in S |-> h[y]] = g
  OBVIOUS
<1>4. Total(h) = h[x] + Total(g)
  BY <1>1, <1>2, <1>3, TotalParts
<1>5. Total(g) \in Nat /\ h[x] \in Nat
  BY TotalParts
<1>6. QED
  BY <1>4, <1>5

LEMMA OneChanged ==
  ASSUME NEW S, IsFiniteSet(S), NEW g \in [S -> Nat], NEW x \in S,
         NEW h \in [S -> Nat], \A y \in S \ {x} : h[y] = g[y]
  PROVE  Total(h) + g[x] = Total(g) + h[x]
<1>1. PICK rest : rest = [y \in S \ {x} |-> g[y]]
  OBVIOUS
<1>2. rest = [y \in S \ {x} |-> h[y]]
  BY <1>1
<1>3. rest \in [S \ {x} -> Nat] /\ IsFiniteSet(S \ {x})
  BY <1>1, FS_Subset
<1>4. Total(g) = g[x] + Total(rest) /\ Total(h) = h[x] + Total(rest)
  BY <1>1, <1>2, TotalParts
<1>5. Total(rest) \in Nat /\ g[x] \in Nat /\ h[x] \in Nat
  BY <1>3, TotalParts
<1>6. QED
  BY <1>4, <1>5

(* The sums of UsageAccounted are totals.                                  *)
LEMMA FieldTotal ==
  ASSUME NEW S, IsFiniteSet(S), NEW f, \A s \in S : f[s].usage \in Nat
  PROVE  MapThenSumSet(LAMBDA s : f[s].usage, S) = Total([s \in S |-> f[s].usage])
<1> DEFINE g    == [s \in S |-> f[s].usage]
           iter == CHOOSE iter : iter = [T \in SUBSET S |->
                     IF T = {} THEN 0
                     ELSE f[CHOOSE x \in T : TRUE].usage + iter[T \ {CHOOSE x \in T : TRUE}]]
<1>1. MapThenSumSet(LAMBDA s : f[s].usage, S) = iter[S]
  BY DEF MapThenSumSet, MapThenFoldSet
<1>2. PICK F : /\ SumsUp(F, g, S) /\ Total(g) = F[S]
               /\ \A G : SumsUp(G, g, S) => G = F
  BY TotalIs
<1>3. \A T \in SUBSET S : T # {} => (CHOOSE x \in T : TRUE) \in S /\ g[Pick(T)] = f[CHOOSE x \in T : TRUE].usage
  BY PickMember DEF Pick
<1>4. F = [T \in SUBSET S |-> IF T = {} THEN 0
             ELSE f[CHOOSE x \in T : TRUE].usage + F[T \ {CHOOSE x \in T : TRUE}]]
  BY <1>2, <1>3 DEF SumsUp, Pick
<1>5. SumsUp(iter, g, S)
  <2>1. iter = [T \in SUBSET S |-> IF T = {} THEN 0
             ELSE f[CHOOSE x \in T : TRUE].usage + iter[T \ {CHOOSE x \in T : TRUE}]]
    BY <1>4
  <2> HIDE DEF iter
  <2>2. QED
    BY <1>3, <2>1 DEF SumsUp, Pick
<1>6. QED
  BY <1>1, <1>2, <1>5

LEMMA NumbersTotal ==
  ASSUME NEW S, IsFiniteSet(S), NEW f, \A s \in S : f[s].usage \in Nat \cup {Nothing}
  PROVE  MapThenSumSet(LAMBDA s : IF f[s].usage = Nothing THEN 0 ELSE f[s].usage, S)
           = Total([s \in S |-> IF f[s].usage = Nothing THEN 0 ELSE f[s].usage])
<1> DEFINE num(x) == IF f[x].usage = Nothing THEN 0 ELSE f[x].usage
           g    == [s \in S |-> num(s)]
           iter == CHOOSE iter : iter = [T \in SUBSET S |->
                     IF T = {} THEN 0
                     ELSE num(CHOOSE x \in T : TRUE) + iter[T \ {CHOOSE x \in T : TRUE}]]
<1>1. MapThenSumSet(LAMBDA s : IF f[s].usage = Nothing THEN 0 ELSE f[s].usage, S) = iter[S]
  BY DEF MapThenSumSet, MapThenFoldSet
<1>2. g \in [S -> Nat] /\ g = [s \in S |-> IF f[s].usage = Nothing THEN 0 ELSE f[s].usage]
  OBVIOUS
<1> HIDE DEF num
<1>3. PICK F : /\ SumsUp(F, g, S) /\ Total(g) = F[S]
               /\ \A G : SumsUp(G, g, S) => G = F
  BY <1>2, TotalIs
<1>4. \A T \in SUBSET S : T # {} =>
        (CHOOSE x \in T : TRUE) \in S /\ g[Pick(T)] = num(CHOOSE x \in T : TRUE)
  BY PickMember DEF Pick
<1>5. F = [T \in SUBSET S |-> IF T = {} THEN 0
             ELSE num(CHOOSE x \in T : TRUE) + F[T \ {CHOOSE x \in T : TRUE}]]
  BY <1>3, <1>4 DEF SumsUp, Pick
<1>6. SumsUp(iter, g, S)
  <2>1. iter = [T \in SUBSET S |-> IF T = {} THEN 0
             ELSE num(CHOOSE x \in T : TRUE) + iter[T \ {CHOOSE x \in T : TRUE}]]
    BY <1>5
  <2> HIDE DEF iter
  <2>2. QED
    BY <1>4, <2>1 DEF SumsUp, Pick
<1>7. QED
  BY <1>1, <1>2, <1>3, <1>6

-----------------------------------------------------------------------------
(* What has been reported: to the journal, to the metrics of each tool, and *)
(* by the threads that have not added it to the cost yet.                   *)
JournalUse(j) ==
  [s \in DOMAIN j.steps |-> IF j.steps[s].usage = Nothing THEN 0 ELSE j.steps[s].usage]

ToolUse(m) == [t \in ToolNames |-> m.byTool[t].usage]

Costing == {s \in DOMAIN task : task[s].pc = "costing"}

PendingUse == [s \in Costing |-> task[s].usage]

Balanced ==
  /\ cost + Total(PendingUse) = metrics.usageTotal
  /\ metrics.usageTotal = Total(JournalUse(journal))
  /\ metrics.usageTotal = Total(ToolUse(metrics))

(* A thread reports once: until then its record has no usage.              *)
Unreported ==
  \A s \in DOMAIN task :
    task[s].pc \in {"check", "asking", "call", "running", "returned", "usage"}
      => journal.steps[s].usage = Nothing

Accounts == Balanced /\ Unreported

(* The sums are over finite sets of numbers.                               *)
LEMMA Summable ==
  ASSUME IsFiniteSet(Tools), IInv, Books
  PROVE  /\ IsFiniteSet(DOMAIN journal.steps) /\ IsFiniteSet(Costing) /\ IsFiniteSet(ToolNames)
         /\ JournalUse(journal) \in [DOMAIN journal.steps -> Nat]
         /\ PendingUse \in [Costing -> Nat]
         /\ ToolUse(metrics) \in [ToolNames -> Nat]
         /\ cost \in Nat /\ metrics.usageTotal \in Nat
<1>1. /\ JournalTyped(journal) /\ nextStepId \in Nat /\ cost \in Nat /\ metrics \in MetricsType
      /\ DOMAIN task \subseteq Nat \ {0}
  BY MainFacts DEF IInv, TypeOK, TasksTyped
<1>2. DOMAIN journal.steps \subseteq 1 .. nextStepId /\ Costing \subseteq 1 .. nextStepId
  BY <1>1 DEF JournalTyped, Books, StepsBooked, IInv, TasksOK, Costing
<1>3. IsFiniteSet(1 .. nextStepId)
  BY <1>1, FS_Interval
<1>4. IsFiniteSet(DOMAIN journal.steps) /\ IsFiniteSet(Costing)
  BY <1>2, <1>3, FS_Subset
<1>5. IsFiniteSet(ToolNames)
  BY ToolAssumption, FS_AddElement
<1>6. \A s \in DOMAIN journal.steps : journal.steps[s].usage \in Nat \cup {Nothing}
  BY <1>1 DEF JournalTyped, StepRecordType, Maybe
<1>7. JournalUse(journal) \in [DOMAIN journal.steps -> Nat]
  BY <1>6 DEF JournalUse
<1>8. PendingUse \in [Costing -> Nat]
  BY DEF PendingUse, Costing, IInv, TasksOK, Fits, ValuesFit
<1>9. ToolUse(metrics) \in [ToolNames -> Nat] /\ metrics.usageTotal \in Nat
  BY <1>1 DEF ToolUse, MetricsType, StatsType
<1>10. QED
  BY <1>1, <1>4, <1>5, <1>7, <1>8, <1>9

LEMMA AccountsAgree ==
  ASSUME IsFiniteSet(Tools), IInv, Books, Accounts
  PROVE  UsageAccounted
<1> DEFINE Of(s) == IF journal.steps[s].usage = Nothing THEN 0 ELSE journal.steps[s].usage
<1>1. MapThenSumSet(LAMBDA s : task[s].usage, Costing) = Total(PendingUse)
  <2>1. \A s \in Costing : task[s].usage \in Nat
    BY DEF Costing, IInv, TasksOK, Fits, ValuesFit
  <2>2. QED
    BY <2>1, Summable, FieldTotal DEF PendingUse
<1>2. MapThenSumSet(LAMBDA t : metrics.byTool[t].usage, ToolNames) = Total(ToolUse(metrics))
  <2>1. \A t \in ToolNames : metrics.byTool[t].usage \in Nat
    BY MainFacts DEF MetricsType, StatsType
  <2>2. QED
    BY <2>1, Summable, FieldTotal DEF ToolUse
<1>3. MapThenSumSet(Of, DOMAIN journal.steps) = Total(JournalUse(journal))
  <2>1. \A s \in DOMAIN journal.steps : journal.steps[s].usage \in Nat \cup {Nothing}
    BY MainFacts DEF JournalTyped, StepRecordType, Maybe
  <2>2. QED
    BY <2>1, Summable, NumbersTotal DEF JournalUse
<1>4. QED
  BY <1>1, <1>2, <1>3 DEF UsageAccounted, Accounts, Balanced, Costing

-----------------------------------------------------------------------------
(* What the handlers do to the reports.                                    *)

(* j becomes k with at most one more step, x, and no report more or less.  *)
SameUse(j, k, x) ==
  /\ DOMAIN j.steps \subseteq DOMAIN k.steps /\ DOMAIN k.steps \subseteq DOMAIN j.steps \cup {x}
  /\ \A s \in DOMAIN j.steps : k.steps[s].usage = j.steps[s].usage
  /\ x \in DOMAIN k.steps \ DOMAIN j.steps => k.steps[x].usage = Nothing

LEMMA SameUseTotal ==
  ASSUME NEW j, IsFiniteSet(DOMAIN j.steps), JournalUse(j) \in [DOMAIN j.steps -> Nat],
         NEW k, NEW x, SameUse(j, k, x)
  PROVE  Total(JournalUse(k)) = Total(JournalUse(j))
<1>1. CASE DOMAIN k.steps = DOMAIN j.steps
  <2>1. JournalUse(k) = JournalUse(j)
    BY <1>1 DEF JournalUse, SameUse
  <2>2. QED
    BY <2>1
<1>2. CASE DOMAIN k.steps # DOMAIN j.steps
  <2>1. /\ DOMAIN k.steps = DOMAIN j.steps \cup {x} /\ x \notin DOMAIN j.steps
        /\ k.steps[x].usage = Nothing
    BY <1>2 DEF SameUse
  <2>2. JournalUse(k) \in [DOMAIN j.steps \cup {x} -> Nat]
    BY <2>1 DEF JournalUse, SameUse
  <2>3. /\ \A s \in DOMAIN j.steps : JournalUse(k)[s] = JournalUse(j)[s]
        /\ JournalUse(k)[x] = 0
    BY <2>1 DEF JournalUse, SameUse
  <2>4. PICK g, h : g = JournalUse(j) /\ h = JournalUse(k)
    OBVIOUS
  <2>5. Total(h) = Total(g) + h[x] /\ Total(g) \in Nat
    BY <2>1, <2>2, <2>3, <2>4, OneMore, TotalParts
  <2>6. QED
    BY <2>3, <2>4, <2>5
<1>3. QED
  BY <1>1, <1>2

(* A record without work done: no report and no retry yet.                 *)
Unused(r, tool) == r.usage = Nothing /\ r.tool = tool /\ r.retries = 0

SameWork(r, q) == q.usage = r.usage /\ q.tool = r.tool /\ q.retries = r.retries

LEMMA StartedUnused ==
  ASSUME NEW j, JournalTyped(j), NEW s \in Nat \ {0}, s \notin DOMAIN j.steps,
         NEW tool \in ToolNames, NEW group \in Maybe(Nat), NEW replayed \in BOOLEAN,
         NEW k, k = OnStepStarted(j, s, tool, group, replayed)
  PROVE  SameUse(j, k, s) /\ OnlyStep(j, k, s) /\ Unused(k.steps[s], tool)
<1>1. OnlyStep(j, k, s)
  BY StartedJournal
<1>2. k.steps[s] = NewStep(tool, group, replayed)
  BY DEF OnStepStarted, Put
<1>3. QED
  BY <1>1, <1>2 DEF SameUse, OnlyStep, NewStep, Unused

LEMMA EditedUnused ==
  ASSUME NEW j, JournalTyped(j), NEW s \in DOMAIN j.steps, NEW k,
         \/ \E v \in Maybe(Values) : k = OnToolSucceeded(j, s, v)
         \/ \E e \in Maybe(Errors) : k = OnToolFailed(j, s, e)
         \/ \E m \in Maybe(Nat) : k = OnStrategyMetadataReported(j, s, m)
         \/ \E b \in BOOLEAN : k = OnApprovalDecided(j, s, b)
         \/ \E st \in Maybe(Statuses) : k = OnStepFinished(j, s, st)
  PROVE  OnlyStep(j, k, s) /\ SameWork(j.steps[s], k.steps[s])
<1>1. j.steps[s] \in StepRecordType
  BY DEF JournalTyped
<1>2. CASE \E v \in Maybe(Values) : k = OnToolSucceeded(j, s, v)
  <2>1. PICK v \in Maybe(Values) : k = OnToolSucceeded(j, s, v)
    BY <1>2
  <2>2. OnlyStep(j, k, s) /\ k.steps[s] = [j.steps[s] EXCEPT !.output = v]
    BY <2>1, StepHandlers
  <2>3. QED
    BY <1>1, <2>2 DEF StepRecordType, SameWork
<1>3. CASE \E e \in Maybe(Errors) : k = OnToolFailed(j, s, e)
  <2>1. PICK e \in Maybe(Errors) : k = OnToolFailed(j, s, e)
    BY <1>3
  <2>2. OnlyStep(j, k, s) /\ k.steps[s] = [j.steps[s] EXCEPT !.error = e]
    BY <2>1, StepHandlers
  <2>3. QED
    BY <1>1, <2>2 DEF StepRecordType, SameWork
<1>4. CASE \E m \in Maybe(Nat) : k = OnStrategyMetadataReported(j, s, m)
  <2>1. PICK m \in Maybe(Nat) : k = OnStrategyMetadataReported(j, s, m)
    BY <1>4
  <2>2. OnlyStep(j, k, s) /\ k.steps[s] = [j.steps[s] EXCEPT !.metadata = m]
    BY <2>1, StepHandlers
  <2>3. QED
    BY <1>1, <2>2 DEF StepRecordType, SameWork
<1>5. CASE \E b \in BOOLEAN : k = OnApprovalDecided(j, s, b)
  <2>1. PICK b \in BOOLEAN : k = OnApprovalDecided(j, s, b)
    BY <1>5
  <2>2. OnlyStep(j, k, s) /\ k.steps[s] = [j.steps[s] EXCEPT !.approved = b]
    BY <2>1, StepHandlers
  <2>3. QED
    BY <1>1, <2>2 DEF StepRecordType, SameWork
<1>6. CASE \E st \in Maybe(Statuses) : k = OnStepFinished(j, s, st)
  <2>1. PICK st \in Maybe(Statuses) : k = OnStepFinished(j, s, st)
    BY <1>6
  <2>2. OnlyStep(j, k, s) /\ k.steps[s] = [j.steps[s] EXCEPT !.status = st]
    BY <2>1, StepHandlers
  <2>3. QED
    BY <1>1, <2>2 DEF StepRecordType, SameWork
<1>7. QED
  BY <1>2, <1>3, <1>4, <1>5, <1>6

LEMMA RetriedUnused ==
  ASSUME NEW j, JournalTyped(j), NEW s \in DOMAIN j.steps, NEW n \in Nat, NEW k,
         k = OnRetryAttempted(j, s, n)
  PROVE  /\ OnlyStep(j, k, s) /\ k.steps[s].usage = j.steps[s].usage
         /\ k.steps[s].retries = n /\ k.steps[s].tool = j.steps[s].tool
<1>1. j.steps[s] \in StepRecordType
  BY DEF JournalTyped
<1>2. OnlyStep(j, k, s) /\ k.steps[s] = [j.steps[s] EXCEPT !.retries = n]
  BY StepHandlers
<1>3. QED
  BY <1>1, <1>2 DEF StepRecordType

LEMMA SameUseTransitive ==
  ASSUME NEW i, NEW j, NEW k, NEW x, SameUse(i, j, x), SameUse(j, k, x)
  PROVE  SameUse(i, k, x)
BY DEF SameUse

(* The metrics of other events than a report.                              *)
LEMMA CountsUnused ==
  ASSUME NEW m \in MetricsType, NEW tool \in ToolNames, NEW st \in Statuses, NEW k,
         k = CountGroup(m) \/ k = CountRetry(m, tool) \/ k = CountStep(m, tool, st)
  PROVE  k \in MetricsType /\ k.usageTotal = m.usageTotal /\ ToolUse(k) = ToolUse(m)
<1>1. k \in MetricsType
  BY CountsTyped
<1>2. m.byTool \in [ToolNames -> StatsType]
  BY DEF MetricsType
<1>3. /\ k.usageTotal = m.usageTotal
      /\ \A t \in ToolNames : k.byTool[t].usage = m.byTool[t].usage
  <2>1. CASE k = CountGroup(m)
    BY <2>1 DEF CountGroup, MetricsType
  <2>2. CASE k = CountRetry(m, tool)
    <3>1. CountAgain(m.byTool[tool]).usage = m.byTool[tool].usage
      BY <1>2 DEF CountAgain, StatsType
    <3>2. k.usageTotal = m.usageTotal /\ k.byTool = [m.byTool EXCEPT ![tool] = CountAgain(@)]
      BY <2>2 DEF CountRetry, MetricsType
    <3>3. QED
      BY <1>2, <3>1, <3>2
  <2>3. CASE k = CountStep(m, tool, st)
    <3>1. CountCall(m.byTool[tool], st).usage = m.byTool[tool].usage
      BY <1>2 DEF CountCall, StatsType
    <3>2. k.usageTotal = m.usageTotal /\ k.byTool = [m.byTool EXCEPT ![tool] = CountCall(@, st)]
      BY <2>3 DEF CountStep, MetricsType
    <3>3. QED
      BY <1>2, <3>1, <3>2
  <2>4. QED
    BY <2>1, <2>2, <2>3
<1>4. QED
  BY <1>1, <1>3 DEF ToolUse

-----------------------------------------------------------------------------
(* A step of a thread that reports nothing and adds nothing to the cost.   *)
Early == {"check", "asking", "call", "running", "returned", "usage"}

SameMetrics == metrics'.usageTotal = metrics.usageTotal /\ ToolUse(metrics') = ToolUse(metrics)

SpendsNothing(s) ==
  /\ task[s].pc # "costing" /\ task'[s].pc # "costing"
  /\ task'[s].pc \in Early => task[s].pc \in Early \/ journal'.steps[s].usage = Nothing
  /\ SameUse(journal, journal', s) /\ SameMetrics /\ cost' = cost

LEMMA SilentStepsSpendNothing ==
  ASSUME IInv, NEW s \in DOMAIN task,
         \/ DenyCapability(s) \/ RequestApproval(s) \/ SkipApproval(s) \/ ApprovalRaises(s)
         \/ CallTool(s) \/ NoUsage(s) \/ UsageRaises(s)
         \/ \E v \in Outcomes[task[s].tool], c \in Costs[task[s].tool] : ToolReturns(s, v, c)
  PROVE  SpendsNothing(s)
<1>1. task[s] \in TaskType
  BY ThreadFacts
<1>2. journal' = journal /\ metrics' = metrics /\ cost' = cost
  BY DEF DenyCapability, RequestApproval, SkipApproval, ApprovalRaises, CallTool, NoUsage,
         UsageRaises, ToolReturns
<1>3. CASE RequestApproval(s) \/ SkipApproval(s) \/ NoUsage(s)
  <2>1. task[s].pc \in {"check", "usage"} /\ task'[s].pc \in {"asking", "call", "finishing"}
    BY <1>1, <1>3 DEF RequestApproval, SkipApproval, NoUsage, Moves, TaskType
  <2>2. QED
    BY <1>2, <2>1 DEF SpendsNothing, SameUse, SameMetrics, Early
<1>4. CASE DenyCapability(s) \/ ApprovalRaises(s) \/ UsageRaises(s)
  <2>1. task[s].pc \in {"check", "asking", "usage"} /\ task'[s].pc = "failing"
    BY <1>1, <1>4 DEF DenyCapability, ApprovalRaises, UsageRaises, Throws, TaskType
  <2>2. QED
    BY <1>2, <2>1 DEF SpendsNothing, SameUse, SameMetrics, Early
<1>5. CASE \/ CallTool(s)
           \/ \E v \in Outcomes[task[s].tool], c \in Costs[task[s].tool] : ToolReturns(s, v, c)
  <2>1. task[s].pc \in {"call", "running"} /\ task'[s].pc \in {"running", "returned"}
    BY <1>1, <1>5 DEF CallTool, ToolReturns, TaskType
  <2>2. QED
    BY <1>2, <2>1 DEF SpendsNothing, SameUse, SameMetrics, Early
<1>6. QED
  BY <1>3, <1>4, <1>5

LEMMA StartStepSpendsNothing ==
  ASSUME IInv, Books, NEW s \in DOMAIN task, StartStep(s)
  PROVE  SpendsNothing(s)
<1>1. PICK k : k = OnStepStarted(journal, s, task[s].tool, task[s].group, FALSE)
  OBVIOUS
<1>2. /\ task[s].pc = "assigned" /\ task'[s].pc = "check" /\ journal' = k
      /\ metrics' = metrics /\ cost' = cost
  BY <1>1, ThreadFacts DEF StartStep, Moves, TaskType
<1>3. /\ task[s].tool \in ToolNames /\ task[s].group \in Maybe(Nat) /\ FALSE \in BOOLEAN
      /\ s \in Nat \ {0} /\ JournalTyped(journal) /\ s \notin DOMAIN journal.steps
  BY <1>2, ThreadFacts, ToolAssumption DEF TaskType, Books, ThreadsBooked, RecordFits
<1>4. SameUse(journal, k, s) /\ Unused(k.steps[s], task[s].tool)
  <2>1. PICK tool \in ToolNames, group \in Maybe(Nat) : tool = task[s].tool /\ group = task[s].group
    BY <1>3
  <2>2. k = OnStepStarted(journal, s, tool, group, FALSE)
    BY <1>1, <2>1
  <2>3. JournalTyped(journal) /\ s \in Nat \ {0} /\ s \notin DOMAIN journal.steps /\ FALSE \in BOOLEAN
    BY <1>3
  <2>4. QED
    BY <2>1, <2>2, <2>3, StartedUnused, Zenon
<1>5. QED
  BY <1>2, <1>4 DEF SpendsNothing, SameMetrics, Early, Unused

LEMMA ReportsSpendNothing ==
  ASSUME IInv, NEW s \in DOMAIN task,
         \/ \E approved \in BOOLEAN : DecideApproval(s, approved)
         \/ ToolRaises(s) \/ EmitSucceeded(s) \/ EmitFailed(s)
         \/ FinishSucceeded(s) \/ FinishFailed(s)
  PROVE  SpendsNothing(s)
<1>1. /\ task[s] \in TaskType /\ JournalTyped(journal) /\ metrics \in MetricsType
      /\ task[s].pc # "assigned" => s \in DOMAIN journal.steps
      /\ task[s].tool \in ToolNames /\ task[s].attempt + 1 \in Nat
      /\ task[s].output \in Maybe(Values) /\ task[s].error \in Maybe(Errors)
  BY ThreadFacts, ToolAssumption DEF TaskType
<1>2. /\ cost' = cost /\ task[s].pc \notin {"assigned", "costing"}
      /\ task'[s].pc # "costing" /\ (task'[s].pc \in Early => task[s].pc \in Early)
  <2>1. CASE \E approved \in BOOLEAN : DecideApproval(s, approved)
    BY <1>1, <2>1 DEF DecideApproval, Moves, Throws, TaskType, Early
  <2>2. CASE ToolRaises(s)
    BY <1>1, <2>2 DEF ToolRaises, Throws, TaskType, Early
  <2>3. CASE EmitSucceeded(s) \/ EmitFailed(s)
    BY <1>1, <2>3 DEF EmitSucceeded, EmitFailed, Moves, TaskType, Early
  <2>4. CASE FinishSucceeded(s) \/ FinishFailed(s)
    BY <1>1, <2>4 DEF FinishSucceeded, FinishFailed, Finishes, TaskType, Early
  <2>5. QED
    BY <2>1, <2>2, <2>3, <2>4
<1>3. s \in DOMAIN journal.steps
  BY <1>1, <1>2
<1>4. \/ journal' = journal
      \/ OnlyStep(journal, journal', s) /\ journal'.steps[s].usage = journal.steps[s].usage
  <2>1. CASE \E approved \in BOOLEAN : DecideApproval(s, approved)
    BY <1>1, <1>3, <2>1, EditedUnused DEF DecideApproval, SameWork
  <2>2. CASE ToolRaises(s)
    BY <1>1, <1>3, <2>2, RetriedUnused DEF ToolRaises
  <2>3. CASE EmitSucceeded(s)
    BY <1>1, <1>3, <2>3, EditedUnused DEF EmitSucceeded, SameWork
  <2>4. CASE EmitFailed(s)
    BY <1>1, <1>3, <2>4, EditedUnused DEF EmitFailed, SameWork
  <2>5. CASE FinishSucceeded(s) \/ FinishFailed(s)
    <3>1. PICK st \in Maybe(Statuses) : journal' = OnStepFinished(journal, s, st)
      BY <2>5 DEF FinishSucceeded, FinishFailed, Finishes, Maybe, Statuses
    <3>2. QED
      BY <1>1, <1>3, <3>1, EditedUnused DEF SameWork
  <2>6. QED
    BY <2>1, <2>2, <2>3, <2>4, <2>5
<1>5. SameUse(journal, journal', s)
  BY <1>3, <1>4 DEF SameUse, OnlyStep
<1>6. SameMetrics
  <2>1. \/ metrics' = metrics \/ metrics' = CountRetry(metrics, task[s].tool)
        \/ \E st \in Statuses : metrics' = CountStep(metrics, task[s].tool, st)
    BY DEF DecideApproval, ToolRaises, EmitSucceeded, EmitFailed, FinishSucceeded, FinishFailed,
           Finishes, Statuses
  <2>2. "failed" \in Statuses
    BY DEF Statuses
  <2>3. QED
    BY <1>1, <2>1, <2>2, CountsUnused DEF SameMetrics
<1>7. QED
  BY <1>2, <1>5, <1>6 DEF SpendsNothing

(* The balance after steps that neither report nor add.                    *)
LEMMA BalanceStays ==
  ASSUME IsFiniteSet(Tools), IInv, Books, Balanced, NEW x, SameUse(journal, journal', x),
         SameMetrics, cost' = cost, PendingUse' = PendingUse
  PROVE  Balanced'
<1>1. Total(JournalUse(journal')) = Total(JournalUse(journal))
  BY Summable, SameUseTotal
<1>2. QED
  BY <1>1 DEF Balanced, SameMetrics

LEMMA SpendsNothingKeepsAccounts ==
  ASSUME IsFiniteSet(Tools), IInv, Books, Accounts, NEW s \in DOMAIN task, RunTool(s),
         SpendsNothing(s)
  PROVE  Accounts'
<1>1. DOMAIN task' = DOMAIN task /\ \A r \in DOMAIN task \ {s} : task'[r] = task[r]
  BY ThreadMoves
<1>2. PendingUse' = PendingUse
  <2>1. Costing' = Costing /\ \A r \in Costing : task'[r] = task[r]
    BY <1>1 DEF Costing, SpendsNothing
  <2>2. QED
    BY <2>1 DEF PendingUse
<1>3. Balanced'
  BY <1>2, BalanceStays DEF SpendsNothing, Accounts
<1>4. Unreported'
  <2> SUFFICES ASSUME NEW r \in DOMAIN task, task'[r].pc \in Early
               PROVE  journal'.steps[r].usage = Nothing
    BY <1>1 DEF Unreported, Early
  <2>1. task[r].pc \in Early => /\ r \in DOMAIN journal.steps /\ journal.steps[r].usage = Nothing
    BY ThreadFacts DEF Accounts, Unreported, Early
  <2>2. QED
    BY <1>1, <2>1 DEF SpendsNothing, SameUse
<1>5. QED
  BY <1>3, <1>4 DEF Accounts

(* A report goes to the journal, to the tool's metrics and to the additions *)
(* to be made.                                                              *)
LEMMA ReportUsageKeepsAccounts ==
  ASSUME IsFiniteSet(Tools), IInv, Books, Accounts, NEW s \in DOMAIN task, ReportUsage(s)
  PROVE  Accounts'
<1>1. PICK u, tool : u = lastCost[task[s].tool] /\ tool = task[s].tool
  OBVIOUS
<1>2. /\ task[s] \in TaskType /\ task[s].pc = "usage" /\ s \in DOMAIN journal.steps
      /\ JournalTyped(journal) /\ metrics \in MetricsType /\ u \in Nat /\ tool \in ToolNames
  BY <1>1, ThreadFacts, ToolAssumption DEF ReportUsage, TaskType, Maybe
<1>3. /\ DOMAIN task' = DOMAIN task /\ \A r \in DOMAIN task \ {s} : task'[r] = task[r]
      /\ task'[s].pc = "costing" /\ task'[s].usage = u /\ cost' = cost
      /\ journal' = OnUsageReported(journal, s, u) /\ metrics' = CountUsage(metrics, tool, u)
  BY <1>1, <1>2 DEF ReportUsage, IInv, TypeOK, TasksTyped, TaskType
<1>4. /\ OnlyStep(journal, journal', s) /\ journal'.steps[s].usage = u
      /\ journal.steps[s].usage = Nothing
  <2>1. PICK k : k = OnUsageReported(journal, s, u)
    OBVIOUS
  <2>2. OnlyStep(journal, k, s) /\ k.steps[s] = [journal.steps[s] EXCEPT !.usage = u]
    BY <1>2, <2>1, StepHandlers DEF Maybe
  <2>3. journal.steps[s] \in StepRecordType
    BY <1>2 DEF JournalTyped
  <2>4. k.steps[s].usage = u
    BY <2>2, <2>3 DEF StepRecordType
  <2>5. QED
    BY <1>2, <1>3, <2>1, <2>2, <2>4 DEF Accounts, Unreported
<1>5. Total(JournalUse(journal')) = Total(JournalUse(journal)) + u
  <2>1. PICK S : S = DOMAIN journal.steps
    OBVIOUS
  <2>2. PICK g, h : g = JournalUse(journal) /\ h = JournalUse(journal')
    OBVIOUS
  <2>3. IsFiniteSet(S) /\ g \in [S -> Nat] /\ s \in S
    BY <1>2, <2>1, <2>2, Summable
  <2>4. DOMAIN journal'.steps = S /\ \A r \in S \ {s} : journal'.steps[r] = journal.steps[r]
    BY <1>4, <2>1, <2>3 DEF OnlyStep
  <2>5. DOMAIN h = S /\ h[s] = u /\ g[s] = 0 /\ \A r \in S \ {s} : h[r] = g[r]
    BY <1>2, <1>4, <2>1, <2>2, <2>3, <2>4, NothingIsNew DEF JournalUse
  <2>6. h \in [S -> Nat]
    <3>1. h = [r \in S |-> h[r]] /\ \A r \in S : h[r] \in Nat
      BY <1>2, <2>2, <2>3, <2>5 DEF JournalUse
    <3>2. QED
      BY <3>1
  <2>7. Total(h) + g[s] = Total(g) + h[s] /\ Total(h) \in Nat
    BY <2>3, <2>5, <2>6, OneChanged, TotalParts
  <2>8. QED
    BY <2>2, <2>5, <2>7
<1>6. Total(ToolUse(metrics')) = Total(ToolUse(metrics)) + u
      /\ metrics'.usageTotal = metrics.usageTotal + u
  <2>1. PICK g, h : g = ToolUse(metrics) /\ h = ToolUse(metrics')
    OBVIOUS
  <2>2. metrics.byTool \in [ToolNames -> StatsType]
    BY <1>2 DEF MetricsType
  <2>3. /\ metrics'.usageTotal = metrics.usageTotal + u
        /\ metrics'.byTool = [metrics.byTool EXCEPT ![tool] = Charge(@, u)]
    BY <1>2, <1>3 DEF CountUsage, MetricsType
  <2>4. Charge(metrics.byTool[tool], u).usage = metrics.byTool[tool].usage + u
    BY <1>2, <2>2 DEF Charge, StatsType
  <2>5. /\ DOMAIN h = ToolNames /\ h[tool] = g[tool] + u
        /\ \A t \in ToolNames \ {tool} : h[t] = g[t]
    BY <1>2, <2>1, <2>2, <2>3, <2>4 DEF ToolUse
  <2>6. g \in [ToolNames -> Nat] /\ IsFiniteSet(ToolNames)
    BY <2>1, Summable
  <2>7. h \in [ToolNames -> Nat]
    <3>1. h = [t \in ToolNames |-> h[t]] /\ \A t \in ToolNames : h[t] \in Nat
      BY <1>2, <2>1, <2>5, <2>6 DEF ToolUse
    <3>2. QED
      BY <3>1
  <2>8. /\ Total(h) + g[tool] = Total(g) + h[tool] /\ Total(h) \in Nat /\ Total(g) \in Nat
        /\ g[tool] \in Nat
    BY <1>2, <2>5, <2>6, <2>7, OneChanged, TotalParts
  <2>9. Total(h) = Total(g) + u
    BY <1>2, <2>5, <2>8
  <2>10. QED
    BY <2>1, <2>3, <2>9
<1>7. Total(PendingUse') = Total(PendingUse) + u
  <2>1. PICK S, g, h : S = Costing /\ g = PendingUse /\ h = PendingUse'
    OBVIOUS
  <2>2. s \notin S /\ Costing' = S \cup {s}
    BY <1>2, <1>3, <2>1 DEF Costing
  <2>3. IsFiniteSet(S) /\ g \in [S -> Nat]
    BY <2>1, Summable
  <2>4. DOMAIN h = S \cup {s} /\ h[s] = u /\ \A r \in S : h[r] = g[r]
    BY <1>3, <2>1, <2>2 DEF PendingUse, Costing
  <2>5. h \in [S \cup {s} -> Nat]
    <3>1. h = [r \in S \cup {s} |-> h[r]] /\ \A r \in S \cup {s} : h[r] \in Nat
      BY <1>2, <2>1, <2>2, <2>3, <2>4 DEF PendingUse
    <3>2. QED
      BY <3>1
  <2>6. Total(h) = Total(g) + h[s]
    BY <2>2, <2>3, <2>4, <2>5, OneMore
  <2>7. QED
    BY <2>1, <2>4, <2>6
<1>8. Balanced'
  <2>1. PICK a, b, c : a = Total(PendingUse) /\ b = Total(JournalUse(journal)) /\ c = Total(ToolUse(metrics))
    OBVIOUS
  <2>2. a \in Nat /\ b \in Nat /\ c \in Nat /\ cost \in Nat
    BY <2>1, Summable, TotalParts
  <2>3. /\ cost + a = metrics.usageTotal /\ metrics.usageTotal = b /\ metrics.usageTotal = c
    BY <2>1 DEF Accounts, Balanced
  <2>4. /\ Total(PendingUse') = a + u /\ Total(JournalUse(journal')) = b + u
        /\ Total(ToolUse(metrics')) = c + u /\ metrics'.usageTotal = b + u
    BY <1>5, <1>6, <1>7, <2>1, <2>3
  <2>5. cost + (a + u) = b + u /\ b = c
    BY <1>2, <2>2, <2>3
  <2>6. QED
    BY <1>3, <2>4, <2>5 DEF Balanced
<1>9. Unreported'
  <2> SUFFICES ASSUME NEW r \in DOMAIN task, task'[r].pc \in Early
               PROVE  journal'.steps[r].usage = Nothing
    BY <1>3 DEF Unreported, Early
  <2>1. r # s /\ task[r].pc \in Early
    BY <1>3 DEF Early
  <2>2. r \in DOMAIN journal.steps /\ journal.steps[r].usage = Nothing
    BY <2>1, ThreadFacts DEF Accounts, Unreported, Early
  <2>3. QED
    BY <1>4, <2>1, <2>2 DEF OnlyStep
<1>10. QED
  BY <1>8, <1>9 DEF Accounts

LEMMA AddCostKeepsAccounts ==
  ASSUME IsFiniteSet(Tools), IInv, Books, Accounts, NEW s \in DOMAIN task, AddCost(s)
  PROVE  Accounts'
<1>1. /\ task[s] \in TaskType /\ task[s].pc = "costing" /\ journal' = journal
      /\ metrics' = metrics /\ cost' = cost + task[s].usage /\ task[s].usage \in Nat
  BY ThreadFacts DEF AddCost, AddedCost, Moves, Fits, ValuesFit
<1>2. /\ DOMAIN task' = DOMAIN task /\ \A r \in DOMAIN task \ {s} : task'[r] = task[r]
      /\ task'[s].pc = "finishing"
  BY <1>1 DEF AddCost, Moves, IInv, TypeOK, TasksTyped, TaskType
<1>3. /\ Total(PendingUse) = Total(PendingUse') + task[s].usage /\ Total(PendingUse') \in Nat
  <2>1. PICK S, g, h : S = Costing' /\ h = PendingUse /\ g = PendingUse'
    OBVIOUS
  <2>2. s \notin S /\ Costing = S \cup {s}
    BY <1>1, <1>2, <2>1 DEF Costing
  <2>3. IsFiniteSet(Costing) /\ h \in [S \cup {s} -> Nat]
    BY <2>1, <2>2, Summable
  <2>4. IsFiniteSet(S)
    BY <2>2, <2>3, FS_Subset
  <2>5. DOMAIN g = S /\ \A r \in S : g[r] = h[r]
    BY <1>2, <2>1, <2>2 DEF PendingUse, Costing
  <2>6. g \in [S -> Nat]
    <3>1. g = [r \in S |-> g[r]] /\ \A r \in S : g[r] \in Nat
      BY <2>1, <2>3, <2>5 DEF PendingUse
    <3>2. QED
      BY <3>1
  <2>7. Total(h) = Total(g) + h[s] /\ Total(g) \in Nat
    BY <2>2, <2>3, <2>4, <2>5, <2>6, OneMore, TotalParts
  <2>8. h[s] = task[s].usage
    BY <1>1, <2>1 DEF PendingUse, Costing
  <2>9. QED
    BY <2>1, <2>7, <2>8
<1>4. Balanced'
  <2>1. PICK a, u : a = Total(PendingUse') /\ u = task[s].usage
    OBVIOUS
  <2>2. cost + (a + u) = metrics.usageTotal /\ cost \in Nat /\ a \in Nat /\ u \in Nat
    BY <1>1, <1>3, <2>1, Summable DEF Accounts, Balanced
  <2>3. (cost + u) + a = metrics.usageTotal
    BY <2>2
  <2>4. QED
    BY <1>1, <2>1, <2>3 DEF Accounts, Balanced
<1>5. Unreported'
  BY <1>1, <1>2 DEF Accounts, Unreported
<1>6. QED
  BY <1>4, <1>5 DEF Accounts

LEMMA ThreadKeepsAccounts ==
  ASSUME IsFiniteSet(Tools), IInv, Books, Accounts, NEW s \in DOMAIN task, RunTool(s)
  PROVE  Accounts'
<1>1. CASE ReportUsage(s)
  BY <1>1, ReportUsageKeepsAccounts
<1>2. CASE AddCost(s)
  BY <1>2, AddCostKeepsAccounts
<1>3. CASE ~ReportUsage(s) /\ ~AddCost(s)
  <2>1. SpendsNothing(s)
    BY <1>3, SilentStepsSpendNothing, StartStepSpendsNothing, ReportsSpendNothing DEF RunTool
  <2>2. QED
    BY <2>1, SpendsNothingKeepsAccounts
<1>4. QED
  BY <1>1, <1>2, <1>3

-----------------------------------------------------------------------------
(* The main thread reports nothing either.                                 *)
LEMMA SyntheticUnused ==
  ASSUME NEW j, JournalTyped(j), NEW s \in Nat \ {0}, s \notin DOMAIN j.steps, entry \in Nat \ {0},
         NEW output \in Maybe(Values), NEW error \in Maybe(Errors), NEW confidence \in Maybe(Nat),
         NEW k, k = RecordSynthetic(j, s, output, error, confidence)
  PROVE  SameUse(j, k, s) /\ Unused(k.steps[s], Synthetic)
<1>1. PICK a : a = OnStepStarted(j, s, Synthetic, entry, FALSE)
  OBVIOUS
<1>2. OnlyStep(j, a, s) /\ Unused(a.steps[s], Synthetic)
  <2>1. PICK group \in Maybe(Nat), tool \in ToolNames : group = entry /\ tool = Synthetic
    BY ToolAssumption DEF Maybe
  <2>2. PICK replayed \in BOOLEAN : replayed = FALSE
    OBVIOUS
  <2>3. a = OnStepStarted(j, s, tool, group, replayed)
    BY <1>1, <2>1, <2>2
  <2>4. QED
    BY <2>1, <2>3, StartedUnused
<1>3. PICK b : b = IF confidence = Nothing THEN a ELSE OnStrategyMetadataReported(a, s, confidence)
  OBVIOUS
<1>4. OnlyStep(j, b, s) /\ Unused(b.steps[s], Synthetic)
  <2>1. JournalTyped(a) /\ s \in DOMAIN a.steps
    BY <1>2 DEF OnlyStep
  <2>2. CASE confidence = Nothing
    BY <1>2, <1>3, <2>2
  <2>3. CASE confidence # Nothing
    <3>1. OnlyStep(a, b, s) /\ SameWork(a.steps[s], b.steps[s])
      BY <1>3, <2>1, <2>3, EditedUnused
    <3>2. QED
      BY <1>2, <3>1, OnlyStepTransitive DEF Unused, SameWork
  <2>4. QED
    BY <2>2, <2>3
<1>5. PICK c : c = IF error = Nothing THEN OnToolSucceeded(b, s, output) ELSE OnToolFailed(b, s, error)
  OBVIOUS
<1>6. OnlyStep(j, c, s) /\ Unused(c.steps[s], Synthetic)
  <2>1. JournalTyped(b) /\ s \in DOMAIN b.steps
    BY <1>4 DEF OnlyStep
  <2>2. OnlyStep(b, c, s) /\ SameWork(b.steps[s], c.steps[s])
    BY <1>5, <2>1, EditedUnused
  <2>3. QED
    BY <1>4, <2>2, OnlyStepTransitive DEF Unused, SameWork
<1>7. PICK st \in Maybe(Statuses) : k = OnStepFinished(c, s, st)
  BY <1>1, <1>3, <1>5 DEF RecordSynthetic, Maybe, Statuses
<1>8. OnlyStep(j, k, s) /\ Unused(k.steps[s], Synthetic)
  <2>1. JournalTyped(c) /\ s \in DOMAIN c.steps
    BY <1>6 DEF OnlyStep
  <2>2. OnlyStep(c, k, s) /\ SameWork(c.steps[s], k.steps[s])
    BY <1>7, <2>1, EditedUnused
  <2>3. QED
    BY <1>6, <2>2, OnlyStepTransitive DEF Unused, SameWork
<1>9. QED
  BY <1>8 DEF SameUse, OnlyStep, Unused

LEMMA ReplayUnused ==
  ASSUME IInv, Books, ReplayStep
  PROVE  /\ SameUse(journal, journal', nextStepId)
         /\ Unused(journal'.steps[nextStepId], Current.tools[1])
<1>1. entry \in DOMAIN steps /\ entry \in DOMAIN checkpoint
  BY DEF ReplayStep, MayEnter, Recorded
<1>2. PICK v, tool, s : v = checkpoint[entry].output /\ tool = Current.tools[1] /\ s = nextStepId
  OBVIOUS
<1>3. /\ v \in Maybe(Values) /\ tool \in ToolNames /\ s \in Nat \ {0} /\ JournalTyped(journal)
      /\ s \notin DOMAIN journal.steps
  <2>1. CheckpointType(checkpoint)
    BY MainFacts
  <2>2. Current.tools \in Seq(Tools) /\ Current.tools # << >>
    BY <1>1, CurrentType
  <2>3. QED
    BY <1>1, <1>2, <2>1, <2>2, ToolAssumption, MainFacts, FreshIds DEF CheckpointType, Maybe
<1>4. PICK a : a = OnStepStarted(journal, s, tool, Nothing, TRUE)
  OBVIOUS
<1>5. OnlyStep(journal, a, s) /\ Unused(a.steps[s], tool)
  <2>1. Nothing \in Maybe(Nat) /\ TRUE \in BOOLEAN
    BY DEF Maybe
  <2>2. QED
    BY <1>3, <1>4, <2>1, StartedUnused, Zenon
<1>6. PICK b : b = OnToolSucceeded(a, s, v)
  OBVIOUS
<1>7. OnlyStep(a, b, s) /\ Unused(b.steps[s], tool)
  BY <1>3, <1>5, <1>6, EditedUnused DEF OnlyStep, Unused, SameWork
<1>8. PICK c : c = OnStepFinished(b, s, "success")
  OBVIOUS
<1>9. OnlyStep(b, c, s) /\ Unused(c.steps[s], tool)
  <2>1. "success" \in Maybe(Statuses) /\ JournalTyped(b) /\ s \in DOMAIN b.steps
    BY <1>7 DEF Maybe, Statuses, OnlyStep
  <2>2. QED
    BY <1>7, <1>8, <2>1, EditedUnused DEF Unused, SameWork
<1>10. OnlyStep(journal, c, s)
  BY <1>5, <1>7, <1>9, OnlyStepTransitive
<1>11. journal' = c
  BY <1>2, <1>4, <1>6, <1>8 DEF ReplayStep
<1>12. QED
  BY <1>2, <1>3, <1>9, <1>10, <1>11 DEF SameUse, OnlyStep, Unused

LEMMA SpeaksUnused ==
  ASSUME IInv, Books, Speaks
  PROVE  /\ SameUse(journal, journal', nextStepId)
         /\ Unused(journal'.steps[nextStepId], Synthetic)
<1>1. PICK s : s = nextStepId
  OBVIOUS
<1>2. /\ JournalTyped(journal) /\ s \in Nat \ {0} /\ s \notin DOMAIN journal.steps
      /\ entry \in Nat \ {0} /\ pc = "reduce"
  BY <1>1, MainFacts, FreshIds DEF Speaks, Agree, AgreeThenFallBack, StrategyRaises
<1>3. PICK v \in Maybe(Values), error \in Maybe(Errors), confidence \in Maybe(Nat), st \in Statuses :
        \/ journal' = RecordSynthetic(journal, s, v, error, confidence)
        \/ journal' = OnGroupFinished(RecordSynthetic(journal, s, v, error, confidence), entry, st)
  <2>1. /\ Nothing \in Maybe(Errors) /\ "raised" \in Maybe(Errors)
        /\ Nothing \in Maybe(Values) /\ Nothing \in Maybe(Nat)
        /\ "success" \in Statuses /\ "failed" \in Statuses
    BY DEF Maybe, Errors, Statuses
  <2>2. CASE StrategyRaises
    BY <1>1, <2>1, <2>2 DEF StrategyRaises
  <2>3. CASE Agree \/ AgreeThenFallBack
    <3>1. PICK verdict \in Verdicts :
            \/ journal' = OnGroupFinished(
                 RecordSynthetic(journal, s, verdict[1], Nothing, verdict[2]), entry, "success")
            \/ journal' = RecordSynthetic(journal, s, verdict[1], Nothing, verdict[2])
      BY <1>1, <2>3 DEF Agree, AgreeThenFallBack
    <3>2. verdict[1] \in Maybe(Values) /\ verdict[2] \in Maybe(Nat)
      BY <1>2, VerdictsType DEF Maybe
    <3>3. QED
      BY <2>1, <3>1, <3>2
  <2>4. QED
    BY <2>2, <2>3 DEF Speaks
<1>4. PICK k : k = RecordSynthetic(journal, s, v, error, confidence)
  OBVIOUS
<1>5. SameUse(journal, k, s) /\ Unused(k.steps[s], Synthetic) /\ JournalTyped(k)
  <2>1. OnlyStep(journal, k, s)
    BY <1>2, <1>4, SyntheticRecorded
  <2>2. QED
    BY <1>2, <1>4, <2>1, SyntheticUnused DEF OnlyStep
<1>6. journal'.steps = k.steps
  <2>1. PICK l : l = OnGroupFinished(k, entry, st)
    OBVIOUS
  <2>2. l.steps = k.steps
    BY <1>2, <1>5, <2>1, GroupHandlers
  <2>3. QED
    BY <1>3, <1>4, <2>1, <2>2
<1>7. QED
  BY <1>1, <1>5, <1>6 DEF SameUse

LEMMA MainSameMetrics ==
  ASSUME IInv, Books, Polls, MainThread
  PROVE  SameMetrics /\ cost' = cost
<1>0. /\ metrics \in MetricsType /\ Synthetic \in ToolNames
      /\ "success" \in Statuses /\ "failed" \in Statuses
  BY MainFacts, ToolAssumption DEF Statuses
<1>1. cost' = cost
  BY DEF MainThread, StopForRuntime, StopForCost, ReplayStep, RejectCheckpoint, BeginStep, EndStep,
         BeginGroup, EndParallel, EndVotersFailed, EndVoters, BeginReuse, Agree, AgreeThenFallBack,
         StrategyRaises, EndFallback, FinishWorkflow
<1>2. \/ metrics' = metrics \/ metrics' = CountGroup(metrics)
      \/ \E tool \in ToolNames, st \in Statuses : metrics' = CountStep(metrics, tool, st)
  <2>1. CASE \/ StopForRuntime \/ StopForCost \/ RejectCheckpoint \/ BeginStep \/ EndStep
             \/ EndParallel \/ EndVotersFailed \/ EndVoters \/ EndFallback \/ FinishWorkflow
    BY <2>1 DEF StopForRuntime, StopForCost, RejectCheckpoint, BeginStep, EndStep, EndParallel,
                EndVotersFailed, EndVoters, EndFallback, FinishWorkflow
  <2>2. CASE BeginGroup \/ BeginReuse
    <3>1. BeginReuse => Current.source \in DOMAIN groupOutputs
      BY SourcePolled DEF BeginReuse, MayEnter
    <3>2. QED
      BY <2>2, <3>1 DEF BeginGroup, BeginReuse
  <2>3. CASE Agree \/ AgreeThenFallBack \/ StrategyRaises
    BY <1>0, <2>3 DEF Agree, AgreeThenFallBack, StrategyRaises
  <2>4. CASE ReplayStep
    <3>1. entry \in DOMAIN steps
      BY <2>4 DEF ReplayStep, MayEnter
    <3>2. Current.tools \in Seq(Tools) /\ Current.tools # << >>
      BY <3>1, CurrentType
    <3>3. Current.tools[1] \in ToolNames
      BY <3>2, ToolAssumption
    <3>4. QED
      BY <1>0, <2>4, <3>3 DEF ReplayStep
  <2>5. QED
    BY <2>1, <2>2, <2>3, <2>4 DEF MainThread
<1>3. QED
  BY <1>0, <1>1, <1>2, CountsUnused DEF SameMetrics

LEMMA MainPendingStays ==
  ASSUME IInv, MainThread
  PROVE  /\ Costing' = Costing /\ PendingUse' = PendingUse
         /\ \A s \in DOMAIN task' : task'[s].pc \in Early => s \in DOMAIN task /\ task'[s] = task[s]
<1>1. \/ task' = task
      \/ \E first \in {nextStepId, nextStepId + 1} : \E given, group : task' = Assign(first, given, group)
  BY DEF MainThread, StopForRuntime, StopForCost, ReplayStep, RejectCheckpoint, BeginStep, EndStep,
         BeginGroup, EndParallel, EndVotersFailed, EndVoters, BeginReuse, Agree, AgreeThenFallBack,
         StrategyRaises, EndFallback, FinishWorkflow, FallbackId
<1>2. /\ \A s \in DOMAIN task : s \in DOMAIN task' /\ task'[s] = task[s]
      /\ \A s \in DOMAIN task' \ DOMAIN task : task'[s].pc = "assigned"
  <2>1. CASE task' = task
    BY <2>1
  <2>2. CASE \E first \in {nextStepId, nextStepId + 1} : \E given, group : task' = Assign(first, given, group)
    <3>0. PICK first \in {nextStepId, nextStepId + 1} : \E given, group : task' = Assign(first, given, group)
      BY <2>2
    <3>1. PICK given, group : task' = Assign(first, given, group)
      BY <3>0
    <3>2. nextStepId \in Nat /\ \A s \in DOMAIN task : s \in Nat /\ s < nextStepId
      BY DEF IInv, TypeOK, MainTyped, TasksTyped, TasksOK
    <3>3. \A s \in DOMAIN task : ~(s >= first)
      BY <3>2
    <3>4. /\ DOMAIN task' = DOMAIN task \cup first .. first + Len(given) - 1
          /\ \A s \in DOMAIN task' :
               task'[s] = IF s >= first THEN NewTask(given[s - first + 1], Current.agent, entry, group)
                          ELSE task[s]
      BY <3>1 DEF Assign
    <3>5. \A s \in DOMAIN task' \ DOMAIN task : s >= first
      BY <3>2, <3>4
    <3>6. ASSUME NEW s \in DOMAIN task' \ DOMAIN task
          PROVE  task'[s].pc = "assigned"
      <4>1. task'[s] = NewTask(given[s - first + 1], Current.agent, entry, group)
        BY <3>4, <3>5
      <4>2. QED
        BY <4>1 DEF NewTask
    <3>7. QED
      BY <3>3, <3>4, <3>6
  <2>3. QED
    BY <1>1, <2>1, <2>2
<1>3. Costing' = Costing
  BY <1>2 DEF Costing
<1>4. \A s \in Costing : task'[s] = task[s]
  BY <1>2 DEF Costing
<1>5. PendingUse' = PendingUse
  BY <1>3, <1>4 DEF PendingUse
<1>6. QED
  BY <1>2, <1>3, <1>5 DEF Early

LEMMA MainKeepsAccounts ==
  ASSUME IsFiniteSet(Tools), IInv, Books, Polls, Accounts, MainThread
  PROVE  Accounts'
<1>1. SameUse(journal, journal', nextStepId)
  <2>1. CASE Speaks
    BY <2>1, SpeaksUnused
  <2>2. CASE ReplayStep
    BY <2>2, ReplayUnused
  <2>3. CASE ~Speaks /\ ~ReplayStep
    BY <2>3, QuietMain DEF SameUse
  <2>4. QED
    BY <2>1, <2>2, <2>3
<1>2. SameMetrics /\ cost' = cost /\ PendingUse' = PendingUse
  BY MainSameMetrics, MainPendingStays
<1>3. Balanced'
  BY <1>1, <1>2, BalanceStays DEF Accounts
<1>4. Unreported'
  <2> SUFFICES ASSUME NEW s \in DOMAIN task', task'[s].pc \in Early
               PROVE  journal'.steps[s].usage = Nothing
    BY DEF Unreported, Early
  <2>1. s \in DOMAIN task /\ task[s].pc \in Early
    BY MainPendingStays
  <2>2. s \in DOMAIN journal.steps /\ journal.steps[s].usage = Nothing
    BY <2>1, ThreadFacts DEF Accounts, Unreported, Early
  <2>3. QED
    BY <1>1, <2>2 DEF SameUse
<1>5. QED
  BY <1>3, <1>4 DEF Accounts

LEMMA NextKeepsAccounts ==
  ASSUME IsFiniteSet(Tools)
  PROVE  IInv /\ Books /\ Polls /\ Accounts /\ [Next]_vars => Accounts'
<1> SUFFICES ASSUME IInv, Books, Polls, Accounts, [Next]_vars PROVE Accounts'
  OBVIOUS
<1>1. CASE MainThread
  BY <1>1, MainKeepsAccounts
<1>2. CASE \E s \in DOMAIN task : RunTool(s)
  BY <1>2, ThreadKeepsAccounts
<1>3. CASE UNCHANGED vars
  BY <1>3 DEF vars, Accounts, Balanced, Unreported, PendingUse, Costing
<1>4. QED
  BY <1>1, <1>2, <1>3 DEF Next, Step, Terminating

LEMMA InitKeepsAccounts ==
  ASSUME IsFiniteSet(Tools)
  PROVE  Init => Accounts
<1> SUFFICES ASSUME Init PROVE Accounts
  OBVIOUS
<1>1. task = << >> /\ cost = 0 /\ journal = EmptyJournal /\ metrics = EmptyMetrics
  BY DEF Init
<1>2. DOMAIN task = {} /\ DOMAIN journal.steps = {} /\ metrics.usageTotal = 0
  BY <1>1 DEF EmptyJournal, EmptyMetrics
<1>3. \A t \in ToolNames : metrics.byTool[t].usage = 0
  BY <1>1 DEF EmptyMetrics, NewStats
<1>4. IsFiniteSet({}) /\ IsFiniteSet(ToolNames)
  BY ToolAssumption, FS_AddElement, FS_EmptySet
<1>5. Total(PendingUse) = 0
  <2>1. PICK g : g = PendingUse
    OBVIOUS
  <2>2. DOMAIN g = {} /\ g = [x \in {} |-> g[x]]
    BY <1>2, <2>1 DEF PendingUse, Costing
  <2>3. g \in [{} -> Nat]
    BY <2>2
  <2>4. QED
    BY <1>4, <2>1, <2>3, TotalZero
<1>6. Total(JournalUse(journal)) = 0
  <2>1. PICK g : g = JournalUse(journal)
    OBVIOUS
  <2>2. DOMAIN g = {} /\ g = [x \in {} |-> g[x]]
    BY <1>2, <2>1 DEF JournalUse
  <2>3. g \in [{} -> Nat]
    BY <2>2
  <2>4. QED
    BY <1>4, <2>1, <2>3, TotalZero
<1>7. Total(ToolUse(metrics)) = 0
  <2>1. PICK g : g = ToolUse(metrics)
    OBVIOUS
  <2>2. g \in [ToolNames -> Nat] /\ \A t \in ToolNames : g[t] = 0
    BY <1>3, <2>1 DEF ToolUse
  <2>3. QED
    BY <1>4, <2>1, <2>2, TotalZero
<1>8. QED
  BY <1>1, <1>2, <1>5, <1>6, <1>7 DEF Accounts, Balanced, Unreported

(* No report of usage is lost between the threads: what the journal and    *)
(* the metrics show is the cost held against the policy and the additions  *)
(* still to be made, however many tools report and in whatever order.      *)
THEOREM UsageIsAccounted ==
  ASSUME IsFiniteSet(Tools)
  PROVE  Spec => []UsageAccounted
<1>1. Init => Accounts
  BY InitKeepsAccounts
<1>2. IInv /\ Books /\ Polls /\ Accounts /\ [Next]_vars => Accounts'
  BY NextKeepsAccounts
<1>3. IInv /\ Books /\ Accounts => UsageAccounted
  BY AccountsAgree
<1>4. QED
  BY <1>1, <1>2, <1>3, Inductive, BooksAreKept, PollsAreKept, PTL DEF Spec

-----------------------------------------------------------------------------
(* What max_cost allows.                                                   *)

(* The threads whose reports are in the cost already.                      *)
Charged == {s \in DOMAIN task : task[s].usage # Nothing /\ task[s].pc # "costing"}

ChargedUse == [s \in Charged |-> task[s].usage]

(* The threads of earlier entries that have reported.                      *)
Earlier(e) == {s \in DOMAIN task : task[s].entry < e /\ task[s].usage # Nothing}

EarlierUse(e) == [s \in Earlier(e) |-> task[s].usage]

InsideEntry == {"step", "fanin", "reduce", "fallback"}

(* The entries that were not stopped by a limit.                           *)
Begun ==
  {task[s].entry : s \in DOMAIN task} \cup (IF pc \in InsideEntry THEN {entry} ELSE {})

Silent == Early \cup {"assigned"}

SilentHaveNoUsage == \A s \in DOMAIN task : task[s].pc \in Silent => task[s].usage = Nothing

LimitHeld == MaxCost # Nothing => \A e \in Begun : Total(EarlierUse(e)) <= MaxCost

(* The cost is the sum of what was reported and added, and an entry is     *)
(* begun within the limit.                                                 *)
Charges == cost = Total(ChargedUse) /\ SilentHaveNoUsage /\ LimitHeld

LEMMA ChargesSummable ==
  ASSUME IInv
  PROVE  /\ IsFiniteSet(DOMAIN task) /\ cost \in Nat
         /\ IsFiniteSet(Charged) /\ ChargedUse \in [Charged -> Nat]
         /\ \A e : IsFiniteSet(Earlier(e)) /\ EarlierUse(e) \in [Earlier(e) -> Nat]
<1>1. /\ nextStepId \in Nat /\ cost \in Nat /\ DOMAIN task \subseteq 1 .. nextStepId
      /\ \A s \in DOMAIN task : task[s].usage \in Nat \cup {Nothing}
  BY DEF IInv, TypeOK, MainTyped, TasksTyped, TasksOK, TaskType, Maybe
<1>2. IsFiniteSet(DOMAIN task)
  <2>1. IsFiniteSet(1 .. nextStepId)
    BY <1>1, FS_Interval
  <2>2. QED
    BY <1>1, <2>1, FS_Subset
<1>3. IsFiniteSet(Charged) /\ \A e : IsFiniteSet(Earlier(e))
  BY <1>2, FS_Subset DEF Charged, Earlier
<1>4. ChargedUse \in [Charged -> Nat]
  BY <1>1 DEF ChargedUse, Charged
<1>5. \A e : EarlierUse(e) \in [Earlier(e) -> Nat]
  BY <1>1 DEF EarlierUse, Earlier
<1>6. QED
  BY <1>1, <1>2, <1>3, <1>4, <1>5

LEMMA ChargesBound ==
  ASSUME IInv, Charges
  PROVE  OvershootOneEntry
<1> SUFFICES ASSUME MaxCost # Nothing, NEW e \in {task[s].entry : s \in DOMAIN task}
             PROVE  MapThenSumSet(LAMBDA s : task[s].usage, Earlier(e)) <= MaxCost
  BY DEF OvershootOneEntry, Earlier
<1>1. \A s \in Earlier(e) : task[s].usage \in Nat
  BY DEF Earlier, IInv, TypeOK, TasksTyped, TaskType, Maybe
<1>2. MapThenSumSet(LAMBDA s : task[s].usage, Earlier(e)) = Total(EarlierUse(e))
  BY <1>1, ChargesSummable, FieldTotal DEF EarlierUse
<1>3. QED
  BY <1>2 DEF Charges, LimitHeld, Begun

(* A thread's usage is what it reports, and it reports once.               *)
LEMMA UsageStays ==
  ASSUME IInv, NEW s \in DOMAIN task, RunTool(s), ~ReportUsage(s)
  PROVE  /\ task'[s].usage = task[s].usage
         /\ task'[s].pc \in Silent => task[s].pc \in Silent
<1>1. task = [r \in DOMAIN task |-> task[r]] /\ task[s] \in TaskType
  BY DEF IInv, TypeOK, TasksTyped
<1> USE DEF Silent, Early, TaskType
<1>2. CASE StartStep(s) \/ RequestApproval(s) \/ SkipApproval(s) \/ NoUsage(s)
  BY <1>1, <1>2 DEF StartStep, RequestApproval, SkipApproval, NoUsage, Moves
<1>3. CASE DenyCapability(s) \/ ApprovalRaises(s) \/ UsageRaises(s)
  BY <1>1, <1>3 DEF DenyCapability, ApprovalRaises, UsageRaises, Throws
<1>4. CASE \E approved \in BOOLEAN : DecideApproval(s, approved)
  BY <1>1, <1>4 DEF DecideApproval, Moves, Throws
<1>5. CASE CallTool(s)
  BY <1>1, <1>5 DEF CallTool
<1>6. CASE \E v \in Outcomes[task[s].tool], c \in Costs[task[s].tool] : ToolReturns(s, v, c)
  BY <1>1, <1>6 DEF ToolReturns
<1>7. CASE ToolRaises(s)
  BY <1>1, <1>7 DEF ToolRaises, Throws
<1>8. CASE EmitSucceeded(s) \/ AddCost(s) \/ EmitFailed(s)
  BY <1>1, <1>8 DEF EmitSucceeded, AddCost, EmitFailed, Moves
<1>9. CASE FinishSucceeded(s) \/ FinishFailed(s)
  BY <1>1, <1>9 DEF FinishSucceeded, FinishFailed, Finishes
<1>10. QED
  BY <1>2, <1>3, <1>4, <1>5, <1>6, <1>7, <1>8, <1>9 DEF RunTool

(* The threads of entries passed do not step any more.                     *)
LEMMA ThreadKeepsLimit ==
  ASSUME IInv, Books, LimitHeld, NEW s \in DOMAIN task, RunTool(s)
  PROVE  LimitHeld'
<1>1. /\ task[s].pc # "done" /\ DOMAIN task' = DOMAIN task /\ pc' = pc /\ entry' = entry
      /\ \A r \in DOMAIN task \ {s} : task'[r] = task[r]
      /\ task'[s].entry = task[s].entry
  BY ThreadMoves
<1>2. task[s].entry = entry /\ entry \in Nat /\ \A r \in DOMAIN task : task[r].entry \in Nat
  BY <1>1 DEF IInv, NoOrphanThread, TypeOK, MainTyped, TasksTyped, TaskType
<1>3. Begun' = Begun /\ \A e \in Begun : e \in Nat /\ e <= entry
  BY <1>1, <1>2 DEF Begun, Books, ThreadsBooked, Reached
<1>4. ASSUME NEW e \in Begun
      PROVE  EarlierUse(e)' = EarlierUse(e)
  <2>1. ~(task[s].entry < e)
    BY <1>2, <1>3
  <2>2. Earlier(e)' = Earlier(e) /\ s \notin Earlier(e)
    BY <1>1, <2>1 DEF Earlier
  <2>3. \A r \in Earlier(e) : task'[r] = task[r]
    BY <1>1, <2>2 DEF Earlier
  <2>4. QED
    BY <2>2, <2>3 DEF EarlierUse
<1>5. QED
  BY <1>3, <1>4 DEF LimitHeld

LEMMA ThreadKeepsCharges ==
  ASSUME IInv, Books, Charges, NEW s \in DOMAIN task, RunTool(s)
  PROVE  Charges'
<1>1. /\ DOMAIN task' = DOMAIN task /\ \A r \in DOMAIN task \ {s} : task'[r] = task[r]
      /\ task[s] \in TaskType
  BY ThreadMoves, ThreadFacts
<1>2. LimitHeld'
  BY ThreadKeepsLimit DEF Charges
<1>3. CASE ReportUsage(s)
  <2>1. task[s].pc = "usage" /\ task'[s].pc = "costing" /\ cost' = cost
    BY <1>1, <1>3 DEF ReportUsage, TaskType
  <2>2. task[s].usage = Nothing
    BY <2>1 DEF Charges, SilentHaveNoUsage, Silent, Early
  <2>3. Charged' = Charged /\ \A r \in Charged : task'[r] = task[r]
    BY <1>1, <2>1, <2>2 DEF Charged
  <2>4. ChargedUse' = ChargedUse
    BY <2>3 DEF ChargedUse
  <2>5. SilentHaveNoUsage'
    BY <1>1, <2>1 DEF Charges, SilentHaveNoUsage, Silent, Early
  <2>6. QED
    BY <1>2, <2>1, <2>4, <2>5 DEF Charges
<1>4. CASE ~ReportUsage(s)
  <2>1. /\ task'[s].usage = task[s].usage
        /\ task'[s].pc \in Silent => task[s].pc \in Silent
    BY <1>4, UsageStays
  <2>2. SilentHaveNoUsage'
    BY <1>1, <2>1 DEF Charges, SilentHaveNoUsage
  <2>3. CASE AddCost(s)
    <3>1. /\ task[s].pc = "costing" /\ task'[s].pc = "finishing" /\ task[s].usage \in Nat
          /\ cost' = cost + task[s].usage
      BY <1>1, <2>3, ThreadFacts DEF AddCost, AddedCost, Moves, Fits, ValuesFit, TaskType
    <3>2. PICK S, g, h : S = Charged /\ g = ChargedUse /\ h = ChargedUse'
      OBVIOUS
    <3>3. s \notin S /\ Charged' = S \cup {s}
      BY <1>1, <2>1, <3>1, <3>2, NothingIsNew DEF Charged
    <3>4. IsFiniteSet(S) /\ g \in [S -> Nat] /\ cost = Total(g)
      BY <3>2, ChargesSummable DEF Charges
    <3>5. DOMAIN h = S \cup {s} /\ h[s] = task[s].usage /\ \A r \in S : h[r] = g[r]
      BY <1>1, <2>1, <3>2, <3>3 DEF ChargedUse, Charged
    <3>6. h \in [S \cup {s} -> Nat]
      <4>1. h = [r \in S \cup {s} |-> h[r]] /\ \A r \in S \cup {s} : h[r] \in Nat
        BY <3>1, <3>2, <3>3, <3>4, <3>5 DEF ChargedUse
      <4>2. QED
        BY <4>1
    <3>7. Total(h) = Total(g) + h[s]
      BY <3>3, <3>4, <3>5, <3>6, OneMore
    <3>8. cost' = Total(h)
      BY <3>1, <3>4, <3>5, <3>7
    <3>9. QED
      BY <1>2, <2>2, <3>2, <3>8 DEF Charges
  <2>4. CASE ~AddCost(s)
    <3>1. SpendsNothing(s)
      BY <1>4, <2>4, SilentStepsSpendNothing, StartStepSpendsNothing, ReportsSpendNothing
      DEF RunTool
    <3>2. Charged' = Charged /\ \A r \in Charged : task'[r].usage = task[r].usage
      BY <1>1, <2>1, <3>1 DEF Charged, SpendsNothing
    <3>3. ChargedUse' = ChargedUse /\ cost' = cost
      BY <3>1, <3>2 DEF ChargedUse, SpendsNothing
    <3>4. QED
      BY <1>2, <2>2, <3>3 DEF Charges
  <2>5. QED
    BY <2>3, <2>4
<1>5. QED
  BY <1>3, <1>4

(* The main thread begins an entry only within the limit.                  *)
LEMMA MainBegins ==
  ASSUME IInv, Polls, MainThread
  PROVE  Begun' \subseteq Begun \/ (MayEnter /\ Begun' \subseteq Begun \cup {entry})
<1>1. /\ \A s \in DOMAIN task : s \in DOMAIN task' /\ task'[s] = task[s]
      /\ \A s \in DOMAIN task' \ DOMAIN task : task'[s].entry = entry
  BY MainMoves DEF ThreadsKept
<1>2. CASE BeginStep \/ BeginGroup \/ BeginReuse
  <2>1. MayEnter /\ (pc' \in InsideEntry => entry' = entry)
    BY <1>2 DEF BeginStep, BeginGroup, BeginReuse, Stop, InsideEntry
  <2>2. QED
    BY <1>1, <2>1 DEF Begun
<1>3. CASE EndVoters \/ AgreeThenFallBack
  <2>1. entry' = entry /\ pc \in InsideEntry
    BY <1>3 DEF EndVoters, AgreeThenFallBack, InsideEntry
  <2>2. QED
    BY <1>1, <2>1 DEF Begun
<1>4. CASE \/ StopForRuntime \/ StopForCost \/ ReplayStep \/ RejectCheckpoint \/ EndStep
           \/ EndParallel \/ EndVotersFailed \/ Agree \/ StrategyRaises \/ EndFallback
           \/ FinishWorkflow
  <2>1. task' = task /\ pc' \notin InsideEntry
    BY <1>4 DEF StopForRuntime, StopForCost, ReplayStep, RejectCheckpoint, EndStep, EndParallel,
                EndVotersFailed, Agree, StrategyRaises, EndFallback, FinishWorkflow, EndEntry,
                Stop, InsideEntry
  <2>2. QED
    BY <2>1 DEF Begun
<1>5. QED
  BY <1>2, <1>3, <1>4 DEF MainThread

LEMMA MainKeepsCharges ==
  ASSUME IInv, Books, Polls, Charges, MainThread
  PROVE  Charges'
<1>1. /\ \A s \in DOMAIN task : s \in DOMAIN task' /\ task'[s] = task[s]
      /\ \A s \in DOMAIN task' \ DOMAIN task :
           task'[s].entry = entry /\ task'[s].usage = Nothing
  BY MainMoves DEF ThreadsKept
<1>2. ChargedUse' = ChargedUse
  <2>1. Charged' = Charged /\ \A s \in Charged : task'[s] = task[s]
    BY <1>1 DEF Charged
  <2>2. QED
    BY <2>1 DEF ChargedUse
<1>3. cost' = cost
  BY MainSameMetrics
<1>4. SilentHaveNoUsage'
  BY <1>1 DEF Charges, SilentHaveNoUsage
<1>5. \A e : EarlierUse(e)' = EarlierUse(e)
  <2> TAKE e
  <2>1. Earlier(e)' = Earlier(e) /\ \A s \in Earlier(e) : task'[s] = task[s]
    BY <1>1 DEF Earlier
  <2>2. QED
    BY <2>1 DEF EarlierUse
<1>6. ASSUME MaxCost # Nothing, MayEnter
      PROVE  Total(EarlierUse(entry)) <= MaxCost
  <2>1. \A s \in DOMAIN task : task[s].pc = "done" /\ task[s].entry < entry
    <3>1. pc = "next" /\ entry \in Nat /\ \A s \in DOMAIN task : task[s].entry \in Nat
      BY <1>6 DEF MayEnter, IInv, TypeOK, MainTyped, TasksTyped, TaskType
    <3>2. QED
      BY <3>1 DEF Books, ThreadsBooked, Reached, IInv, NoOrphanThread
  <2>2. Earlier(entry) = Charged
    BY <2>1 DEF Earlier, Charged
  <2>3. EarlierUse(entry) = ChargedUse
    BY <2>2 DEF EarlierUse, ChargedUse
  <2>4. cost <= MaxCost
    BY <1>6, PolicyAssumption DEF MayEnter, OverBudget, IInv, TypeOK
  <2>5. QED
    BY <2>3, <2>4 DEF Charges
<1>7. LimitHeld'
  BY <1>5, <1>6, MainBegins DEF Charges, LimitHeld
<1>8. QED
  BY <1>2, <1>3, <1>4, <1>7 DEF Charges

LEMMA InitKeepsCharges == Init => Charges
<1> SUFFICES ASSUME Init PROVE Charges
  OBVIOUS
<1>1. DOMAIN task = {} /\ cost = 0 /\ pc = "next"
  BY DEF Init
<1>2. PICK g : g = ChargedUse
  OBVIOUS
<1>3. DOMAIN g = {} /\ g = [x \in {} |-> g[x]]
  BY <1>1, <1>2 DEF ChargedUse, Charged
<1>4. g \in [{} -> Nat] /\ IsFiniteSet({})
  BY <1>3, FS_EmptySet
<1>5. Total(g) = 0
  BY <1>4, TotalZero
<1>6. Begun = {}
  BY <1>1 DEF Begun, InsideEntry
<1>7. QED
  BY <1>1, <1>2, <1>5, <1>6 DEF Charges, SilentHaveNoUsage, LimitHeld

LEMMA NextKeepsCharges ==
  IInv /\ Books /\ Polls /\ Charges /\ [Next]_vars => Charges'
<1> SUFFICES ASSUME IInv, Books, Polls, Charges, [Next]_vars PROVE Charges'
  OBVIOUS
<1>1. CASE MainThread
  BY <1>1, MainKeepsCharges
<1>2. CASE \E s \in DOMAIN task : RunTool(s)
  BY <1>2, ThreadKeepsCharges
<1>3. CASE UNCHANGED vars
  BY <1>3 DEF vars, Charges, SilentHaveNoUsage, LimitHeld, Begun, ChargedUse, Charged, EarlierUse,
              Earlier
<1>4. QED
  BY <1>1, <1>2, <1>3 DEF Next, Step, Terminating

(* max_cost is exceeded by the entry under way at most: what the entries   *)
(* before any that was begun had reported is within the limit, fallbacks   *)
(* and threads that finish in any order included.                          *)
THEOREM LimitExceededByOneEntry == Spec => []OvershootOneEntry
<1>1. Init => Charges
  BY InitKeepsCharges
<1>2. IInv /\ Books /\ Polls /\ Charges /\ [Next]_vars => Charges'
  BY NextKeepsCharges
<1>3. IInv /\ Charges => OvershootOneEntry
  BY ChargesBound
<1>4. QED
  BY <1>1, <1>2, <1>3, Inductive, BooksAreKept, PollsAreKept, PTL DEF Spec

-----------------------------------------------------------------------------
(* What the metrics count (Metrics): the records of the journal.           *)

(* The steps of the tools T that have ended with st.                       *)
EndedWith(j, st, T) == {s \in DOMAIN j.steps : j.steps[s].status = st /\ j.steps[s].tool \in T}

CallsCounted(j, m) ==
  /\ m.stepsSucceeded = Cardinality(EndedWith(j, "success", ToolNames))
  /\ m.stepsFailed = Cardinality(EndedWith(j, "failed", ToolNames))
  /\ m.stepsTotal = m.stepsSucceeded + m.stepsFailed
  /\ \A t \in ToolNames :
       m.byTool[t].calls = Cardinality(EndedWith(j, "success", {t}))
                             + Cardinality(EndedWith(j, "failed", {t}))

RetriesOf(j) == [s \in DOMAIN j.steps |-> j.steps[s].retries]

RetriesCounted(j, m) == m.retriesTotal = Total(RetriesOf(j))

GroupsCounted(j, m) == m.groupsTotal = Cardinality(DOMAIN j.groups)

Tallied ==
  /\ CallsCounted(journal, metrics) /\ RetriesCounted(journal, metrics)
  /\ GroupsCounted(journal, metrics)

(* j becomes k: step s, which is new or has not ended, has status st and   *)
(* so many retries more.                                                   *)
Reaches(j, k, s, tool, st, more) ==
  /\ DOMAIN k.steps = DOMAIN j.steps \cup {s}
  /\ \A r \in DOMAIN j.steps \ {s} : k.steps[r] = j.steps[r]
  /\ k.steps[s].tool = tool /\ k.steps[s].status = st
  /\ s \notin DOMAIN j.steps => k.steps[s].retries = more
  /\ s \in DOMAIN j.steps => /\ j.steps[s].tool = tool /\ j.steps[s].status = Nothing
                             /\ k.steps[s].retries = j.steps[s].retries + more

(* The metrics m become n on the same event.                               *)
CountsAs(m, n, tool, st, more) ==
  /\ n.stepsSucceeded = m.stepsSucceeded + (IF st = "success" THEN 1 ELSE 0)
  /\ n.stepsFailed = m.stepsFailed + (IF st = "failed" THEN 1 ELSE 0)
  /\ n.stepsTotal = m.stepsTotal + (IF st = Nothing THEN 0 ELSE 1)
  /\ n.retriesTotal = m.retriesTotal + more
  /\ \A t \in ToolNames : n.byTool[t].calls =
       m.byTool[t].calls + (IF t = tool /\ st # Nothing THEN 1 ELSE 0)

LEMMA RetriesTotal ==
  ASSUME NEW S, IsFiniteSet(S), NEW f, \A s \in S : f[s].retries \in Nat
  PROVE  MapThenSumSet(LAMBDA s : f[s].retries, S) = Total([s \in S |-> f[s].retries])
<1> DEFINE g    == [s \in S |-> f[s].retries]
           iter == CHOOSE iter : iter = [T \in SUBSET S |->
                     IF T = {} THEN 0
                     ELSE f[CHOOSE x \in T : TRUE].retries + iter[T \ {CHOOSE x \in T : TRUE}]]
<1>1. MapThenSumSet(LAMBDA s : f[s].retries, S) = iter[S]
  BY DEF MapThenSumSet, MapThenFoldSet
<1>2. PICK F : /\ SumsUp(F, g, S) /\ Total(g) = F[S]
               /\ \A G : SumsUp(G, g, S) => G = F
  BY TotalIs
<1>3. \A T \in SUBSET S : T # {} =>
        (CHOOSE x \in T : TRUE) \in S /\ g[Pick(T)] = f[CHOOSE x \in T : TRUE].retries
  BY PickMember DEF Pick
<1>4. F = [T \in SUBSET S |-> IF T = {} THEN 0
             ELSE f[CHOOSE x \in T : TRUE].retries + F[T \ {CHOOSE x \in T : TRUE}]]
  BY <1>2, <1>3 DEF SumsUp, Pick
<1>5. SumsUp(iter, g, S)
  <2>1. iter = [T \in SUBSET S |-> IF T = {} THEN 0
             ELSE f[CHOOSE x \in T : TRUE].retries + iter[T \ {CHOOSE x \in T : TRUE}]]
    BY <1>4
  <2> HIDE DEF iter
  <2>2. QED
    BY <1>3, <2>1 DEF SumsUp, Pick
<1>6. QED
  BY <1>1, <1>2, <1>5

LEMMA TalliesFinite ==
  ASSUME IInv, Books
  PROVE  /\ IsFiniteSet(DOMAIN journal.steps) /\ IsFiniteSet(DOMAIN journal.groups)
         /\ RetriesOf(journal) \in [DOMAIN journal.steps -> Nat]
<1>1. JournalTyped(journal) /\ nextStepId \in Nat /\ entry \in Nat
  BY MainFacts
<1>2. DOMAIN journal.steps \subseteq 1 .. nextStepId /\ DOMAIN journal.groups \subseteq 1 .. entry
  BY <1>1 DEF JournalTyped, Books, StepsBooked, GroupsBooked, Reached
<1>3. IsFiniteSet(1 .. nextStepId) /\ IsFiniteSet(1 .. entry)
  BY <1>1, FS_Interval
<1>4. IsFiniteSet(DOMAIN journal.steps) /\ IsFiniteSet(DOMAIN journal.groups)
  BY <1>2, <1>3, FS_Subset
<1>5. \A s \in DOMAIN journal.steps : journal.steps[s].retries \in Nat
  BY <1>1 DEF JournalTyped, StepRecordType
<1>6. QED
  BY <1>4, <1>5 DEF RetriesOf

LEMMA TalliesMatch ==
  ASSUME IInv, Books, Tallied
  PROVE  MetricsMatchJournal
<1>1. \A s \in DOMAIN journal.steps : journal.steps[s].retries \in Nat
  BY MainFacts DEF JournalTyped, StepRecordType
<1>2. MapThenSumSet(LAMBDA s : journal.steps[s].retries, DOMAIN journal.steps)
        = Total(RetriesOf(journal))
  BY <1>1, TalliesFinite, RetriesTotal DEF RetriesOf
<1>3. QED
  BY <1>2 DEF MetricsMatchJournal, Tallied, CallsCounted, RetriesCounted, GroupsCounted, EndedWith

-----------------------------------------------------------------------------
(* One event in the journal, counted once in the metrics.                  *)

LEMMA EndedGrows ==
  ASSUME NEW j, IsFiniteSet(DOMAIN j.steps), NEW k, NEW s, NEW tool, NEW st, NEW more,
         Reaches(j, k, s, tool, st, more), NEW u \in Statuses, NEW T
  PROVE  /\ Cardinality(EndedWith(j, u, T)) \in Nat
         /\ Cardinality(EndedWith(k, u, T)) =
              Cardinality(EndedWith(j, u, T)) + (IF u = st /\ tool \in T THEN 1 ELSE 0)
<1>1. PICK A, B : A = EndedWith(j, u, T) /\ B = EndedWith(k, u, T)
  OBVIOUS
<1>2. IsFiniteSet(A) /\ Cardinality(A) \in Nat
  <2>1. A \subseteq DOMAIN j.steps
    BY <1>1 DEF EndedWith
  <2>2. IsFiniteSet(A)
    BY <2>1, FS_Subset
  <2>3. QED
    BY <2>2, FS_CardinalityType
<1>3. u # Nothing
  BY NothingAssumption DEF Statuses
<1>4. s \notin A
  BY <1>1, <1>3 DEF EndedWith, Reaches
<1>5. B = IF u = st /\ tool \in T THEN A \cup {s} ELSE A
  BY <1>1, <1>3 DEF EndedWith, Reaches
<1>6. Cardinality(A \cup {s}) = Cardinality(A) + 1
  BY <1>2, <1>4, FS_AddElement
<1>7. Cardinality(B) = Cardinality(A) + (IF u = st /\ tool \in T THEN 1 ELSE 0)
  BY <1>2, <1>5, <1>6
<1>8. QED
  BY <1>1, <1>2, <1>7

LEMMA CallsStayCounted ==
  ASSUME NEW j, IsFiniteSet(DOMAIN j.steps), NEW m \in MetricsType, CallsCounted(j, m),
         NEW k, NEW n, NEW s, NEW tool \in ToolNames, NEW st \in Maybe(Statuses), NEW more,
         Reaches(j, k, s, tool, st, more), CountsAs(m, n, tool, st, more)
  PROVE  CallsCounted(k, n)
<1>1. "success" \in Statuses /\ "failed" \in Statuses /\ "success" # Nothing /\ "failed" # Nothing
  BY NothingAssumption DEF Statuses
<1>2. st \in {"success", "failed", Nothing}
  BY DEF Maybe, Statuses
<1>3. /\ n.stepsSucceeded = Cardinality(EndedWith(k, "success", ToolNames))
      /\ n.stepsFailed = Cardinality(EndedWith(k, "failed", ToolNames))
  <2>1. /\ Cardinality(EndedWith(k, "success", ToolNames)) =
             Cardinality(EndedWith(j, "success", ToolNames)) + (IF "success" = st THEN 1 ELSE 0)
        /\ Cardinality(EndedWith(k, "failed", ToolNames)) =
             Cardinality(EndedWith(j, "failed", ToolNames)) + (IF "failed" = st THEN 1 ELSE 0)
    BY <1>1, EndedGrows
  <2>2. QED
    BY <2>1 DEF CallsCounted, CountsAs
<1>4. n.stepsTotal = n.stepsSucceeded + n.stepsFailed
  BY <1>1, <1>2 DEF CallsCounted, CountsAs, MetricsType
<1>5. ASSUME NEW t \in ToolNames
      PROVE  n.byTool[t].calls = Cardinality(EndedWith(k, "success", {t}))
                                   + Cardinality(EndedWith(k, "failed", {t}))
  <2>1. PICK a, b, c, d : /\ a = Cardinality(EndedWith(j, "success", {t}))
                          /\ b = Cardinality(EndedWith(j, "failed", {t}))
                          /\ c = Cardinality(EndedWith(k, "success", {t}))
                          /\ d = Cardinality(EndedWith(k, "failed", {t}))
    OBVIOUS
  <2>2. /\ a \in Nat /\ c = a + (IF "success" = st /\ tool \in {t} THEN 1 ELSE 0)
        /\ b \in Nat /\ d = b + (IF "failed" = st /\ tool \in {t} THEN 1 ELSE 0)
    BY <1>1, <2>1, EndedGrows
  <2>3. m.byTool[t].calls = a + b
    BY <2>1 DEF CallsCounted
  <2>4. n.byTool[t].calls = (a + b) + (IF t = tool /\ st # Nothing THEN 1 ELSE 0)
    BY <2>3 DEF CountsAs
  <2>5. n.byTool[t].calls = c + d
    BY <1>1, <1>2, <2>2, <2>4
  <2>6. QED
    BY <2>1, <2>5
<1>6. QED
  BY <1>3, <1>4, <1>5 DEF CallsCounted

(* A number new or raised.                                                 *)
LEMMA OneGrows ==
  ASSUME NEW S, IsFiniteSet(S), NEW g \in [S -> Nat], NEW x, NEW more \in Nat,
         NEW V, V = S \cup {x}, NEW h \in [V -> Nat], \A y \in S \ {x} : h[y] = g[y],
         h[x] = (IF x \in S THEN g[x] ELSE 0) + more
  PROVE  Total(g) \in Nat /\ Total(h) = Total(g) + more
<1>1. Total(g) \in Nat
  BY TotalParts
<1>2. CASE x \in S
  <2>1. V = S
    BY <1>2
  <2>2. h \in [S -> Nat]
    BY <2>1
  <2>3. Total(h) + g[x] = Total(g) + h[x]
    BY <1>2, <2>2, OneChanged
  <2>4. Total(h) \in Nat /\ g[x] \in Nat
    BY <1>2, <2>2, TotalParts
  <2>5. QED
    BY <1>1, <1>2, <2>3, <2>4
<1>3. CASE x \notin S
  <2>1. \A y \in S : h[y] = g[y]
    BY <1>3
  <2>2. Total(h) = Total(g) + h[x]
    BY <1>3, <2>1, OneMore
  <2>3. QED
    BY <1>1, <1>3, <2>2
<1>4. QED
  BY <1>2, <1>3, <1>1

LEMMA RetriesStayCounted ==
  ASSUME NEW j, IsFiniteSet(DOMAIN j.steps), RetriesOf(j) \in [DOMAIN j.steps -> Nat],
         NEW m, RetriesCounted(j, m), NEW k, NEW n, NEW s, NEW tool, NEW st, NEW more \in Nat,
         Reaches(j, k, s, tool, st, more), CountsAs(m, n, tool, st, more)
  PROVE  RetriesCounted(k, n)
<1>1. PICK S, V, g, h : /\ S = DOMAIN j.steps /\ V = S \cup {s}
                        /\ g = RetriesOf(j) /\ h = RetriesOf(k)
  OBVIOUS
<1>2. /\ IsFiniteSet(S) /\ g \in [S -> Nat] /\ DOMAIN h = V
      /\ \A r \in S : g[r] = j.steps[r].retries
      /\ \A r \in S \ {s} : h[r] = g[r]
  BY <1>1 DEF RetriesOf, Reaches
<1>3. h[s] = (IF s \in S THEN g[s] ELSE 0) + more
  BY <1>1, <1>2 DEF RetriesOf, Reaches
<1>4. h \in [V -> Nat]
  <2>1. h = [r \in V |-> h[r]]
    BY <1>1, <1>2 DEF RetriesOf
  <2>2. \A r \in V : h[r] \in Nat
    BY <1>1, <1>2, <1>3
  <2>3. QED
    BY <2>1, <2>2
<1>5. Total(g) \in Nat /\ Total(h) = Total(g) + more
  BY <1>1, <1>2, <1>3, <1>4, OneGrows
<1>6. QED
  BY <1>1, <1>5 DEF RetriesCounted, CountsAs

(* What an event does to the metrics.                                      *)
LEMMA EventsCount ==
  ASSUME NEW m \in MetricsType, NEW tool \in ToolNames
  PROVE  /\ CountsAs(m, m, tool, Nothing, 0)
         /\ CountsAs(m, CountGroup(m), tool, Nothing, 0)
         /\ CountGroup(m).groupsTotal = m.groupsTotal + 1
         /\ \A u \in Nat : /\ CountsAs(m, CountUsage(m, tool, u), tool, Nothing, 0)
                           /\ CountUsage(m, tool, u).groupsTotal = m.groupsTotal
         /\ CountsAs(m, CountRetry(m, tool), tool, Nothing, 1)
         /\ CountRetry(m, tool).groupsTotal = m.groupsTotal
         /\ \A st \in Statuses : /\ CountsAs(m, CountStep(m, tool, st), tool, st, 0)
                                 /\ CountStep(m, tool, st).groupsTotal = m.groupsTotal
<1>1. /\ m.byTool \in [ToolNames -> StatsType]
      /\ m.stepsSucceeded \in Nat /\ m.stepsFailed \in Nat /\ m.stepsTotal \in Nat
      /\ m.retriesTotal \in Nat /\ m.groupsTotal \in Nat
      /\ \A t \in ToolNames : m.byTool[t] \in StatsType /\ m.byTool[t].calls \in Nat
  BY DEF MetricsType, StatsType
<1>2. Nothing \notin Statuses /\ Nothing # "success" /\ Nothing # "failed"
  BY NothingAssumption DEF Statuses
<1>3. CountsAs(m, m, tool, Nothing, 0)
  BY <1>1, <1>2 DEF CountsAs
<1>4. /\ CountsAs(m, CountGroup(m), tool, Nothing, 0)
      /\ CountGroup(m).groupsTotal = m.groupsTotal + 1
  <2>1. PICK k : k = CountGroup(m)
    OBVIOUS
  <2>2. /\ k.byTool = m.byTool /\ k.stepsSucceeded = m.stepsSucceeded
        /\ k.stepsFailed = m.stepsFailed /\ k.stepsTotal = m.stepsTotal
        /\ k.retriesTotal = m.retriesTotal /\ k.groupsTotal = m.groupsTotal + 1
    BY <2>1 DEF CountGroup, MetricsType
  <2>3. CountsAs(m, k, tool, Nothing, 0)
    BY <1>1, <1>2, <2>2 DEF CountsAs
  <2>4. QED
    BY <2>1, <2>2, <2>3
<1>5. ASSUME NEW u \in Nat
      PROVE  /\ CountsAs(m, CountUsage(m, tool, u), tool, Nothing, 0)
             /\ CountUsage(m, tool, u).groupsTotal = m.groupsTotal
  <2>1. PICK k : k = CountUsage(m, tool, u)
    OBVIOUS
  <2>2. /\ k.byTool = [m.byTool EXCEPT ![tool] = Charge(@, u)]
        /\ k.stepsSucceeded = m.stepsSucceeded
        /\ k.stepsFailed = m.stepsFailed /\ k.stepsTotal = m.stepsTotal
        /\ k.retriesTotal = m.retriesTotal /\ k.groupsTotal = m.groupsTotal
    BY <2>1 DEF CountUsage, MetricsType
  <2>3. Charge(m.byTool[tool], u).calls = m.byTool[tool].calls
    BY <1>1 DEF Charge, StatsType
  <2>4. \A t \in ToolNames : k.byTool[t].calls = m.byTool[t].calls
    BY <1>1, <2>2, <2>3
  <2>5. CountsAs(m, k, tool, Nothing, 0)
    BY <1>1, <1>2, <2>2, <2>4 DEF CountsAs
  <2>6. QED
    BY <2>1, <2>2, <2>5
<1>6. /\ CountsAs(m, CountRetry(m, tool), tool, Nothing, 1)
      /\ CountRetry(m, tool).groupsTotal = m.groupsTotal
  <2>1. PICK k : k = CountRetry(m, tool)
    OBVIOUS
  <2>2. /\ k.byTool = [m.byTool EXCEPT ![tool] = CountAgain(@)]
        /\ k.stepsSucceeded = m.stepsSucceeded
        /\ k.stepsFailed = m.stepsFailed /\ k.stepsTotal = m.stepsTotal
        /\ k.retriesTotal = m.retriesTotal + 1 /\ k.groupsTotal = m.groupsTotal
    BY <2>1 DEF CountRetry, MetricsType
  <2>3. CountAgain(m.byTool[tool]).calls = m.byTool[tool].calls
    BY <1>1 DEF CountAgain, StatsType
  <2>4. \A t \in ToolNames : k.byTool[t].calls = m.byTool[t].calls
    BY <1>1, <2>2, <2>3
  <2>5. CountsAs(m, k, tool, Nothing, 1)
    BY <1>1, <1>2, <2>2, <2>4 DEF CountsAs
  <2>6. QED
    BY <2>1, <2>2, <2>5
<1>7. ASSUME NEW st \in Statuses
      PROVE  /\ CountsAs(m, CountStep(m, tool, st), tool, st, 0)
             /\ CountStep(m, tool, st).groupsTotal = m.groupsTotal
  <2>1. PICK k : k = CountStep(m, tool, st)
    OBVIOUS
  <2>2. /\ k.byTool = [m.byTool EXCEPT ![tool] = CountCall(@, st)]
        /\ k.stepsTotal = m.stepsTotal + 1
        /\ k.retriesTotal = m.retriesTotal /\ k.groupsTotal = m.groupsTotal
        /\ k.stepsSucceeded = m.stepsSucceeded + (IF st = "success" THEN 1 ELSE 0)
        /\ k.stepsFailed = m.stepsFailed + (IF st = "failed" THEN 1 ELSE 0)
    <3>1. CASE st = "success"
      BY <1>1, <2>1, <3>1 DEF CountStep, MetricsType
    <3>2. CASE st = "failed"
      BY <1>1, <2>1, <3>2 DEF CountStep, MetricsType
    <3>3. QED
      BY <3>1, <3>2 DEF Statuses
  <2>3. CountCall(m.byTool[tool], st).calls = m.byTool[tool].calls + 1
    BY <1>1 DEF CountCall, StatsType
  <2>4. \A t \in ToolNames :
          k.byTool[t].calls = m.byTool[t].calls + (IF t = tool THEN 1 ELSE 0)
    BY <1>1, <2>2, <2>3
  <2>5. CountsAs(m, k, tool, st, 0)
    BY <1>1, <1>2, <2>2, <2>4 DEF CountsAs
  <2>6. QED
    BY <2>1, <2>2, <2>5
<1>8. QED
  BY <1>3, <1>4, <1>5, <1>6, <1>7

(* A step of the scheduler that writes one record at most.                 *)
WritesOne(s, tool, st, more) ==
  /\ tool \in ToolNames /\ st \in Maybe(Statuses) /\ more \in Nat
  /\ Reaches(journal, journal', s, tool, st, more) /\ CountsAs(metrics, metrics', tool, st, more)

WritesNone(tool) ==
  /\ tool \in ToolNames /\ journal'.steps = journal.steps
  /\ CountsAs(metrics, metrics', tool, Nothing, 0)

OneRecord ==
  (\E tool : WritesNone(tool)) \/ \E s, tool, st, more : WritesOne(s, tool, st, more)

LEMMA OneRecordCounted ==
  ASSUME IInv, Books, Tallied, OneRecord
  PROVE  CallsCounted(journal', metrics') /\ RetriesCounted(journal', metrics')
<1>1. /\ IsFiniteSet(DOMAIN journal.steps) /\ metrics \in MetricsType
      /\ RetriesOf(journal) \in [DOMAIN journal.steps -> Nat]
      /\ CallsCounted(journal, metrics) /\ RetriesCounted(journal, metrics)
  BY TalliesFinite, MainFacts DEF Tallied
<1>2. CASE \E tool : WritesNone(tool)
  <2>0. /\ journal'.steps = journal.steps
        /\ \E tool \in ToolNames : CountsAs(metrics, metrics', tool, Nothing, 0)
    BY <1>2 DEF WritesNone
  <2>1. Nothing # "success" /\ Nothing # "failed"
    BY NothingAssumption
  <2>2. /\ metrics'.stepsSucceeded = metrics.stepsSucceeded
        /\ metrics'.stepsFailed = metrics.stepsFailed /\ metrics'.stepsTotal = metrics.stepsTotal
        /\ metrics'.retriesTotal = metrics.retriesTotal
        /\ \A t \in ToolNames : metrics'.byTool[t].calls = metrics.byTool[t].calls
    BY <1>1, <2>0, <2>1 DEF CountsAs, MetricsType, StatsType
  <2>3. /\ RetriesOf(journal') = RetriesOf(journal)
        /\ \A st, T : EndedWith(journal', st, T) = EndedWith(journal, st, T)
    BY <2>0 DEF RetriesOf, EndedWith
  <2>4. CallsCounted(journal', metrics')
    BY <1>1, <2>2, <2>3 DEF CallsCounted
  <2>5. RetriesCounted(journal', metrics')
    BY <1>1, <2>2, <2>3 DEF RetriesCounted
  <2>6. QED
    BY <2>4, <2>5
<1>3. CASE \E s, tool, st, more : WritesOne(s, tool, st, more)
  <2>0. PICK s, tool, st, more : WritesOne(s, tool, st, more)
    BY <1>3
  <2>1. /\ tool \in ToolNames /\ st \in Maybe(Statuses) /\ more \in Nat
        /\ Reaches(journal, journal', s, tool, st, more)
        /\ CountsAs(metrics, metrics', tool, st, more)
    BY <2>0 DEF WritesOne
  <2>2. PICK k, n : k = journal' /\ n = metrics'
    OBVIOUS
  <2>3. Reaches(journal, k, s, tool, st, more) /\ CountsAs(metrics, n, tool, st, more)
    BY <2>1, <2>2
  <2>4. CallsCounted(k, n)
    BY <1>1, <2>1, <2>3, CallsStayCounted
  <2>5. RetriesCounted(k, n)
    BY <1>1, <2>1, <2>3, RetriesStayCounted
  <2>6. QED
    BY <2>2, <2>4, <2>5
<1>4. QED
  BY <1>2, <1>3 DEF OneRecord

-----------------------------------------------------------------------------
(* Every step of a run writes one record at most, and counts it.           *)

LEMMA StartStepCounted ==
  ASSUME IInv, Books, NEW s \in DOMAIN task, StartStep(s)
  PROVE  OneRecord /\ metrics' = metrics
<1>1. PICK k, tool, group : /\ k = OnStepStarted(journal, s, tool, group, FALSE)
                            /\ tool = task[s].tool /\ group = task[s].group
  OBVIOUS
<1>2. /\ task[s].pc = "assigned" /\ journal' = k /\ metrics' = metrics
  BY <1>1 DEF StartStep, Moves
<1>3. /\ tool \in ToolNames /\ group \in Maybe(Nat) /\ FALSE \in BOOLEAN
      /\ s \in Nat \ {0} /\ JournalTyped(journal) /\ s \notin DOMAIN journal.steps
      /\ metrics \in MetricsType
  BY <1>1, <1>2, ThreadFacts, ToolAssumption DEF TaskType, Books, ThreadsBooked, RecordFits
<1>4. OnlyStep(journal, k, s) /\ Unused(k.steps[s], tool)
  BY <1>1, <1>3, StartedUnused, Zenon
<1>5. k.steps[s].status = Nothing
  BY <1>1 DEF OnStepStarted, Put, NewStep
<1>6. Reaches(journal, k, s, tool, Nothing, 0)
  BY <1>3, <1>4, <1>5 DEF Reaches, OnlyStep, Unused
<1>7. CountsAs(metrics, metrics, tool, Nothing, 0)
  BY <1>3, EventsCount
<1>8. WritesOne(s, tool, Nothing, 0)
  BY <1>2, <1>3, <1>6, <1>7 DEF WritesOne, Maybe
<1>9. QED
  BY <1>2, <1>8 DEF OneRecord

(* A record that is written again: its status may change, its retries too. *)
LEMMA RewrittenReaches ==
  ASSUME IInv, Books, Polls, NEW s \in DOMAIN task, task[s].pc \notin {"assigned", "done"},
         OnlyStep(journal, journal', s), journal'.steps[s].tool = journal.steps[s].tool,
         NEW st, journal'.steps[s].status = st,
         NEW more, journal'.steps[s].retries = journal.steps[s].retries + more
  PROVE  Reaches(journal, journal', s, task[s].tool, st, more)
<1>1. s \in DOMAIN journal.steps /\ journal.steps[s].status = Nothing
  BY ThreadFacts, RunningThread
<1>2. journal.steps[s].tool = task[s].tool
  BY DEF Polls, OutputsBooked, RecordHolds
<1>3. QED
  BY <1>1, <1>2 DEF Reaches, OnlyStep

LEMMA EditsCounted ==
  ASSUME IInv, Books, Polls, NEW s \in DOMAIN task,
         \/ \E approved \in BOOLEAN : DecideApproval(s, approved)
         \/ EmitSucceeded(s) \/ EmitFailed(s)
  PROVE  OneRecord /\ metrics' = metrics
<1>1. /\ task[s] \in TaskType /\ JournalTyped(journal) /\ metrics \in MetricsType
      /\ task[s].tool \in ToolNames /\ task[s].pc \notin {"assigned", "done"} /\ metrics' = metrics
      /\ task[s].output \in Maybe(Values) /\ task[s].error \in Maybe(Errors)
  BY ThreadFacts, ToolAssumption DEF TaskType, DecideApproval, EmitSucceeded, EmitFailed, Moves
<1>2. s \in DOMAIN journal.steps /\ journal.steps[s].retries \in Nat
  BY <1>1, ThreadFacts DEF JournalTyped, StepRecordType
<1>3. /\ OnlyStep(journal, journal', s) /\ SameWork(journal.steps[s], journal'.steps[s])
      /\ journal'.steps[s].status = journal.steps[s].status
  <2>1. CASE \E approved \in BOOLEAN : DecideApproval(s, approved)
    BY <1>1, <1>2, <2>1, EditedUnused, HandlersEdit DEF DecideApproval
  <2>2. CASE EmitSucceeded(s)
    BY <1>1, <1>2, <2>2, EditedUnused, HandlersEdit DEF EmitSucceeded
  <2>3. CASE EmitFailed(s)
    BY <1>1, <1>2, <2>3, EditedUnused, HandlersEdit DEF EmitFailed
  <2>4. QED
    BY <2>1, <2>2, <2>3
<1>4. journal.steps[s].status = Nothing
  BY <1>1, <1>2, RunningThread
<1>5. Reaches(journal, journal', s, task[s].tool, Nothing, 0)
  <2>1. journal'.steps[s].retries = journal.steps[s].retries + 0
    BY <1>2, <1>3 DEF SameWork
  <2>2. QED
    BY <1>1, <1>3, <1>4, <2>1, RewrittenReaches DEF SameWork
<1>6. CountsAs(metrics, metrics', task[s].tool, Nothing, 0)
  BY <1>1, EventsCount
<1>7. WritesOne(s, task[s].tool, Nothing, 0)
  BY <1>1, <1>5, <1>6 DEF WritesOne, Maybe
<1>8. QED
  BY <1>1, <1>7 DEF OneRecord

LEMMA ReportCounted ==
  ASSUME IInv, Books, Polls, NEW s \in DOMAIN task, ReportUsage(s)
  PROVE  OneRecord /\ metrics'.groupsTotal = metrics.groupsTotal
<1>1. PICK u : u = lastCost[task[s].tool]
  OBVIOUS
<1>2. /\ JournalTyped(journal) /\ metrics \in MetricsType /\ u \in Nat /\ task[s].tool \in ToolNames
      /\ task[s].pc = "usage" /\ s \in DOMAIN journal.steps
      /\ journal' = OnUsageReported(journal, s, u) /\ metrics' = CountUsage(metrics, task[s].tool, u)
  BY <1>1, ThreadFacts, ToolAssumption DEF ReportUsage, TaskType, Maybe
<1>3. journal.steps[s] \in StepRecordType /\ journal.steps[s].status = Nothing
  BY <1>2, RunningThread DEF JournalTyped
<1>4. /\ OnlyStep(journal, journal', s)
      /\ journal'.steps[s] = [journal.steps[s] EXCEPT !.usage = u]
  BY <1>2, StepHandlers DEF Maybe
<1>5. Reaches(journal, journal', s, task[s].tool, Nothing, 0)
  <2>1. /\ journal'.steps[s].tool = journal.steps[s].tool /\ journal'.steps[s].status = Nothing
        /\ journal'.steps[s].retries = journal.steps[s].retries + 0
    BY <1>3, <1>4 DEF StepRecordType
  <2>2. QED
    BY <1>2, <1>4, <2>1, RewrittenReaches
<1>6. /\ CountsAs(metrics, metrics', task[s].tool, Nothing, 0)
      /\ metrics'.groupsTotal = metrics.groupsTotal
  BY <1>2, EventsCount
<1>7. WritesOne(s, task[s].tool, Nothing, 0)
  BY <1>2, <1>5, <1>6 DEF WritesOne, Maybe
<1>8. QED
  BY <1>6, <1>7 DEF OneRecord

LEMMA RetryCounted ==
  ASSUME IInv, Books, Polls, NEW s \in DOMAIN task, ToolRaises(s)
  PROVE  OneRecord /\ metrics'.groupsTotal = metrics.groupsTotal
<1>1. /\ JournalTyped(journal) /\ metrics \in MetricsType /\ task[s].tool \in ToolNames
      /\ task[s].pc = "running" /\ s \in DOMAIN journal.steps
      /\ task[s].attempt \in Nat /\ journal.steps[s].retries = task[s].attempt
  BY ThreadFacts, ToolAssumption DEF ToolRaises, TaskType, Fits, AttemptsFit
<1>2. CASE MayRetry(s)
  <2>1. PICK n \in Nat : n = task[s].attempt + 1
    BY <1>1
  <2>2. journal' = OnRetryAttempted(journal, s, n) /\ metrics' = CountRetry(metrics, task[s].tool)
    BY <1>2, <2>1 DEF ToolRaises
  <2>3. /\ OnlyStep(journal, journal', s) /\ journal'.steps[s].tool = journal.steps[s].tool
        /\ journal'.steps[s].retries = journal.steps[s].retries + 1
    BY <1>1, <2>1, <2>2, RetriedUnused
  <2>4. journal'.steps[s].status = Nothing
    BY <1>1, <2>2, HandlersEdit, RunningThread
  <2>5. Reaches(journal, journal', s, task[s].tool, Nothing, 1)
    BY <1>1, <2>3, <2>4, RewrittenReaches
  <2>6. /\ CountsAs(metrics, metrics', task[s].tool, Nothing, 1)
        /\ metrics'.groupsTotal = metrics.groupsTotal
    BY <1>1, <2>2, EventsCount
  <2>7. WritesOne(s, task[s].tool, Nothing, 1)
    BY <1>1, <2>5, <2>6 DEF WritesOne, Maybe
  <2>8. QED
    BY <2>6, <2>7 DEF OneRecord
<1>3. CASE ~MayRetry(s)
  <2>1. journal' = journal /\ metrics' = metrics
    BY <1>3 DEF ToolRaises
  <2>2. QED
    BY <1>1, <2>1, EventsCount DEF OneRecord, WritesNone
<1>4. QED
  BY <1>2, <1>3

LEMMA FinishCounted ==
  ASSUME IInv, Books, Polls, NEW s \in DOMAIN task, FinishSucceeded(s) \/ FinishFailed(s)
  PROVE  OneRecord /\ metrics'.groupsTotal = metrics.groupsTotal
<1>1. PICK st \in Statuses : /\ task[s].pc \in {"finishing", "errored"}
                             /\ journal' = OnStepFinished(journal, s, st)
                             /\ metrics' = CountStep(metrics, task[s].tool, st)
  BY DEF FinishSucceeded, FinishFailed, Finishes, Statuses
<1>2. /\ JournalTyped(journal) /\ metrics \in MetricsType /\ task[s].tool \in ToolNames
      /\ s \in DOMAIN journal.steps /\ journal.steps[s].retries \in Nat /\ st \in Maybe(Statuses)
  BY <1>1, ThreadFacts, ToolAssumption DEF TaskType, JournalTyped, StepRecordType, Maybe
<1>3. OnlyStep(journal, journal', s) /\ SameWork(journal.steps[s], journal'.steps[s])
  BY <1>1, <1>2, EditedUnused
<1>4. journal'.steps[s].status = st
  BY <1>1, <1>2, HandlersEdit
<1>5. Reaches(journal, journal', s, task[s].tool, st, 0)
  <2>1. journal'.steps[s].retries = journal.steps[s].retries + 0
    BY <1>2, <1>3 DEF SameWork
  <2>2. QED
    BY <1>1, <1>3, <1>4, <2>1, RewrittenReaches DEF SameWork
<1>6. /\ CountsAs(metrics, metrics', task[s].tool, st, 0)
      /\ metrics'.groupsTotal = metrics.groupsTotal
  BY <1>1, <1>2, EventsCount
<1>7. WritesOne(s, task[s].tool, st, 0)
  BY <1>2, <1>5, <1>6 DEF WritesOne
<1>8. QED
  BY <1>6, <1>7 DEF OneRecord

LEMMA ThreadKeepsTallies ==
  ASSUME IInv, Books, Polls, Tallied, NEW s \in DOMAIN task, RunTool(s)
  PROVE  Tallied'
<1>1. OneRecord /\ metrics'.groupsTotal = metrics.groupsTotal
  <2>1. CASE \/ DenyCapability(s) \/ RequestApproval(s) \/ SkipApproval(s) \/ ApprovalRaises(s)
             \/ CallTool(s) \/ NoUsage(s) \/ UsageRaises(s) \/ AddCost(s)
             \/ \E v \in Outcomes[task[s].tool], c \in Costs[task[s].tool] : ToolReturns(s, v, c)
    <3>1. journal' = journal /\ metrics' = metrics
      BY <2>1 DEF DenyCapability, RequestApproval, SkipApproval, ApprovalRaises, CallTool, NoUsage,
                  UsageRaises, AddCost, ToolReturns
    <3>2. metrics \in MetricsType /\ task[s].tool \in ToolNames
      BY ThreadFacts, ToolAssumption DEF TaskType
    <3>3. QED
      BY <3>1, <3>2, EventsCount DEF OneRecord, WritesNone
  <2>2. CASE StartStep(s)
    BY <2>2, StartStepCounted
  <2>3. CASE (\E approved \in BOOLEAN : DecideApproval(s, approved)) \/ EmitSucceeded(s) \/ EmitFailed(s)
    BY <2>3, EditsCounted
  <2>4. CASE ReportUsage(s) \/ ToolRaises(s) \/ FinishSucceeded(s) \/ FinishFailed(s)
    BY <2>4, ReportCounted, RetryCounted, FinishCounted
  <2>5. QED
    BY <2>1, <2>2, <2>3, <2>4 DEF RunTool
<1>2. CallsCounted(journal', metrics') /\ RetriesCounted(journal', metrics')
  BY <1>1, OneRecordCounted
<1>3. DOMAIN journal'.groups = DOMAIN journal.groups
  BY ThreadKeepsGroups DEF GroupsKept
<1>4. QED
  BY <1>1, <1>2, <1>3 DEF Tallied, GroupsCounted

(* A group is opened once, where its entry is reached.                     *)
LEMMA OpensCounted ==
  ASSUME IInv, Books, Polls, Tallied, BeginGroup \/ BeginReuse
  PROVE  OneRecord /\ GroupsCounted(journal', metrics')
<1>1. PICK kind \in {"parallel", "consensus"} :
        /\ pc = "next" /\ journal' = OnGroupStarted(journal, entry, kind)
        /\ metrics' = CountGroup(metrics)
  <2>1. BeginReuse => Current.source \in DOMAIN groupOutputs
    BY SourcePolled DEF BeginReuse, MayEnter
  <2>2. QED
    BY <2>1 DEF BeginGroup, BeginReuse, MayEnter
<1>2. /\ JournalTyped(journal) /\ Grouped(journal) /\ entry \in Nat \ {0}
      /\ entry \notin DOMAIN journal.groups /\ Members(journal, entry) = {}
      /\ metrics \in MetricsType /\ Synthetic \in ToolNames
  BY <1>1, FreshIds, MainFacts, ToolAssumption
<1>3. Marks(journal, journal', entry, Nothing)
  BY <1>1, <1>2, OpenedGroup
<1>4. OneRecord /\ metrics'.groupsTotal = metrics.groupsTotal + 1
  BY <1>1, <1>2, <1>3, EventsCount DEF OneRecord, WritesNone, Marks
<1>5. Cardinality(DOMAIN journal'.groups) = Cardinality(DOMAIN journal.groups) + 1
  <2>1. PICK S : S = DOMAIN journal.groups
    OBVIOUS
  <2>2. IsFiniteSet(S) /\ entry \notin S /\ DOMAIN journal'.groups = S \cup {entry}
    BY <1>2, <1>3, <2>1, TalliesFinite DEF Marks
  <2>3. QED
    BY <2>1, <2>2, FS_AddElement
<1>6. QED
  BY <1>4, <1>5 DEF Tallied, GroupsCounted

LEMMA NewRecordCounted ==
  ASSUME IInv, Books, NEW tool \in ToolNames, NEW st \in Statuses,
         DOMAIN journal'.steps = DOMAIN journal.steps \cup {nextStepId},
         \A r \in DOMAIN journal.steps : journal'.steps[r] = journal.steps[r],
         Unused(journal'.steps[nextStepId], tool), journal'.steps[nextStepId].status = st,
         metrics' = CountStep(metrics, tool, st)
  PROVE  OneRecord /\ metrics'.groupsTotal = metrics.groupsTotal
<1>1. nextStepId \notin DOMAIN journal.steps /\ metrics \in MetricsType /\ st \in Maybe(Statuses)
  BY FreshIds, MainFacts DEF Maybe
<1>2. Reaches(journal, journal', nextStepId, tool, st, 0)
  BY <1>1 DEF Reaches, Unused
<1>3. /\ CountsAs(metrics, metrics', tool, st, 0)
      /\ metrics'.groupsTotal = metrics.groupsTotal
  BY <1>1, EventsCount
<1>4. WritesOne(nextStepId, tool, st, 0)
  BY <1>1, <1>2, <1>3 DEF WritesOne
<1>5. QED
  BY <1>3, <1>4 DEF OneRecord

LEMMA MainKeepsTallies ==
  ASSUME IInv, Books, Polls, Tallied, MainThread
  PROVE  Tallied'
<1>1. /\ JournalTyped(journal) /\ metrics \in MetricsType /\ Synthetic \in ToolNames
      /\ \A r \in DOMAIN journal.steps : r \in DOMAIN journal'.steps /\ journal'.steps[r] = journal.steps[r]
  BY MainFacts, MainRecords, ToolAssumption
<1>2. CASE BeginGroup \/ BeginReuse
  BY <1>2, OpensCounted, OneRecordCounted DEF Tallied
<1>3. ASSUME OneRecord, metrics'.groupsTotal = metrics.groupsTotal,
             DOMAIN journal'.groups = DOMAIN journal.groups
      PROVE  Tallied'
  BY <1>3, OneRecordCounted DEF Tallied, GroupsCounted
<1>4. CASE ReplayStep
  <2>1. PICK tool : tool = Current.tools[1]
    OBVIOUS
  <2>2. tool \in ToolNames
    <3>1. Current.tools \in Seq(Tools) /\ Current.tools # << >>
      BY <1>4, CurrentType DEF ReplayStep, MayEnter
    <3>2. QED
      BY <2>1, <3>1, ToolAssumption
  <2>3. metrics' = CountStep(metrics, tool, "success") /\ "success" \in Statuses
    BY <1>4, <2>1 DEF ReplayStep, Statuses
  <2>4. Unused(journal'.steps[nextStepId], tool)
    BY <1>4, <2>1, ReplayUnused
  <2>5. /\ DOMAIN journal'.steps = DOMAIN journal.steps \cup {nextStepId}
        /\ journal'.steps[nextStepId].status = "success"
        /\ DOMAIN journal'.groups = DOMAIN journal.groups
    BY <1>1, <1>4, ReplayAdds DEF Adds, OnlyStep
  <2>6. QED
    BY <1>1, <1>3, <2>2, <2>3, <2>4, <2>5, NewRecordCounted
<1>5. CASE Speaks
  <2>1. PICK st \in Statuses : /\ journal'.steps[nextStepId].status = st
                               /\ metrics' = CountStep(metrics, Synthetic, st)
    <3>1. "raised" # Nothing /\ "success" \in Statuses /\ "failed" \in Statuses
      BY NothingAssumption DEF Statuses
    <3>2. /\ Agree \/ AgreeThenFallBack => metrics' = CountStep(metrics, Synthetic, "success")
          /\ StrategyRaises => metrics' = CountStep(metrics, Synthetic, "failed")
      BY DEF Agree, AgreeThenFallBack, StrategyRaises
    <3>3. QED
      BY <1>5, <3>1, <3>2, SpeaksSays DEF Says
  <2>2. Unused(journal'.steps[nextStepId], Synthetic)
    BY <1>5, SpeaksUnused
  <2>3. DOMAIN journal'.steps = DOMAIN journal.steps \cup {nextStepId}
    BY <1>1, <1>5, SpeaksUnused, SpeaksSays DEF SameUse
  <2>4. DOMAIN journal'.groups = DOMAIN journal.groups
    <3>1. entry \in DOMAIN journal.groups
      BY <1>5 DEF Speaks, Agree, AgreeThenFallBack, StrategyRaises, Books, OpenBooked, InGroup
    <3>2. ~ReplayStep
      BY <1>5 DEF Speaks, Agree, AgreeThenFallBack, StrategyRaises, ReplayStep, MayEnter
    <3>3. QED
      BY <3>1, <3>2, MainFiles DEF Files, OldGroups
  <2>5. QED
    BY <1>1, <1>3, <2>1, <2>2, <2>3, <2>4, NewRecordCounted
<1>6. CASE \/ StopForRuntime \/ StopForCost \/ RejectCheckpoint \/ BeginStep \/ EndStep
           \/ EndParallel \/ EndVotersFailed \/ EndVoters \/ EndFallback \/ FinishWorkflow
  <2>1. metrics' = metrics
    BY <1>6 DEF StopForRuntime, StopForCost, RejectCheckpoint, BeginStep, EndStep, EndParallel,
                EndVotersFailed, EndVoters, EndFallback, FinishWorkflow
  <2>2. ~ReplayStep /\ ~Speaks
    <3>1. pc = "next" => journal' = journal \/ FinishWorkflow
      BY <1>6 DEF StopForRuntime, StopForCost, RejectCheckpoint, BeginStep, EndStep, EndParallel,
                  EndVotersFailed, EndVoters, EndFallback
    <3>2. Speaks => pc = "reduce"
      BY DEF Speaks, Agree, AgreeThenFallBack, StrategyRaises
    <3>3. ReplayStep => pc = "next" /\ entry \in DOMAIN steps /\ nextStepId \in DOMAIN journal'.steps
      BY ReplayAdds DEF ReplayStep, MayEnter, Adds, OnlyStep
    <3>4. FinishWorkflow => journal'.steps = journal.steps
      <4>1. entry \in Nat \ {0} /\ overall \in Statuses
        BY MainFacts
      <4>2. QED
        BY <1>1, <4>1, GroupHandlers DEF FinishWorkflow
    <3>5. pc # "reduce"
      BY <1>6 DEF StopForRuntime, StopForCost, RejectCheckpoint, BeginStep, EndStep, EndParallel,
                  EndVotersFailed, EndVoters, EndFallback, FinishWorkflow, MayEnter
    <3>6. QED
      BY <3>1, <3>2, <3>3, <3>4, <3>5, FreshIds
  <2>3. journal'.steps = journal.steps
    BY <2>2, QuietMain
  <2>4. DOMAIN journal'.groups = DOMAIN journal.groups
    <3>1. CASE EndParallel \/ EndVotersFailed \/ EndFallback
      <4>1. entry \in DOMAIN journal.groups
        BY <3>1 DEF EndParallel, EndVotersFailed, EndFallback, Books, OpenBooked, InGroup
      <4>2. QED
        BY <2>2, <4>1, MainFiles DEF Files, OldGroups
    <3>2. CASE FinishWorkflow
      <4>1. PICK a, b, c, d : journal = [steps |-> a, order |-> b, groups |-> c, status |-> d]
        BY <1>1, JournalShape
      <4>2. QED
        BY <3>2, <4>1 DEF FinishWorkflow, OnWorkflowFinished
    <3>3. CASE \/ StopForRuntime \/ StopForCost \/ RejectCheckpoint \/ BeginStep \/ EndStep
               \/ EndVoters
      BY <3>3 DEF StopForRuntime, StopForCost, RejectCheckpoint, BeginStep, EndStep, EndVoters
    <3>4. QED
      BY <1>6, <3>1, <3>2, <3>3
  <2>5. OneRecord
    BY <1>1, <2>1, <2>3, EventsCount DEF OneRecord, WritesNone
  <2>6. QED
    BY <1>3, <2>1, <2>4, <2>5
<1>7. QED
  BY <1>2, <1>4, <1>5, <1>6 DEF MainThread, Speaks

LEMMA InitTallied == Init => Tallied
<1> SUFFICES ASSUME Init PROVE Tallied
  OBVIOUS
<1>1. /\ DOMAIN journal.steps = {} /\ DOMAIN journal.groups = {}
      /\ metrics.stepsTotal = 0 /\ metrics.stepsSucceeded = 0 /\ metrics.stepsFailed = 0
      /\ metrics.groupsTotal = 0 /\ metrics.retriesTotal = 0
      /\ \A t \in ToolNames : metrics.byTool[t].calls = 0
  BY DEF Init, EmptyJournal, EmptyMetrics, NewStats
<1>2. \A st, T : EndedWith(journal, st, T) = {}
  BY <1>1 DEF EndedWith
<1>3. IsFiniteSet({}) /\ Cardinality({}) = 0
  BY FS_EmptySet
<1>4. Total(RetriesOf(journal)) = 0
  <2>1. PICK g : g = RetriesOf(journal)
    OBVIOUS
  <2>2. DOMAIN g = {} /\ g = [x \in {} |-> g[x]]
    BY <1>1, <2>1 DEF RetriesOf
  <2>3. g \in [{} -> Nat]
    BY <2>2
  <2>4. QED
    BY <1>3, <2>1, <2>3, TotalZero
<1>5. QED
  BY <1>1, <1>2, <1>3, <1>4 DEF Tallied, CallsCounted, RetriesCounted, GroupsCounted

LEMMA NextKeepsTallies ==
  IInv /\ Books /\ Polls /\ Tallied /\ [Next]_vars => Tallied'
<1> SUFFICES ASSUME IInv, Books, Polls, Tallied, [Next]_vars PROVE Tallied'
  OBVIOUS
<1>1. CASE MainThread
  BY <1>1, MainKeepsTallies
<1>2. CASE \E s \in DOMAIN task : RunTool(s)
  BY <1>2, ThreadKeepsTallies
<1>3. CASE UNCHANGED vars
  BY <1>3 DEF vars, Tallied
<1>4. QED
  BY <1>1, <1>2, <1>3 DEF Next, Step, Terminating

(* At every moment the metrics are the totals of the journal: steps by     *)
(* their status, over the run and per tool, retries and groups -- though   *)
(* each is built from the events alone, in whatever order threads emit.    *)
THEOREM MetricsAreTotals == Spec => []MetricsMatchJournal
<1>1. Init => Tallied
  BY InitTallied
<1>2. IInv /\ Books /\ Polls /\ Tallied /\ [Next]_vars => Tallied'
  BY NextKeepsTallies
<1>3. IInv /\ Books /\ Tallied => MetricsMatchJournal
  BY TalliesMatch
<1>4. QED
  BY <1>1, <1>2, <1>3, Inductive, BooksAreKept, PollsAreKept, PTL DEF Spec

-----------------------------------------------------------------------------
(* The file behind the store (FileCheckpointStore), for every set of runs  *)
(* and any number of positions and crashes.  TrueRecords holds whatever    *)
(* the runs do; KeptRecords holds until a record() is disturbed by another *)
(* access or by a crash, and gives what the store needs to survive any     *)
(* other crash.                                                            *)

(* What has been read or is about to be written was recorded, except for   *)
(* the one record under way.                                               *)
TrueRecords ==
  /\ StoreTypeOK
  /\ \A q \in Runs : file.state = "written" => file.content[q] \subseteq recorded[q]
  /\ \A q \in Runs : loaded[q] \subseteq recorded[q]
  /\ \A r, q \in Runs :
       InRecord(r) =>
         data[r][q] \subseteq recorded[q] \cup (IF q = r THEN {next[r]} ELSE {})
  /\ \A r \in Runs : InRecord(r) => next[r] <= Positions

(* At most one record() is under way; it has read every record there is,   *)
(* and otherwise the file holds them.  What a run has recorded it has      *)
(* loaded, or is past.                                                     *)
KeptRecords ==
  /\ \A r, q \in Runs : InRecord(r) /\ InRecord(q) => r = q
  /\ \A r, q \in Runs : InRecord(r) => recorded[q] \subseteq data[r][q]
  /\ \A r \in Runs : InRecord(r) => next[r] \in data[r][r]
  /\ (\A r \in Runs : ~InRecord(r)) =>
        /\ file.state \in {"missing", "written"}
        /\ \A q \in Runs : recorded[q] \subseteq ReadAll[q]
  /\ \A r \in Runs : phase[r] = "running" \/ InRecord(r) =>
        \A n \in recorded[r] : n \in loaded[r] \/ n < next[r]
  /\ \A r \in Runs : InRecord(r) => next[r] \notin loaded[r]

LEMMA InitTrueRecords == StoreInit => TrueRecords
BY FileAssumption DEF StoreInit, TrueRecords, StoreTypeOK, Nobody, Contents, InRecord

LEMMA StepTrueRecords == TrueRecords /\ [StoreNext]_storeVars => TrueRecords'
<1> SUFFICES ASSUME TrueRecords, [StoreNext]_storeVars PROVE TrueRecords'
  OBVIOUS
<1> USE FileAssumption DEF TrueRecords, StoreTypeOK, Contents, InRecord, At, Access
<1>1. ASSUME NEW r \in Runs, Load(r) PROVE TrueRecords'
  <2>1. ReadAll \in Contents /\ \A q \in Runs : ReadAll[q] \subseteq recorded[q]
    BY DEF ReadAll, Nobody
  <2>2. QED
    BY <1>1, <2>1 DEF Load
<1>2. ASSUME NEW r \in Runs, LoadFails(r) PROVE TrueRecords'
  BY <1>2 DEF LoadFails
<1>3. ASSUME NEW r \in Runs, Replay(r) PROVE TrueRecords'
  BY <1>3 DEF Replay, IsReplayed
<1>4. ASSUME NEW r \in Runs, Read(r) PROVE TrueRecords'
  <2>1. ReadAll \in Contents /\ \A q \in Runs : ReadAll[q] \subseteq recorded[q]
    BY DEF ReadAll, Nobody
  <2>2. WithRecord(r) \in Contents
    <3>1. next[r] \in 1 .. Positions
      BY <1>4 DEF Read, CarriesOut
    <3>2. ReadAll[r] \cup {next[r]} \in SUBSET (1 .. Positions)
      BY <2>1, <3>1
    <3>3. QED
      BY <2>1, <3>2 DEF WithRecord
  <2>3. \A q \in Runs : WithRecord(r)[q]
                          \subseteq recorded[q] \cup (IF q = r THEN {next[r]} ELSE {})
    BY <2>1 DEF WithRecord
  <2>4. StoreTypeOK'
    BY <1>4, <2>2 DEF Read
  <2>5. ASSUME NEW p \in Runs, NEW q \in Runs, InRecord(p)'
        PROVE  data'[p][q] \subseteq recorded'[q] \cup (IF q = p THEN {next'[p]} ELSE {})
    BY <1>4, <2>3, <2>5 DEF Read
  <2>6. \A p \in Runs : InRecord(p)' => next'[p] <= Positions
    BY <1>4 DEF Read, CarriesOut
  <2>7. QED
    BY <1>4, <2>4, <2>5, <2>6 DEF Read
<1>5. ASSUME NEW r \in Runs, ReadFails(r) PROVE TrueRecords'
  BY <1>5 DEF ReadFails
<1>6. ASSUME NEW r \in Runs, Truncate(r) PROVE TrueRecords'
  BY <1>6 DEF Truncate, Nobody
<1>7. ASSUME NEW r \in Runs, WriteSome(r) PROVE TrueRecords'
  BY <1>7 DEF WriteSome, Nobody
<1>8. ASSUME NEW r \in Runs, WriteRest(r) PROVE TrueRecords'
  <2>1. next[r] \in 1 .. Positions /\ recorded' \in Contents
    BY <1>8 DEF WriteRest
  <2>2. file' \in [state : {"missing", "empty", "torn", "written"}, content : Contents]
    BY <1>8 DEF WriteRest, AllRecords, Nobody
  <2>3. \A q \in Runs : file'.state = "written" => file'.content[q] \subseteq recorded'[q]
    BY <1>8 DEF WriteRest, AllRecords, Nobody
  <2>4. StoreTypeOK'
    BY <1>8, <2>1, <2>2 DEF WriteRest
  <2>5. QED
    BY <1>8, <2>3, <2>4 DEF WriteRest
<1>9. ASSUME NEW r \in Runs, Die(r) PROVE TrueRecords'
  BY <1>9 DEF Die, Nobody
<1>10. CASE UNCHANGED storeVars
  BY <1>10 DEF storeVars
<1>11. QED
  BY <1>1, <1>2, <1>3, <1>4, <1>5, <1>6, <1>7, <1>8, <1>9, <1>10 DEF StoreNext, Operate

LEMMA TrueRecordsInvariant == StoreSpec => []TrueRecords
BY InitTrueRecords, StepTrueRecords, PTL DEF StoreSpec

LEMMA InitKeptRecords == StoreInit => KeptRecords
BY DEF StoreInit, KeptRecords, ReadAll, Nobody, InRecord

LEMMA StepKeptRecords ==
  TrueRecords /\ (disturbed # {} \/ KeptRecords) /\ [StoreNext]_storeVars
    => (disturbed # {} \/ KeptRecords)'
<1> SUFFICES ASSUME TrueRecords, disturbed # {} \/ KeptRecords,
                    [StoreNext]_storeVars, disturbed' = {}
             PROVE  KeptRecords'
  OBVIOUS
<1>0. disturbed = {}
  BY DEF TrueRecords, StoreTypeOK, storeVars, StoreNext, Operate, Load, LoadFails, Replay,
         Read, ReadFails, Truncate, WriteSome, WriteRest, Die, Access
<1> USE <1>0, FileAssumption
    DEF TrueRecords, KeptRecords, StoreTypeOK, Contents, InRecord, At
<1>1. ASSUME NEW r \in Runs, Load(r) PROVE KeptRecords'
  BY <1>1 DEF Load, Access, ReadAll
<1>2. ASSUME NEW r \in Runs, LoadFails(r) PROVE KeptRecords'
  BY <1>2 DEF LoadFails, ReadAll
<1>3. ASSUME NEW r \in Runs, Replay(r) PROVE KeptRecords'
  BY <1>3 DEF Replay, IsReplayed, ReadAll
<1>4. ASSUME NEW r \in Runs, Read(r) PROVE KeptRecords'
  <2>1. \A q \in Runs : ~InRecord(q)
    BY <1>4 DEF Read, Access
  <2>2. ReadAll \in Contents
    BY DEF ReadAll, Nobody
  <2>3. \A q \in Runs : recorded[q] \subseteq WithRecord(r)[q]
    BY <2>1, <2>2 DEF WithRecord
  <2>4. \A p, q \in Runs : InRecord(p)' => p = r /\ recorded'[q] \subseteq data'[p][q]
    BY <1>4, <2>1, <2>3 DEF Read
  <2>5. ~ \A p \in Runs : ~InRecord(p)'
    BY <1>4 DEF Read
  <2>6. next'[r] \in data'[r][r]
    BY <1>4, <2>2 DEF Read, WithRecord
  <2>7. QED
    BY <1>4, <2>1, <2>4, <2>5, <2>6 DEF Read, CarriesOut, IsReplayed
<1>5. ASSUME NEW r \in Runs, ReadFails(r) PROVE KeptRecords'
  BY <1>5 DEF ReadFails, ReadAll
<1>6. ASSUME NEW r \in Runs, Truncate(r) PROVE KeptRecords'
  BY <1>6 DEF Truncate, ReadAll, Nobody
<1>7. ASSUME NEW r \in Runs, WriteSome(r) PROVE KeptRecords'
  BY <1>7 DEF WriteSome, ReadAll, Nobody
<1>8. ASSUME NEW r \in Runs, WriteRest(r) PROVE KeptRecords'
  <2>1. \A q \in Runs \ {r} : ~InRecord(q)
    BY <1>8 DEF WriteRest
  <2>2. file' = [state |-> "written", content |-> data[r]]
    BY <1>8, <2>1 DEF WriteRest, AllRecords
  <2>3. \A q \in Runs : ~InRecord(q)'
    BY <1>8, <2>1 DEF WriteRest
  <2>4. \A q \in Runs : recorded'[q] \subseteq ReadAll'[q]
    <3>1. next[r] \in data[r][r]
      BY <1>8 DEF WriteRest
    <3>2. QED
      BY <1>8, <2>2, <3>1 DEF WriteRest, ReadAll
  <2>5. QED
    BY <1>8, <2>2, <2>3, <2>4 DEF WriteRest
<1>9. ASSUME NEW r \in Runs, Die(r) PROVE KeptRecords'
  BY <1>9 DEF Die, ReadAll
<1>10. CASE UNCHANGED storeVars
  BY <1>10 DEF storeVars, ReadAll
<1>11. QED
  BY <1>1, <1>2, <1>3, <1>4, <1>5, <1>6, <1>7, <1>8, <1>9, <1>10 DEF StoreNext, Operate

LEMMA KeptRecordsInvariant == StoreSpec => [](disturbed # {} \/ KeptRecords)
BY InitKeptRecords, StepKeptRecords, TrueRecordsInvariant, PTL DEF StoreSpec

(* Every variable of the store and of its runs keeps its type.             *)
THEOREM StoreTypeCorrect == StoreSpec => []StoreTypeOK
<1>1. TrueRecords => StoreTypeOK
  BY DEF TrueRecords
<1>2. QED
  BY <1>1, TrueRecordsInvariant, PTL

(* The file never holds, and load() never returns, a record that its run   *)
(* did not make (checkpoint.py:168-188), with any number of runs writing   *)
(* at once and crashing anywhere, inside record() included.                *)
THEOREM OnlyTrueRecords == StoreSpec => []NothingInvented
<1>1. TrueRecords => NothingInvented
  BY DEF TrueRecords, NothingInvented, ReadAll, Nobody
<1>2. QED
  BY <1>1, TrueRecordsInvariant, PTL

(* As long as no access overlaps a record() and no process dies inside     *)
(* one, the file holds every record accepted from every run, whatever else *)
(* crashes (checkpoint.py:182-188).  The runs file_store_torn and          *)
(* file_store_shared show that the code needs both conditions.             *)
THEOREM RecordsAreKept == StoreSpec => []UndisturbedRecordsSurvive
<1>1. disturbed # {} \/ KeptRecords => UndisturbedRecordsSurvive
  BY DEF KeptRecords, UndisturbedRecordsSurvive, RecordsSurvive
<1>2. QED
  BY <1>1, KeptRecordsInvariant, PTL

(* Under the same conditions no recorded step is carried out again         *)
(* (scheduler.py:111-135).                                                 *)
THEOREM RecordedNotRepeated == StoreSpec => []NoneRepeated
<1>1. TrueRecords /\ (disturbed # {} \/ KeptRecords) => NoneRepeated
  BY FileAssumption DEF TrueRecords, StoreTypeOK, KeptRecords, NoneRepeated,
         CarriesOut, IsReplayed, InRecord
<1>2. QED
  BY <1>1, TrueRecordsInvariant, KeptRecordsInvariant, PTL

==============================================================================
