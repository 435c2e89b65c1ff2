------------------------------ MODULE DurableRun ------------------------------
(***************************************************************************)
(* Workflow.run(checkpoint_store=..., run_id=...) called again and again   *)
(* with the same store, run_id and workflow: the scheduler of module       *)
(* Scheduler, whose process may crash anywhere and be started again.  Only *)
(* the store outlives a crash; how the file keeps it is the subject of     *)
(* module FileCheckpointStore.                                             *)
(***************************************************************************)
EXTENDS Scheduler

CONSTANT MaxRestarts         \* bound: crashes, and reruns of a failed run

ASSUME RestartAssumption == MaxRestarts \in Nat

VARIABLES
  restarts,
  effects,        \* by entry: how often its plain step was carried out
  firstOutput     \* by entry: the output of the execution that was recorded

history == <<restarts, effects, firstOutput>>
durableVars == <<vars, history>>

DInit ==
  /\ Init
  /\ restarts = 0
  /\ effects = [e \in DOMAIN steps |-> 0]
  /\ firstOutput = << >>

(* Thread s has just returned from _run_tool with success.                 *)
JustSucceeded == {s \in DOMAIN task : task[s].pc # "done" /\ task'[s].status = "success"}

DStep ==
  /\ Step
  /\ effects' = [e \in DOMAIN steps |->
                   effects[e] + Cardinality({s \in JustSucceeded : task[s].entry = e})]
  /\ firstOutput' = IF pc = "step" /\ pc' = "next" /\ entry \notin DOMAIN firstOutput
                   THEN Put(firstOutput, entry, task[nextStepId - 1].output) ELSE firstOutput
  /\ UNCHANGED restarts

(* A bug the checks must notice: a resumed run does not look at its store. *)
NothingLoaded == << >>

Loaded == store

(* The next Workflow.run(): a new Scheduler, Journal and Metrics, no       *)
(* bindings, and the records load() finds.                                 *)
StartOver ==
  /\ pc' = "next" /\ entry' = 1 /\ nextStepId' = 1 /\ overall' = "success"
  /\ task' = << >> /\ ballot' = << >> /\ agreed' = Nothing /\ groupOutputs' = << >>
  /\ cost' = 0 /\ lastCost' = [t \in Tools |-> Nothing]
  /\ bindings' = << >>
  /\ checkpoint' = Loaded
  /\ journal' = EmptyJournal /\ metrics' = EmptyMetrics
  /\ UNCHANGED <<steps, store>>

Restart ==
  /\ restarts < MaxRestarts
  /\ restarts' = restarts + 1
  /\ StartOver
  /\ UNCHANGED <<effects, firstOutput>>

(* The process dies: whatever was only in memory is gone.                  *)
Crash == ~Ended /\ Restart

(* A run that failed is run again.                                         *)
Rerun == Ended /\ journal.status # "success" /\ Restart

DNext == DStep \/ Crash \/ Rerun

DSpec == DInit /\ [][DNext]_durableVars

-----------------------------------------------------------------------------
(* checkpoint.py, points 1 and 2: a plain step that is in the store is     *)
(* never carried out again, in this run or in a resumed one; its record    *)
(* does not change either.                                                 *)
RecordedStepsRunOnce ==
  [][\A e \in DOMAIN store :
       /\ e \in DOMAIN store' /\ store'[e] = store[e]
       /\ (e \in DOMAIN steps /\ steps[e].kind = "step") => effects'[e] = effects[e]]_durableVars

(* scheduler.py:112-141: one run carries a plain step out at most once, so *)
(* there are no more executions of it than runs; and a step recorded       *)
(* without any restart was carried out exactly once.                       *)
EffectsBounded ==
  \A e \in DOMAIN steps :
    steps[e].kind = "step" =>
      /\ effects[e] <= 1 + restarts
      /\ (e \in DOMAIN store /\ restarts = 0) => effects[e] = 1

(* A plain step that binds a name nothing later rebinds, replayed from an  *)
(* earlier run's record.                                                   *)
ReplayedAndBound(e) ==
  /\ e < entry /\ e \in DOMAIN checkpoint /\ steps[e].bind # Nothing
  /\ \A later \in e + 1 .. entry - 1 : steps[later].bind # steps[e].bind

(* scheduler.py:126-134, checkpoint.py:157-188: however many runs crash or *)
(* fail, a name bound by a plain step that is replayed holds what JSON     *)
(* makes of the output of the execution that was recorded: never another   *)
(* execution's, and never another entry's.                                 *)
ReplayBindsRecorded ==
  pc # "raised" =>
    \A e \in DOMAIN firstOutput :
      ReplayedAndBound(e) => bindings[steps[e].bind] = ReadBack[firstOutput[e]]

(* scheduler.py:129-133, as its comment has it: a binding resolves in      *)
(* every resumed run to what it was when the step was carried out.         *)
ReplayBindsSame ==
  pc # "raised" =>
    \A e \in DOMAIN firstOutput :
      ReplayedAndBound(e) => bindings[steps[e].bind] = firstOutput[e]

==============================================================================
