------------------------------- MODULE Workflow -------------------------------
(***************************************************************************)
(* aircore/workflow.py: the builder methods of a Workflow and its          *)
(* pre-flight checks.  An executable is [name, tool, reads, tools]: whether*)
(* it is a tool, the bindings that its prompt names, and the tools that    *)
(* its own loop may call.  An entry is a pair of StepEntry in one record.  *)
(***************************************************************************)
EXTENDS Naturals, Sequences

CONSTANT Nothing

NewWorkflow(policy, memory) == [policy |-> policy, memory |-> memory, steps |-> << >>]

NewEntry(kind, executables, as) ==
  [kind |-> kind, executables |-> executables, as |-> as, source |-> 0,
   strategy |-> Nothing, fallback |-> {}]

Added(workflow, entry) == [workflow EXCEPT !.steps = Append(@, entry)]

Step(workflow, executable, as) == Added(workflow, NewEntry("step", <<executable>>, as))

Parallel(workflow, members) == Added(workflow, NewEntry("parallel", members, Nothing))

(* ParallelResults.consensus: what the group at `source` has put out is    *)
(* reduced, and no voter runs again; fallback is a set of none or one.     *)
Reuse(workflow, source, strategy, fallback, as) ==
  Added(workflow, [NewEntry("consensus", workflow.steps[source].executables, as) EXCEPT
                     !.source = source, !.strategy = strategy, !.fallback = fallback])

(* _validate, for steps without agents and runs without a checkpoint store.*)
Refuses(workflow, callback) ==
  \/ workflow.policy.approval_for # {} /\ ~callback
  \/ /\ workflow.policy.max_parallel # Nothing
     /\ \E i \in DOMAIN workflow.steps :
          /\ workflow.steps[i].kind # "step"
          /\ Len(workflow.steps[i].executables) > workflow.policy.max_parallel
==============================================================================
