------------------------------- MODULE Journal -------------------------------
(***************************************************************************)
(* aircore/journal.py: the record of one run, built only from the events   *)
(* the scheduler emits.  Each operator is one handler: it takes the        *)
(* journal before the event and returns the journal after it.  EventBus    *)
(* runs the handlers of one event under one lock (events.py:200-208), so a *)
(* scheduler action that emits an event applies its handler atomically.    *)
(* Timestamps, durations and the wording of errors are left out.           *)
(***************************************************************************)
EXTENDS Naturals, Sequences

CONSTANT Nothing             \* Python's None

NewStep(tool, group, replayed) ==
  [tool |-> tool, group |-> group, replayed |-> replayed, status |-> Nothing,
   output |-> Nothing, error |-> Nothing, retries |-> 0, usage |-> Nothing,
   metadata |-> Nothing, approved |-> Nothing]

EmptyJournal == [steps |-> << >>, order |-> << >>, groups |-> << >>, status |-> Nothing]

(* A dict assignment d[k] = v.                                             *)
Put(d, k, v) == [x \in DOMAIN d \cup {k} |-> IF x = k THEN v ELSE d[x]]

(* _steps_by_id[id] = record; steps.append(record); the group's step_ids.  *)
OnStepStarted(j, s, tool, group, replayed) ==
  [steps  |-> Put(j.steps, s, NewStep(tool, group, replayed)),
   order  |-> Append(j.order, s),
   groups |-> IF group = Nothing THEN j.groups
              ELSE [j.groups EXCEPT ![group].stepIds = Append(@, s)],
   status |-> j.status]

OnToolSucceeded(j, s, output) == [j EXCEPT !.steps[s].output = output]

OnToolFailed(j, s, error) == [j EXCEPT !.steps[s].error = error]

OnStepFinished(j, s, status) == [j EXCEPT !.steps[s].status = status]

OnRetryAttempted(j, s, attempt) == [j EXCEPT !.steps[s].retries = attempt]

OnUsageReported(j, s, usage) == [j EXCEPT !.steps[s].usage = usage]

OnStrategyMetadataReported(j, s, metadata) == [j EXCEPT !.steps[s].metadata = metadata]

OnApprovalDecided(j, s, approved) == [j EXCEPT !.steps[s].approved = approved]

OnGroupStarted(j, group, kind) ==
  [j EXCEPT !.groups = Put(j.groups, group,
                           [kind |-> kind, stepIds |-> << >>, status |-> Nothing])]

OnGroupFinished(j, group, status) == [j EXCEPT !.groups[group].status = status]

OnWorkflowFinished(j, status) == [j EXCEPT !.status = status]

==============================================================================
