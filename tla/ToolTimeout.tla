----------------------------- MODULE ToolTimeout -----------------------------
(***************************************************************************)
(* Scheduler._execute_with_timeout inside Scheduler._call_with_retries: a  *)
(* thread of the scheduler runs each attempt of one tool in a pool of one  *)
(* worker, waits for it no longer than the timeout, and leaves the pool.   *)
(* The `with` block around the pool waits for the worker whatever the      *)
(* outcome (ThreadPoolExecutor.__exit__ is shutdown(wait=True)).           *)
(***************************************************************************)
EXTENDS Naturals, FiniteSets

CONSTANTS
  Retries,        \* tool.retries of an idempotent tool, 0 for any other
  Timeout         \* whether tool.timeout is set

ASSUME RetriesAssumption == Retries \in Nat
ASSUME TimeoutAssumption == Timeout \in BOOLEAN

Attempts == 0 .. Retries

VARIABLES
  caller,         \* the scheduler's thread
  attempt,        \* `attempt`, 0 for the first call
  call,           \* [Attempts -> ...]: what the worker of each attempt is doing
  verdict         \* [Attempts -> ...]: how future.result(timeout) ended

vars == <<caller, attempt, call, verdict>>

Finished == {"value", "error"}
Busy == {"running", "hung"}

Init ==
  /\ caller = "call" /\ attempt = 0
  /\ call = [a \in Attempts |-> "none"]
  /\ verdict = [a \in Attempts |-> "none"]

(* pool.submit(tool.execute), then future.result(timeout).                 *)
Submit ==
  /\ caller = "call"
  /\ caller' = "waiting"
  /\ call' = [call EXCEPT ![attempt] = "running"]
  /\ UNCHANGED <<attempt, verdict>>

(* The tool's function returns a value or raises.                          *)
Finish(a) ==
  /\ call[a] = "running"
  /\ \E outcome \in Finished : call' = [call EXCEPT ![a] = outcome]
  /\ UNCHANGED <<caller, attempt, verdict>>

(* A non-cooperative call: nothing the scheduler does makes it end.        *)
Hang(a) ==
  /\ call[a] = "running"
  /\ call' = [call EXCEPT ![a] = "hung"]
  /\ UNCHANGED <<caller, attempt, verdict>>

Result ==
  /\ caller = "waiting" /\ call[attempt] \in Finished
  /\ caller' = "leaving"
  /\ verdict' = [verdict EXCEPT ![attempt] = call[attempt]]
  /\ UNCHANGED <<attempt, call>>

(* A bug the checks must notice: a late value replaces the timeout.        *)
LateVerdict == IF call[attempt] = "value" THEN "value" ELSE verdict[attempt]

Verdict == verdict[attempt]

(* result() looks at the future once more when its wait has timed out.     *)
Expire ==
  /\ caller = "waiting" /\ Timeout /\ call[attempt] \in Busy
  /\ caller' = "leaving"
  /\ verdict' = [verdict EXCEPT ![attempt] = "timeout"]
  /\ UNCHANGED <<attempt, call>>

(* A bug the checks must notice: only a value lets the pool be left.       *)
ValueJoined == call[attempt] = "value"

(* A bug the checks must notice: the pool is left while its worker runs.   *)
LeaveAtOnce == TRUE

WorkerJoined == call[attempt] \in Finished

MayRetry == attempt < Retries

(* The end of the `with`, then the except clause of _call_with_retries.    *)
Leave ==
  /\ caller = "leaving" /\ WorkerJoined
  /\ \/ Verdict = "value" /\ caller' = "succeeded" /\ UNCHANGED attempt
     \/ Verdict # "value" /\ MayRetry /\ caller' = "call" /\ attempt' = attempt + 1
     \/ Verdict # "value" /\ ~MayRetry /\ caller' = "failed" /\ UNCHANGED attempt
  /\ UNCHANGED <<call, verdict>>

Decided == caller \in {"succeeded", "failed"}

Next == \/ Submit \/ Result \/ Expire \/ Leave
        \/ \E a \in Attempts : Finish(a) \/ Hang(a)

(* The scheduler's thread and its clock are fair.  A call that does not    *)
(* hang ends; nothing makes a hung call end.                               *)
Fairness == WF_vars(Submit \/ Result \/ Leave) /\ WF_vars(Expire)
            /\ \A a \in Attempts : WF_vars(Finish(a))

Spec == Init /\ [][Next]_vars /\ Fairness

-----------------------------------------------------------------------------
(* The threads' positions and the attempts' records have the right types.  *)
TypeOK ==
  /\ caller \in {"call", "waiting", "leaving", "succeeded", "failed"}
  /\ attempt \in Attempts
  /\ call \in [Attempts -> {"none"} \cup Busy \cup Finished]
  /\ verdict \in [Attempts -> {"none", "timeout"} \cup Finished]

(* scheduler.py:325-332: two calls of one step never overlap, not even     *)
(* when the first one has timed out, and none is running when the step is  *)
(* decided.                                                                *)
NoOverlap ==
  /\ Cardinality({a \in Attempts : call[a] \in Busy}) <= 1
  /\ Decided => \A a \in Attempts : call[a] \notin Busy

(* scheduler.py:328-332: the step succeeds only with a value that came in  *)
(* time, from its last attempt; every attempt before it failed or timed    *)
(* out; it fails only when every attempt allowed has been made.            *)
DecidedByLastAttempt ==
  /\ caller = "succeeded" => verdict[attempt] = "value"
  /\ \A a \in 0 .. attempt - 1 : verdict[a] \in {"error", "timeout"}
  /\ caller = "failed" => attempt = Retries /\ verdict[attempt] \in {"error", "timeout"}

(* scheduler.py:293-332: late answers, timeouts and retries included, a    *)
(* step is decided unless one of its calls never returns.                  *)
StepDecided == <>(Decided \/ \E a \in Attempts : call[a] = "hung")

(* executable.py:41-45, README.md: what ToolTimeout says of itself: the    *)
(* scheduler stops waiting for a call that does not return in time, and    *)
(* goes on while the call keeps running.                                   *)
StopsWaiting == Timeout => <>Decided

==============================================================================
