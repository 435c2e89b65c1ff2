------------------------------- MODULE Sandbox -------------------------------
(***************************************************************************)
(* aircore/sandbox.py under the scheduler's timeout: the worker thread of  *)
(* each attempt (ToolTimeout) calls Tool.execute, which hands a sandboxed  *)
(* function to run_sandboxed.  That spawns a process, joins it, kills it   *)
(* if it outlives max_runtime, and only then reads the result queue.  The  *)
(* process outlives its function: it exits when its queue's feeder thread  *)
(* has written all of the result to a pipe that nobody reads until the     *)
(* join is over.                                                           *)
(***************************************************************************)
EXTENDS ToolTimeout

CONSTANTS
  Ends,           \* how the tool's function may end
  MaxWork         \* bound on the effects one call of the function has

ASSUME SandboxAssumption ==
  /\ Ends \subseteq {"small", "large", "unpicklable", "raises", "denied", "crashes"}
  /\ MaxWork \in Nat

VARIABLES
  sandboxed,      \* whether the tool has a sandbox
  limit,          \* whether its sandbox has a max_runtime
  parent,         \* [Attempts -> ...]: where run_sandboxed is
  child,          \* [Attempts -> ...]: the process
  ended,          \* [Attempts -> ...]: how the function ended
  atLimit,        \* [Attempts -> ...]: the process when max_runtime had passed
  pipe,           \* [Attempts -> ...]: the outcome that can be read
  answer,         \* [Attempts -> ...]: what run_sandboxed returned or raised
  work            \* [Attempts -> Nat]: effects of the function so far

sandboxVars == <<sandboxed, limit, parent, child, ended, atLimit, pipe, answer, work>>
allVars == <<vars, sandboxVars>>

SandboxInit ==
  /\ Init
  /\ sandboxed \in BOOLEAN /\ limit \in BOOLEAN
  /\ parent = [a \in Attempts |-> "idle"]
  /\ child = [a \in Attempts |-> "none"]
  /\ ended = [a \in Attempts |-> "none"]
  /\ atLimit = [a \in Attempts |-> "none"]
  /\ pipe = [a \in Attempts |-> "empty"]
  /\ answer = [a \in Attempts |-> "none"]
  /\ work = [a \in Attempts |-> 0]

Moves(a, from, to) == parent[a] = from /\ parent' = [parent EXCEPT ![a] = to]

Alive(a) == child[a] \in {"running", "flushing"}

(* run_sandboxed leaves: the worker's call returns a value or raises.      *)
Answers(a, from, outcome) ==
  /\ Moves(a, from, "done")
  /\ answer' = [answer EXCEPT ![a] = outcome]
  /\ call' = [call EXCEPT ![a] = IF outcome = "ok" THEN "value" ELSE "error"]
  /\ UNCHANGED <<caller, attempt, verdict, sandboxed, limit, child, ended, atLimit, pipe, work>>

-----------------------------------------------------------------------------
(* The parent: run_sandboxed on the worker thread of attempt a.            *)

(* process.start() pickles the function; a closure raises here.            *)
StartFails(a) ==
  /\ sandboxed /\ call[a] = "running"
  /\ Answers(a, "idle", "unstarted")

StartProcess(a) ==
  /\ sandboxed /\ call[a] = "running"
  /\ Moves(a, "idle", "join")
  /\ child' = [child EXCEPT ![a] = "running"]
  /\ UNCHANGED <<vars, sandboxed, limit, ended, atLimit, pipe, answer, work>>

(* process.join(timeout=max_runtime) sees the process exit.                *)
Joined(a) ==
  /\ ~Alive(a) /\ Moves(a, "join", "get")
  /\ UNCHANGED <<vars, sandboxed, limit, child, ended, atLimit, pipe, answer, work>>

(* A bug the checks must notice: the timeout is taken from the clock.      *)
AliveByClock(a) == TRUE

StillAlive(a) == Alive(a)

(* max_runtime has passed and is_alive(): terminate().  A function that    *)
(* handles SIGTERM goes on.                                                *)
Terminate(a) ==
  /\ limit /\ StillAlive(a) /\ Moves(a, "join", "terminated")
  /\ child' \in {child, [child EXCEPT ![a] = "exited"]}
  /\ atLimit' = [atLimit EXCEPT ![a] = child[a]]
  /\ UNCHANGED <<vars, sandboxed, limit, ended, pipe, answer, work>>

(* A bug the checks must notice: SIGTERM is thought to be enough.          *)
Spares(a) == child

Kills(a) == [child EXCEPT ![a] = "exited"]

(* join(1.0); if is_alive(): kill(), join(1.0).                            *)
Kill(a) ==
  /\ Moves(a, "terminated", "killed")
  /\ child' = Kills(a)
  /\ UNCHANGED <<vars, sandboxed, limit, ended, atLimit, pipe, answer, work>>

RaiseTimeout(a) == Answers(a, "killed", "timeout")

(* result_queue.get(timeout=2.0), and queue.Empty.                         *)
GetOutcome(a) == pipe[a] # "empty" /\ Answers(a, "get", pipe[a])

NoOutcome(a) == pipe[a] = "empty" /\ Answers(a, "get", "crashed")

-----------------------------------------------------------------------------
(* The child: _child_main, with the limits and the allowlist in place.     *)

ChildStep(a) ==
  /\ child[a] = "running"
  /\ UNCHANGED <<vars, sandboxed, limit, parent, atLimit, answer>>

Work(a) ==
  /\ ChildStep(a) /\ work[a] < MaxWork
  /\ work' = [work EXCEPT ![a] = @ + 1]
  /\ UNCHANGED <<child, ended, pipe>>

(* What reaches the queue: EgressDenied and Exception are caught and put;  *)
(* a value that cannot be pickled is lost in the feeder thread; a crash    *)
(* (an OOM kill, os._exit, SystemExit) puts nothing.                       *)
Put(end) == CASE end \in {"small", "large"} -> "ok"
              [] end = "denied" -> "egress_denied"
              [] end = "raises" -> "error"
              [] OTHER -> "empty"

(* The function is over, and the process goes on to flush its queue and    *)
(* exit: it exits by itself unless it was killed or left by os._exit.      *)
EndFunction(a) ==
  /\ ChildStep(a)
  /\ \E end \in Ends :
       /\ ended' = [ended EXCEPT ![a] = end]
       /\ \/ child' = [child EXCEPT ![a] = "flushing"]
          \/ end = "crashes" /\ child' = [child EXCEPT ![a] = "exited"]
  /\ UNCHANGED <<pipe, work>>

(* The process exits: all that the pipe takes is in it.  A large result is *)
(* more than it takes while nobody reads, and keeps the process there.     *)
ExitProcess(a) ==
  /\ child[a] = "flushing" /\ ended[a] # "large"
  /\ child' = [child EXCEPT ![a] = "exited"]
  /\ pipe' = [pipe EXCEPT ![a] = Put(ended[a])]
  /\ UNCHANGED <<vars, sandboxed, limit, parent, ended, atLimit, answer, work>>

-----------------------------------------------------------------------------
Parent(a) == \/ StartFails(a) \/ StartProcess(a) \/ Joined(a) \/ Kill(a)
             \/ RaiseTimeout(a) \/ GetOutcome(a) \/ NoOutcome(a)

(* The scheduler's side, and calls of a tool that has no sandbox.          *)
Scheduling ==
  /\ \/ Submit \/ Result \/ Expire \/ Leave
     \/ ~sandboxed /\ \E a \in Attempts : Finish(a) \/ Hang(a)
  /\ UNCHANGED sandboxVars

SandboxNext ==
  \/ Scheduling
  \/ \E a \in Attempts : Parent(a) \/ Terminate(a) \/ Work(a) \/ EndFunction(a)
                          \/ ExitProcess(a)

(* The threads and the clocks are fair, and a plain call that does not hang *)
(* ends; a function in a process owes nothing.                             *)
SandboxFairness ==
  /\ WF_allVars(Scheduling /\ (Submit \/ Result \/ Leave))
  /\ WF_allVars(Scheduling /\ Expire)
  /\ \A a \in Attempts : WF_allVars(Scheduling /\ Finish(a))
  /\ \A a \in Attempts : WF_allVars(Parent(a)) /\ WF_allVars(Terminate(a))

SandboxSpec == SandboxInit /\ [][SandboxNext]_allVars /\ SandboxFairness

-----------------------------------------------------------------------------
(* sandbox.py:97-105, 179-227: every answer is true of the function's     *)
(* call: what it says about a value, a denial, an exception or a crash     *)
(* happened; and a timeout is said only of a process that had not exited   *)
(* when max_runtime was over, and only once it is gone.                    *)
AnswersAreTrue ==
  \A a \in Attempts :
    /\ answer[a] = "ok" => ended[a] = "small"
    /\ answer[a] = "egress_denied" => ended[a] = "denied"
    /\ answer[a] = "error" => ended[a] = "raises"
    /\ answer[a] = "crashed" => ended[a] \in {"unpicklable", "crashes"}
    /\ answer[a] = "timeout" =>
         limit /\ atLimit[a] \in {"running", "flushing"} /\ child[a] = "exited"
    /\ answer[a] = "unstarted" => work[a] = 0

(* sandbox.py:12-22: "a genuine forced termination": once the caller has   *)
(* its answer, or the next attempt has begun, the function does nothing.   *)
NothingAfterAnswer ==
  [][\A a \in Attempts : work'[a] # work[a] => call[a] = "running" /\ attempt = a]_allVars

(* executable.py:41-48: the step is decided, unless the tool has a sandbox  *)
(* without a max_runtime, or has none and one of its calls hangs: a         *)
(* max_runtime ends every call, whatever the function does.                 *)
ForcedEnd ==
  (sandboxed => limit) => <>(Decided \/ \E a \in Attempts : ~sandboxed /\ call[a] = "hung")
==============================================================================
