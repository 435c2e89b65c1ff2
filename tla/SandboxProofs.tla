---------------------------- MODULE SandboxProofs ----------------------------
(***************************************************************************)
(* Proofs about ToolTimeout and Sandbox.  First the invariants of the      *)
(* scheduler's timeout, for every number of retries and whether or not the *)
(* tool has one.  Then, of a sandboxed call: it is a call of ToolTimeout,  *)
(* so what was shown of overlap and of the decision holds for it; and what *)
(* run_sandboxed answers is true, whatever the function does and whenever  *)
(* the limits strike.                                                      *)
(***************************************************************************)
EXTENDS Sandbox, FiniteSetTheorems, TLAPS

-----------------------------------------------------------------------------
(* The scheduler and its worker (ToolTimeout).                             *)

(* The attempts are made one after the other: those before the current one *)
(* are over and did not succeed, those after it have not begun.            *)
InSequence ==
  /\ \A a \in Attempts : a > attempt => call[a] = "none"
  /\ \A a \in Attempts : a < attempt => /\ call[a] \in Finished
                                        /\ verdict[a] \in {"error", "timeout"}

(* What the scheduler's thread knows about the current attempt.            *)
Waiting ==
  /\ caller = "call" => call[attempt] = "none"
  /\ caller = "waiting" => call[attempt] # "none"
  /\ caller = "leaving" => /\ call[attempt] # "none"
                           /\ verdict[attempt] \in {"value", "error", "timeout"}
  /\ caller = "succeeded" => call[attempt] \in Finished /\ verdict[attempt] = "value"
  /\ caller = "failed" => /\ call[attempt] \in Finished
                          /\ verdict[attempt] \in {"error", "timeout"}
                          /\ attempt = Retries

IInv == TypeOK /\ InSequence /\ Waiting

-----------------------------------------------------------------------------

LEMMA AttemptsAreNaturals == Attempts \subseteq Nat /\ 0 \in Attempts
BY RetriesAssumption DEF Attempts

LEMMA InitIInv == Init => IInv
BY AttemptsAreNaturals DEF Init, IInv, TypeOK, InSequence, Waiting, Busy, Finished

LEMMA StepIInv == IInv /\ [Next]_vars => IInv'
<1> SUFFICES ASSUME IInv, [Next]_vars PROVE IInv'
  OBVIOUS
<1> USE AttemptsAreNaturals DEF IInv, TypeOK, InSequence, Waiting, Busy, Finished
<1>1. CASE Submit
  BY <1>1 DEF Submit
<1>2. ASSUME NEW a \in Attempts, Finish(a) PROVE IInv'
  BY <1>2 DEF Finish
<1>3. ASSUME NEW a \in Attempts, Hang(a) PROVE IInv'
  BY <1>3 DEF Hang
<1>4. CASE Result
  BY <1>4 DEF Result
<1>5. CASE Expire
  BY <1>5 DEF Expire
<1>6. CASE Leave
  <2>1. ASSUME MayRetry PROVE attempt + 1 \in Attempts
    BY <2>1, RetriesAssumption DEF MayRetry, Attempts
  <2>2. ~MayRetry => attempt = Retries
    BY RetriesAssumption DEF MayRetry, Attempts
  <2>3. QED
    BY <1>6, <2>1, <2>2 DEF Leave, Verdict, WorkerJoined
<1>7. CASE UNCHANGED vars
  BY <1>7 DEF vars
<1>8. QED
  BY <1>1, <1>2, <1>3, <1>4, <1>5, <1>6, <1>7 DEF Next

LEMMA Invariance == Spec => []IInv
BY InitIInv, StepIInv, PTL DEF Spec

-----------------------------------------------------------------------------

(* Whatever the number of retries, the scheduler's thread, the attempt     *)
(* counter and the records of the attempts keep their types.               *)
THEOREM TypeCorrect == Spec => []TypeOK
<1>1. IInv => TypeOK
  BY DEF IInv
<1>2. QED
  BY <1>1, Invariance, PTL

LEMMA InvariantExcludesOverlap == IInv => NoOverlap
<1> SUFFICES ASSUME IInv PROVE NoOverlap
  OBVIOUS
<1> DEFINE busy == {a \in Attempts : call[a] \in Busy}
<1>1. ASSUME NEW a \in Attempts, call[a] \in Busy PROVE a = attempt
  <2>1. a \in Nat /\ attempt \in Nat
    BY AttemptsAreNaturals DEF IInv, TypeOK
  <2>2. ~(a < attempt) /\ ~(a > attempt)
    BY <1>1 DEF IInv, InSequence, Busy, Finished
  <2>3. QED
    BY <2>1, <2>2
<1>2. Cardinality(busy) <= 1
  <2>1. busy \in SUBSET {attempt}
    BY <1>1
  <2>2. IsFiniteSet({attempt}) /\ Cardinality({attempt}) = 1
    BY FS_Singleton
  <2>3. QED
    BY <2>1, <2>2, FS_Subset
<1>3. Decided => \A a \in Attempts : call[a] \notin Busy
  BY <1>1 DEF IInv, Waiting, Decided, Busy, Finished
<1>4. QED
  BY <1>2, <1>3 DEF NoOverlap

(* Two calls of one step never overlap, and none is running when the step  *)
(* is decided (scheduler.py:325-332): the worker of an attempt that timed  *)
(* out is waited for before the next attempt.                              *)
THEOREM CallsNeverOverlap == Spec => []NoOverlap
BY InvariantExcludesOverlap, Invariance, PTL

LEMMA InvariantDecides == IInv => DecidedByLastAttempt
BY RetriesAssumption DEF IInv, TypeOK, InSequence, Waiting, DecidedByLastAttempt, Attempts

(* A step succeeds only with the value its last attempt returned in time,  *)
(* and fails only after every attempt allowed (scheduler.py:293-332).      *)
THEOREM DecisionIsTimely == Spec => []DecidedByLastAttempt
BY InvariantDecides, Invariance, PTL

-----------------------------------------------------------------------------
(* The sandbox under it.                                                   *)

AllEnds == {"small", "large", "unpicklable", "raises", "denied", "crashes"}
Waits == {"join", "get", "terminated", "killed"}

SandboxTypes ==
  /\ sandboxed \in BOOLEAN /\ limit \in BOOLEAN
  /\ parent \in [Attempts -> {"idle", "done"} \cup Waits]
  /\ child \in [Attempts -> {"none", "running", "flushing", "exited"}]
  /\ ended \in [Attempts -> {"none"} \cup AllEnds]
  /\ atLimit \in [Attempts -> {"none", "running", "flushing"}]
  /\ pipe \in [Attempts -> {"empty", "ok", "egress_denied", "error"}]
  /\ answer \in [Attempts -> {"none", "ok", "egress_denied", "error", "crashed", "timeout",
                              "unstarted"}]
  /\ work \in [Attempts -> Nat]

(* The parent belongs to a call that runs, and has what the process left.  *)
ParentFits(a) ==
  /\ parent[a] # "idle" => sandboxed
  /\ parent[a] \in Waits => call[a] = "running"
  /\ parent[a] = "done" => call[a] \in Finished
  /\ parent[a] = "idle" => child[a] = "none" /\ work[a] = 0 /\ answer[a] = "none"
  /\ parent[a] # "done" => answer[a] = "none"
  /\ parent[a] = "join" => child[a] # "none"
  /\ parent[a] \in {"get", "killed"} => child[a] = "exited"
  /\ parent[a] = "done" => child[a] \in {"none", "exited"}
  /\ parent[a] \in {"terminated", "killed"} => limit /\ atLimit[a] \in {"running", "flushing"}

(* The process, how its function ended, and what came through the pipe.    *)
ChildFits(a) ==
  /\ child[a] \in {"none", "running"} => ended[a] = "none"
  /\ child[a] \in {"none", "running", "flushing"} => pipe[a] = "empty"
  /\ child[a] = "flushing" => ended[a] # "none"
  /\ parent[a] = "get" \/ (parent[a] = "join" /\ child[a] = "exited")
       => ended[a] \notin {"none", "large"} /\ pipe[a] = Put(ended[a])

AnswerFits(a) ==
  /\ answer[a] = "ok" => ended[a] = "small"
  /\ answer[a] = "egress_denied" => ended[a] = "denied"
  /\ answer[a] = "error" => ended[a] = "raises"
  /\ answer[a] = "crashed" => ended[a] \in {"unpicklable", "crashes"}
  /\ answer[a] = "timeout" =>
       limit /\ atLimit[a] \in {"running", "flushing"} /\ child[a] = "exited"
  /\ answer[a] = "unstarted" => work[a] = 0 /\ child[a] = "none"

Fits(a) == ParentFits(a) /\ ChildFits(a) /\ AnswerFits(a)

SInv == IInv /\ SandboxTypes /\ \A a \in Attempts : Fits(a)

-----------------------------------------------------------------------------
LEMMA SandboxStarts == SandboxInit => SInv
<1> SUFFICES ASSUME SandboxInit PROVE SInv
  OBVIOUS
<1>1. IInv
  BY InitIInv DEF SandboxInit
<1>2. SandboxTypes
  BY DEF SandboxInit, SandboxTypes
<1>3. \A a \in Attempts : Fits(a)
  BY DEF SandboxInit, Fits, ParentFits, ChildFits, AnswerFits, Waits
<1>4. QED
  BY <1>1, <1>2, <1>3 DEF SInv

(* A step of the sandbox is a step of the timeout protocol, or none.       *)
LEMMA AnswerEndsCall ==
  ASSUME NEW a \in Attempts, NEW from, NEW outcome, call[a] = "running", Answers(a, from, outcome)
  PROVE  Next
<1>1. Finish(a)
  BY DEF Answers, Finish, Finished
<1>2. QED
  BY <1>1 DEF Next

LEMMA SandboxImplements == SInv /\ [SandboxNext]_allVars => [Next]_vars
<1> SUFFICES ASSUME SInv, [SandboxNext]_allVars PROVE [Next]_vars
  OBVIOUS
<1>1. CASE Scheduling
  BY <1>1 DEF Scheduling, Next
<1>2. ASSUME NEW a \in Attempts, Parent(a) PROVE [Next]_vars
  <2>1. CASE StartFails(a)
    BY <2>1, AnswerEndsCall DEF StartFails
  <2>2. CASE StartProcess(a) \/ Joined(a) \/ Kill(a)
    BY <2>2 DEF StartProcess, Joined, Kill
  <2>3. CASE RaiseTimeout(a) \/ GetOutcome(a) \/ NoOutcome(a)
    <3>1. parent[a] \in Waits
      BY <2>3 DEF RaiseTimeout, GetOutcome, NoOutcome, Answers, Moves, Waits
    <3>2. call[a] = "running"
      BY <3>1 DEF SInv, Fits, ParentFits
    <3>3. QED
      BY <2>3, <3>2, AnswerEndsCall DEF RaiseTimeout, GetOutcome, NoOutcome
  <2>4. QED
    BY <1>2, <2>1, <2>2, <2>3 DEF Parent
<1>3. ASSUME NEW a \in Attempts, Terminate(a) \/ Work(a) \/ EndFunction(a) \/ ExitProcess(a)
      PROVE  [Next]_vars
  BY <1>3 DEF Terminate, Work, EndFunction, ExitProcess, ChildStep
<1>4. CASE UNCHANGED allVars
  BY <1>4 DEF allVars, vars
<1>5. QED
  BY <1>1, <1>2, <1>3, <1>4 DEF SandboxNext

-----------------------------------------------------------------------------
(* A step of the sandbox of one attempt leaves the others as they were.    *)
Others(a) ==
  \A b \in Attempts \ {a} :
    /\ parent'[b] = parent[b] /\ child'[b] = child[b] /\ ended'[b] = ended[b]
    /\ atLimit'[b] = atLimit[b] /\ pipe'[b] = pipe[b] /\ answer'[b] = answer[b]
    /\ work'[b] = work[b] /\ call'[b] = call[b]

LEMMA OneAttempt ==
  ASSUME SInv, NEW a \in Attempts, Others(a), UNCHANGED <<sandboxed, limit>>, Fits(a)'
  PROVE  \A b \in Attempts : Fits(b)'
<1> SUFFICES ASSUME NEW b \in Attempts, b # a PROVE Fits(b)'
  OBVIOUS
<1>1. Fits(b)
  BY DEF SInv
<1>2. QED
  BY <1>1 DEF Others, Fits, ParentFits, ChildFits, AnswerFits

(* What one step of attempt a must show.                                   *)
Keeps(a) == SandboxTypes' /\ Others(a) /\ UNCHANGED <<sandboxed, limit>> /\ Fits(a)'

LEMMA AnswerKeeps ==
  ASSUME SInv, NEW a \in Attempts, call[a] = "running", sandboxed,
         \/ StartFails(a) \/ RaiseTimeout(a) \/ GetOutcome(a) \/ NoOutcome(a)
  PROVE  Keeps(a)
<1> DEFINE outcomes == {"ok", "egress_denied", "error", "crashed", "timeout", "unstarted"}
<1>1. PICK from \in {"idle", "killed", "get"}, outcome \in outcomes :
        /\ Answers(a, from, outcome)
        /\ outcome = "unstarted" <=> from = "idle"
        /\ outcome = "timeout" <=> from = "killed"
        /\ from = "get" => outcome = IF pipe[a] = "empty" THEN "crashed" ELSE pipe[a]
  <2>1. CASE StartFails(a)
    BY <2>1 DEF StartFails
  <2>2. CASE RaiseTimeout(a)
    BY <2>2 DEF RaiseTimeout
  <2>3. CASE GetOutcome(a)
    BY <2>3 DEF GetOutcome, SInv, SandboxTypes
  <2>4. CASE NoOutcome(a)
    BY <2>4 DEF NoOutcome
  <2>5. QED
    BY <2>1, <2>2, <2>3, <2>4
<1>2. /\ parent[a] = from /\ parent' = [parent EXCEPT ![a] = "done"]
      /\ answer' = [answer EXCEPT ![a] = outcome]
      /\ call' = [call EXCEPT ![a] = IF outcome = "ok" THEN "value" ELSE "error"]
      /\ UNCHANGED <<sandboxed, limit, child, ended, atLimit, pipe, work>>
  BY <1>1 DEF Answers, Moves
<1>3. /\ parent \in [Attempts -> {"idle", "done"} \cup Waits] /\ SandboxTypes
      /\ call \in [Attempts -> {"none"} \cup Busy \cup Finished] /\ Fits(a)
  BY DEF SInv, SandboxTypes, IInv, TypeOK
<1>4. Others(a)
  BY <1>2 DEF Others
<1>5. SandboxTypes'
  BY <1>2, <1>3 DEF SandboxTypes
<1>6. parent'[a] = "done" /\ answer'[a] = outcome /\ call'[a] \in Finished
  BY <1>2, <1>3 DEF SandboxTypes, Finished
<1>7. ParentFits(a)' /\ ChildFits(a)'
  BY <1>2, <1>3, <1>6 DEF Fits, ParentFits, ChildFits, Waits
<1>8. AnswerFits(a)'
  <2>1. CASE from = "get"
    <3>1. ended[a] \in {"small", "unpicklable", "raises", "denied", "crashes"}
      BY <1>2, <1>3, <2>1 DEF Fits, ChildFits, SandboxTypes, AllEnds
    <3>2. pipe[a] = Put(ended[a])
      BY <1>2, <1>3, <2>1 DEF Fits, ChildFits
    <3>3. QED
      BY <1>1, <1>2, <1>6, <2>1, <3>1, <3>2 DEF AnswerFits, Put
  <2>2. CASE from = "killed"
    BY <1>1, <1>2, <1>3, <1>6, <2>2 DEF Fits, ParentFits, AnswerFits
  <2>3. CASE from = "idle"
    BY <1>1, <1>2, <1>3, <1>6, <2>3 DEF Fits, ParentFits, AnswerFits
  <2>4. QED
    BY <2>1, <2>2, <2>3
<1>9. QED
  BY <1>2, <1>4, <1>5, <1>7, <1>8 DEF Keeps, Fits

LEMMA WaitKeeps ==
  ASSUME SInv, NEW a \in Attempts,
         StartProcess(a) \/ Joined(a) \/ Terminate(a) \/ Kill(a)
  PROVE  Keeps(a)
<1> USE DEF Moves, Waits, vars
<1>1. SandboxTypes /\ Fits(a)
  BY DEF SInv
<1>2. Others(a) /\ UNCHANGED <<sandboxed, limit, vars>>
  BY <1>1 DEF SandboxTypes, StartProcess, Joined, Terminate, Kill, Kills, Others
<1>3. SandboxTypes'
  <2>1. CASE StartProcess(a) \/ Joined(a)
    BY <1>1, <2>1 DEF SandboxTypes, StartProcess, Joined
  <2>2. CASE Terminate(a) \/ Kill(a)
    BY <1>1, <2>2 DEF SandboxTypes, Terminate, StillAlive, Alive, Kill, Kills
  <2>3. QED
    BY <2>1, <2>2
<1>4. Fits(a)'
  <2> USE DEF Fits, ParentFits, ChildFits, AnswerFits
  <2>1. CASE StartProcess(a)
    BY <1>1, <2>1 DEF SandboxTypes, StartProcess
  <2>2. CASE Joined(a)
    BY <1>1, <2>2 DEF SandboxTypes, Joined, Alive
  <2>3. CASE Terminate(a)
    BY <1>1, <2>3 DEF SandboxTypes, Terminate, StillAlive, Alive
  <2>4. CASE Kill(a)
    BY <1>1, <2>4 DEF SandboxTypes, Kill, Kills
  <2>5. QED
    BY <2>1, <2>2, <2>3, <2>4
<1>5. QED
  BY <1>2, <1>3, <1>4 DEF Keeps

LEMMA ChildKeeps ==
  ASSUME SInv, NEW a \in Attempts, Work(a) \/ EndFunction(a) \/ ExitProcess(a)
  PROVE  Keeps(a)
<1> USE DEF ChildStep, vars
<1>1. SandboxTypes /\ Fits(a)
  BY DEF SInv
<1>2. CASE Work(a)
  <2>1. SandboxTypes' /\ Others(a) /\ UNCHANGED <<sandboxed, limit>>
    BY <1>1, <1>2 DEF SandboxTypes, Work, Others
  <2>2. Fits(a)'
    BY <1>1, <1>2 DEF SandboxTypes, Work, Fits, ParentFits, ChildFits, AnswerFits, Waits
  <2>3. QED
    BY <2>1, <2>2 DEF Keeps
<1>3. CASE EndFunction(a)
  <2>1. PICK end \in Ends, to \in {"flushing", "exited"} :
          /\ ended' = [ended EXCEPT ![a] = end] /\ child' = [child EXCEPT ![a] = to]
          /\ to = "exited" => end = "crashes"
    BY <1>3 DEF EndFunction
  <2>2. /\ child[a] = "running" /\ pipe[a] = "empty"
        /\ UNCHANGED <<vars, sandboxed, limit, parent, atLimit, pipe, answer, work>>
    BY <1>1, <1>3 DEF EndFunction, Fits, ChildFits
  <2>3. end \in AllEnds /\ Put("crashes") = "empty"
    BY SandboxAssumption DEF AllEnds, Put
  <2>4. SandboxTypes' /\ Others(a)
    BY <1>1, <2>1, <2>2, <2>3 DEF SandboxTypes, Others
  <2>5. ended'[a] = end /\ end # "none" /\ child'[a] = to /\ pipe'[a] = "empty"
    BY <1>1, <2>1, <2>2, <2>3 DEF SandboxTypes, AllEnds
  <2>6. parent[a] \in {"join", "terminated"} /\ answer[a] = "none"
    BY <1>1, <2>2 DEF SandboxTypes, Fits, ParentFits, ChildFits, Waits
  <2>7. Fits(a)'
    BY <1>1, <2>1, <2>2, <2>3, <2>5, <2>6 DEF Fits, ParentFits, ChildFits, AnswerFits, Waits
  <2>8. QED
    BY <2>2, <2>4, <2>7 DEF Keeps
<1>4. CASE ExitProcess(a)
  <2>1. /\ child[a] = "flushing" /\ ended[a] \notin {"none", "large"}
        /\ child' = [child EXCEPT ![a] = "exited"]
        /\ pipe' = [pipe EXCEPT ![a] = Put(ended[a])]
        /\ UNCHANGED <<vars, sandboxed, limit, parent, ended, atLimit, answer, work>>
    BY <1>1, <1>4 DEF ExitProcess, Fits, ChildFits
  <2>2. Put(ended[a]) \in {"empty", "ok", "egress_denied", "error"}
    BY DEF Put
  <2>3. SandboxTypes' /\ Others(a)
    BY <1>1, <2>1, <2>2 DEF SandboxTypes, Others
  <2>4. child'[a] = "exited" /\ pipe'[a] = Put(ended[a])
    BY <1>1, <2>1, <2>2 DEF SandboxTypes
  <2>5. parent[a] \in {"join", "terminated"} /\ answer[a] = "none"
    BY <1>1, <2>1 DEF SandboxTypes, Fits, ParentFits, ChildFits, Waits
  <2>6. Fits(a)'
    BY <1>1, <2>1, <2>4, <2>5 DEF Fits, ParentFits, ChildFits, AnswerFits, Waits
  <2>7. QED
    BY <2>1, <2>3, <2>6 DEF Keeps
<1>5. QED
  BY <1>2, <1>3, <1>4

(* The scheduler's side: a submitted call has no parent yet, and a call    *)
(* that ends by itself has no sandbox.                                     *)
LEMMA SchedulingKeeps ==
  ASSUME SInv, Scheduling
  PROVE  SandboxTypes' /\ \A b \in Attempts : Fits(b)'
<1>1. UNCHANGED sandboxVars
  BY DEF Scheduling
<1>2. SandboxTypes'
  BY <1>1 DEF SInv, SandboxTypes, sandboxVars
<1>3. ASSUME NEW b \in Attempts
      PROVE  /\ parent[b] \in Waits => call'[b] = "running"
             /\ parent[b] = "done" => call'[b] \in Finished
  <2>1. /\ parent[b] \in Waits => call[b] = "running" /\ sandboxed
        /\ parent[b] = "done" => call[b] \in Finished /\ sandboxed
    BY DEF SInv, Fits, ParentFits, Waits
  <2>2. call \in [Attempts -> {"none"} \cup Busy \cup Finished] /\ attempt \in Attempts
    BY DEF SInv, IInv, TypeOK
  <2>3. CASE Submit
    <3>1. call[attempt] = "none" /\ call' = [call EXCEPT ![attempt] = "running"]
      BY <2>3 DEF Submit, SInv, IInv, Waiting
    <3>2. QED
      BY <2>1, <2>2, <3>1 DEF Finished
  <2>4. CASE Result \/ Expire \/ Leave
    BY <2>1, <2>4 DEF Result, Expire, Leave
  <2>5. CASE ~sandboxed
    BY <2>1, <2>5
  <2>6. QED
    BY <2>3, <2>4, <2>5 DEF Scheduling
<1>4. ASSUME NEW b \in Attempts PROVE Fits(b)'
  BY <1>1, <1>3 DEF SInv, Fits, ParentFits, ChildFits, AnswerFits, sandboxVars
<1>5. QED
  BY <1>2, <1>4

LEMMA SandboxStep == SInv /\ [SandboxNext]_allVars => SInv'
<1> SUFFICES ASSUME SInv, [SandboxNext]_allVars PROVE SInv'
  OBVIOUS
<1>1. IInv'
  BY SandboxImplements, StepIInv DEF SInv
<1>2. CASE Scheduling
  BY <1>1, <1>2, SchedulingKeeps DEF SInv
<1>3. ASSUME NEW a \in Attempts,
             Parent(a) \/ Terminate(a) \/ Work(a) \/ EndFunction(a) \/ ExitProcess(a)
      PROVE  SInv'
  <2>1. Keeps(a)
    <3>1. CASE StartFails(a) \/ RaiseTimeout(a) \/ GetOutcome(a) \/ NoOutcome(a)
      <4>1. call[a] = "running" /\ sandboxed
        BY <3>1 DEF StartFails, RaiseTimeout, GetOutcome, NoOutcome, Answers, Moves,
                    SInv, Fits, ParentFits, Waits
      <4>2. QED
        BY <3>1, <4>1, AnswerKeeps
    <3>2. CASE StartProcess(a) \/ Joined(a) \/ Terminate(a) \/ Kill(a)
      BY <3>2, WaitKeeps
    <3>3. CASE Work(a) \/ EndFunction(a) \/ ExitProcess(a)
      BY <3>3, ChildKeeps
    <3>4. QED
      BY <1>3, <3>1, <3>2, <3>3 DEF Parent
  <2>2. \A b \in Attempts : Fits(b)'
    BY <2>1, OneAttempt DEF Keeps
  <2>3. QED
    BY <1>1, <2>1, <2>2 DEF SInv, Keeps
<1>4. CASE UNCHANGED allVars
  <2>1. UNCHANGED <<sandboxed, limit, parent, child, ended, atLimit, pipe, answer, work, call>>
    BY <1>4 DEF allVars, sandboxVars, vars
  <2>2. SandboxTypes'
    BY <2>1 DEF SInv, SandboxTypes
  <2>3. \A a \in Attempts : Fits(a)'
    BY <2>1 DEF SInv, Fits, ParentFits, ChildFits, AnswerFits
  <2>4. QED
    BY <1>1, <2>2, <2>3 DEF SInv
<1>5. QED
  BY <1>2, <1>3, <1>4 DEF SandboxNext

LEMMA SandboxInvariance == SandboxSpec => []SInv
BY SandboxStarts, SandboxStep, PTL DEF SandboxSpec

-----------------------------------------------------------------------------
(* With a sandbox or without one, the calls of a step are calls of the     *)
(* timeout protocol: the sandbox adds no step that the scheduler could     *)
(* tell from a function that returns or raises (sandbox.py:179-227).       *)
THEOREM ImplementsTimeout == SandboxSpec => Init /\ [][Next]_vars
<1>1. SandboxInit => Init
  BY DEF SandboxInit
<1>2. QED
  BY <1>1, SandboxImplements, SandboxInvariance, PTL DEF SandboxSpec

(* Two calls of a sandboxed step never overlap either, and none runs when  *)
(* the step is decided (scheduler.py:325-332).                             *)
THEOREM SandboxedCallsNeverOverlap == SandboxSpec => []NoOverlap
<1>1. SInv => NoOverlap
  BY InvariantExcludesOverlap DEF SInv
<1>2. QED
  BY <1>1, SandboxInvariance, PTL

(* A sandboxed step succeeds only with a value that came in time and fails *)
(* only after every attempt it may make (scheduler.py:295-319, 329-332).   *)
THEOREM SandboxedDecisionIsTimely == SandboxSpec => []DecidedByLastAttempt
<1>1. SInv => DecidedByLastAttempt
  BY InvariantDecides DEF SInv
<1>2. QED
  BY <1>1, SandboxInvariance, PTL

(* Every answer of run_sandboxed is true of the function's call: a value   *)
(* is what it returned, a denial, an exception or a crash happened, and a  *)
(* timeout is of a process that had not exited when max_runtime was over   *)
(* and has now, whatever the function does and for any number of attempts  *)
(* (sandbox.py:179-227).                                                   *)
THEOREM AnswersTellTheTruth == SandboxSpec => []AnswersAreTrue
<1>1. SInv => AnswersAreTrue
  BY DEF SInv, Fits, AnswerFits, AnswersAreTrue
<1>2. QED
  BY <1>1, SandboxInvariance, PTL

(* Once the caller has its answer, or the next attempt has begun, the      *)
(* function does nothing more: what terminate() spares, kill() ends before *)
(* the timeout is raised (sandbox.py:193-203).                             *)
THEOREM NothingRunsOn == SandboxSpec => NothingAfterAnswer
<1>1. ASSUME SInv, [SandboxNext]_allVars, NEW a \in Attempts, work'[a] # work[a]
      PROVE  call[a] = "running" /\ attempt = a
  <2>1. Work(a)
    <3>1. ASSUME NEW b \in Attempts,
                 Parent(b) \/ Terminate(b) \/ EndFunction(b) \/ ExitProcess(b)
          PROVE  FALSE
      BY <1>1, <3>1 DEF Parent, StartFails, StartProcess, Joined, Kill, RaiseTimeout, GetOutcome,
         NoOutcome, Answers, Terminate, EndFunction, ExitProcess
    <3>2. ASSUME NEW b \in Attempts, Work(b), b # a PROVE FALSE
      BY <1>1, <3>2 DEF Work, SInv, SandboxTypes
    <3>3. QED
      BY <1>1, <3>1, <3>2 DEF SandboxNext, Scheduling, sandboxVars, allVars
  <2>2. child[a] = "running" /\ Fits(a)
    BY <1>1, <2>1 DEF Work, ChildStep, SInv
  <2>3. parent[a] \in Waits /\ call[a] = "running"
    BY <1>1, <2>2 DEF SInv, SandboxTypes, Fits, ParentFits, Waits
  <2>4. attempt = a
    BY <1>1, <2>3, AttemptsAreNaturals DEF SInv, IInv, TypeOK, InSequence, Finished
  <2>5. QED
    BY <2>3, <2>4
<1>2. SInv /\ [SandboxNext]_allVars =>
        [\A a \in Attempts : work'[a] # work[a] => call[a] = "running" /\ attempt = a]_allVars
  BY <1>1
<1>3. QED
  BY <1>2, SandboxInvariance, PTL DEF SandboxSpec, NothingAfterAnswer
==============================================================================
