------------------------------ MODULE McpClient ------------------------------
(***************************************************************************)
(* airpy/mcp_tools.py, StdioMCPClient: one task on the event loop of a     *)
(* thread of its own holds the connection to a server process and serves,  *)
(* one at a time, the calls that the threads of the tools put in a queue   *)
(* and wait for.  The thread with the `with` block starts and stops it.    *)
(* The server is external: it answers, fails, stays silent, or its         *)
(* connection breaks, which ends the task.                                 *)
(*                                                                         *)
(* No name here is one of Session, so that SessionProofs may extend both.  *)
(***************************************************************************)
EXTENDS Naturals, Sequences

CONSTANTS
  Calls,          \* list_tools() and call_tool() calls, each by a thread
  Stop            \* the None that __exit__ puts in the queue

ASSUME StopAssumption == Stop \notin Calls

VARIABLES
  main,           \* the thread with the `with` block
  ready,          \* the future that __enter__ waits for
  task,           \* _session_task
  serving,        \* the item the task has taken last
  loop,           \* whether the event loop runs
  queue,          \* _commands
  call,           \* [Calls -> ...]: what each caller has
  early           \* calls made before __exit__ (history variable)

mcpVars == <<main, ready, task, serving, loop, queue, call, early>>

Outcomes == {"text", "tool error", "exception"}

McpInit ==
  /\ main = "outside" /\ ready = "pending" /\ task = "none" /\ serving = Stop
  /\ loop = FALSE /\ queue = << >>
  /\ call = [c \in Calls |-> "none"]
  /\ early = {}

Moves(from, to) == main = from /\ main' = to
TaskMoves(from, to) == task = from /\ task' = to

-----------------------------------------------------------------------------
(* __enter__ and __exit__.                                                 *)

Enter ==
  /\ Moves("outside", "entering")
  /\ loop' = TRUE /\ task' = "connecting"
  /\ UNCHANGED <<ready, serving, queue, call, early>>

EnterReturns ==
  /\ ready = "set" /\ Moves("entering", "inside")
  /\ UNCHANGED <<ready, task, serving, loop, queue, call, early>>

(* ready.result(connect_timeout) raises what the task met, or its timeout: *)
(* the `with` block is not entered, so __exit__ is never called.           *)
EnterRaises ==
  /\ ready # "set" /\ Moves("entering", "raised")
  /\ UNCHANGED <<ready, task, serving, loop, queue, call, early>>

(* A bug the checks must notice: the task is told to stop at once.         *)
StopFirst(items) == <<Stop>> \o items

(* A bug the checks must notice: it is not told to while calls wait, as if *)
(* they filled the queue.                                                  *)
StopIfRoom(items) == IF items = << >> THEN <<Stop>> ELSE items

StopLast(items) == Append(items, Stop)

Exit ==
  /\ Moves("inside", "leaving")
  /\ queue' = StopLast(queue)
  /\ UNCHANGED <<ready, task, serving, loop, call, early>>

TaskReturned == task \in {"closed", "broken"}

(* _session_future.result(10) returns; the loop is stopped, the thread     *)
(* joined.                                                                 *)
ExitReturns ==
  /\ TaskReturned /\ Moves("leaving", "left")
  /\ loop' = FALSE
  /\ UNCHANGED <<ready, task, serving, queue, call, early>>

(* It raises CancelledError, or its timeout, out of __exit__.              *)
ExitRaises ==
  /\ ~TaskReturned /\ Moves("leaving", "exit raised")
  /\ UNCHANGED <<ready, task, serving, loop, queue, call, early>>

-----------------------------------------------------------------------------
(* _session_task.                                                          *)

Connect ==
  /\ TaskMoves("connecting", "idle")
  /\ ready' = "set"
  /\ UNCHANGED <<main, serving, loop, queue, call, early>>

ConnectFails ==
  /\ TaskMoves("connecting", "broken")
  /\ ready' = "error"
  /\ UNCHANGED <<main, serving, loop, queue, call, early>>

Take ==
  /\ queue # << >>
  /\ TaskMoves("idle", IF Head(queue) = Stop THEN "closing" ELSE "busy")
  /\ serving' = Head(queue) /\ queue' = Tail(queue)
  /\ UNCHANGED <<main, ready, loop, call, early>>

(* A bug the checks must notice: an exception is not handed back.          *)
OnlyResults(outcome) == IF outcome = "exception" THEN "waiting" ELSE outcome

HandedBack(outcome) == outcome

(* The result, or the exception, is handed to the caller: text, text that  *)
(* is_error turns into MCPToolCallError, or what coro_factory raised.      *)
Answer ==
  /\ TaskMoves("busy", "idle")
  /\ \E outcome \in Outcomes : call' = [call EXCEPT ![serving] = HandedBack(outcome)]
  /\ UNCHANGED <<main, ready, serving, loop, queue, early>>

(* The server never answers: nothing bounds the wait.                      *)
Silence ==
  /\ TaskMoves("busy", "silent")
  /\ UNCHANGED <<main, ready, serving, loop, queue, call, early>>

(* The connection's own tasks fail: `async with` ends the task, and the    *)
(* exception is swallowed, or is a CancelledError that is not caught.      *)
Break ==
  /\ task \in {"idle", "busy", "silent"}
  /\ task' \in {"broken", "cancelled"}
  /\ UNCHANGED <<main, ready, serving, loop, queue, call, early>>

CloseConnection ==
  /\ TaskMoves("closing", "closed")
  /\ UNCHANGED <<main, ready, serving, loop, queue, call, early>>

-----------------------------------------------------------------------------
(* _call: the tools may outlive the `with` block.  When the loop no longer *)
(* runs, the put is never carried out and the caller waits for it.         *)
Put(c) ==
  /\ main \in {"inside", "leaving", "left", "exit raised"} /\ call[c] = "none"
  /\ call' = [call EXCEPT ![c] = "waiting"]
  /\ queue' = IF loop THEN Append(queue, c) ELSE queue
  /\ early' = IF main = "inside" THEN early \cup {c} ELSE early
  /\ UNCHANGED <<main, ready, task, serving, loop>>

McpNext == \/ Enter \/ EnterReturns \/ EnterRaises \/ Exit \/ ExitReturns \/ ExitRaises
           \/ Connect \/ ConnectFails \/ Take \/ Answer \/ Silence \/ Break \/ CloseConnection
           \/ \E c \in Calls : Put(c)

(* The event loop's thread is fair, and a server that is not silent ends a *)
(* call.                                                                   *)
McpFairness == WF_mcpVars(Take) /\ WF_mcpVars(Answer) /\ WF_mcpVars(CloseConnection)

McpSpec == McpInit /\ [][McpNext]_mcpVars /\ McpFairness

-----------------------------------------------------------------------------
Answered(c) == call[c] \in Outcomes

(* The threads, the task and the futures have the right types.             *)
McpTypeOK ==
  /\ main \in {"outside", "entering", "inside", "raised", "leaving", "left", "exit raised"}
  /\ ready \in {"pending", "set", "error"}
  /\ task \in {"none", "connecting", "idle", "busy", "silent", "closing", "closed",
               "broken", "cancelled"}
  /\ serving \in Calls \cup {Stop} /\ loop \in BOOLEAN
  /\ queue \in Seq(Calls \cup {Stop})
  /\ call \in [Calls -> {"none", "waiting"} \cup Outcomes]
  /\ early \subseteq Calls

(* mcp_tools.py:186-207, 245-253: leaving the `with` block does not cut    *)
(* off a call: the task closes the connection only when every call made    *)
(* before __exit__ has its answer.                                         *)
AnsweredBeforeClosed == task \in {"closing", "closed"} => \A c \in early : Answered(c)

(* mcp_tools.py:190-193, 245-253: whatever calls wait when __exit__ puts   *)
(* its None in the queue, or come after it, and even when __exit__ has     *)
(* given up waiting: the task closes the connection, unless the server     *)
(* stays silent or the connection breaks.                                  *)
SessionCloses ==
  main = "leaving" ~> task \in {"closed", "silent", "broken", "cancelled"}

(* The same as an invariant: the None is not lost between the two.         *)
SignalNotLost ==
  main \in {"leaving", "left", "exit raised"} =>
    \/ \E i \in 1 .. Len(queue) : queue[i] = Stop
    \/ task \in {"closing", "closed", "broken", "cancelled"}

(* mcp_tools.py:147-148, as it has it: whoever uses the client as a        *)
(* context manager has the session and the server's process torn down,     *)
(* also when __enter__ or __exit__ raises.                                 *)
TornDown ==
  main \in {"left", "raised", "exit raised"} => ~loop /\ task \in {"closed", "broken", "cancelled"}

(* mcp_tools.py:186-223: a call made inside the `with` block is answered   *)
(* unless the server stays silent or the connection breaks, even when      *)
(* __exit__ has given up waiting.                                          *)
CallsAnswered ==
  \A c \in Calls :
    c \in early ~> (Answered(c) \/ task \in {"silent", "broken", "cancelled"})
==============================================================================
