------------------------------- MODULE Session -------------------------------
(***************************************************************************)
(* airpy/session.py over aircore/persistent_memory.py: conversations that  *)
(* survive the process in one FileMemoryScope.  send() runs a one-step     *)
(* workflow: ModelAgent.execute() loads the history, asks the provider,    *)
(* remembers the turn and then validates the answer.  After the run, failed*)
(* or not, send() counts the turn and trims the history.                   *)
(*                                                                         *)
(* Each session has its own conversation_id and its own thread; a restart  *)
(* makes new Session objects with the same ids.  get() is one read of the  *)
(* file; set() reads all of it, empties it and fills it again, and nothing *)
(* locks it.  An agent of the conversation may also be used directly, by   *)
(* ask() or stream().  A message is the number of its turn and a role.     *)
(***************************************************************************)
EXTENDS Naturals, SequencesExt

CONSTANTS
  Sessions,       \* conversation_ids with a session each
  MaxHistory,     \* max_history_turns
  MaxSends,       \* bound: turns of a session, restarts included
  MaxCrashes      \* bound: restarts of the process

ASSUME MaxHistoryAssumption == MaxHistory \in Nat \ {0}
ASSUME BoundsAssumption == {MaxSends, MaxCrashes} \subseteq Nat

VARIABLES
  file,           \* the state of the JSON text, and what it says
  pc,             \* [Sessions -> ...]: where send() is
  value,          \* [Sessions -> ...]: the history set() is to store
  data,           \* [Sessions -> ...]: the content set() has read and changed
  via,            \* [Sessions -> ...]: how the latest turn was begun
  sent,           \* [Sessions -> Nat]: turns begun, over all restarts
  turn_count,     \* [Sessions -> Nat]: turns counted by this Session object
  closed,         \* the sessions that have ended
  crashes,
  remembered,     \* [Sessions -> ...]: messages stored so far (history variable)
  disturbed       \* an access or a crash fell inside a set() (history variable)

vars == <<file, pc, value, data, via, sent, turn_count, closed, crashes, remembered, disturbed>>

Nobody == [s \in Sessions |-> << >>]

Init ==
  /\ file = [state |-> "missing", content |-> Nobody]
  /\ pc = [s \in Sessions |-> "idle"]
  /\ value = Nobody
  /\ data = [s \in Sessions |-> Nobody]
  /\ via = [s \in Sessions |-> "send"]
  /\ sent = [s \in Sessions |-> 0]
  /\ turn_count = [s \in Sessions |-> 0]
  /\ closed = {} /\ crashes = 0
  /\ remembered = Nobody
  /\ disturbed = FALSE

At(s, from, to) == pc[s] = from /\ pc' = [pc EXCEPT ![s] = to]

-----------------------------------------------------------------------------
(* FileMemoryScope.                                                        *)

ReadAll == IF file.state = "written" THEN file.content ELSE Nobody
Torn == file.state = "torn"

Rewriting(s) == pc[s] \in {"emptied", "filling", "emptied again", "filling again"}
Changing(s) == Rewriting(s) \/ pc[s] \in {"changed", "cut"}

(* A reader meets a file that another thread is rewriting.                 *)
Reads(s) == disturbed' = (disturbed \/ \E q \in Sessions \ {s} : Rewriting(q))

(* A bug the checks must notice: only this conversation is kept.           *)
OwnHistory(s) == [Nobody EXCEPT ![s] = value[s]]

AllHistories(s) == [ReadAll EXCEPT ![s] = value[s]]

(* set(): json.dumps, then data = self._read_all(), and the new value.     *)
SetReads(s, from, to) ==
  /\ ~Torn /\ At(s, from, to)
  /\ data' = [data EXCEPT ![s] = AllHistories(s)]
  /\ disturbed' = (disturbed \/ \E q \in Sessions \ {s} : Changing(q))
  /\ UNCHANGED <<file, value, via, sent, turn_count, closed, crashes, remembered>>

Opens(s, from, to) ==
  /\ At(s, from, to)
  /\ file' = [state |-> "empty", content |-> Nobody]
  /\ UNCHANGED <<value, data, via, sent, turn_count, closed, crashes, remembered, disturbed>>

Fills(s, from, to) ==
  /\ At(s, from, to)
  /\ file' = [state |-> "torn", content |-> Nobody]
  /\ UNCHANGED <<value, data, via, sent, turn_count, closed, crashes, remembered, disturbed>>

(* The file is closed; what two writers have written may be mixed up.      *)
Closes(s, from, to) ==
  /\ At(s, from, to)
  /\ \/ file' = [state |-> "written", content |-> data[s]]
     \/ /\ \E q \in Sessions \ {s} : Rewriting(q)
        /\ file' = [state |-> "torn", content |-> Nobody]
  /\ UNCHANGED <<value, data, via, sent, turn_count, closed, crashes, disturbed>>

-----------------------------------------------------------------------------
(* send() and the step it runs.                                            *)

Begin(s, how) ==
  /\ At(s, "idle", "loading") /\ sent[s] < MaxSends
  /\ sent' = [sent EXCEPT ![s] = @ + 1]
  /\ via' = [via EXCEPT ![s] = how]
  /\ UNCHANGED <<file, value, data, turn_count, closed, crashes, remembered, disturbed>>

Send(s) == s \notin closed /\ Begin(s, "send")

(* ask(agent) and agent.stream(): an agent of the same conversation is used *)
(* without a workflow, and without the session.                             *)
Ask(s) == Begin(s, "ask")

Stream(s) == Begin(s, "stream")

(* A run is over when its step is; without one, execute() or the generator *)
(* has returned or raised.                                                 *)
Over(s) == IF via[s] = "send" THEN "ran" ELSE "idle"

(* json.loads raises, the provider raises, or the answer does not validate:*)
(* the step fails, and run() returns its journal all the same.             *)
StepFails(s, from) ==
  /\ At(s, from, Over(s))
  /\ UNCHANGED <<file, value, data, via, sent, turn_count, closed, crashes, remembered>>

(* _load_history(), for the request's messages.                            *)
Load(s) ==
  /\ Reads(s)
  /\ \/ Torn /\ StepFails(s, "loading")
     \/ /\ ~Torn /\ At(s, "loading", "asking")
        /\ UNCHANGED <<file, value, data, via, sent, turn_count, closed, crashes, remembered>>

Generate(s) ==
  /\ UNCHANGED disturbed
  /\ \/ StepFails(s, "asking")
     \/ /\ At(s, "asking", "answered")
        /\ UNCHANGED <<file, value, data, via, sent, turn_count, closed, crashes, remembered>>

(* The caller stops iterating: the generator is left at its `yield`.       *)
Abandon(s) ==
  /\ via[s] = "stream" /\ At(s, "asking", "idle")
  /\ UNCHANGED <<file, value, data, via, sent, turn_count, closed, crashes, remembered, disturbed>>

Turn(s) == <<[turn |-> sent[s], role |-> "user"], [turn |-> sent[s], role |-> "assistant"]>>

(* _remember_turn() reads the history again, and calls set().              *)
Recall(s) ==
  /\ Reads(s)
  /\ \/ Torn /\ StepFails(s, "answered")
     \/ /\ ~Torn /\ At(s, "answered", "setting")
        /\ value' = [value EXCEPT ![s] = ReadAll[s] \o Turn(s)]
        /\ UNCHANGED <<file, data, via, sent, turn_count, closed, crashes, remembered>>

RememberTurn(s) ==
  \/ SetReads(s, "setting", "changed")
  \/ Torn /\ Reads(s) /\ StepFails(s, "setting")
  \/ Opens(s, "changed", "emptied")
  \/ Fills(s, "emptied", "filling")
  \/ /\ Closes(s, "filling", "remembered")
     /\ remembered' = [remembered EXCEPT ![s] = @ \o Turn(s)]

(* _finalize_output: the turn has been remembered, valid or not.           *)
Finalize(s) ==
  /\ UNCHANGED disturbed
  /\ \/ StepFails(s, "remembered")
     \/ /\ At(s, "remembered", Over(s))
        /\ UNCHANGED <<file, value, data, via, sent, turn_count, closed, crashes, remembered>>

CountTurn(s) ==
  /\ At(s, "ran", "trimming")
  /\ turn_count' = [turn_count EXCEPT ![s] = @ + 1]
  /\ UNCHANGED <<file, value, data, via, sent, closed, crashes, remembered, disturbed>>

(* A bug the checks must notice: turns are taken for messages.             *)
MaxTurns == MaxHistory

MaxMessages == MaxHistory * 2

Newest(history) == SubSeq(history, Len(history) - MaxMessages + 1, Len(history))

(* _trim_history_if_needed; an unreadable file raises out of send().       *)
Trim(s) ==
  /\ Reads(s)
  /\ IF ~Torn /\ Len(ReadAll[s]) > MaxMessages
     THEN At(s, "trimming", "cutting") /\ value' = [value EXCEPT ![s] = Newest(ReadAll[s])]
     ELSE At(s, "trimming", "idle") /\ UNCHANGED value
  /\ UNCHANGED <<file, data, via, sent, turn_count, closed, crashes, remembered>>

StoreTrimmed(s) ==
  \/ SetReads(s, "cutting", "cut")
  \/ /\ Torn /\ Reads(s) /\ At(s, "cutting", "idle")
     /\ UNCHANGED <<file, value, data, via, sent, turn_count, closed, crashes, remembered>>
  \/ Opens(s, "cut", "emptied again")
  \/ Fills(s, "emptied again", "filling again")
  \/ Closes(s, "filling again", "idle") /\ UNCHANGED remembered

Close(s) ==
  /\ pc[s] = "idle" /\ s \notin closed
  /\ closed' = closed \cup {s}
  /\ UNCHANGED <<file, pc, value, data, via, sent, turn_count, crashes, remembered, disturbed>>

(* The process dies and is started again: the file is what remains.        *)
Restart ==
  /\ crashes < MaxCrashes /\ crashes' = crashes + 1
  /\ disturbed' = (disturbed \/ \E s \in Sessions : Rewriting(s))
  /\ pc' = [s \in Sessions |-> "idle"]
  /\ value' = Nobody /\ data' = [s \in Sessions |-> Nobody]
  /\ via' = [s \in Sessions |-> "send"]
  /\ turn_count' = [s \in Sessions |-> 0] /\ closed' = {}
  /\ UNCHANGED <<file, sent, remembered>>

Next ==
  \/ \E s \in Sessions : \/ Send(s) \/ Ask(s) \/ Stream(s) \/ Load(s) \/ Generate(s)
                         \/ Abandon(s) \/ Recall(s) \/ RememberTurn(s)
                         \/ Finalize(s) \/ CountTurn(s) \/ Trim(s) \/ StoreTrimmed(s) \/ Close(s)
  \/ Restart

Spec == Init /\ [][Next]_vars

-----------------------------------------------------------------------------
Messages == [turn : 1 .. MaxSends, role : {"user", "assistant"}]

(* The file, the threads and the counters have the right types.            *)
TypeOK ==
  /\ file.state \in {"missing", "empty", "torn", "written"}
  /\ via \in [Sessions -> {"send", "ask", "stream"}] /\ closed \subseteq Sessions
  /\ \A s \in Sessions :
       /\ turn_count[s] <= sent[s] /\ sent[s] <= MaxSends
       /\ \A f \in {file.content, value, data[s], remembered} : Range(f[s]) \subseteq Messages

(* model_agent.py:488-498, session.py:164-170: whatever crashes and other  *)
(* threads do to the file, a history that can be read is whole turns, a    *)
(* question and its answer, in the order in which they were had.           *)
WholeTurns ==
  \A s \in Sessions :
    LET h == ReadAll[s] IN
    /\ Len(h) % 2 = 0
    /\ \A i \in DOMAIN h : h[i].role = IF i % 2 = 1 THEN "user" ELSE "assistant"
    /\ \A i \in 1 .. Len(h) - 1 : IF i % 2 = 1 THEN h[i + 1].turn = h[i].turn
                                  ELSE h[i + 1].turn > h[i].turn

(* persistent_memory.py:16-32, session.py:31-36: as long as no access and  *)
(* no crash falls inside a set(), every conversation in the file ends with *)
(* all of its last max_history_turns remembered turns, and a send() that   *)
(* has returned has left no more than these; ask() and stream() only add.  *)
HistoryKept ==
  ~disturbed /\ (\A q \in Sessions : ~Rewriting(q)) =>
    \A s \in Sessions :
      LET h == ReadAll[s]
          all == remembered[s]
      IN /\ IsSuffix(h, all)
         /\ Len(h) >= MaxMessages \/ h = all
         /\ pc[s] = "idle" /\ via[s] = "send" /\ turn_count[s] > 0 => Len(h) <= MaxMessages
==============================================================================
