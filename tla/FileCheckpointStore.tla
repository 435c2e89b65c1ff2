------------------------- MODULE FileCheckpointStore -------------------------
(***************************************************************************)
(* aircore/checkpoint.py, FileCheckpointStore: one JSON file holds the     *)
(* records of every run_id.  record() reads all of it, adds one record and *)
(* writes all of it back; open(path, "w") empties the file before          *)
(* json.dump fills it again.  Nothing locks the file.                      *)
(*                                                                         *)
(* The clients are the runs that share the file, one per run_id, each      *)
(* recording its steps in order (module Scheduler) and resuming after a    *)
(* crash of its process.  A record is reduced to its position; that its    *)
(* output is what was written is checked in module DurableRun.             *)
(*                                                                         *)
(* No name here is one of DurableRun, so that DurableRunProofs may extend  *)
(* both.                                                                   *)
(***************************************************************************)
EXTENDS Naturals, FiniteSets

CONSTANTS
  Runs,           \* the run_ids
  Positions,      \* the last position a run records
  MaxCrashes      \* bound: the crashes of each run

ASSUME FileAssumption == Positions \in Nat /\ MaxCrashes \in Nat

VARIABLES
  file,           \* "missing", "torn" (some of the JSON text), or the parsed content
  phase,          \* where each run is
  data,           \* the content each run has read and is about to write
  loaded,         \* the positions load() gave each run
  next,           \* the position each run has come to
  recorded,       \* the positions for which record() has returned, by run
  crashes,
  disturbed       \* the runs in whose record() another access or a crash has fallen

storeVars == <<file, phase, data, loaded, next, recorded, crashes, disturbed>>

Contents == [Runs -> SUBSET (1 .. Positions)]

Nobody == [r \in Runs |-> {}]

StoreInit ==
  /\ file = [state |-> "missing", content |-> Nobody]
  /\ phase = [r \in Runs |-> "starting"]
  /\ data = [r \in Runs |-> Nobody]
  /\ loaded = Nobody
  /\ next = [r \in Runs |-> 1]
  /\ recorded = [r \in Runs |-> {}]
  /\ crashes = [r \in Runs |-> 0]
  /\ disturbed = {}

At(r, from, to) == phase[r] = from /\ phase' = [phase EXCEPT ![r] = to]

(* A bug the checks must notice: a file that is not there cannot be read.  *)
MustExist == file.state = "written"

Readable == file.state # "torn"

(* _read_all(): a missing or empty file is an empty dict.                  *)
ReadAll == IF file.state = "written" THEN file.content ELSE Nobody

InRecord(r) == phase[r] \in {"read", "emptied", "writing"}

(* The file is opened, whether or not another run is inside record().      *)
Access == disturbed' = disturbed \cup {r \in Runs : InRecord(r)}

(* load(), when the run starts or resumes.                                 *)
Load(r) ==
  /\ Access /\ Readable
  /\ At(r, "starting", "running")
  /\ loaded' = [loaded EXCEPT ![r] = ReadAll[r]]
  /\ UNCHANGED <<file, data, next, recorded, crashes>>

(* json.loads raises: the run cannot start, and never will.                *)
LoadFails(r) ==
  /\ Access /\ ~Readable
  /\ At(r, "starting", "unloadable")
  /\ UNCHANGED <<file, data, loaded, next, recorded, crashes>>

IsReplayed(r) == next[r] \in loaded[r]

(* The scheduler's loop passes over a step that load() gave it.            *)
Replay(r) ==
  /\ phase[r] = "running" /\ IsReplayed(r)
  /\ next' = [next EXCEPT ![r] = @ + 1]
  /\ UNCHANGED <<file, phase, data, loaded, recorded, crashes, disturbed>>

(* The step at next[r] is not replayed: it is carried out and recorded.    *)
CarriesOut(r) == next[r] <= Positions /\ ~IsReplayed(r)

(* A bug the checks must notice: the record is put one position too far.   *)
RecordOneAhead(r) == [ReadAll EXCEPT ![r] = @ \cup {next[r] + 1}]

WithRecord(r) == [ReadAll EXCEPT ![r] = @ \cup {next[r]}]

(* record(): data = self._read_all(), and the new record.                  *)
Read(r) ==
  /\ CarriesOut(r) /\ Access /\ Readable
  /\ At(r, "running", "read")
  /\ data' = [data EXCEPT ![r] = WithRecord(r)]
  /\ UNCHANGED <<file, loaded, next, recorded, crashes>>

(* record() of another run has half-written the file: JSONDecodeError      *)
(* leaves run(), which ends without recording.                             *)
ReadFails(r) ==
  /\ CarriesOut(r) /\ Access /\ ~Readable
  /\ At(r, "running", "aborted")
  /\ UNCHANGED <<file, data, loaded, next, recorded, crashes>>

(* open(self.path, "w")                                                    *)
Truncate(r) ==
  /\ At(r, "read", "emptied")
  /\ file' = [state |-> "empty", content |-> Nobody]
  /\ UNCHANGED <<data, loaded, next, recorded, crashes, disturbed>>

(* json.dump() writes in pieces.                                           *)
WriteSome(r) ==
  /\ At(r, "emptied", "writing")
  /\ file' = [state |-> "torn", content |-> Nobody]
  /\ UNCHANGED <<data, loaded, next, recorded, crashes, disturbed>>

(* A bug the checks must notice: only the records of this run are kept.    *)
OwnRecords(r) == [Nobody EXCEPT ![r] = data[r][r]]

AllRecords(r) == data[r]

(* The last piece is written, the file closed, and record() returns.  When *)
(* another run is writing through a handle of its own, the text may be a   *)
(* mixture of both.                                                        *)
WriteRest(r) ==
  /\ At(r, "writing", "running")
  /\ \/ file' = [state |-> "written", content |-> AllRecords(r)]
     \/ /\ \E q \in Runs \ {r} : phase[q] = "writing"
        /\ file' = [state |-> "torn", content |-> Nobody]
  /\ recorded' = [recorded EXCEPT ![r] = @ \cup {next[r]}]
  /\ next' = [next EXCEPT ![r] = @ + 1]
  /\ UNCHANGED <<data, loaded, crashes, disturbed>>

(* The process of run r dies; it will be started again.                    *)
Die(r) ==
  /\ crashes[r] < MaxCrashes
  /\ \/ phase[r] = "running" /\ next[r] <= Positions
     \/ InRecord(r)
  /\ disturbed' = disturbed \cup {q \in {r} : InRecord(q)}
  /\ phase' = [phase EXCEPT ![r] = "starting"]
  /\ data' = [data EXCEPT ![r] = Nobody]
  /\ loaded' = [loaded EXCEPT ![r] = {}]
  /\ next' = [next EXCEPT ![r] = 1]
  /\ crashes' = [crashes EXCEPT ![r] = @ + 1]
  /\ UNCHANGED <<file, recorded>>

Operate(r) == \/ Load(r) \/ LoadFails(r) \/ Replay(r) \/ Read(r) \/ ReadFails(r)
              \/ Truncate(r) \/ WriteSome(r) \/ WriteRest(r)

StoreNext == \E r \in Runs : Operate(r) \/ Die(r)

StoreFairness == \A r \in Runs : WF_storeVars(Operate(r))

StoreSpec == StoreInit /\ [][StoreNext]_storeVars /\ StoreFairness

-----------------------------------------------------------------------------
(* Every variable has its type; a finished run is past its last position.  *)
StoreTypeOK ==
  /\ file \in [state : {"missing", "empty", "torn", "written"}, content : Contents]
  /\ phase \in [Runs -> {"starting", "running", "read", "emptied", "writing",
                      "unloadable", "aborted"}]
  /\ data \in [Runs -> Contents]
  /\ loaded \in Contents
  /\ next \in [Runs -> 1 .. Positions + 1]
  /\ recorded \in Contents
  /\ crashes \in [Runs -> 0 .. MaxCrashes]
  /\ disturbed \subseteq Runs

(* checkpoint.py:154, 161-163: the records survive.  Whenever no record()  *)
(* is being carried out, the file holds every record it has accepted, of   *)
(* every run.                                                              *)
RecordsSurvive ==
  (\A r \in Runs : ~InRecord(r)) => \A r \in Runs : recorded[r] \subseteq ReadAll[r]

(* checkpoint.py:182-188: they do as long as no other access to the file,  *)
(* and no crash, falls between the beginning and the end of a record().    *)
UndisturbedRecordsSurvive == disturbed = {} => RecordsSurvive

(* checkpoint.py:175-188: a step is replayed only if it was carried out:   *)
(* the file never holds a record that its run did not make, even after a   *)
(* crash inside record() and with several runs writing at once.            *)
NothingInvented == \A r \in Runs : ReadAll[r] \cup loaded[r] \subseteq recorded[r]

(* scheduler.py:111-135 with checkpoint.py:175-180: once a position has    *)
(* been recorded its run never carries it out again, crash or no crash, as *)
(* long as no record() is disturbed.                                       *)
NoneRepeated ==
  disturbed = {} => \A r \in Runs :
    (InRecord(r) \/ (phase[r] = "running" /\ CarriesOut(r))) => next[r] \notin recorded[r]

(* Every run gets to record its last position, however often it crashes,   *)
(* unless a record() is disturbed: then the file may be unreadable.        *)
AllRecorded == <>(disturbed # {} \/ \A r \in Runs : recorded[r] = 1 .. Positions)

==============================================================================
