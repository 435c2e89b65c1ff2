\* Two runs over one file, crashing and overlapping anywhere.  A run stops
\* after its last step, or when the file is unreadable.
SPECIFICATION StoreSpec
CHECK_DEADLOCK FALSE
CONSTANTS
  Runs = {"r1", "r2"}
  Positions = 2
  MaxCrashes = 1
INVARIANTS
  NothingInvented
  UndisturbedRecordsSurvive
PROPERTIES
  AllRecorded
