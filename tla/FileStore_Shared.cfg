\* Two runs record into the same file at the same time; nothing crashes.
SPECIFICATION StoreSpec
CHECK_DEADLOCK FALSE
CONSTANTS
  Runs = {"r1", "r2"}
  Positions = 2
  MaxCrashes = 0
INVARIANT
  RecordsSurvive
