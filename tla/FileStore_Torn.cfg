\* A run alone with its file crashes inside record().
SPECIFICATION StoreSpec
CHECK_DEADLOCK FALSE
CONSTANTS
  Runs = {"r1"}
  Positions = 3
  MaxCrashes = 1
INVARIANT
  RecordsSurvive
