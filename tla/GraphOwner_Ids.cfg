\* The owner makes up an id of the form of the graph's own, "n2".
SPECIFICATION Spec
CONSTANTS
  Nothing = Nothing
  GivenIds = {2}
  Keys = {k}
  MaxSeq = 4
  MaxLinks = 1
CHECK_DEADLOCK FALSE
INVARIANT FactsKept
