\* Every sequence of calls on one graph: adds, links, removals and folds.
SPECIFICATION Spec
CONSTANTS
  Nothing = Nothing
  GivenIds = {x}
  Keys = {k}
  MaxSeq = 4
  MaxLinks = 1
CHECK_DEADLOCK FALSE
INVARIANTS
  NothingLost
  DependenciesShown
  KeyFindsItsNode
