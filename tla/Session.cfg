\* Two conversations of two turns each, sent, asked or streamed, in one file, with a restart at any point.
\* The sessions stop when they have sent their turns.
SPECIFICATION Spec
CHECK_DEADLOCK FALSE
CONSTANTS
  Sessions = {"ann", "bob"}
  MaxHistory = 1
  MaxSends = 2
  MaxCrashes = 1
INVARIANTS
  WholeTurns
  HistoryKept
