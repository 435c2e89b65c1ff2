\* A tool that the policy names, called by an agent's own loop.
\* A file that is rejected or cannot be built, and a workflow that was run, is at its end.
SPECIFICATION Spec
CHECK_DEADLOCK FALSE
CONSTANTS
  Nothing = Nothing
  Declarations <- GatedDeclarations
  Statements <- FewStatements
  Hosts <- MCHosts
  Catalog = {"mock", "openai"}
  Builtins = {"Network"}
  MaxDeclarations = 3
  MaxStatements = 5
  MaxRuns = 2
INVARIANTS
  ApprovedBeforeInvoked
