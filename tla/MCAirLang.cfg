\* Files of up to three declarations and five statements, built and run twice.
\* A file that is rejected or cannot be built, and a workflow that was run, is at its end.
SPECIFICATION Spec
CHECK_DEADLOCK FALSE
CONSTANTS
  Nothing = Nothing
  Declarations <- MCDeclarations
  Statements <- MCStatements
  Hosts <- MCHosts
  Catalog = {"mock", "openai"}
  Builtins = {"Network"}
  MaxDeclarations = 3
  MaxStatements = 5
  MaxRuns = 2
INVARIANTS
  BuiltAsWritten
  BindingsAreCurrent
