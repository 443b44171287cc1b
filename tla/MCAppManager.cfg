SPECIFICATION Spec
CONSTANTS
  a = a
  b = b
  app = app
  Apps = {a, b}
  NoApp = NoApp
  NameOf <- MCNameOf
  MaxTails = 2
  MaxCrashes = 1
CHECK_DEADLOCK FALSE
INVARIANTS
  RowsMatch
  TerminatedForGood
  
  
