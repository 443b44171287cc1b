SPECIFICATION FairSpec
CONSTANTS
  s1 = s1
  s2 = s2
  a1 = a1
  Sensors = {s1, s2}
  Apps = {a1}
  Schedules <- MCSchedules
  Policies <- MCPolicies
  MaxTime = 5
  MaxUpdates = 2
CHECK_DEADLOCK FALSE

  
PROPERTIES
  RuleCatchesUp
