SPECIFICATION Spec
CONSTANTS
  s1 = s1
  s2 = s2
  s3 = s3
  g0 = g0
  g1 = g1
  g2 = g2
  g3 = g3
  Devices = {s1, s2, s3}
  Gateways = {g0, g1, g2, g3}
  Local = g0
CHECK_DEADLOCK FALSE
INVARIANTS
  ResultValid
  LargestKept
