SPECIFICATION Spec
CONSTANTS
  t1 = t1
  s1 = s1
  s2 = s2
  g0 = g0
  g1 = g1
  g2 = g2
  Devices = {s1, s2}
  Gateways = {g0, g1, g2}
  Local = g0
  Topics = {t1}
  Wanted <- MCWanted
  InitialHosts <- MCHosts1
  Hearable = {}
  MaxWaves = 3
  MaxCrashes = 0
CHECK_DEADLOCK FALSE
PROPERTIES
  DeregisterStopsRouting
