SPECIFICATION FairSpec
CONSTANTS
  t1 = t1
  s1 = s1
  s2 = s2
  g0 = g0
  g1 = g1
  g2 = g2
  Devices = {s1, s2}
  Gateways = {g0, g1, g2}
  Local = g0
  Topics = {t1}
  Wanted <- MCWanted
  InitialHosts <- MCHosts
  Hearable <- MCHearable
  MaxWaves = 2
  MaxCrashes = 2
CHECK_DEADLOCK FALSE
INVARIANTS
  Monitored
  
  
  

  
