SPECIFICATION FairApiSpec
CONSTANTS
  a = a
  b = b
  c = c
  d = d
  x = x
  y = y
  Gateways = {a, b, c, d}
  Self = a
  InitialLinks <- MCLinks
  Sightings <- MCSightings
  MaxChanges = 3
  Hosted <- MCHosted
  DeviceIds <- MCDeviceIds
  Usages <- MCUsages
  MemFloor = 2
  CpuFloor = 1
CHECK_DEADLOCK FALSE
INVARIANTS
  Complete
  AskedOnce
  
  ExecutorIsBest
  HeardOnce

  
