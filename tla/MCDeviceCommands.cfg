SPECIFICATION CmdFairSpec
CONSTANTS
  d1 = d1
  d2 = d2
  h1 = h1
  h2 = h2
  c1 = c1
  g1 = g1
  Self = Self
  Devices = {d1, d2}
  Handlers = {h1, h2}
  NoHandler = NoHandler
  Registrars <- MCRegistrars
  Deliverers <- MCDeliverers
  Commands = {c1}
  Target <- MCTarget
  Dispatchers = {h1}
  Peers = {g1}
  Hosted <- MCHosted
  MaxReadings = 3
  MaxRegisters = 1
  MaxCrashes = 1
CHECK_DEADLOCK FALSE
INVARIANTS
  BufferHasItsJob
  
  InOrder
  ExecutedOnce
PROPERTIES
  StreamSpec
  FileRowsPersist
  HeldLeaves
  
  
