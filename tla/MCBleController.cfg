SPECIFICATION FairSpec
CONSTANTS
  gw = gw
  socket = socket
  light = light
  scanner = scanner
  oort = oort
  leviton = leviton
  Peripherals = {gw, socket, light}
  Handlers = {scanner, oort, leviton}
  Handler <- MCHandler
  Locking = {oort, leviton}
  Closing = {leviton}
  MaxMessages = 2
  MaxQueue = 2
CHECK_DEADLOCK FALSE
INVARIANTS
  CriticalSection
  WrittenInOrder
  Accounted

  
