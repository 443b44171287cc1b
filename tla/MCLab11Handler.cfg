SPECIFICATION LabFairSpec
CONSTANTS
  d = d
  e = e
  f = f
  u = u
  v = v
  Devices = {d, e, f}
  Urls = {u, v}
  NoUrl = NoUrl
  UrlOf <- MCUrlOf
  MaxFetches = 1
  MaxBad = 1
  MaxRestarts = 1
INVARIANTS
  CacheInv
PROPERTIES
  ParsersStay
  HandledAgain
