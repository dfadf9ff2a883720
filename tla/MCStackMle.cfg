CONSTANTS
  MaxCalls = 2
  Peers = {"ms"}
  NoPeer = NoPeer
  HighCap = 4
  NormCap = 4
  Budget = 12
  Period = 2
  UlBodies <- MCRealBodies
  MaxRx = 1
SPECIFICATION FairSpec
PROPERTY DemandReachesMle
