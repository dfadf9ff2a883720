CONSTANTS
  MaxCalls = 2
  Peers = {"ms"}
  NoPeer = NoPeer
  HighCap = 3
  NormCap = 6
  Budget = 32
  Period = 2
  UlBodies <- MCAllBodies
  MaxRx = 4
SPECIFICATION Spec
INVARIANT TickDrains
INVARIANT DownlinkIsNoDemand
