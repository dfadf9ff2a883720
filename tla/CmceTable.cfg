CONSTANTS
  MaxCalls = 2
  Peers = {p1, p2}
  NoPeer = NoPeer
  CallIds = {0, 1, 2}
SPECIFICATION CmceSpec
INVARIANT CallTable
INVARIANT ReleaseFrees
