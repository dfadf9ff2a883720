SPECIFICATION FairSpec
CONSTANTS
  NPrio = 2
  Cap = 2
  MaxPayload = 1
  RegCap = 1
  BadKey = BadKey
  Cbs = {f}
  NoCb = NoCb
  Null = Null
  MaxDrops = 1
  k1 = k1
  k2 = k2
  d1 = d1
  d2 = d2
  Keys <- MCKeys
  Data <- MCData
  Inputs <- MCInputs
INVARIANT TypeOK
INVARIANT RingInv
INVARIANT FrameInv
PROPERTY PayloadPinned
PROPERTY ImplementsPromise
PROPERTY HighIsServed
