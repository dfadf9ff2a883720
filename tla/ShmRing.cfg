CONSTANTS
  Cap = 8
  Wrap = 16
  Lengths = {0, 3, 6, 7}
  Bufs = {2, 6}
  Finite = TRUE
  MaxFrames = 4
  Depth = 3
SPECIFICATION FairSpec
INVARIANT InOrderAndWhole
PROPERTY EveryFrameArrives
