SPECIFICATION FairSpec
CONSTANTS
  MaxPayload = 2
  PipeCap = 5
  Frames <- MCFrames
  Noise <- MCNoise
  MaxSent = 4
INVARIANT WholeFrames
INVARIANT NeverWedged
INVARIANT DamageBounded
PROPERTY AllDelivered
CHECK_DEADLOCK FALSE
