CONSTANTS
  Ids = {e1, e2, e3}
  NoId = NoId
  MaxEp = 2
  DownCap = 1
  UpCap = 1
  PeerKinds <- MCPlainKinds
  OtherTypes = {"UDATA", "RSVD"}
  TleTypes = {"DATA", "ACK", "RSVD"}
  MaxUp = 0
  MaxDown = 1
  AirCap = 1
SPECIFICATION Spec
INVARIANT EndpointTable
CHECK_DEADLOCK FALSE
SYMMETRY MCSymmetry
