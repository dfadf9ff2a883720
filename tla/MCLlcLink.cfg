CONSTANTS
  Ids = {e1}
  NoId = NoId
  MaxEp = 1
  DownCap = 1
  UpCap = 1
  PeerKinds <- MCKinds
  OtherTypes = {}
  TleTypes = {"ADATA"}
  MaxUp = 3
  MaxDown = 3
  AirCap = 2
SPECIFICATION FairSpec
PROPERTY UplinkImplements
PROPERTY DownlinkImplements
PROPERTY UplinkProgress
CHECK_DEADLOCK FALSE
