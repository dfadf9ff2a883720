SPECIFICATION Spec
CONSTANTS
  NProfiles = 2
  Width = 3
  Profile0Bits = 1
  ProfileBits = {2}
  Entities = {"e1"}
  Slots = {1}
  AstSlots = {1}
  AstEntries = {"a1"}
  MaxStops = 2
INVARIANT TypeOK
INVARIANT NeverTorn
PROPERTY ReopenedAsSaved
PROPERTY RefusedFileKept
