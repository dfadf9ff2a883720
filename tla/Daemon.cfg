CONSTANTS
  Clients = {c1, c2}
  NoClient = NoClient
  Requests = {"stop", "other", "invalid", "badlen"}
  Sources = {"timer"}
  Backlog = 1
SPECIFICATION FairSpec
INVARIANT StopOnlyIfAsked
INVARIANT NoneLeftOpen
PROPERTY ConnectionsEnd
PROPERTY EventsServed
PROPERTY StopCompletes
CHECK_DEADLOCK FALSE
