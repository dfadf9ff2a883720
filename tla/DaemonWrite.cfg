CONSTANTS
  Clients = {c1}
  NoClient = NoClient
  Requests = {"other"}
  Sources = {"timer"}
  Backlog = 1
SPECIFICATION Spec
INVARIANT WriteFailureDropsClient
CHECK_DEADLOCK FALSE
