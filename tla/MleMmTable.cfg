CONSTANTS
  Issis = {a, b, c}
  NoIssi = NoIssi
  MaxSessions = 2
  MaxEntities = 2
  Profiles = {"P0", "P1"}
  DefaultProfile = "P0"
  NoProfile = "none"
  AcceptUnknown = TRUE
  BusCap = 2
  MaxDemands = 3
SPECIFICATION FairSpec
INVARIANT OnePerSubscriber
INVARIANT AnswersFit
INVARIANT OneAnswerEach
PROPERTY DemandAnswered
CHECK_DEADLOCK FALSE
