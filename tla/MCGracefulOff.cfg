SPECIFICATION FairSpec
CONSTANTS
  Host <- MCHost
  NoHost = "none"
  AgentOutlet <- MCAgentOutlet
  Overrides = {0}
  PduOutlet = {1, 2}
  PendingLimit = 1
  TotalLimit = 2
  ResetDelay = 1
  MaxResets = 2
  MaxThemes = 1
INVARIANTS
  TypeOK
  PageCoherent
PROPERTIES
  CutOnlyAsked
  RequestEnds
CHECK_DEADLOCK FALSE
