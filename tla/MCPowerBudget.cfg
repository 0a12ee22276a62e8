SPECIFICATION BudgetSpec
CONSTANTS
  Host <- MCHost
  Group <- MCGroup
  Rack = "rack"
  StartupPlan <- MCStartupPlan
  ShutdownPlan <- MCShutdownPlan
  DependsOn <- MCDependsOn
  StartupTimeout <- MCTimeout
  ShutdownTimeout <- MCTimeout
  Readiness = 0
  OutletChoice <- MCOutletChoice
  PduOutlet = {1}
  Loads = {"normal", "critical"}
  HasMac = {}
  Joining = {}
  MaxIds = 3
  NoGroup = "none"
  Priority <- MCPriority
  NeverShed = {"core"}
  Hold = 1
INVARIANTS
  PendingIsRunning
  ShedByPriority
PROPERTIES
  ShedMeansDown
  HoldKept
  ShedSettles
CHECK_DEADLOCK FALSE
