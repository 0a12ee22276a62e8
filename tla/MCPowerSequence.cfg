SPECIFICATION FairSpec
CONSTANTS
  Host <- MCHost
  Group <- MCGroup
  Rack = "rack"
  StartupPlan <- MCStartupPlan
  ShutdownPlan <- MCShutdownPlan
  DependsOn <- MCDependsOn
  StartupTimeout <- MCStartupTimeout
  ShutdownTimeout <- MCShutdownTimeout
  Readiness = 1
  OutletChoice <- MCOutletChoice
  PduOutlet = {1}
  Loads = {"normal", "critical"}
  HasMac = {"node"}
  Joining = {"node"}
  MaxIds = 4
INVARIANTS
  TypeOK
  StatusConsistent
  DependenciesFirst
  ActivitiesSettle
  CommandsOnce
PROPERTIES
  ReadinessHeld
  ImplementsRun
CHECK_DEADLOCK FALSE
