SPECIFICATION Spec
CONSTANTS
  Name <- MCName
  Member <- MCMember
  Configs <- MCConfigs
  Roots <- MCRoots
INVARIANTS
  ValidationIsExact
  AcceptedExactly
  StepsAreTheMembers
  DependencyOrdered
CHECK_DEADLOCK FALSE
