SPECIFICATION Spec
CONSTANTS
  Inputs <- Shimmed
  PortTexts <- MCPorts
  UserRules <- MCUserRules
  LocalTree <- MCLocalTree
  RemoteTree <- MCRemoteTree
  ProfileTree <- MCProfileTree
  PipeCap = 1
  Statuses <- MCStatuses
PROPERTY LocalStaysLocal
