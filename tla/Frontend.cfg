SPECIFICATION Spec
CONSTANTS
  Inputs <- MCInputs
  PortTexts <- MCPorts
  UserRules <- MCUserRules
  LocalTree <- MCLocalTree
  RemoteTree <- MCRemoteTree
  ProfileTree <- MCProfileTree
  PipeCap = 1
  Statuses <- MCStatuses
INVARIANT FrontTypeOK
PROPERTY ForwardedVerbatim
PROPERTY ConfigPrecedence
PROPERTY SameDirectory
PROPERTY UploadIsWhole
INVARIANT TargetSurvives
INVARIANT PullFetchesProducts
INVARIANT OutcomeIsWhole
PROPERTY EscapeHatch
PROPERTY InvocationEnds
