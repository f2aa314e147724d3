SPECIFICATION Spec
CONSTANTS
  Offered = {"hello", "build", "bye", "garbage", "blank", "binary"}
  MaxRequests = 3
  MaxLines = 1
  PipeCap = 1
  SockCap = 1
  ExitCodes = {0}
  Stdio = TRUE
  Background = TRUE
  Binary = FALSE
INVARIANT ExitClosesBuild
PROPERTY BuildsDoNotOverlap
PROPERTY KeepsPromise
