SPECIFICATION WtSpec
CONSTANTS
  Offered = {"hello", "build"}
  MaxRequests = 2
  MaxLines = 2
  PipeCap = 1
  SockCap = 1
  ExitCodes = {0, 101}
  Stdio = FALSE
  Background = FALSE
  Binary = FALSE
INVARIANT ExitCodeReachesUser
