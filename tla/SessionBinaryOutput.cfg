SPECIFICATION Spec
CONSTANTS
  Offered = {"build", "bye"}
  MaxRequests = 1
  MaxLines = 2
  PipeCap = 1
  SockCap = 1
  ExitCodes = {0, 101}
  Stdio = FALSE
  Background = FALSE
  Binary = TRUE
INVARIANT NoOutputLost
