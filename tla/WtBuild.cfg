SPECIFICATION WtFairSpec
CONSTANTS
  Offered = {"hello", "build"}
  MaxRequests = 2
  MaxLines = 2
  PipeCap = 1
  SockCap = 1
  ExitCodes = {0, 101}
  Stdio = FALSE
  Background = TRUE
  Binary = TRUE
INVARIANT WtTypeOK
INVARIANT SuccessIsReal
PROPERTY ClientAnswers
PROPERTY SessionFollowsClient
INVARIANT WtInv
