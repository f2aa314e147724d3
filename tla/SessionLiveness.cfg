SPECIFICATION FairSpec
CONSTANTS
  Offered = {"build"}
  MaxRequests = 1
  MaxLines = 3
  PipeCap = 1
  SockCap = 1
  ExitCodes = {0}
  Stdio = FALSE
  Background = TRUE
  Binary = TRUE
PROPERTY CargoNeverStalls
PROPERTY BuildFinishes
PROPERTY HangupEndsSession
