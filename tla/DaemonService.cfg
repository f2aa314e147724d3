SPECIFICATION Spec
CONSTANTS
  Handles <- HandlesBoth
  Clients = {1, 2, 3}
  Via <- ViaBoth
  MaxTrouble = 2
INVARIANT DaemonTypeOK
PROPERTY ListenerLossIsSeen
PROPERTY CrashIsRepaired
PROPERTY NobodyWaitsForAnother
