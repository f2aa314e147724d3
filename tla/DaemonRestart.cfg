SPECIFICATION Spec
CONSTANTS
  Handles <- HandlesBoth
  Clients = {1}
  Via <- ViaOne
  MaxTrouble = 1
PROPERTY DeadListenerComesBack
