CONSTANTS
  Configs <- MCIu
  MaxExpiry = 1
  MaxVec = 1
  MaxOut = 2
  Sends = {TRUE}
SPECIFICATION Spec
INVARIANTS
  FreedWhenUnused
