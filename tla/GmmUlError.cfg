CONSTANTS
  Configs <- MCGb
  MaxExpiry = 2
  MaxVec = 1
  MaxOut = 2
  Sends = {TRUE}
SPECIFICATION ReliableSpec
INVARIANTS
  AskVlrAwaitsHlr
