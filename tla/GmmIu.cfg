CONSTANTS
  Configs <- MCIu
  MaxExpiry = 2
  MaxVec = 1
  MaxOut = 1
  Sends = {TRUE}
SPECIFICATION FairSpec
INVARIANTS
  PointersSet
  TimersExclusive
  AttachSupervised
PROPERTIES
  AcceptIntegrity
  AttachEnds
