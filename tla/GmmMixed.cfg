CONSTANTS
  Configs <- MCMixed
  MaxExpiry = 1
  MaxVec = 1
  MaxOut = 2
  Sends = {TRUE, FALSE}
SPECIFICATION Spec
INVARIANTS
  TypeOK
  SubscriberOwned
  AcceptAuthenticated
  ChallengeHasVector
PROPERTIES
  AcceptIdentified
  
