CONSTANTS
  s1 = s1
  g1 = g1
  apn = apn
  Setups <- AllSetups
  Addrs = {s1, g1}
  PortNrs = {2123, 2152}
  TunIds = {t1, t2}
  Apns = {apn}
  Answers = {g1}
  TeiMax = 2
  SeqMax = 1
  SeqInit = 0
  Quick = 0
  Slow = 1
  UseSender = FALSE
  NoPort = NoPort
  NoPeer = NoPeer
  NoTun = NoTun
  NoApn = NoApn
  NoAddr = NoAddr
  NoNsapi = NoNsapi
SPECIFICATION Spec
INVARIANTS
  TypeOK
  RefCountsExact
  TeiReplUnique
  PeerTeiUnique
  LookupsSupervised
PROPERTIES
  InvalidatedForGood
SYMMETRY Symmetry
