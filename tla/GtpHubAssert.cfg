CONSTANTS
  s1 = s1
  g1 = g1
  apn = apn
  Setups <- LookupSetups
  Addrs = {s1, g1}
  PortNrs = {2123, 2152}
  TunIds = {t1}
  Apns = {apn}
  Answers = {g1}
  TeiMax = 1
  SeqMax = 1
  SeqInit = 0
  Quick = 1
  Slow = 2
  UseSender = FALSE
  NoPort = NoPort
  NoPeer = NoPeer
  NoTun = NoTun
  NoApn = NoApn
  NoAddr = NoAddr
  NoNsapi = NoNsapi
SPECIFICATION Spec
INVARIANTS
  TunnelKnown
