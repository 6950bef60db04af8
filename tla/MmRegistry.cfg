CONSTANTS
  Imsis = {i1, i2}
  Ptmsis = {p1, p2}
  Ras = {a1, a2}
  Randoms = {x1}
  Ues = {u1, u2}
  NCtx = 2
  NLlme = 2
  Messages <- AllMessages
  MaxMessages = 5
  None = None
  Stray = Stray
  Shared = Shared
  Gone = Gone
SPECIFICATION Spec
INVARIANTS
  TypeOK
  IndexFresh
  PtmsiUnique
  ImsiUnique
  GbHasLlme
  UeLive
SYMMETRY Symmetry
