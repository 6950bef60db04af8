SPECIFICATION Spec
CONSTANTS
  Nsapis = {5, 6}
  N201_U = 7
  NuMod = 8
  Window = 4
  NpduMod = 4095
  SegMod = 15
  Scenarios <- MCWipe
INVARIANTS DefragListsLive
CHECK_DEADLOCK FALSE
