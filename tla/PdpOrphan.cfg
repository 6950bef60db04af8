CONSTANTS
  p1 = p1
  p2 = p2
  Pctx <- MCPctx
  Nsapis = {5, 6}
  Tis = {0, 1}
  Requests <- MCRequests
  LookupIds = {1, 2}
  Configs <- MCAll
  T339X_MAX_RETRANS = 1
  NoId = NoId
SPECIFICATION Spec
INVARIANT OrphanAwaitsGtp
CHECK_DEADLOCK FALSE
