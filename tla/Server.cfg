\* One key, one lease, a client thread beside the expiration thread.
CONSTANTS
  Key = {1}
  NoEnd = NoEnd
  FromKey = FromKey
  Thread = {c1, sweeper}
  Free = Free
  Value = {0}
  LeaseName = {0, 1}
  TxnRequest = {}
  Kind = {"put", "delete"}
  MaxRevision = 3
  Sweeper = sweeper
  Ttl = {1}
  Second = 1
  ClockRange = 100
  LateKeepAlive = TRUE
  MaxLease = 1
  MaxNow = 2
  Naming = "granted"
SPECIFICATION ServerSpec
INVARIANTS
  ServerTypeOK
  NobodyLeftAtExit
PROPERTIES
  QuietAfterStop
  StopEnds
  DueWhileServing
CHECK_DEADLOCK FALSE
