\* One client rebinds a key while the other revokes the lease the key had.
CONSTANTS
  Key = {1}
  NoEnd = NoEnd
  FromKey = FromKey
  Thread = {c1, c2, sweeper}
  Free = Free
  Value = {0}
  LeaseName = {0, 1, 2}
  TxnRequest = {}
  Kind = {"put"}
  MaxRevision = 4
  Sweeper = sweeper
  Ttl = {1}
  Second = 1
  ClockRange = 100
  LateKeepAlive = TRUE
  MaxLease = 2
  MaxNow = 1
  Naming = "live"
SPECIFICATION Spec
PROPERTIES
  RevokeDeletesOnlyOwn
CHECK_DEADLOCK FALSE
