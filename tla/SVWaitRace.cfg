\* A client that puts, one lease.
CONSTANTS
  Key = {1}
  NoEnd = NoEnd
  FromKey = FromKey
  Thread = {c1, sweeper}
  Free = Free
  Value = {0}
  LeaseName = {0}
  TxnRequest = {}
  Kind = {"put"}
  MaxRevision = 2
  Sweeper = sweeper
  Ttl = {1}
  Second = 1
  ClockRange = 100
  LateKeepAlive = TRUE
  MaxLease = 1
  MaxNow = 1
  Naming = "granted"
SPECIFICATION ServerSpec
INVARIANTS
  WaitSafe
CHECK_DEADLOCK FALSE
