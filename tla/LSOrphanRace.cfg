\* One lease, one client that puts, one that revokes; clients name leases that
\* exist at the call.
CONSTANTS
  Key = {1}
  NoEnd = NoEnd
  FromKey = FromKey
  Thread = {c1, c2, sweeper}
  Free = Free
  Value = {0}
  LeaseName = {0, 1}
  TxnRequest = {}
  Kind = {"put"}
  MaxRevision = 3
  Sweeper = sweeper
  Ttl = {1}
  Second = 1
  ClockRange = 100
  LateKeepAlive = TRUE
  MaxLease = 1
  MaxNow = 1
  Naming = "live"
SPECIFICATION Spec
INVARIANTS
  NoOrphan
CHECK_DEADLOCK FALSE
