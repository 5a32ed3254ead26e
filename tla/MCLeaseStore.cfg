\* Two keys, two leases, a client that puts, one that may revoke, and the
\* expiration thread; clients name leases they were granted.
CONSTANTS
  Key = {1, 2}
  NoEnd = NoEnd
  FromKey = FromKey
  Thread = {c1, sweeper}
  Free = Free
  Value = {0}
  LeaseName = {0, 1, 2}
  TxnRequest <- MCTxnRequest
  Kind = {"put", "delete", "txn"}
  MaxRevision = 4
  Sweeper = sweeper
  Ttl = {1}
  Second = 1
  ClockRange = 100
  LateKeepAlive = TRUE
  MaxLease = 2
  MaxNow = 1
  Naming = "granted"
SPECIFICATION Spec
INVARIANTS
  TypeOK
  KeysetSound
  KeysetComplete
PROPERTIES
  RevokeDeletesKeys
  IsLeasedMap
CHECK_DEADLOCK FALSE
