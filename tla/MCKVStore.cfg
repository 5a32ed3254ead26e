\* Three keys, two handlers and every kind of call, three revisions after the first.
CONSTANTS
  Key = {1, 2, 3}
  NoEnd = NoEnd
  FromKey = FromKey
  Thread = {t1, t2}
  Free = Free
  Value = {0}
  LeaseName = {0}
  TxnRequest <- MCTxnRequest
  Kind = {"put", "delete", "txn", "lease"}
  MaxRevision = 4
  RangeRequest <- MCRangeRequest
SYMMETRY MCThreads
SPECIFICATION SVSpec
INVARIANTS
  SVTypeOK
  RevisionOrder
  PagingCoversRange
  RepliesInOrder
  RepliesDescribeStore
PROPERTIES
  IsVersionedMap
  IsSerial
  ClientWritesAreFed
CHECK_DEADLOCK FALSE
