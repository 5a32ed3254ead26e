\* Two streams, one watcher, two keys; clients finish and leave.
CONSTANTS
  Key = {1, 2}
  NoEnd = NoEnd
  FromKey = FromKey
  Thread = {t1}
  Free = Free
  Value = {0}
  LeaseName = {0}
  TxnRequest = {}
  Kind = {"put", "delete"}
  MaxRevision = 3
  Stream = {s1, s2}
  Unlocked = Unlocked
  Notifier = Notifier
  Window = 1
  MaxWatch = 1
  WatchRange <- MCWatchRange
  StartRevision = {0, 2, 3}
  ClientEnd = {"done", "gone"}
SYMMETRY MCSymmetry
SPECIFICATION Spec
INVARIANTS
  TypeOK
  FeedInOrder
  HistoryThenEvents
  EventsAreNews
PROPERTIES
  RegisteredAreTold
CHECK_DEADLOCK FALSE
