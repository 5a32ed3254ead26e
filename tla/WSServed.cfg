\* Puts, and two streams whose clients stay and keep reading, one watcher, one key.
CONSTANTS
  Key = {1}
  NoEnd = NoEnd
  FromKey = FromKey
  Thread = {t1}
  Free = Free
  Value = {0}
  LeaseName = {0}
  TxnRequest = {}
  Kind = {"put"}
  MaxRevision = 3
  Stream = {s1, s2}
  Unlocked = Unlocked
  Notifier = Notifier
  Window = 1
  MaxWatch = 1
  WatchRange <- MCOneKey
  StartRevision = {0, 2}
  ClientEnd = {}
SPECIFICATION Spec
PROPERTIES
  RequestServed
  MutexReleased
CHECK_DEADLOCK FALSE
