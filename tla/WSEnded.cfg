\* One stream whose client finishes.
CONSTANTS
  Key = {1}
  NoEnd = NoEnd
  FromKey = FromKey
  Thread = {t1}
  Free = Free
  Value = {0}
  LeaseName = {0}
  TxnRequest = {}
  Kind = {"put"}
  MaxRevision = 3
  Stream = {s1}
  Unlocked = Unlocked
  Notifier = Notifier
  Window = 1
  MaxWatch = 1
  WatchRange <- MCOneKey
  StartRevision = {0, 2}
  ClientEnd = {"done"}
SPECIFICATION Spec
INVARIANTS
  StreamsAlive
CHECK_DEADLOCK FALSE
