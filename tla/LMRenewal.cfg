\* One lease, a client that may renew it late.
CONSTANTS
  Key = {1}
  Thread = {sweeper}
  Sweeper = sweeper
  Ttl = {0, 1}
  Second = 2
  ClockRange = 100
  LateKeepAlive = TRUE
  MaxLease = 1
  MaxNow = 3
SPECIFICATION LMSpec
PROPERTIES
  SweepOnlyDue
CHECK_DEADLOCK FALSE
