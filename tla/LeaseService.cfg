\* Two leases of zero, one or nine seconds (past the range of the clock), half-
\* second clock units, one revoking client beside the expiration thread; clients
\* renew in time.
CONSTANTS
  Key = {1}
  Thread = {c1, sweeper}
  Sweeper = sweeper
  Ttl = {0, 1, 9}
  Second = 2
  ClockRange = 16
  LateKeepAlive = FALSE
  MaxLease = 2
  MaxNow = 4
SPECIFICATION LSVSpec
INVARIANTS
  LMTypeOK
  PromisedTimeKept
PROPERTIES
  ErasedStaysErased
  SweepOnlyDue
  DueLeaseGoes
