---------------------------- MODULE LeaseManager ----------------------------
(***************************************************************************)
(* The lease manager (class LeaseManager, src/lease/lease_manager.cpp).     *)
(*                                                                          *)
(* One mutex protects the leases, but Revoke holds it only twice: to copy   *)
(* the lease's keys and, after the keys were deleted through a callback, to *)
(* erase the lease.  In between other threads attach, detach, renew and     *)
(* revoke.  The expiration thread is the thread Sweeper: it reads the       *)
(* clock, then takes the mutex to collect the leases that are due, then     *)
(* revokes them one by one.                                                 *)
(*                                                                          *)
(* The module is a component: LeaseStore conjoins its steps with those of   *)
(* KVStore.  On its own, LMSpec lets keys be attached and detached at will. *)
(***************************************************************************)
EXTENDS Common, Integers

CONSTANTS
  Sweeper,        \* the expiration thread, one of them
  Ttl,            \* the TTLs clients ask for, in seconds
  Second,         \* clock units in a second
  ClockRange,     \* the clock's signed type holds -ClockRange .. ClockRange-1
  LateKeepAlive,  \* whether clients renew leases whose deadline has passed
  MaxLease,       \* bound: clients ask for at most this many leases
  MaxNow          \* bound: the last value of the clock

ASSUME LMAssumption ==
  /\ Sweeper \in Thread
  /\ Ttl \subseteq Int
  /\ Second \in Nat \ {0}
  /\ ClockRange \in Nat \ {0}
  /\ LateKeepAlive \in BOOLEAN
  /\ MaxLease \in Nat
  /\ MaxNow \in Nat

LeaseId == 1 .. MaxLease
NoLease == 0

VARIABLES
  leases,       \* the domain of leases_
  ttl,          \* ttl[l]: LeaseInfo::ttl, 0 for a lease not in leases_
  expireTime,   \* expireTime[l]: LeaseInfo::expireTime, likewise
  keys,         \* keys[l]: LeaseInfo::keys, likewise
  nextLeaseId,  \* nextLeaseId_
  now,          \* the steady clock
  revoking,     \* the lease a thread is in Revoke for, or NoLease
  snapshot,     \* the keys Revoke copied and has yet to hand to the callback
  sweep         \* the expiration thread: the time it read before its scan and
                \* the leases the scan found due and it has yet to revoke

lmVars == <<leases, ttl, expireTime, keys, nextLeaseId, now, revoking, snapshot, sweep>>

\* The parts of the state by the call that changes them.
leaseTable == <<leases, ttl, expireTime, keys>>
revokeVars == <<revoking, snapshot>>

Asleep == [scanned |-> TRUE, at |-> 0, due |-> {}]

LMInit ==
  /\ leases = {}
  /\ ttl = [l \in LeaseId |-> 0]
  /\ expireTime = [l \in LeaseId |-> 0]
  /\ keys = [l \in LeaseId |-> {}]
  /\ nextLeaseId = 1
  /\ now = 0
  /\ revoking = [t \in Thread |-> NoLease]
  /\ snapshot = [t \in Thread |-> {}]
  /\ sweep = Asleep

-----------------------------------------------------------------------------
(* The client calls that hold the mutex throughout. *)

(* A time in the clock's signed type: an arithmetic overflow wraps around. *)
Wrapped(x) == ((x + ClockRange) % (2 * ClockRange)) - ClockRange

Deadline(seconds) == Wrapped(now + seconds * Second)

\* Mutant: an id is handed out again once its lease is gone.
GrantReusesId(seconds) ==
  LET free == {i \in LeaseId : i \notin leases}
      l == CHOOSE i \in free : \A j \in free : i <= j
  IN  /\ free # {}
      /\ nextLeaseId' = IF l < nextLeaseId THEN nextLeaseId ELSE l + 1
      /\ leases' = leases \cup {l}
      /\ ttl' = [ttl EXCEPT ![l] = seconds]
      /\ expireTime' = [expireTime EXCEPT ![l] = Deadline(seconds)]
      /\ UNCHANGED <<keys, now, revokeVars, sweep>>

(* The requested id is ignored and the TTL is taken as it comes. *)
Grant(seconds) ==
  LET l == nextLeaseId
  IN  /\ l \in LeaseId
      /\ nextLeaseId' = l + 1
      /\ leases' = leases \cup {l}
      /\ ttl' = [ttl EXCEPT ![l] = seconds]
      /\ expireTime' = [expireTime EXCEPT ![l] = Deadline(seconds)]
      /\ UNCHANGED <<keys, now, revokeVars, sweep>>

(* A lease past its deadline is renewed all the same while it is there. *)
KeepAlive(l) ==
  /\ l \in leases
  /\ LateKeepAlive \/ now < expireTime[l]
  /\ expireTime' = [expireTime EXCEPT ![l] = Deadline(ttl[l])]
  /\ UNCHANGED <<leases, ttl, keys, nextLeaseId, now, revokeVars, sweep>>

\* Mutant: the time left is rounded up to whole seconds.
TimeToLiveRoundedUp(l) ==
  LET remaining == (Wrapped(expireTime[l] - now) + Second - 1) \div Second
  IN  IF remaining > 0 THEN remaining ELSE -1

(* Whole seconds left, -1 when there are none: TimeToLive and GetLeaseTTL. *)
TimeToLive(l) ==
  LET remaining == Wrapped(expireTime[l] - now) \div Second
  IN  IF remaining > 0 THEN remaining ELSE -1

(* NOT_FOUND for a lease that is not there changes nothing. *)
AttachKey(l, k) ==
  /\ keys' = IF l \in leases THEN [keys EXCEPT ![l] = @ \cup {k}] ELSE keys
  /\ UNCHANGED <<leases, ttl, expireTime, nextLeaseId, now, revokeVars, sweep>>

DetachKey(l, k) ==
  /\ keys' = IF l \in leases THEN [keys EXCEPT ![l] = @ \ {k}] ELSE keys
  /\ UNCHANGED <<leases, ttl, expireTime, nextLeaseId, now, revokeVars, sweep>>

-----------------------------------------------------------------------------
(* Revoke, called by a client or by the expiration thread. *)

Revoking(t) == revoking[t] # NoLease

(* GetLeaseKeys.  NOT_FOUND ends a client's call; the expiration thread goes
   on with the next lease. *)
RevokeStart(t, l) ==
  /\ ~Revoking(t)
  /\ l \in leases
  /\ revoking' = [revoking EXCEPT ![t] = l]
  /\ snapshot' = [snapshot EXCEPT ![t] = keys[l]]
  /\ UNCHANGED <<leaseTable, nextLeaseId, now, sweep>>

(* deleteKeyCallback_(k), for the keys of an unordered set. *)
RevokeKey(t, k) ==
  /\ Revoking(t)
  /\ k \in snapshot[t]
  /\ snapshot' = [snapshot EXCEPT ![t] = @ \ {k}]
  /\ UNCHANGED <<leaseTable, nextLeaseId, now, revoking, sweep>>

\* Mutant: the lease goes, its key set stays.
RevokeFinishKeepsKeys(t) ==
  /\ Revoking(t)
  /\ snapshot[t] = {}
  /\ leases' = leases \ {revoking[t]}
  /\ ttl' = [ttl EXCEPT ![revoking[t]] = 0]
  /\ expireTime' = [expireTime EXCEPT ![revoking[t]] = 0]
  /\ revoking' = [revoking EXCEPT ![t] = NoLease]
  /\ UNCHANGED <<keys, nextLeaseId, now, snapshot, sweep>>

(* The erasure, without looking at the lease again. *)
RevokeFinish(t) ==
  LET l == revoking[t]
  IN  /\ Revoking(t)
      /\ snapshot[t] = {}
      /\ leases' = leases \ {l}
      /\ ttl' = [ttl EXCEPT ![l] = 0]
      /\ expireTime' = [expireTime EXCEPT ![l] = 0]
      /\ keys' = [keys EXCEPT ![l] = {}]
      /\ revoking' = [revoking EXCEPT ![t] = NoLease]
      /\ UNCHANGED <<nextLeaseId, now, snapshot, sweep>>

-----------------------------------------------------------------------------
(* The expiration thread: CheckExpiration after every sleep. *)

(* The clock is read before the mutex is taken. *)
SweepWake ==
  /\ sweep = Asleep
  /\ ~Revoking(Sweeper)
  /\ sweep' = [scanned |-> FALSE, at |-> now, due |-> {}]
  /\ UNCHANGED <<leaseTable, nextLeaseId, now, revokeVars>>

\* Mutant: the scan takes leases that are due within the next clock unit.
SweepScanEarly ==
  /\ ~sweep.scanned
  /\ LET due == {l \in leases : sweep.at + 1 >= expireTime[l]}
     IN  sweep' = [scanned |-> TRUE, at |-> 0, due |-> due]
  /\ UNCHANGED <<leaseTable, nextLeaseId, now, revokeVars>>

(* The scan, under the mutex, against the time read before. *)
SweepScan ==
  /\ ~sweep.scanned
  /\ LET due == {l \in leases : sweep.at >= expireTime[l]}
     IN  sweep' = [scanned |-> TRUE, at |-> 0, due |-> due]
  /\ UNCHANGED <<leaseTable, nextLeaseId, now, revokeVars>>

\* Mutant: a lease without keys is passed over.
SweepNextKeyless(l) ==
  /\ ~Revoking(Sweeper)
  /\ l \in sweep.due
  /\ sweep' = [sweep EXCEPT !.due = @ \ {l}]
  /\ IF keys[l] # {}
     THEN /\ revoking' = [revoking EXCEPT ![Sweeper] = l]
          /\ snapshot' = [snapshot EXCEPT ![Sweeper] = keys[l]]
     ELSE UNCHANGED revokeVars
  /\ UNCHANGED <<leaseTable, nextLeaseId, now>>

(* The next lease found due is revoked if it is still there, whatever its
   deadline is by now. *)
SweepNext(l) ==
  /\ ~Revoking(Sweeper)
  /\ l \in sweep.due
  /\ sweep' = [sweep EXCEPT !.due = @ \ {l}]
  /\ IF l \in leases
     THEN /\ revoking' = [revoking EXCEPT ![Sweeper] = l]
          /\ snapshot' = [snapshot EXCEPT ![Sweeper] = keys[l]]
     ELSE UNCHANGED revokeVars
  /\ UNCHANGED <<leaseTable, nextLeaseId, now>>

Tick ==
  /\ now < MaxNow
  /\ now' = now + 1
  /\ UNCHANGED <<leaseTable, nextLeaseId, revokeVars, sweep>>

-----------------------------------------------------------------------------
(* The lease manager on its own. *)

LMClient ==
  \/ \E seconds \in Ttl : Grant(seconds)
  \/ \E l \in LeaseId : KeepAlive(l)
  \/ \E l \in LeaseId, k \in Key : AttachKey(l, k) \/ DetachKey(l, k)
  \/ \E t \in Thread \ {Sweeper}, l \in LeaseId : RevokeStart(t, l)

LMRevoke(t) == (\E k \in Key : RevokeKey(t, k)) \/ RevokeFinish(t)

LMSweep == SweepWake \/ SweepScan \/ \E l \in LeaseId : SweepNext(l)

LMNext ==
  \/ LMClient
  \/ \E t \in Thread : LMRevoke(t)
  \/ LMSweep
  \/ Tick

(* The expiration thread runs whenever it can: it wakes up after every sleep,
   and its steps only wait for mutexes that are released. *)
LMSpec ==
  /\ LMInit /\ [][LMNext]_lmVars
  /\ WF_lmVars(LMSweep)
  /\ WF_lmVars(LMRevoke(Sweeper))

-----------------------------------------------------------------------------
(* Properties. *)

(* Every variable has its type, and a lease that is not there has no data. *)
LMTypeOK ==
  /\ leases \subseteq LeaseId
  /\ ttl \in [LeaseId -> Int]
  /\ expireTime \in [LeaseId -> Int]
  /\ keys \in [LeaseId -> SUBSET Key]
  /\ \A l \in LeaseId \ leases : ttl[l] = 0 /\ expireTime[l] = 0 /\ keys[l] = {}
  /\ nextLeaseId \in 1 .. MaxLease + 1
  /\ now \in 0 .. MaxNow
  /\ revoking \in [Thread -> LeaseId \cup {NoLease}]
  /\ snapshot \in [Thread -> SUBSET Key]
  /\ sweep \in [scanned : BOOLEAN, at : Nat, due : SUBSET LeaseId]

Due(l) == now >= expireTime[l]

(* An id is handed out once: a lease that was erased never comes back, so an
   erasure that comes late (two threads can revoke one lease) hits no other
   lease. *)
ErasedStaysErased ==
  [][\A l \in LeaseId : l < nextLeaseId /\ l \notin leases => l \notin leases']_lmVars

(* The erasure that ends the expiration thread's Revoke of l. *)
SweeperErases(l) ==
  /\ revoking[Sweeper] = l /\ revoking'[Sweeper] = NoLease
  /\ l \in leases /\ l \notin leases'

(* The expiration thread erases no lease whose deadline lies ahead, although it
   decides on a clock it read earlier and revokes step by step: an acknowledged
   renewal is worth its TTL ("TTL is the new time-to-live for the lease",
   rpc.proto:830).  This needs clients that renew before the deadline
   (LateKeepAlive = FALSE). *)
SweepOnlyDue == [][\A l \in LeaseId : SweeperErases(l) => Due(l)]_lmVars

(* A lease that is due is erased or renewed in the end. *)
DueLeaseGoes ==
  \A l \in LeaseId : (l \in leases /\ Due(l)) ~> (l \notin leases \/ ~Due(l))
=============================================================================
