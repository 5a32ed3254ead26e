------------------------ MODULE LeaseService_proofs ------------------------
(***************************************************************************)
(* Theorems of LeaseService, for every set of keys, threads and TTLs, every *)
(* clock and every bound on leases and time.                                *)
(***************************************************************************)
EXTENDS LeaseService, LeaseManager_proofs

-----------------------------------------------------------------------------
(* The handlers over the lease manager. *)

(* The handlers do nothing to the leases that the manager does not allow. *)
LEMMA ServiceSteps == [LSVNext]_lsvVars => [LMNext]_lmVars
  <1> SUFFICES ASSUME LSVNext
               PROVE  [LMNext]_lmVars
    BY DEF lsvVars
  <1>1. CASE Replies
    BY <1>1 DEF Replies, LeaseGrant, LeaseKeepAlive, LeaseTimeToLive, LMNext, LMClient
  <1>2. CASE Silent
    BY <1>2 DEF Silent, LMNext, LMClient
  <1> QED
    BY <1>1, <1>2 DEF LSVNext

(* Every behavior of the service is one of the lease manager: what LMSpec says of
   its safety holds of the service. *)
THEOREM ServiceRunsManager == LSVSpec => LMInit /\ [][LMNext]_lmVars
  <1>1. LSVInit => LMInit
    BY DEF LSVInit
  <1> QED
    BY <1>1, ServiceSteps, PTL DEF LSVSpec

-----------------------------------------------------------------------------
(* What was promised ends no later than the deadline. *)

(* A product with a natural number grows with the other factor. *)
LEMMA ProductGrows ==
  ASSUME NEW n \in Nat, NEW a \in Int, NEW b \in Int, a <= b
  PROVE  a * n <= b * n
  OBVIOUS

(* Rounding down promises no more than there is. *)
LEMMA WholeUnits ==
  ASSUME NEW d \in Int, NEW n \in Nat \ {0}
  PROVE  d \div n \in Int /\ (d \div n) * n <= d
  OBVIOUS

(* A time in the clock's range stays as it is. *)
LEMMA WrappedFits ==
  ASSUME NEW x \in Int, -ClockRange <= x, x < ClockRange
  PROVE  Wrapped(x) = x
  <1> DEFINE y == x + ClockRange
             m == 2 * ClockRange
  <1>1. y \in Nat /\ m \in Nat \ {0} /\ y < m
    BY LMAssumption
  <1>2. y % m = y
    BY <1>1
  <1> QED
    BY <1>2, LMAssumption DEF Wrapped

(* What the deadline of a lease is whose renewals fit: that of a grant or renewal
   at some time up to now; no reply promised more. *)
InTime(l) ==
  /\ 0 <= expireTime[l] /\ expireTime[l] <= now + ttl[l] * Second
  /\ promised[l] <= expireTime[l] \/ promised[l] = 0

Promised ==
  /\ promised \in [LeaseId -> Nat]
  /\ \A l \in LeaseId : l >= nextLeaseId => promised[l] = 0
  /\ \A l \in leases : Fits(l) => InTime(l)

(* A reply changes what is promised for its own lease, to the end of its TTL. *)
LEMMA ReplyChanges ==
  ASSUME promised \in [LeaseId -> Nat], now \in Nat,
         NEW l \in LeaseId, NEW seconds \in Int, ReplyTtl(l, seconds)
  PROVE  /\ promised' \in [LeaseId -> Nat]
         /\ \A j \in LeaseId : j # l => promised'[j] = promised[j]
         /\ \/ promised'[l] = promised[l]
            \/ seconds > 0 /\ promised'[l] = now + seconds * Second
  <1> DEFINE until == now + seconds * Second
  <1>1. seconds > 0 => until \in Nat
    BY LMAssumption
  <1>2. promised' = IF seconds > 0 /\ promised[l] < until
                    THEN [promised EXCEPT ![l] = until] ELSE promised
    BY DEF ReplyTtl
  <1> HIDE DEF until
  <1>3. /\ promised' \in [LeaseId -> Nat]
        /\ \A j \in LeaseId : j # l => promised'[j] = promised[j]
        /\ promised'[l] = promised[l] \/ (seconds > 0 /\ promised'[l] = until)
    BY <1>1, <1>2
  <1> QED
    BY <1>3 DEF until

(* What the steps need of the types. *)
LEMMA TimeTypes ==
  ASSUME LMInv, Promised
  PROVE  /\ now \in Nat /\ Second \in Nat \ {0} /\ ClockRange \in Nat \ {0}
         /\ leases \subseteq LeaseId /\ nextLeaseId \in Nat /\ promised \in [LeaseId -> Nat]
         /\ ttl \in [LeaseId -> Int] /\ expireTime \in [LeaseId -> Int]
         /\ \A l \in LeaseId : /\ ttl[l] \in Int /\ expireTime[l] \in Int
                               /\ promised[l] \in Nat /\ ttl[l] * Second \in Int
         /\ \A l \in leases : l \in Nat /\ l < nextLeaseId
  BY LMAssumption DEF LMInv, LMTypeOK, IdsKnown, Promised, LeaseId

(* A deadline that fits is as many seconds away as asked for. *)
LEMMA DeadlineFits ==
  ASSUME now \in Nat, NEW seconds \in Int, now + seconds * Second \in now .. ClockRange - 1
  PROVE  Deadline(seconds) = now + seconds * Second
  <1> DEFINE x == now + seconds * Second
  <1>1. seconds * Second \in Int
    BY LMAssumption
  <1>2. x \in Int /\ -ClockRange <= x /\ x < ClockRange
    BY <1>1, LMAssumption
  <1> QED
    BY <1>2, WrappedFits DEF Deadline

(* A lease with its times, the clock and the promise as they were stays so. *)
LEMMA Unmoved ==
  ASSUME Promised, NEW l \in leases, Fits(l)',
         ttl'[l] = ttl[l], expireTime'[l] = expireTime[l], promised'[l] = promised[l],
         UNCHANGED now
  PROVE  InTime(l)'
  BY DEF Promised, Fits, InTime

LEMMA PromisedGrant ==
  ASSUME LMInv, Promised, NEW seconds \in Ttl, LeaseGrant(seconds)
  PROVE  Promised'
  <1> DEFINE l == nextLeaseId
  <1>1. /\ l \in LeaseId /\ l \notin leases /\ seconds \in Int /\ promised[l] = 0
    BY TimeTypes, LMAssumption DEF LeaseGrant, Grant, Promised
  <1>2. /\ nextLeaseId' = l + 1 /\ leases' = leases \cup {l} /\ UNCHANGED now
        /\ ttl' = [ttl EXCEPT ![l] = seconds]
        /\ expireTime' = [expireTime EXCEPT ![l] = Deadline(seconds)]
    BY DEF LeaseGrant, Grant
  <1>3. /\ promised' \in [LeaseId -> Nat]
        /\ \A j \in LeaseId : j # l => promised'[j] = promised[j]
        /\ promised'[l] = 0 \/ promised'[l] = now + seconds * Second
    BY <1>1, TimeTypes, ReplyChanges DEF LeaseGrant
  <1>4. ASSUME NEW j \in LeaseId, j >= nextLeaseId'
        PROVE  promised'[j] = 0
    BY <1>2, <1>3, <1>4, TimeTypes DEF Promised, LeaseId
  <1>5. ASSUME NEW j \in leases', Fits(j)'
        PROVE  InTime(j)'
    <2>1. CASE j = l
      <3>1. ttl'[j] = seconds /\ expireTime'[j] = Deadline(seconds)
        BY <1>1, <1>2, <2>1, TimeTypes
      <3>2. now + seconds * Second \in now .. ClockRange - 1
        BY <1>2, <1>5, <3>1 DEF Fits
      <3>3. expireTime'[j] = now + seconds * Second
        BY <1>1, <3>1, <3>2, TimeTypes, DeadlineFits
      <3> DEFINE x == now + seconds * Second
      <3>4. x \in Nat /\ expireTime'[j] = x /\ now' + ttl'[j] * Second = x
            /\ (promised'[j] = 0 \/ promised'[j] = x)
        BY <1>1, <1>2, <1>3, <2>1, <3>1, <3>2, <3>3, TimeTypes
      <3> HIDE DEF x
      <3> QED
        BY <3>4 DEF InTime
    <2>2. CASE j # l
      <3>1. j \in leases
        BY <1>2, <1>5, <2>2
      <3>2. ttl'[j] = ttl[j] /\ expireTime'[j] = expireTime[j] /\ promised'[j] = promised[j]
        BY <1>2, <1>3, <2>2, <3>1, TimeTypes
      <3> QED
        BY <1>2, <1>5, <3>1, <3>2, Unmoved
    <2> QED
      BY <2>1, <2>2
  <1> QED
    BY <1>3, <1>4, <1>5 DEF Promised

LEMMA PromisedKeepAlive ==
  ASSUME LMInv, Promised, NEW l \in LeaseId, LeaseKeepAlive(l)
  PROVE  Promised'
  <1>1. /\ l \in leases /\ UNCHANGED <<leases, ttl, nextLeaseId, now>>
        /\ expireTime' = [expireTime EXCEPT ![l] = Deadline(ttl[l])]
    BY DEF LeaseKeepAlive, KeepAlive
  <1> DEFINE x == now + ttl[l] * Second
  <1>2. /\ promised' \in [LeaseId -> Nat]
        /\ \A j \in LeaseId : j # l => promised'[j] = promised[j]
        /\ promised'[l] = promised[l] \/ promised'[l] = x
    BY <1>1, TimeTypes, ReplyChanges DEF LeaseKeepAlive
  <1>3. \A j \in LeaseId : j >= nextLeaseId' => promised'[j] = 0
    BY <1>1, <1>2, TimeTypes DEF Promised, LeaseId
  <1>4. ASSUME NEW j \in leases', Fits(j)'
        PROVE  InTime(j)'
    <2>1. CASE j = l
      <3>1. x \in now .. ClockRange - 1 /\ InTime(l)
        BY <1>1, <1>4, <2>1 DEF Fits, Promised
      <3>2. expireTime'[l] = x
        BY <1>1, <3>1, TimeTypes, DeadlineFits
      <3>3. /\ x \in Nat /\ now' + ttl'[l] * Second = x
            /\ expireTime[l] <= x /\ (promised[l] <= expireTime[l] \/ promised[l] = 0)
        BY <1>1, <3>1, TimeTypes DEF InTime
      <3> HIDE DEF x
      <3> QED
        BY <1>1, <1>2, <2>1, <3>2, <3>3, TimeTypes DEF InTime
    <2>2. CASE j # l
      <3>1. /\ j \in leases /\ ttl'[j] = ttl[j] /\ expireTime'[j] = expireTime[j]
            /\ promised'[j] = promised[j]
        BY <1>1, <1>2, <1>4, <2>2, TimeTypes
      <3> QED
        BY <1>1, <1>4, <3>1, Unmoved
    <2> QED
      BY <2>1, <2>2
  <1> QED
    BY <1>2, <1>3, <1>4 DEF Promised

(* What is reported as left is not more than what is left. *)
LEMMA PromisedTimeToLive ==
  ASSUME LMInv, Promised, NEW l \in LeaseId, LeaseTimeToLive(l)
  PROVE  Promised'
  <1> DEFINE left == expireTime[l] - now
             whole == left \div Second
  <1>1. l \in leases /\ UNCHANGED <<leases, ttl, expireTime, nextLeaseId, now>>
    BY DEF LeaseTimeToLive, lmVars
  <1>2. TimeToLive(l) \in Int
    <2> DEFINE y == left + ClockRange
               m == 2 * ClockRange
    <2>1. y \in Int /\ m \in Nat \ {0}
      BY TimeTypes
    <2>2. y % m \in Int
      BY <2>1
    <2>3. Wrapped(left) \in Int
      BY <2>2, TimeTypes DEF Wrapped
    <2> HIDE DEF left
    <2>4. Wrapped(left) \div Second \in Int
      BY <2>3, TimeTypes, WholeUnits
    <2> QED
      BY <2>4 DEF TimeToLive, left
  <1>3. /\ promised' \in [LeaseId -> Nat]
        /\ \A j \in LeaseId : j # l => promised'[j] = promised[j]
        /\ \/ promised'[l] = promised[l]
           \/ TimeToLive(l) > 0 /\ promised'[l] = now + TimeToLive(l) * Second
    BY <1>2, TimeTypes, ReplyChanges DEF LeaseTimeToLive
  <1>4. \A j \in LeaseId : j >= nextLeaseId' => promised'[j] = 0
    BY <1>1, <1>3, TimeTypes DEF Promised, LeaseId
  <1>5. ASSUME NEW j \in leases', Fits(j)'
        PROVE  InTime(j)'
    <2>1. j \in leases /\ Fits(j) /\ InTime(j)
      BY <1>1, <1>5 DEF Fits, Promised
    <2>2. CASE promised'[j] = promised[j]
      BY <1>1, <2>1, <2>2 DEF InTime
    <2>3. CASE promised'[j] # promised[j]
      <3>1. j = l /\ TimeToLive(l) > 0 /\ promised'[l] = now + TimeToLive(l) * Second
        BY <1>3, <2>1, <2>3, TimeTypes
      <3>2. left \in Int /\ -ClockRange <= left /\ left < ClockRange
        <4> DEFINE x == ttl[l] * Second
        <4>1. /\ x \in Int /\ now + x \in now .. ClockRange - 1
              /\ 0 <= expireTime[l] /\ expireTime[l] <= now + x
          BY <2>1, <3>1, TimeTypes DEF Fits, InTime
        <4> HIDE DEF x
        <4> QED
          BY <1>1, <4>1, TimeTypes
      <3>3. Wrapped(left) = left
        BY <3>2, WrappedFits
      <3>4. TimeToLive(l) = whole
        BY <3>1, <3>3 DEF TimeToLive
      <3> HIDE DEF left
      <3>5. whole \in Int /\ whole * Second <= left
        BY <3>2, TimeTypes, WholeUnits
      <3>6. promised'[l] = now + whole * Second
        BY <3>1, <3>4
      <3> DEFINE y == whole * Second
      <3>7. y \in Int
        BY <3>5, TimeTypes
      <3> HIDE DEF whole, y
      <3>8. promised'[l] = now + y /\ y <= left
        BY <3>5, <3>6 DEF y
      <3>9. promised'[l] <= expireTime[l]
        BY <1>1, <3>2, <3>7, <3>8, TimeTypes DEF left
      <3> QED
        BY <1>1, <2>1, <3>1, <3>9 DEF InTime
    <2> QED
      BY <2>2, <2>3
  <1> QED
    BY <1>3, <1>4, <1>5 DEF Promised

(* The other steps move no deadline; the clock only goes forward. *)
LEMMA PromisedSilent ==
  ASSUME LMInv, Promised, Silent
  PROVE  Promised'
  <1>1. UNCHANGED promised
    BY DEF Silent
  <1>2. ASSUME UNCHANGED <<nextLeaseId, now>>, leases' \subseteq leases,
               \A l \in leases' : ttl'[l] = ttl[l] /\ expireTime'[l] = expireTime[l]
        PROVE  Promised'
    <2>1. \A l \in leases' : Fits(l)' => InTime(l)'
      BY <1>1, <1>2, Unmoved
    <2> QED
      BY <1>1, <1>2, <2>1 DEF Promised
  <1>3. CASE Tick
    <2>1. now' = now + 1 /\ UNCHANGED <<leases, ttl, expireTime, nextLeaseId>>
      BY <1>3 DEF Tick, leaseTable
    <2>2. ASSUME NEW l \in leases, Fits(l)'
          PROVE  InTime(l)'
      <3> DEFINE x == ttl[l] * Second
      <3>1. x \in Int /\ expireTime[l] \in Int /\ now + 1 + x \in now + 1 .. ClockRange - 1
        BY <2>1, <2>2, TimeTypes DEF Fits
      <3>2. now + x \in now .. ClockRange - 1 => /\ 0 <= expireTime[l] /\ expireTime[l] <= now + x
                                                 /\ promised[l] <= expireTime[l] \/ promised[l] = 0
        BY DEF Promised, Fits, InTime
      <3>3. InTime(l)' <=> /\ 0 <= expireTime[l] /\ expireTime[l] <= now + 1 + x
                           /\ promised[l] <= expireTime[l] \/ promised[l] = 0
        BY <1>1, <2>1 DEF InTime
      <3> HIDE DEF x
      <3> QED
        BY <3>1, <3>2, <3>3, TimeTypes
    <2> QED
      BY <1>1, <2>1, <2>2 DEF Promised
  <1>4. ASSUME NEW t \in Thread, RevokeFinish(t)
        PROVE  Promised'
    <2>1. /\ leases' = leases \ {revoking[t]} /\ UNCHANGED <<nextLeaseId, now>>
          /\ \A l \in LeaseId : l # revoking[t] =>
               ttl'[l] = ttl[l] /\ expireTime'[l] = expireTime[l]
      BY <1>4, TimeTypes DEF RevokeFinish
    <2> QED
      BY <1>2, <2>1, TimeTypes
  <1>5. CASE UNCHANGED <<leases, ttl, expireTime, nextLeaseId, now>>
    BY <1>2, <1>5
  <1> QED
    BY <1>3, <1>4, <1>5
       DEF Silent, AttachKey, DetachKey, RevokeStart, LMRevoke, RevokeKey, LMSweep, SweepWake,
           SweepScan, SweepNext, leaseTable

-----------------------------------------------------------------------------
(* The theorem. *)

(* What the expiration thread revokes is due, so what was promised is over. *)
LEMMA PromiseOver ==
  ASSUME LMInv, SweepSound, Promised
  PROVE  PromisedTimeKept
  <1> SUFFICES ASSUME NEW l \in leases, revoking[Sweeper] = l, Fits(l)
               PROVE  promised[l] <= now
    BY DEF PromisedTimeKept
  <1>1. /\ expireTime[l] <= now /\ expireTime[l] \in Int /\ promised[l] \in Nat /\ now \in Nat
        /\ promised[l] <= expireTime[l] \/ promised[l] = 0
    BY TimeTypes DEF SweepSound, Promised, InTime
  <1> QED
    BY <1>1

(* When clients renew before the deadline, the expiration thread revokes no lease
   before the time is over that any reply promised for it - the grant, a renewal,
   or LeaseTimeToLive in whole seconds - for any TTLs whose deadlines fit the
   clock's type, however the handlers and the thread interleave. *)
THEOREM PromisesAreKept == LateKeepAlive = FALSE => (LSVSpec => []PromisedTimeKept)
  <1> SUFFICES ASSUME LateKeepAlive = FALSE
               PROVE  LSVSpec => []PromisedTimeKept
    OBVIOUS
  <1> DEFINE Inv == LMInv /\ SweepSound /\ Promised
  <1>1. LSVInit => Inv
    <2> SUFFICES ASSUME LSVInit
                 PROVE  LMInv /\ SweepSound /\ Promised
      OBVIOUS
    <2>1. LMInv
      BY LMInvInit DEF LSVInit
    <2> QED
      BY <2>1 DEF LSVInit, LMInit, SweepSound, Asleep, Promised
  <1>2. Inv /\ [LSVNext]_lsvVars => Inv'
    <2> SUFFICES ASSUME LMInv, SweepSound, Promised, [LSVNext]_lsvVars
                 PROVE  LMInv' /\ SweepSound' /\ Promised'
      OBVIOUS
    <2>1. [LMNext]_lmVars
      BY ServiceSteps
    <2>2. LMInv' /\ SweepSound'
      BY <2>1, LMInvStep, SweepSoundStep
    <2>3. UNCHANGED lsvVars => Promised'
      BY DEF lsvVars, lmVars, Promised, Fits, InTime
    <2>4. LSVNext => Promised'
      BY PromisedGrant, PromisedKeepAlive, PromisedTimeToLive, PromisedSilent
         DEF LSVNext, Replies
    <2> QED
      BY <2>2, <2>3, <2>4
  <1>3. Inv => PromisedTimeKept
    BY PromiseOver
  <1> QED
    BY <1>1, <1>2, <1>3, PTL DEF LSVSpec
=============================================================================
