------------------------ MODULE LeaseManager_proofs ------------------------
(***************************************************************************)
(* Theorems of LeaseManager, for every set of keys, threads and TTLs, every *)
(* clock and every bound on leases and time.                                *)
(***************************************************************************)
EXTENDS LeaseManager, TLAPS

(* A deadline is a time of the clock's type. *)
LEMMA DeadlineType ==
  ASSUME NEW seconds \in Int, now \in Int
  PROVE  Deadline(seconds) \in Int
  <1> DEFINE x == now + seconds * Second + ClockRange
             m == 2 * ClockRange
  <1>1. x \in Int /\ m \in Nat \ {0}
    BY LMAssumption
  <1>2. x % m \in Int
    BY <1>1
  <1> QED
    BY <1>2, LMAssumption DEF Deadline, Wrapped

(* Besides the types: only ids that were handed out are in use anywhere. *)
IdsKnown ==
  /\ \A l \in leases : l < nextLeaseId
  /\ \A l \in sweep.due : l < nextLeaseId
  /\ \A t \in Thread : revoking[t] < nextLeaseId

LMInv == LMTypeOK /\ IdsKnown

(* The first state has its types and no lease. *)
LEMMA LMInvInit == LMInit => LMInv
  BY LMAssumption DEF LMInit, LMInv, LMTypeOK, IdsKnown, Asleep, LeaseId, NoLease

(* Each action keeps the invariant. *)
LEMMA GrantInv ==
  ASSUME LMInv, NEW seconds \in Ttl, Grant(seconds)
  PROVE  LMInv'
  <1> USE DEF LMInv
  <1>1. seconds \in Int /\ nextLeaseId \in LeaseId /\ now \in Int
    BY LMAssumption DEF Grant, LMTypeOK
  <1>2. Deadline(seconds) \in Int
    BY <1>1, DeadlineType
  <1>3. /\ nextLeaseId' = nextLeaseId + 1
        /\ leases' = leases \cup {nextLeaseId}
        /\ ttl' = [ttl EXCEPT ![nextLeaseId] = seconds]
        /\ expireTime' = [expireTime EXCEPT ![nextLeaseId] = Deadline(seconds)]
        /\ UNCHANGED <<keys, now, revoking, snapshot, sweep>>
    BY DEF Grant, revokeVars
  <1>4. LMTypeOK'
    <2>1. leases' \subseteq LeaseId /\ LeaseId \ leases' \subseteq LeaseId \ leases
      BY <1>1, <1>3 DEF LMTypeOK
    <2>2. /\ ttl' \in [LeaseId -> Int] /\ expireTime' \in [LeaseId -> Int]
          /\ \A l \in LeaseId \ leases' : ttl'[l] = ttl[l] /\ expireTime'[l] = expireTime[l]
      BY <1>1, <1>2, <1>3 DEF LMTypeOK
    <2>3. nextLeaseId' \in 1 .. MaxLease + 1
      BY <1>1, <1>3, LMAssumption DEF LeaseId
    <2> QED
      BY <1>3, <2>1, <2>2, <2>3 DEF LMTypeOK
  <1>5. IdsKnown'
    <2>1. nextLeaseId \in Int /\ \A t \in Thread : revoking[t] \in Int
      BY DEF LMTypeOK, LeaseId, NoLease
    <2>2. sweep.due \subseteq Int /\ leases \subseteq Int
      BY DEF LMTypeOK, LeaseId
    <2> QED
      BY <1>3, <2>1, <2>2 DEF IdsKnown
  <1> QED
    BY <1>4, <1>5

(* A renewal writes the deadline of a lease that is there. *)
LEMMA KeepAliveInv ==
  ASSUME LMInv, NEW l \in LeaseId, KeepAlive(l)
  PROVE  LMInv'
  <1>1. Deadline(ttl[l]) \in Int
    BY DeadlineType DEF LMInv, LMTypeOK
  <1> QED
    BY <1>1 DEF LMInv, LMTypeOK, IdsKnown, KeepAlive, revokeVars

(* AttachKey and DetachKey change the key set of a lease that is there. *)
LEMMA AttachInv ==
  ASSUME LMInv, NEW l, NEW k \in Key, AttachKey(l, k) \/ DetachKey(l, k)
  PROVE  LMInv'
  <1>1. UNCHANGED <<leases, ttl, expireTime, nextLeaseId, now, revoking, snapshot, sweep>>
    BY DEF AttachKey, DetachKey, revokeVars
  <1>2. keys' \in [LeaseId -> SUBSET Key] /\ \A i \in LeaseId \ leases : keys'[i] = keys[i]
    BY DEF LMInv, LMTypeOK, AttachKey, DetachKey
  <1> QED
    BY <1>1, <1>2 DEF LMInv, LMTypeOK, IdsKnown

(* The steps of Revoke erase a lease together with its data. *)
LEMMA RevokeInv ==
  ASSUME LMInv, NEW t \in Thread, NEW l \in LeaseId,
         RevokeStart(t, l) \/ (\E k \in Key : RevokeKey(t, k)) \/ RevokeFinish(t)
  PROVE  LMInv'
  <1>1. CASE RevokeStart(t, l)
    BY <1>1 DEF LMInv, LMTypeOK, IdsKnown, RevokeStart, leaseTable
  <1>2. CASE \E k \in Key : RevokeKey(t, k)
    BY <1>2 DEF LMInv, LMTypeOK, IdsKnown, RevokeKey, leaseTable
  <1>3. CASE RevokeFinish(t)
    <2>1. revoking[t] \in LeaseId /\ 0 < nextLeaseId
      BY <1>3 DEF LMInv, LMTypeOK, RevokeFinish, Revoking
    <2> QED
      BY <1>3, <2>1 DEF LMInv, LMTypeOK, IdsKnown, RevokeFinish, NoLease
  <1> QED
    BY <1>1, <1>2, <1>3

(* The expiration thread only revokes leases that can exist. *)
LEMMA SweepInv ==
  ASSUME LMInv, LMSweep
  PROVE  LMInv'
  <1>1. CASE SweepWake
    BY <1>1 DEF LMInv, LMTypeOK, IdsKnown, SweepWake, leaseTable, revokeVars
  <1>2. CASE SweepScan
    <2>1. \E due \in SUBSET leases : sweep' = [scanned |-> TRUE, at |-> 0, due |-> due]
      BY <1>2 DEF SweepScan
    <2> QED
      BY <1>2, <2>1 DEF LMInv, LMTypeOK, IdsKnown, SweepScan, leaseTable, revokeVars
  <1>3. CASE \E l \in LeaseId : SweepNext(l)
    <2>1. PICK l \in LeaseId : SweepNext(l)
      BY <1>3
    <2>2. /\ UNCHANGED <<leases, ttl, expireTime, keys, nextLeaseId, now>>
          /\ sweep' = [sweep EXCEPT !.due = @ \ {l}]
          /\ l \in sweep.due
      BY <2>1 DEF SweepNext, leaseTable
    <2>3. sweep' \in [scanned : BOOLEAN, at : Nat, due : SUBSET LeaseId]
          /\ sweep'.due \subseteq sweep.due
      BY <2>2 DEF LMInv, LMTypeOK
    <2>4. /\ revoking' \in [Thread -> LeaseId \cup {NoLease}]
          /\ snapshot' \in [Thread -> SUBSET Key]
          /\ \A t \in Thread : revoking'[t] \in {revoking[t], l}
      BY <2>1, LMAssumption DEF LMInv, LMTypeOK, SweepNext, revokeVars
    <2> QED
      BY <2>2, <2>3, <2>4 DEF LMInv, LMTypeOK, IdsKnown
  <1> QED
    BY <1>1, <1>2, <1>3 DEF LMSweep

(* The clock leaves the leases alone. *)
LEMMA TickInv ==
  ASSUME LMInv, Tick
  PROVE  LMInv'
  BY LMAssumption DEF LMInv, LMTypeOK, IdsKnown, Tick, leaseTable, revokeVars

(* Every step keeps the types. *)
LEMMA LMInvStep == LMInv /\ [LMNext]_lmVars => LMInv'
  <1> SUFFICES ASSUME LMInv, [LMNext]_lmVars
               PROVE  LMInv'
    OBVIOUS
  <1>1. CASE LMClient
    BY <1>1, GrantInv, KeepAliveInv, AttachInv, RevokeInv DEF LMClient
  <1>2. ASSUME NEW t \in Thread, LMRevoke(t)
        PROVE  LMInv'
    <2>1. \E l : l \in LeaseId
      BY <1>2 DEF LMRevoke, RevokeKey, RevokeFinish, Revoking, LMInv, LMTypeOK
    <2> QED
      BY <1>2, <2>1, RevokeInv DEF LMRevoke
  <1>3. CASE UNCHANGED lmVars
    BY <1>3 DEF LMInv, LMTypeOK, IdsKnown, lmVars
  <1> QED
    BY <1>1, <1>2, <1>3, SweepInv, TickInv DEF LMNext

(* The types hold throughout. *)
LEMMA LMInvariant == LMSpec => []LMInv
  BY LMInvInit, LMInvStep, PTL DEF LMSpec

(* The lease manager's variables keep their types. *)
THEOREM LMTypeCorrect == LMSpec => []LMTypeOK
  <1>1. LMInv => LMTypeOK
    BY DEF LMInv
  <1> QED
    BY <1>1, LMInvariant, PTL

-----------------------------------------------------------------------------
(* A lease that was erased never comes back. *)

(* A step adds no lease whose id was handed out before it. *)
LEMMA ErasedStep ==
  ASSUME LMInv, [LMNext]_lmVars, NEW l \in LeaseId, l < nextLeaseId, l \notin leases
  PROVE  l \notin leases'
  <1>1. ASSUME NEW seconds \in Ttl, Grant(seconds)
        PROVE  l \notin leases'
    <2>1. leases' = leases \cup {nextLeaseId} /\ nextLeaseId # l
      BY <1>1 DEF Grant, LeaseId
    <2> QED
      BY <2>1
  <1>2. ASSUME NEW t \in Thread, LMRevoke(t)
        PROVE  l \notin leases'
    BY <1>2 DEF LMRevoke, RevokeKey, RevokeFinish, leaseTable
  <1>3. CASE LMClient
    BY <1>1, <1>3 DEF LMClient, KeepAlive, AttachKey, DetachKey, RevokeStart, leaseTable
  <1>4. CASE LMSweep \/ Tick
    BY <1>4 DEF LMSweep, SweepWake, SweepScan, SweepNext, Tick, leaseTable
  <1>5. CASE UNCHANGED lmVars
    BY <1>5 DEF lmVars
  <1> QED
    BY <1>2, <1>3, <1>4, <1>5 DEF LMNext

(* An id is handed out once. *)
THEOREM IdsHandedOutOnce == LMSpec => ErasedStaysErased
  <1>1. LMInv /\ [LMNext]_lmVars =>
          [\A l \in LeaseId : l < nextLeaseId /\ l \notin leases => l \notin leases']_lmVars
    BY ErasedStep
  <1> QED
    BY <1>1, LMInvariant, PTL DEF LMSpec, ErasedStaysErased

-----------------------------------------------------------------------------
(* The expiration thread and clients that renew in time. *)

(* What the expiration thread is about to revoke is due, and stays so: the clock
   it read is not ahead of the clock, and a lease that is due is not renewed. *)
SweepSound ==
  /\ ~sweep.scanned => sweep.at <= now
  /\ \A l \in leases : l \in sweep.due \/ revoking[Sweeper] = l => expireTime[l] <= now

(* Every step keeps what the expiration thread is about to erase due. *)
LEMMA SweepSoundStep ==
  ASSUME LateKeepAlive = FALSE, LMInv, SweepSound, [LMNext]_lmVars
  PROVE  SweepSound'
  <1>1. /\ now \in Nat /\ sweep.at \in Nat /\ sweep.due \subseteq LeaseId
        /\ leases \subseteq LeaseId
        /\ \A l \in LeaseId : expireTime[l] \in Int
        /\ revoking \in [Thread -> LeaseId \cup {NoLease}] /\ Sweeper \in Thread
    BY LMAssumption DEF LMInv, LMTypeOK
  <1>2. ASSUME UNCHANGED <<expireTime, now, sweep>>, leases' \subseteq leases,
               revoking'[Sweeper] \in {revoking[Sweeper], NoLease}
        PROVE  SweepSound'
    <2>1. NoLease \notin leases
      BY <1>1 DEF LeaseId, NoLease
    <2> QED
      BY <1>2, <2>1 DEF SweepSound
  <1>3. ASSUME NEW seconds \in Ttl, Grant(seconds)
        PROVE  SweepSound'
    <2>1. /\ leases' = leases \cup {nextLeaseId} /\ nextLeaseId \in LeaseId
          /\ \A l \in LeaseId : l # nextLeaseId => expireTime'[l] = expireTime[l]
          /\ UNCHANGED <<now, revoking, sweep>>
      BY <1>3 DEF Grant, LMInv, LMTypeOK, revokeVars
    <2>2. nextLeaseId \notin sweep.due /\ revoking[Sweeper] # nextLeaseId
      BY <1>1, <2>1 DEF LMInv, IdsKnown, LeaseId
    <2> QED
      BY <1>1, <2>1, <2>2 DEF SweepSound
  <1>4. ASSUME NEW l \in LeaseId, KeepAlive(l)
        PROVE  SweepSound'
    <2>1. l \in leases /\ now < expireTime[l]
      BY <1>4 DEF KeepAlive
    <2>2. l \notin sweep.due /\ revoking[Sweeper] # l
      BY <1>1, <2>1 DEF SweepSound
    <2> QED
      BY <1>1, <1>4, <2>2 DEF KeepAlive, SweepSound, revokeVars, LMInv, LMTypeOK
  <1>5. CASE LMClient
    <2>1. ASSUME NEW l \in LeaseId, NEW k \in Key, AttachKey(l, k) \/ DetachKey(l, k)
          PROVE  SweepSound'
      BY <1>2, <2>1 DEF AttachKey, DetachKey, revokeVars
    <2>2. ASSUME NEW t \in Thread \ {Sweeper}, NEW l \in LeaseId, RevokeStart(t, l)
          PROVE  SweepSound'
      BY <1>1, <1>2, <2>2 DEF RevokeStart, leaseTable
    <2> QED
      BY <1>3, <1>4, <1>5, <2>1, <2>2 DEF LMClient
  <1>6. ASSUME NEW t \in Thread, LMRevoke(t)
        PROVE  SweepSound'
    <2>1. CASE \E k \in Key : RevokeKey(t, k)
      BY <1>2, <2>1 DEF RevokeKey, leaseTable
    <2>2. CASE RevokeFinish(t)
      <3>1. /\ leases' = leases \ {revoking[t]}
            /\ \A l \in LeaseId : l # revoking[t] => expireTime'[l] = expireTime[l]
            /\ UNCHANGED <<now, sweep>>
            /\ revoking'[Sweeper] \in {revoking[Sweeper], NoLease}
        BY <1>1, <2>2 DEF RevokeFinish, LMInv, LMTypeOK
      <3>2. NoLease \notin leases
        BY <1>1 DEF LeaseId, NoLease
      <3> QED
        BY <1>1, <3>1, <3>2 DEF SweepSound
    <2> QED
      BY <1>6, <2>1, <2>2 DEF LMRevoke
  <1>7. CASE SweepWake
    BY <1>1, <1>7 DEF SweepWake, SweepSound, Asleep, leaseTable, revokeVars
  <1>8. CASE SweepScan
    <2>1. /\ UNCHANGED <<leases, expireTime, now, revoking>>
          /\ sweep' = [scanned |-> TRUE, at |-> 0,
                       due |-> {l \in leases : sweep.at >= expireTime[l]}]
          /\ sweep.at <= now
      BY <1>8 DEF SweepScan, SweepSound, leaseTable, revokeVars
    <2>2. \A l \in sweep'.due : expireTime[l] <= now
      BY <1>1, <2>1
    <2> QED
      BY <2>1, <2>2 DEF SweepSound
  <1>9. ASSUME NEW l \in LeaseId, SweepNext(l)
        PROVE  SweepSound'
    <2>1. /\ UNCHANGED <<leases, expireTime, now>>
          /\ sweep'.due \subseteq sweep.due /\ l \in sweep.due
          /\ sweep'.scanned = sweep.scanned /\ sweep'.at = sweep.at
          /\ revoking'[Sweeper] \in {revoking[Sweeper], l}
      BY <1>1, <1>9 DEF SweepNext, leaseTable, revokeVars, LMInv, LMTypeOK
    <2> QED
      BY <2>1 DEF SweepSound
  <1>10. CASE Tick
    BY <1>1, <1>10 DEF Tick, SweepSound, leaseTable, revokeVars
  <1>11. CASE UNCHANGED lmVars
    BY <1>2, <1>11 DEF lmVars
  <1> QED
    BY <1>5, <1>6, <1>7, <1>8, <1>9, <1>10, <1>11 DEF LMNext, LMSweep

(* What the expiration thread erases in such a state is due. *)
LEMMA SweepSoundErases ==
  ASSUME LMInv, SweepSound, NEW l \in LeaseId, SweeperErases(l)
  PROVE  Due(l)
  <1>1. expireTime[l] <= now /\ expireTime[l] \in Int /\ now \in Int
    BY DEF SweepSound, SweeperErases, LMInv, LMTypeOK
  <1> QED
    BY <1>1 DEF Due

(* When clients renew before the deadline, the expiration thread erases no lease
   whose deadline lies ahead. *)
THEOREM TimelyRenewalIsSafe == LateKeepAlive = FALSE => (LMSpec => SweepOnlyDue)
  <1> SUFFICES ASSUME LateKeepAlive = FALSE
               PROVE  LMSpec => SweepOnlyDue
    OBVIOUS
  <1>1. LMInit => SweepSound
    BY DEF LMInit, SweepSound, Asleep
  <1>2. LMInv /\ SweepSound /\ [LMNext]_lmVars => SweepSound'
    BY SweepSoundStep
  <1>3. LMInv /\ SweepSound /\ [LMNext]_lmVars =>
          [\A l \in LeaseId : SweeperErases(l) => Due(l)]_lmVars
    BY SweepSoundErases
  <1> QED
    BY <1>1, <1>2, <1>3, LMInvariant, PTL DEF LMSpec, SweepOnlyDue
=============================================================================
