------------------------- MODULE LeaseStore_proofs -------------------------
(***************************************************************************)
(* Theorems of LeaseStore.  The store and the lease manager each move by    *)
(* their own steps, so what was proved of them alone holds of them here;    *)
(* then what relates the two: the key sets of the leases and the leases of  *)
(* the keys.                                                                *)
(***************************************************************************)
EXTENDS LeaseStore, KVStore_proofs, LeaseManager_proofs

-----------------------------------------------------------------------------
(* The components move by their own steps. *)

(* A visit to AttachKey or DetachKey is a step of the lease manager, also when
   the lease is not one it knows. *)
LEMMA VisitMoves ==
  ASSUME LMTypeOK, NEW l, NEW k \in Key, AttachKey(l, k) \/ DetachKey(l, k)
  PROVE  [LMNext]_lmVars
  <1>1. CASE l \in LeaseId
    BY <1>1 DEF LMNext, LMClient
  <1>2. CASE l \notin LeaseId
    <2>1. l \notin leases
      BY <1>2 DEF LMTypeOK
    <2> QED
      BY <2>1 DEF AttachKey, DetachKey, lmVars, revokeVars
  <1> QED
    BY <1>1, <1>2

(* A step inside the mutex is a step of the store beside one of the lease manager. *)
LEMMA InMutexMoves ==
  ASSUME KVTypeOK, LMTypeOK, InMutex
  PROVE  KVProceed /\ [LMNext]_lmVars
  <1> USE DEF KVTypeOK
  <1>1. CASE DetachOld
    BY <1>1, HeadAndTail, VisitMoves DEF DetachOld, PutDetach, KVProceed
  <1>2. CASE AttachAndStore
    BY <1>2, HeadAndTail, VisitMoves DEF AttachAndStore, PutStore, KVProceed
  <1>3. CASE \E k \in Key : DetachAndErase(k)
    BY <1>3, VisitMoves DEF DetachAndErase, KVProceed
  <1>4. CASE (EraseDone \/ TxnRange \/ Unlock) /\ UNCHANGED <<lmVars, since>>
    BY <1>4 DEF KVProceed
  <1> QED
    BY <1>1, <1>2, <1>3, <1>4 DEF InMutex

(* Every step of the server is a step or a stutter of each component. *)
LEMMA ComponentsMove ==
  ASSUME KVTypeOK, LMTypeOK, [Next]_vars
  PROVE  KVMove /\ [LMNext]_lmVars
  <1>1. ASSUME NEW t \in Clients, KVRequest(t)
        PROVE  Locks /\ UNCHANGED lmVars
    BY <1>1, PutLocks, DeleteLocks, TxnLocks
       DEF KVRequest, Clients, ClientPut, ClientDelete, ClientTxn
  <1>2. CASE InMutex
    BY <1>2, InMutexMoves DEF KVMove
  <1>3. CASE LeaseRequest
    BY <1>3 DEF LeaseRequest, LMNext, LMClient, KVMove
  <1>4. ASSUME NEW t \in Clients, NEW l \in LeaseId, ClientRevoke(t, l)
        PROVE  UNCHANGED kvVars /\ LMClient
    BY <1>4 DEF ClientRevoke, LMClient, Clients
  <1>5. ASSUME NEW t \in Thread, NEW k \in Key, RevokeDeletes(t, k)
        PROVE  Locks /\ LMRevoke(t)
    BY <1>5, DeleteLocks DEF RevokeDeletes, LMRevoke, RangeEnd
  <1>6. ASSUME NEW t \in Thread, RevokeReturns(t)
        PROVE  UNCHANGED kvVars /\ LMRevoke(t)
    BY <1>6 DEF RevokeReturns, LMRevoke
  <1>7. CASE Sweep
    BY <1>7 DEF Sweep, LMSweep, LMNext, KVMove
  <1>8. CASE Tick /\ UNCHANGED <<kvVars, since>>
    BY <1>8 DEF LMNext, KVMove
  <1>9. CASE UNCHANGED vars
    BY <1>9 DEF vars, KVMove
  <1> QED
    BY <1>1, <1>2, <1>3, <1>4, <1>5, <1>6, <1>7, <1>8, <1>9 DEF Next, LMNext, KVMove

(* The invariants of the components. *)
ComponentInv == SerialInv /\ LMInv

(* The components' invariants give their types. *)
LEMMA ComponentTypes == ComponentInv => KVTypeOK /\ LMTypeOK
  BY DEF ComponentInv, SerialInv, MapInv, RevisionInv, LMInv

(* Both components start in their first states. *)
LEMMA ComponentInit == Init => ComponentInv
  BY SerialInit, LMInvInit DEF Init, ComponentInv

(* Both components' invariants are kept by the steps of the server. *)
LEMMA ComponentStep == ComponentInv /\ [Next]_vars => ComponentInv'
  BY ComponentTypes, ComponentsMove, SerialStep, LMInvStep DEF ComponentInv

(* Both components' invariants hold throughout. *)
LEMMA ComponentInvariant == Spec => []ComponentInv
  BY ComponentInit, ComponentStep, PTL DEF Spec

(* With the lease manager deleting keys through it, the store is a versioned map
   still. *)
THEOREM StoreIsVersionedMap == Spec => IsVersionedMap
  <1>1. Init => Committed!VMInit
    BY MapInit DEF Init
  <1>2. ComponentInv /\ [Next]_vars =>
          [Committed!Commit]_<<visible, IF mutex = Free THEN revision ELSE revision - 1>>
    BY ComponentTypes, ComponentsMove, StepCommits DEF ComponentInv, SerialInv
  <1> QED
    BY <1>1, <1>2, ComponentInvariant, PTL DEF Spec, IsVersionedMap, Committed!VMSpec

(* And every call, a transaction or a deletion of the lease manager included, is
   executed alone. *)
THEOREM StoreIsSerial == Spec => IsSerial
  <1>1. Init => Serial!SSInit
    BY SerialInit DEF Init
  <1>2. ComponentInv /\ [Next]_vars =>
          [Serial!SSNext]_<<visible, IF mutex = Free THEN revision ELSE revision - 1>>
    BY ComponentTypes, ComponentsMove, StepExecutes DEF ComponentInv
  <1> QED
    BY <1>1, <1>2, ComponentInvariant, PTL DEF Spec, IsSerial, Serial!SSSpec

(* When clients renew before the deadline, the expiration thread erases no lease
   early, although its revocations wait for the store in the middle. *)
THEOREM TimelyRenewalIsSafeHere == LateKeepAlive = FALSE => (Spec => SweepOnlyDue)
  <1> SUFFICES ASSUME LateKeepAlive = FALSE
               PROVE  Spec => SweepOnlyDue
    OBVIOUS
  <1>1. ComponentInv /\ [Next]_vars => LMInv /\ [LMNext]_lmVars
    BY ComponentTypes, ComponentsMove DEF ComponentInv
  <1>2. Init => LMInit
    BY DEF Init
  <1>3. LMInit => SweepSound
    BY DEF LMInit, SweepSound, Asleep
  <1>4. LMInv /\ SweepSound /\ [LMNext]_lmVars => SweepSound'
    BY SweepSoundStep
  <1>5. LMInv /\ SweepSound /\ [LMNext]_lmVars =>
          [\A l \in LeaseId : SweeperErases(l) => Due(l)]_lmVars
    BY SweepSoundErases
  <1> QED
    BY <1>1, <1>2, <1>3, <1>4, <1>5, ComponentInvariant, PTL DEF Spec, SweepOnlyDue

-----------------------------------------------------------------------------
(* What the steps outside the store's mutex leave alone. *)

(* The leases keep their keys; a lease may go, and a new one comes without any. *)
KeysKept ==
  \A l \in leases' :
    \/ l = nextLeaseId /\ keys'[l] = {}
    \/ l \in leases /\ keys'[l] = keys[l]

(* The call inside the mutex is left alone, or one starts. *)
CallKept == UNCHANGED <<mutex, call>> \/ (mutex = Free /\ Locks)

(* A step outside the mutex attaches no key and writes no entry. *)
LEMMA OutsideMoves ==
  ASSUME ComponentInv, [Next]_vars, ~InMutex
  PROVE  data' = data /\ KeysKept /\ CallKept
  <1>1. LMTypeOK
    BY ComponentTypes
  <1>2. Locks => data' = data /\ mutex = Free
    BY DEF Locks, Lock
  <1>3. ASSUME NEW t \in Clients, KVRequest(t)
        PROVE  Locks /\ UNCHANGED lmVars
    BY <1>3, PutLocks, DeleteLocks, TxnLocks
       DEF KVRequest, Clients, ClientPut, ClientDelete, ClientTxn
  <1>4. UNCHANGED lmVars => KeysKept
    BY DEF lmVars, KeysKept
  <1>5. CASE LeaseRequest
    <2>1. UNCHANGED <<data, mutex, call>>
      BY <1>5 DEF LeaseRequest, kvVars
    <2>2. ASSUME NEW seconds \in Ttl, Grant(seconds)
          PROVE  KeysKept
      BY <1>1, <2>2 DEF Grant, KeysKept, LMTypeOK
    <2>3. ASSUME NEW l \in LeaseId, KeepAlive(l)
          PROVE  KeysKept
      BY <2>3 DEF KeepAlive, KeysKept
    <2> QED
      BY <1>5, <2>1, <2>2, <2>3 DEF LeaseRequest, CallKept
  <1>6. ASSUME NEW t \in Clients, NEW l \in LeaseId, ClientRevoke(t, l)
        PROVE  UNCHANGED <<data, mutex, call>> /\ KeysKept
    BY <1>6 DEF ClientRevoke, RevokeStart, leaseTable, kvVars, KeysKept
  <1>7. ASSUME NEW t \in Thread, NEW k \in Key, RevokeDeletes(t, k)
        PROVE  Locks /\ KeysKept
    BY <1>7, DeleteLocks DEF RevokeDeletes, RevokeKey, RangeEnd, leaseTable, KeysKept
  <1>8. ASSUME NEW t \in Thread, RevokeReturns(t)
        PROVE  UNCHANGED <<data, mutex, call>> /\ KeysKept
    BY <1>1, <1>8 DEF RevokeReturns, RevokeFinish, kvVars, KeysKept, LMTypeOK
  <1>9. CASE Sweep
    <2>1. UNCHANGED <<data, mutex, call, leases, keys>>
      BY <1>9 DEF Sweep, SweepWake, SweepScan, SweepNext, leaseTable, kvVars
    <2> QED
      BY <2>1 DEF KeysKept, CallKept
  <1>10. CASE Tick /\ UNCHANGED <<kvVars, since>>
    BY <1>10 DEF Tick, leaseTable, kvVars, KeysKept, CallKept
  <1>11. CASE UNCHANGED vars
    BY <1>4, <1>11 DEF vars, kvVars, CallKept
  <1> QED
    BY <1>2, <1>3, <1>4, <1>5, <1>6, <1>7, <1>8, <1>9, <1>10, <1>11 DEF Next, CallKept

-----------------------------------------------------------------------------
(* The key sets of the leases are sound. *)

Unattached(k) == \A l \in leases : k \notin keys[l]

(* Between the two visits of a put its key is in no key set. *)
KeysetInv ==
  /\ KeysetSound
  /\ call.detached => Busy("put") /\ Unattached(Head(call.todo).key)

(* A key without a lease, or taken from its lease, is in no key set. *)
LEMMA PutUnattached ==
  ASSUME ComponentInv, KeysetInv, PutStore
  PROVE  Unattached(Head(call.todo).key)
  <1>1. Head(call.todo).key \in Key
    BY ComponentTypes, HeadAndTail DEF PutStore, KVTypeOK
  <1>2. \A l \in leases : l > 0
    BY ComponentTypes DEF LMTypeOK, LeaseId
  <1> QED
    BY <1>1, <1>2 DEF PutStore, NeedsDetach, KeysetInv, KeysetSound, Unattached

(* Every step keeps the key sets sound. *)
LEMMA KeysetStep ==
  ASSUME ComponentInv, KeysetInv, [Next]_vars
  PROVE  KeysetInv'
  <1>1. KVTypeOK /\ LMTypeOK /\ KeysetSound
    BY ComponentTypes DEF KeysetInv
  <1>2. \A l \in leases : l > 0 /\ keys[l] \subseteq Key
    BY <1>1 DEF LMTypeOK, LeaseId
  <1>3. CASE ~InMutex
    <2>1. data' = data /\ KeysKept /\ CallKept
      BY <1>3, OutsideMoves
    <2>2. KeysetSound'
      BY <1>1, <2>1 DEF KeysetSound, KeysKept
    <2>3. CASE UNCHANGED <<mutex, call>>
      BY <2>1, <2>2, <2>3 DEF KeysetInv, KeysKept, Unattached, Busy
    <2>4. CASE Locks
      BY <2>2, <2>4 DEF KeysetInv, Locks, Lock
    <2> QED
      BY <2>1, <2>3, <2>4 DEF CallKept
  <1>4. CASE DetachOld
    <2> DEFINE k == Head(call.todo).key
    <2>1. /\ k \in Key /\ call.todo # <<>> /\ mutex # Free
          /\ Head(call.todo).type = "put" /\ call \in Call
      BY <1>1, <1>4, HeadAndTail DEF DetachOld, PutDetach, KVTypeOK, Busy
    <2>2. /\ UNCHANGED <<data, mutex, leases>>
          /\ call'.detached = TRUE /\ call'.todo = call.todo
      BY <1>4, <2>1 DEF DetachOld, PutDetach, DetachKey, Call
    <2>3. \A l \in leases : keys'[l] = IF l = data[k].lease THEN keys[l] \ {k} ELSE keys[l]
      BY <1>1, <1>4 DEF DetachOld, DetachKey, LMTypeOK
    <2>4. \A l \in leases : k \notin keys'[l]
      BY <1>1, <2>3 DEF KeysetSound
    <2> QED
      BY <1>1, <2>1, <2>2, <2>3, <2>4 DEF KeysetInv, KeysetSound, Unattached, Busy
  <1>5. CASE AttachAndStore
    <2> DEFINE req == Head(call.todo)
               k == req.key
    <2>1. /\ k \in Key /\ req \in Request /\ call \in Call
      BY <1>1, <1>5, HeadAndTail DEF AttachAndStore, PutStore, KVTypeOK
    <2>2. /\ leases' = leases /\ call'.detached = FALSE
          /\ data' = [data EXCEPT ![k] = PutEntry(data[k], req, revision)]
      BY <1>5, <2>1 DEF AttachAndStore, PutStore, AttachKey, lmVars, Call
    <2>3. \A l \in leases : keys'[l] = IF l = req.lease THEN keys[l] \cup {k} ELSE keys[l]
      BY <1>1, <1>2, <1>5 DEF AttachAndStore, AttachKey, LMTypeOK, lmVars
    <2>4. Unattached(k)
      BY <1>5, PutUnattached DEF AttachAndStore
    <2>5. PutEntry(data[k], req, revision).lease = req.lease
          /\ Present(PutEntry(data[k], req, revision))
      BY <1>1, <2>1, PutEntryType DEF KVTypeOK, PutEntry
    <2>6. ASSUME NEW l \in leases, NEW j \in keys'[l]
          PROVE  Present(data'[j]) /\ data'[j].lease = l
      <3>1. CASE j = k
        <4>1. l = req.lease
          BY <2>3, <2>4, <2>6, <3>1 DEF Unattached
        <4> QED
          BY <1>1, <2>1, <2>2, <2>5, <3>1, <4>1 DEF KVTypeOK
      <3>2. CASE j # k
        <4>1. j \in keys[l] /\ j \in Key
          BY <1>2, <2>3, <2>6, <3>2
        <4> QED
          BY <1>1, <2>2, <3>2, <4>1 DEF KVTypeOK, KeysetSound
      <3> QED
        BY <3>1, <3>2
    <2> QED
      BY <2>2, <2>6 DEF KeysetInv, KeysetSound
  <1>6. ASSUME NEW k \in Key, DetachAndErase(k)
        PROVE  KeysetInv'
    <2>1. EraseKey(k) /\ (DetachKey(data[k].lease, k) \/ UNCHANGED lmVars)
      BY <1>6 DEF DetachAndErase
    <2>2. ~call.detached
      BY <2>1 DEF EraseKey, Busy, KeysetInv
    <2>3. data' = [data EXCEPT ![k] = Absent] /\ ~call'.detached
      BY <1>1, <2>1, <2>2 DEF EraseKey, KVTypeOK, Call
    <2>4. leases' = leases
      BY <2>1 DEF DetachKey, lmVars
    <2>5. data[k].lease \in leases => DetachKey(data[k].lease, k)
      BY <1>2, <1>6 DEF DetachAndErase
    <2>6. \A l \in leases : keys'[l] \subseteq keys[l]
      BY <1>1, <2>1 DEF DetachKey, lmVars, LMTypeOK
    <2>7. \A l \in leases : k \notin keys'[l]
      <3> SUFFICES ASSUME NEW l \in leases, k \in keys[l]
                   PROVE  k \notin keys'[l]
        BY <2>6
      <3>1. data[k].lease = l
        BY <1>1 DEF KeysetSound
      <3>2. keys' = [keys EXCEPT ![l] = keys[l] \ {k}]
        BY <2>5, <3>1 DEF DetachKey
      <3>3. keys \in [LeaseId -> SUBSET Key] /\ l \in LeaseId
        BY <1>1 DEF LMTypeOK
      <3> QED
        BY <3>2, <3>3
    <2> QED
      BY <1>1, <1>2, <2>3, <2>4, <2>6, <2>7 DEF KeysetInv, KeysetSound, KVTypeOK
  <1>7. CASE (EraseDone \/ TxnRange \/ Unlock) /\ UNCHANGED <<lmVars, since>>
    <2>1. ~call.detached
      BY <1>7 DEF EraseDone, TxnRange, Unlock, Busy, KeysetInv
    <2>2. data' = data /\ UNCHANGED <<leases, keys>>
      BY <1>7 DEF EraseDone, TxnRange, Unlock, lmVars
    <2>3. ~call'.detached
      <3>1. CASE EraseDone \/ TxnRange
        BY <1>1, <2>1, <3>1 DEF EraseDone, TxnRange, KVTypeOK, Call
      <3>2. CASE Unlock
        BY <3>2 DEF Unlock, Idle
      <3> QED
        BY <1>7, <3>1, <3>2
    <2> QED
      BY <1>1, <2>2, <2>3 DEF KeysetInv, KeysetSound
  <1> QED
    BY <1>3, <1>4, <1>5, <1>6, <1>7 DEF InMutex

(* The key sets are sound throughout. *)
LEMMA KeysetInvariant == Spec => []KeysetInv
  <1>1. Init => KeysetInv
    BY DEF Init, LMInit, KVInit, KeysetInv, KeysetSound, Idle
  <1> QED
    BY <1>1, KeysetStep, ComponentInvariant, PTL DEF Spec

(* Every key in a lease's key set is stored with that lease, at every step. *)
THEOREM KeysetsSound == Spec => []KeysetSound
  <1>1. KeysetInv => KeysetSound
    BY DEF KeysetInv
  <1> QED
    BY <1>1, KeysetInvariant, PTL

-----------------------------------------------------------------------------
(* The key sets of the leases are complete when clients name granted leases. *)

(* No lease that is yet to be granted is named by a key or by a put to come. *)
NamedInv ==
  /\ \A k \in Key : data[k].lease < nextLeaseId
  /\ \A i \in 1 .. Len(call.todo) :
       call.todo[i].type = "put" => call.todo[i].lease < nextLeaseId

(* A step never takes back an id that was handed out. *)
LEMMA IdsGrow ==
  ASSUME LMInv, [LMNext]_lmVars
  PROVE  /\ nextLeaseId \in Nat /\ nextLeaseId' \in Nat
         /\ nextLeaseId <= nextLeaseId' /\ 0 < nextLeaseId
  <1>1. nextLeaseId \in Nat /\ 0 < nextLeaseId
    BY LMAssumption DEF LMInv, LMTypeOK
  <1>2. nextLeaseId' \in Nat
    BY LMInvStep, LMAssumption DEF LMInv, LMTypeOK
  <1>3. nextLeaseId' \in {nextLeaseId, nextLeaseId + 1}
    BY DEF LMNext, LMClient, LMSweep, LMRevoke, Grant, KeepAlive, AttachKey, DetachKey,
           RevokeStart, RevokeKey, RevokeFinish, SweepWake, SweepScan, SweepNext, Tick, lmVars
  <1> QED
    BY <1>1, <1>2, <1>3

(* A call that starts has no put that names a lease yet to be granted. *)
LEMMA StartNames ==
  ASSUME ComponentInv, Naming # "any", [Next]_vars, ~InMutex,
         NEW i \in 1 .. Len(call'.todo), call'.todo[i].type = "put",
         ~UNCHANGED <<mutex, call>>
  PROVE  call'.todo[i].lease < nextLeaseId
  <1>1. LMTypeOK /\ IdsKnown /\ 0 < nextLeaseId
    BY ComponentTypes DEF ComponentInv, LMInv, LMTypeOK
  <1>2. \A l : MayName(l) => l < nextLeaseId
    BY <1>1, LSAssumption DEF MayName, NoLease, IdsKnown
  <1>3. ASSUME NEW t \in Clients, KVRequest(t)
        PROVE  call'.todo[i].lease < nextLeaseId
    <2>1. CASE \E k \in Key, v \in Value, l \in LeaseName : ClientPut(t, k, v, l)
      <3>1. PICK k \in Key, v \in Value, l \in LeaseName : ClientPut(t, k, v, l)
        BY <2>1
      <3>2. call'.todo = <<PutRequest(k, v, l)>> /\ l < nextLeaseId
        BY <1>2, <3>1 DEF ClientPut, Put, Lock
      <3> QED
        BY <3>2 DEF PutRequest
    <2>2. CASE \E k \in Key, end \in RangeEnd : ClientDelete(t, k, end)
      <3>1. PICK k \in Key, end \in RangeEnd : ClientDelete(t, k, end)
        BY <2>2
      <3>2. call'.todo = <<DeleteRequest(k, end)>>
        BY <3>1 DEF ClientDelete, DeleteRange, Lock
      <3> QED
        BY <3>2 DEF DeleteRequest
    <2>3. CASE \E txn \in TxnRequest : ClientTxn(t, txn)
      <3>1. PICK txn \in TxnRequest : ClientTxn(t, txn)
        BY <2>3
      <3>2. txn.success \in Seq(Request) /\ txn.failure \in Seq(Request)
        BY RequestAssumption
      <3>3. call'.todo = txn.success \/ call'.todo = txn.failure
        BY <3>1 DEF ClientTxn, Txn, Lock
      <3>4. MayName(call'.todo[i].lease)
        BY <3>1, <3>2, <3>3 DEF ClientTxn, NamesOnly
      <3> QED
        BY <1>2, <3>4
    <2> QED
      BY <1>3, <2>1, <2>2, <2>3 DEF KVRequest
  <1>4. ASSUME NEW t \in Thread, NEW k \in Key, RevokeDeletes(t, k)
        PROVE  call'.todo[i].lease < nextLeaseId
    <2>1. call'.todo = <<DeleteRequest(k, NoEnd)>>
      BY <1>4 DEF RevokeDeletes, LeaseDelete, Lock
    <2> QED
      BY <2>1 DEF DeleteRequest
  <1>5. ~UNCHANGED kvVars
    BY DEF kvVars
  <1>6. /\ ~LeaseRequest /\ ~Sweep
        /\ \A t \in Clients, l \in LeaseId : ~ClientRevoke(t, l)
        /\ \A t \in Thread : ~RevokeReturns(t)
    BY <1>5 DEF LeaseRequest, ClientRevoke, RevokeReturns, Sweep
  <1>7. ~(Tick /\ UNCHANGED <<kvVars, since>>) /\ ~UNCHANGED vars
    BY <1>5 DEF vars
  <1>8. \/ \E t \in Clients : KVRequest(t)
        \/ \E t \in Thread, k \in Key : RevokeDeletes(t, k)
    BY <1>6, <1>7 DEF Next
  <1> QED
    BY <1>3, <1>4, <1>8

(* Every step keeps the leases named by entries and requests among those granted. *)
LEMMA NamedStep ==
  ASSUME ComponentInv, NamedInv, Naming # "any", [Next]_vars
  PROVE  NamedInv'
  <1>1. KVTypeOK /\ LMTypeOK /\ KVMove /\ [LMNext]_lmVars
    BY ComponentTypes, ComponentsMove
  <1>2. /\ nextLeaseId \in Nat /\ nextLeaseId' \in Nat
        /\ nextLeaseId <= nextLeaseId' /\ 0 < nextLeaseId
    BY <1>1, IdsGrow DEF ComponentInv
  <1>3. KVTypeOK'
    BY ComponentStep DEF ComponentInv, SerialInv, MapInv, RevisionInv
  <1>4. /\ \A k \in Key : data[k].lease \in Nat /\ data'[k].lease \in Nat
        /\ call.todo \in Seq(Request) /\ call'.todo \in Seq(Request) /\ call \in Call
    BY <1>1, <1>3 DEF KVTypeOK, Entry, Call
  <1>5. ASSUME NEW k \in Key
        PROVE  data'[k].lease < nextLeaseId
    <2>1. CASE data'[k] = data[k]
      BY <2>1 DEF NamedInv
    <2>2. CASE data'[k] = Absent
      BY <1>2, <2>2 DEF Absent
    <2>3. CASE PutStore /\ data'[k] # data[k]
      <3>1. Head(call.todo).type = "put" /\ data'[k].lease = Head(call.todo).lease
        BY <1>1, <2>3 DEF PutStore, Busy, PutEntry, KVTypeOK
      <3>2. call.todo # <<>>
        BY <2>3 DEF PutStore, Busy
      <3>3. Head(call.todo).lease < nextLeaseId
        BY <1>4, <3>1, <3>2, Elements DEF NamedInv
      <3> QED
        BY <3>1, <3>3
    <2>4. data'[k] = data[k] \/ data'[k] = Absent \/ PutStore
      <3>1. CASE KVProceed
        <4>1. ASSUME NEW j \in Key, EraseKey(j)
              PROVE  data'[k] = data[k] \/ data'[k] = Absent
          BY <1>1, <4>1 DEF EraseKey, KVTypeOK
        <4> QED
          BY <3>1, <4>1 DEF KVProceed, PutDetach, EraseDone, TxnRange, Unlock
      <3> QED
        BY <1>1, <3>1 DEF KVMove, Locks, Lock, kvVars
    <2> QED
      BY <2>1, <2>2, <2>3, <2>4
  <1>6. ASSUME NEW i \in 1 .. Len(call'.todo), call'.todo[i].type = "put"
        PROVE  call'.todo[i].lease < nextLeaseId
    <2>1. CASE UNCHANGED <<mutex, call>>
      BY <1>6, <2>1 DEF NamedInv
    <2>2. CASE ~InMutex /\ ~UNCHANGED <<mutex, call>>
      BY <1>6, <2>2, StartNames
    <2>3. CASE InMutex
      <3>1. \/ call'.todo = call.todo \/ call'.todo = <<>>
            \/ call.todo # <<>> /\ call'.todo = Tail(call.todo)
        <4>1. CASE PutDetach \/ Unlock \/ \E k \in Key : EraseKey(k)
          BY <1>4, <4>1 DEF PutDetach, EraseKey, Unlock, Idle, Call
        <4>2. CASE PutStore \/ EraseDone \/ TxnRange
          BY <1>4, <4>2 DEF PutStore, EraseDone, TxnRange, Busy, Call
        <4> QED
          BY <1>1, <2>3, <4>1, <4>2, InMutexMoves DEF KVProceed
      <3>2. CASE call'.todo = call.todo
        BY <1>6, <3>2 DEF NamedInv
      <3>3. CASE call'.todo = <<>>
        BY <3>3
      <3>4. CASE call.todo # <<>> /\ call'.todo = Tail(call.todo)
        <4>1. i + 1 \in 1 .. Len(call.todo) /\ call'.todo[i] = call.todo[i + 1]
          BY <1>4, <3>4, Elements
        <4> QED
          BY <1>6, <4>1 DEF NamedInv
      <3> QED
        BY <3>1, <3>2, <3>3, <3>4
    <2> QED
      BY <2>1, <2>2, <2>3
  <1>7. \A i \in 1 .. Len(call'.todo) : call'.todo[i].lease \in Nat
    <2>1. \A i \in 1 .. Len(call'.todo) : call'.todo[i] \in Request
      BY <1>4, ElementOfSeq
    <2> QED
      BY <2>1 DEF Request
  <1> QED
    BY <1>2, <1>4, <1>5, <1>6, <1>7 DEF NamedInv

(* Every step keeps the key sets complete. *)
LEMMA CompleteStep ==
  ASSUME ComponentInv, KeysetInv, NamedInv, KeysetComplete, [Next]_vars
  PROVE  KeysetComplete'
  <1>1. KVTypeOK /\ LMTypeOK /\ IdsKnown
    BY ComponentTypes DEF ComponentInv, LMInv
  <1>2. \A l \in leases : l > 0 /\ l \in Nat
    BY <1>1 DEF LMTypeOK, LeaseId
  <1>3. CASE ~InMutex
    <2>1. data' = data /\ KeysKept /\ CallKept
      BY <1>3, OutsideMoves
    <2>2. ASSUME NEW k \in Key, data[k].lease \in leases'
          PROVE  k \in keys'[data[k].lease] \/ BetweenLeases(k)'
      <3>1. data[k].lease < nextLeaseId /\ data[k].lease \in Nat /\ nextLeaseId \in Nat
        BY <1>1, LMAssumption DEF NamedInv, KVTypeOK, Entry, LMTypeOK
      <3>2. data[k].lease \in leases /\ keys'[data[k].lease] = keys[data[k].lease]
        BY <2>1, <2>2, <3>1 DEF KeysKept
      <3>3. k \in keys[data[k].lease] \/ BetweenLeases(k)
        BY <3>2 DEF KeysetComplete
      <3>4. BetweenLeases(k) => BetweenLeases(k)'
        BY <2>1 DEF CallKept, BetweenLeases, Busy
      <3> QED
        BY <3>2, <3>3, <3>4
    <2> QED
      BY <2>1, <2>2 DEF KeysetComplete
  <1>4. CASE DetachOld
    <2> DEFINE j == Head(call.todo).key
    <2>1. /\ UNCHANGED <<data, mutex, leases>> /\ Busy("put")
          /\ call'.detached = TRUE /\ call'.todo = call.todo /\ ~call.detached
      BY <1>1, <1>4 DEF DetachOld, PutDetach, DetachKey, KVTypeOK, Call
    <2>2. ASSUME NEW k \in Key, k # j, data[k].lease \in leases
          PROVE  k \in keys'[data[k].lease]
      <3>1. k \in keys[data[k].lease]
        BY <2>1, <2>2 DEF KeysetComplete, BetweenLeases
      <3> QED
        BY <1>1, <1>4, <2>2, <3>1 DEF DetachOld, DetachKey, LMTypeOK
    <2>3. BetweenLeases(j)'
      BY <2>1 DEF BetweenLeases, Busy
    <2> QED
      BY <2>1, <2>2, <2>3 DEF KeysetComplete
  <1>5. CASE AttachAndStore
    <2> DEFINE req == Head(call.todo)
               j == req.key
    <2>1. j \in Key /\ req \in Request
      BY <1>1, <1>5, HeadAndTail DEF AttachAndStore, PutStore, KVTypeOK
    <2>2. /\ leases' = leases
          /\ data' = [data EXCEPT ![j] = PutEntry(data[j], req, revision)]
      BY <1>5 DEF AttachAndStore, PutStore, AttachKey, lmVars
    <2>3. \A l \in leases : keys'[l] = IF l = req.lease THEN keys[l] \cup {j} ELSE keys[l]
      BY <1>1, <1>2, <1>5 DEF AttachAndStore, AttachKey, LMTypeOK, lmVars
    <2>4. ASSUME NEW k \in Key, data'[k].lease \in leases
          PROVE  k \in keys'[data'[k].lease]
      <3>1. CASE k = j
        BY <1>1, <2>2, <2>3, <2>4, <3>1 DEF KVTypeOK, PutEntry
      <3>2. CASE k # j
        <4>1. data'[k] = data[k]
          BY <1>1, <2>2, <3>2 DEF KVTypeOK
        <4>2. ~BetweenLeases(k)
          BY <3>2 DEF BetweenLeases
        <4> QED
          BY <2>3, <2>4, <4>1, <4>2 DEF KeysetComplete
      <3> QED
        BY <3>1, <3>2
    <2> QED
      BY <2>2, <2>4 DEF KeysetComplete
  <1>6. ASSUME NEW j \in Key, DetachAndErase(j)
        PROVE  KeysetComplete'
    <2>1. /\ EraseKey(j) /\ (DetachKey(data[j].lease, j) \/ UNCHANGED lmVars)
          /\ data' = [data EXCEPT ![j] = Absent]
      BY <1>6 DEF DetachAndErase, EraseKey
    <2>2. leases' = leases
      BY <2>1 DEF DetachKey, lmVars
    <2>3. ASSUME NEW k \in Key, data'[k].lease \in leases
          PROVE  k \in keys'[data'[k].lease]
      <3>1. k # j /\ data'[k] = data[k]
        <4>1. Absent.lease \notin leases
          BY <1>2 DEF Absent
        <4> QED
          BY <1>1, <2>1, <2>3, <4>1 DEF KVTypeOK
      <3>2. ~BetweenLeases(k)
        BY <2>1 DEF BetweenLeases, EraseKey, Busy
      <3>3. k \in keys[data[k].lease]
        BY <2>3, <3>1, <3>2 DEF KeysetComplete
      <3>4. CASE UNCHANGED lmVars
        BY <3>1, <3>3, <3>4 DEF lmVars
      <3>5. CASE DetachKey(data[j].lease, j)
        <4> DEFINE l == data[k].lease
        <4>1. keys \in [LeaseId -> SUBSET Key] /\ l \in LeaseId
          BY <1>1, <2>3, <3>1 DEF LMTypeOK
        <4>2. keys'[l] = keys[l] \/ keys'[l] = keys[l] \ {j}
          BY <3>5, <4>1 DEF DetachKey
        <4> QED
          BY <3>1, <3>3, <4>2
      <3> QED
        BY <2>1, <3>4, <3>5
    <2> QED
      BY <2>2, <2>3 DEF KeysetComplete
  <1>7. CASE (EraseDone \/ TxnRange \/ Unlock) /\ UNCHANGED <<lmVars, since>>
    <2>1. UNCHANGED <<data, leases, keys>> /\ \A k \in Key : ~BetweenLeases(k)
      BY <1>7 DEF EraseDone, TxnRange, Unlock, lmVars, BetweenLeases, Busy
    <2> QED
      BY <2>1 DEF KeysetComplete
  <1> QED
    BY <1>3, <1>4, <1>5, <1>6, <1>7 DEF InMutex

(* The first state names no lease. *)
LEMMA CompleteInit == Init => NamedInv /\ KeysetComplete
  BY DEF Init, LMInit, KVInit, NamedInv, KeysetComplete, Idle, Absent

(* When clients put only leases they were granted, every key stored with a lease
   that exists is in that lease's key set, but for the moment between the two
   visits of a put: a revocation finds all of a lease's keys. *)
THEOREM KeysetsComplete == Naming # "any" => (Spec => []KeysetComplete)
  <1> SUFFICES ASSUME Naming # "any"
               PROVE  Spec => []KeysetComplete
    OBVIOUS
  <1>1. ComponentInv /\ NamedInv /\ [Next]_vars => NamedInv'
    BY NamedStep
  <1>2. ComponentInv /\ KeysetInv /\ NamedInv /\ KeysetComplete /\ [Next]_vars =>
          KeysetComplete'
    BY CompleteStep
  <1> QED
    BY <1>1, <1>2, CompleteInit, ComponentInvariant, KeysetInvariant, PTL DEF Spec

-----------------------------------------------------------------------------
(* A revocation leaves no key behind. *)

(* `since' is set exactly inside Revoke and is not past the revision of a put
   that can still attach a key. *)
SinceInv ==
  /\ since \in [Thread -> Nat]
  /\ \A t \in Thread : since[t] = 0 <=> ~Revoking(t)
  /\ \A t \in Thread : since[t] <= Unseen

(* The step of the lease manager's part of a Revoke of thread t. *)
LEMMA SinceMoves ==
  ASSUME ComponentInv, SinceInv, [Next]_vars, NEW t \in Thread
  PROVE  \/ since'[t] = since[t] /\ (Revoking(t) <=> Revoking(t)')
         \/ since'[t] = 0 /\ ~Revoking(t)'
         \/ since'[t] = Unseen /\ Revoking(t)' /\ UNCHANGED <<mutex, revision>>
  <1>1. LMTypeOK /\ KVTypeOK
    BY ComponentTypes
  <1>2. CASE UNCHANGED <<since, revoking>>
    BY <1>2 DEF Revoking
  <1>3. ASSUME NEW s \in Clients, NEW l \in LeaseId, ClientRevoke(s, l)
        PROVE  \/ UNCHANGED since /\ (Revoking(t) <=> Revoking(t)')
               \/ since'[t] = Unseen /\ Revoking(t)' /\ UNCHANGED <<mutex, revision>>
               \/ since'[t] = since[t] /\ (Revoking(t) <=> Revoking(t)')
    BY <1>1, <1>3 DEF ClientRevoke, RevokeStart, Revoking, kvVars, SinceInv, LMTypeOK, LeaseId,
                      NoLease, Clients
  <1>4. ASSUME NEW s \in Thread, RevokeReturns(s)
        PROVE  \/ since'[t] = since[t] /\ (Revoking(t) <=> Revoking(t)')
               \/ since'[t] = 0 /\ ~Revoking(t)'
    BY <1>1, <1>4 DEF RevokeReturns, RevokeFinish, Revoking, SinceInv, LMTypeOK
  <1>5. ASSUME Sweep
        PROVE  \/ since'[t] = since[t] /\ (Revoking(t) <=> Revoking(t)')
               \/ since'[t] = Unseen /\ Revoking(t)' /\ UNCHANGED <<mutex, revision>>
    <2>1. UNCHANGED <<mutex, revision>>
      BY <1>5 DEF Sweep, kvVars
    <2>2. CASE (SweepWake \/ SweepScan) /\ UNCHANGED since
      BY <2>2 DEF SweepWake, SweepScan, revokeVars, Revoking
    <2>3. ASSUME NEW l \in LeaseId, SweepNext(l),
                 since' = IF l \in leases THEN [since EXCEPT ![Sweeper] = Unseen] ELSE since
          PROVE  \/ since'[t] = since[t] /\ (Revoking(t) <=> Revoking(t)')
                 \/ since'[t] = Unseen /\ Revoking(t)'
      BY <1>1, <2>3, LMAssumption
         DEF SweepNext, Revoking, SinceInv, LMTypeOK, LeaseId, NoLease, revokeVars
    <2> QED
      BY <1>5, <2>1, <2>2, <2>3 DEF Sweep
  <1>6. ASSUME NEW s \in Clients, KVRequest(s)
        PROVE  UNCHANGED <<since, revoking>>
    BY <1>6 DEF KVRequest, ClientPut, ClientDelete, ClientTxn, lmVars
  <1>7. CASE InMutex
    BY <1>2, <1>7 DEF InMutex, DetachOld, AttachAndStore, DetachAndErase, DetachKey, AttachKey,
                      lmVars, revokeVars
  <1>8. CASE LeaseRequest
    BY <1>2, <1>8 DEF LeaseRequest, Grant, KeepAlive, revokeVars
  <1>9. ASSUME NEW s \in Thread, NEW k \in Key, RevokeDeletes(s, k)
        PROVE  UNCHANGED <<since, revoking>>
    BY <1>9 DEF RevokeDeletes, RevokeKey
  <1>10. CASE Tick /\ UNCHANGED <<kvVars, since>>
    BY <1>2, <1>10 DEF Tick, revokeVars
  <1>11. CASE UNCHANGED vars
    BY <1>2, <1>11 DEF vars, lmVars
  <1> QED
    BY <1>2, <1>3, <1>4, <1>5, <1>6, <1>7, <1>8, <1>9, <1>10, <1>11 DEF Next

(* Every step keeps since within the revisions so far. *)
LEMMA SinceStep ==
  ASSUME ComponentInv, SinceInv, [Next]_vars
  PROVE  SinceInv'
  <1>1. KVTypeOK /\ LMTypeOK /\ KVMove /\ revision \in Nat
    BY ComponentTypes, ComponentsMove DEF KVTypeOK
  <1>2. Unseen \in Nat /\ Unseen' \in Nat /\ Unseen <= Unseen'
    <2>1. CASE KVProceed
      BY <1>1, <2>1 DEF KVProceed, PutDetach, PutStore, EraseKey, EraseDone, TxnRange, Unlock,
                        Unseen
    <2>2. CASE Locks
      BY <1>1, <2>2 DEF Locks, Lock, Unseen
    <2>3. CASE UNCHANGED kvVars
      BY <1>1, <2>3 DEF kvVars, Unseen
    <2> QED
      BY <1>1, <2>1, <2>2, <2>3 DEF KVMove
  <1>3. Unseen > 0
    BY <1>1 DEF Unseen, ComponentInv, SerialInv, MapInv, RevisionInv, Started
  <1>4. ASSUME NEW t \in Thread
        PROVE  /\ since'[t] \in Nat /\ since'[t] <= Unseen'
               /\ since'[t] = 0 <=> ~Revoking(t)'
    BY <1>2, <1>3, SinceMoves DEF SinceInv
  <1>5. \E f : since' = [t \in Thread |-> f[t]]
    <2>1. since = [t \in Thread |-> since[t]]
      BY DEF SinceInv
    <2>2. UNCHANGED since \/ \E r : \E t \in Thread : since' = [since EXCEPT ![t] = r]
      BY LMAssumption
         DEF Next, KVRequest, ClientPut, ClientDelete, ClientTxn, InMutex, DetachOld,
             AttachAndStore, DetachAndErase, LeaseRequest, ClientRevoke, Clients, RevokeDeletes,
             RevokeReturns, Sweep, vars
    <2> QED
      BY <2>1, <2>2
  <1> QED
    BY <1>4, <1>5 DEF SinceInv

(* That bound holds throughout. *)
LEMMA SinceInvariant == Spec => []SinceInv
  <1>1. Init => SinceInv
    BY DEF Init, LMInit, KVInit, SinceInv, Revoking, Unseen, NoLease
  <1> QED
    BY <1>1, SinceStep, ComponentInvariant, PTL DEF Spec

(* The variables of the composition keep their types. *)
THEOREM TypesCorrect == Spec => []TypeOK
  <1>1. ComponentInv /\ SinceInv => TypeOK
    BY ComponentTypes DEF TypeOK, SinceInv
  <1> QED
    BY <1>1, ComponentInvariant, SinceInvariant, PTL

(* The callback of thread t's Revoke is deleting k. *)
Deleting(t, k) ==
  mutex = t /\ call.kind = "lease" /\ call.todo = <<DeleteRequest(k, NoEnd)>>

(* A key that a lease still has during its revocation is in the snapshot, or
   being deleted, or was put after the snapshot was taken. *)
DeletedInv ==
  \A t \in Thread : Revoking(t) =>
    \A k \in keys[revoking[t]] :
      k \in snapshot[t] \/ Deleting(t, k) \/ data[k].mod >= since[t]

(* What steps outside the store's mutex do to a Revoke that is not over: it has
   just begun, or goes on and perhaps hands the next key to the callback. *)
LEMMA RevokeMoves ==
  ASSUME ComponentInv, [Next]_vars, ~InMutex, NEW t \in Thread, Revoking(t)',
         since \in [Thread -> Nat]
  PROVE  \/ snapshot'[t] = keys'[revoking'[t]]
         \/ /\ Revoking(t) /\ revoking'[t] = revoking[t] /\ since'[t] = since[t]
            /\ \/ snapshot'[t] = snapshot[t]
               \/ \E j \in Key : snapshot'[t] = snapshot[t] \ {j} /\ Deleting(t, j)'
  <1> DEFINE Same == UNCHANGED <<revoking, snapshot, since>>
             Goal == \/ snapshot'[t] = keys'[revoking'[t]]
                     \/ /\ Revoking(t) /\ revoking'[t] = revoking[t] /\ since'[t] = since[t]
                        /\ \/ snapshot'[t] = snapshot[t]
                           \/ \E j \in Key : snapshot'[t] = snapshot[t] \ {j} /\ Deleting(t, j)'
  <1>1. LMTypeOK
    BY ComponentTypes
  <1>2. Same => Goal
    BY DEF Revoking
  <1>3. ASSUME NEW s \in Clients, KVRequest(s)
        PROVE  Same
    BY <1>3 DEF KVRequest, ClientPut, ClientDelete, ClientTxn, lmVars
  <1>4. LeaseRequest => Same
    BY DEF LeaseRequest, Grant, KeepAlive, revokeVars
  <1>5. ASSUME NEW s \in Clients, NEW l \in LeaseId, ClientRevoke(s, l)
        PROVE  Goal
    BY <1>1, <1>5 DEF ClientRevoke, RevokeStart, leaseTable, Revoking, LMTypeOK, Clients
  <1>6. ASSUME NEW s \in Thread, NEW k \in Key, RevokeDeletes(s, k)
        PROVE  Goal
    <2>1. /\ UNCHANGED <<revoking, since>> /\ Revoking(t)
          /\ snapshot' = [snapshot EXCEPT ![s] = @ \ {k}]
          /\ Deleting(s, k)'
      BY <1>6 DEF RevokeDeletes, RevokeKey, LeaseDelete, Lock, Deleting, Revoking
    <2> QED
      BY <1>1, <2>1 DEF LMTypeOK
  <1>7. ASSUME NEW s \in Thread, RevokeReturns(s)
        PROVE  Goal
    BY <1>1, <1>7 DEF RevokeReturns, RevokeFinish, Revoking, LMTypeOK
  <1>8. CASE Sweep
    <2>1. ASSUME NEW l \in LeaseId, SweepNext(l),
                 since' = IF l \in leases THEN [since EXCEPT ![Sweeper] = Unseen] ELSE since
          PROVE  Goal
      BY <1>1, <2>1, LMAssumption
         DEF SweepNext, Revoking, leaseTable, revokeVars, LMTypeOK
    <2> QED
      BY <1>2, <1>8, <2>1 DEF Sweep, SweepWake, SweepScan, revokeVars
  <1>9. Tick /\ UNCHANGED <<kvVars, since>> => Same
    BY DEF Tick, revokeVars
  <1>10. UNCHANGED vars => Same
    BY DEF vars, lmVars
  <1> QED
    BY <1>2, <1>3, <1>4, <1>5, <1>6, <1>7, <1>8, <1>9, <1>10 DEF Next

(* A Revoke is over only when its snapshot is used up and its callback is back. *)
LEMMA ReturnMoves ==
  ASSUME ComponentInv, Next, NEW t \in Thread, Revoking(t), revoking'[t] = NoLease
  PROVE  mutex # t /\ snapshot[t] = {}
  <1>1. LMTypeOK
    BY ComponentTypes
  <1>2. ~UNCHANGED revoking
    BY DEF Revoking
  <1>3. ~InMutex
    BY <1>2 DEF InMutex, DetachOld, AttachAndStore, DetachAndErase, DetachKey, AttachKey, lmVars,
                revokeVars
  <1>4. ~LeaseRequest /\ ~(Tick /\ UNCHANGED <<kvVars, since>>)
    BY <1>2 DEF LeaseRequest, Grant, KeepAlive, Tick, revokeVars
  <1>5. \A s \in Clients : ~KVRequest(s)
    BY <1>2 DEF KVRequest, ClientPut, ClientDelete, ClientTxn, lmVars
  <1>6. \A s \in Thread, k \in Key : ~RevokeDeletes(s, k)
    BY <1>2 DEF RevokeDeletes, RevokeKey
  <1>7. ~Sweep
    BY <1>1, <1>2, LMAssumption
       DEF Sweep, SweepWake, SweepScan, SweepNext, revokeVars, LMTypeOK, Revoking, LeaseId,
           NoLease
  <1>8. \A s \in Clients, l \in LeaseId : ~ClientRevoke(s, l)
    BY <1>1, <1>2 DEF ClientRevoke, RevokeStart, LMTypeOK, Revoking, LeaseId, NoLease, Clients
  <1>9. PICK s \in Thread : RevokeReturns(s)
    BY <1>3, <1>4, <1>5, <1>6, <1>7, <1>8 DEF Next
  <1>10. s = t
    BY <1>1, <1>9 DEF RevokeReturns, RevokeFinish, LMTypeOK, Revoking
  <1> QED
    BY <1>9, <1>10 DEF RevokeReturns, RevokeFinish

(* Every step keeps old keys of a revoked lease in the snapshot or on their way out. *)
LEMMA DeletedStep ==
  ASSUME ComponentInv, KeysetInv, SinceInv, DeletedInv, [Next]_vars
  PROVE  DeletedInv'
  <1>1. KVTypeOK /\ LMTypeOK /\ IdsKnown /\ KeysetSound
    BY ComponentTypes DEF ComponentInv, LMInv, KeysetInv
  <1>2. LMTypeOK' /\ KeysetSound'
    BY ComponentStep, KeysetStep DEF ComponentInv, LMInv, KeysetInv
  <1> SUFFICES ASSUME NEW t \in Thread, Revoking(t)', NEW k \in keys'[revoking'[t]]
               PROVE  k \in snapshot'[t] \/ Deleting(t, k)' \/ data'[k].mod >= since'[t]
    BY DEF DeletedInv
  <1> DEFINE l == revoking'[t]
  <1>3. l \in LeaseId /\ l \in leases' /\ k \in Key
    BY <1>2 DEF LMTypeOK, Revoking
  <1>4. CASE ~InMutex
    <2>1. data' = data /\ KeysKept /\ CallKept
      BY <1>4, OutsideMoves
    <2>2. CASE snapshot'[t] = keys'[revoking'[t]]
      BY <2>2
    <2>3. CASE /\ Revoking(t) /\ revoking'[t] = revoking[t] /\ since'[t] = since[t]
               /\ \/ snapshot'[t] = snapshot[t]
                  \/ \E j \in Key : snapshot'[t] = snapshot[t] \ {j} /\ Deleting(t, j)'
      <3>1. l # nextLeaseId
        BY <1>1, <1>3, <2>3 DEF IdsKnown, LMTypeOK, LeaseId
      <3>2. k \in keys[l]
        BY <1>3, <2>1, <3>1 DEF KeysKept
      <3>3. k \in snapshot[t] \/ Deleting(t, k) \/ data[k].mod >= since[t]
        BY <2>3, <3>2 DEF DeletedInv
      <3>4. Deleting(t, k) => Deleting(t, k)'
        BY <2>1, KVAssumption DEF CallKept, Deleting
      <3> QED
        BY <2>1, <2>3, <3>3, <3>4
    <2> QED
      BY <1>1, <1>4, <2>2, <2>3, RevokeMoves DEF SinceInv
  <1>5. CASE InMutex
    <2>1. UNCHANGED <<revoking, snapshot, since>> /\ leases' = leases
      BY <1>5 DEF InMutex, DetachOld, AttachAndStore, DetachAndErase, DetachKey, AttachKey,
                  lmVars, revokeVars
    <2>2. Revoking(t) /\ revoking[t] = l /\ l \in leases
      BY <1>3, <2>1 DEF Revoking
    <2>3. ASSUME k \in keys[l]
          PROVE  k \in snapshot'[t] \/ Deleting(t, k) \/ data[k].mod >= since'[t]
      BY <2>1, <2>2, <2>3 DEF DeletedInv
    <2>4. keys \in [LeaseId -> SUBSET Key]
      BY <1>1 DEF LMTypeOK
    <2>5. Deleting(t, k) => Head(call.todo).type = "delete"
      BY DEF Deleting, DeleteRequest
    <2>6. CASE DetachOld
      <3>1. k \in keys[l] /\ data' = data /\ Head(call.todo).type = "put"
        BY <1>3, <2>4, <2>6 DEF DetachOld, PutDetach, DetachKey, Busy
      <3> QED
        BY <2>3, <2>5, <3>1
    <2>7. CASE AttachAndStore
      <3> DEFINE req == Head(call.todo)
      <3>1. /\ req \in Request /\ req.key \in Key /\ req.type = "put" /\ mutex # Free
            /\ data' = [data EXCEPT ![req.key] = PutEntry(data[req.key], req, revision)]
        BY <1>1, <2>7, HeadAndTail DEF AttachAndStore, PutStore, Busy, KVTypeOK
      <3>2. CASE k = req.key
        <4>1. data'[k].mod = revision
          BY <1>1, <3>1, <3>2 DEF KVTypeOK, PutEntry
        <4>2. since'[t] <= revision /\ since'[t] \in Nat /\ revision \in Nat
          BY <1>1, <2>1, <3>1 DEF SinceInv, Unseen, KVTypeOK
        <4> QED
          BY <4>1, <4>2
      <3>3. CASE k # req.key
        <4>1. data'[k] = data[k]
          BY <1>1, <3>1, <3>3 DEF KVTypeOK
        <4>2. k \in keys[l]
          BY <1>3, <2>4, <2>7, <3>3 DEF AttachAndStore, AttachKey, lmVars
        <4> QED
          BY <2>3, <2>5, <3>1, <4>1, <4>2
      <3> QED
        BY <3>2, <3>3
    <2>8. ASSUME NEW j \in Key, DetachAndErase(j)
          PROVE  k \in snapshot'[t] \/ Deleting(t, k)' \/ data'[k].mod >= since'[t]
      <3>1. EraseKey(j) /\ (DetachKey(data[j].lease, j) \/ UNCHANGED lmVars)
        BY <2>8 DEF DetachAndErase
      <3>2. Present(data'[k])
        BY <1>2, <1>3 DEF KeysetSound
      <3>3. data'[k] = data[k]
        BY <1>1, <1>3, <3>1, <3>2 DEF EraseKey, KVTypeOK, Present
      <3>4. k \in keys[l]
        BY <1>3, <2>4, <3>1 DEF DetachKey, lmVars
      <3>5. Deleting(t, k) => Deleting(t, k)'
        BY <3>1 DEF EraseKey, Deleting
      <3> QED
        BY <2>3, <3>3, <3>4, <3>5
    <2>9. CASE (EraseDone \/ TxnRange \/ Unlock) /\ UNCHANGED <<lmVars, since>>
      <3>1. data' = data /\ k \in keys[l]
        BY <2>9 DEF EraseDone, TxnRange, Unlock, lmVars
      <3>2. Present(data[k])
        BY <1>1, <2>2, <3>1 DEF KeysetSound
      <3>3. ASSUME Deleting(t, k)
            PROVE  FALSE
        <4>1. /\ call.todo # <<>> /\ Head(call.todo).type = "delete"
              /\ Head(call.todo).key = k /\ Head(call.todo).end = NoEnd
          BY <3>3 DEF Deleting, DeleteRequest
        <4>2. EraseDone
          BY <2>9, <4>1 DEF TxnRange, Unlock, Busy
        <4>3. k \in KeysToDelete
          BY <1>3, <3>2, <4>1, KeyAssumption DEF KeysToDelete, KeysInRange, KeyInRange
        <4> QED
          BY <4>2, <4>3 DEF EraseDone
      <3> QED
        BY <2>3, <3>1, <3>3
    <2> QED
      BY <1>5, <2>6, <2>7, <2>8, <2>9 DEF InMutex
  <1> QED
    BY <1>4, <1>5

(* When Revoke returns, a key the lease still has was put after Revoke had copied
   the lease's keys. *)
THEOREM RevocationsDeleteKeys == Spec => RevokeDeletesKeys
  <1>1. Init => DeletedInv
    BY DEF Init, LMInit, DeletedInv, Revoking, NoLease
  <1>2. ComponentInv /\ KeysetInv /\ SinceInv /\ DeletedInv /\ [Next]_vars => DeletedInv'
    BY DeletedStep
  <1>3. ComponentInv /\ DeletedInv /\ SinceInv /\ [Next]_vars =>
          [\A t \in Thread : Revoking(t) /\ revoking'[t] = NoLease =>
             \A k \in keys[revoking[t]] : data[k].mod >= since[t]]_vars
    <2> SUFFICES ASSUME ComponentInv, DeletedInv, Next, NEW t \in Thread, Revoking(t),
                        revoking'[t] = NoLease, NEW k \in keys[revoking[t]]
                 PROVE  data[k].mod >= since[t]
      OBVIOUS
    <2>1. mutex # t /\ snapshot[t] = {}
      BY ReturnMoves
    <2> QED
      BY <2>1 DEF DeletedInv, Deleting
  <1> QED
    BY <1>1, <1>2, <1>3, ComponentInvariant, KeysetInvariant, SinceInvariant, PTL
       DEF Spec, RevokeDeletesKeys

-----------------------------------------------------------------------------
(* Store and leases together are a map with leases. *)

(* The two specifications name the same outcomes and the same calls. *)
LEMMA SameOutcome ==
  ASSUME NEW old, NEW k, NEW ops, NEW r
  PROVE  Promised!Outcome(old, k, ops, r) = Serial!Outcome(old, k, ops, r)
  BY DEF Promised!Outcome, Serial!Outcome, Promised!Base, Serial!Base, Promised!Puts, Serial!Puts,
         Promised!Deletes, Serial!Deletes, Promised!Latest, Serial!Latest, Promised!KeyInRange,
         Serial!KeyInRange, Promised!Present, Serial!Present, Promised!Absent, Serial!Absent,
         Promised!Cardinality, Serial!Cardinality

LEMMA SameCalls == Upcoming = visible => Promised!Calls = Serial!Calls
  BY DEF Promised!Calls, Serial!Calls, Promised!Branches, Serial!Branches,
         Promised!MaySucceed, Serial!MaySucceed, Promised!MustSucceed, Serial!MustSucceed,
         Promised!Settled, Serial!Settled, Promised!Holds, Serial!Holds, Promised!Absent,
         Serial!Absent, Promised!PutRequest, Serial!PutRequest,
         Promised!DeleteRequest, Serial!DeleteRequest, Promised!RangeEnd, Serial!RangeEnd

(* While the mutex is free what is to come is there. *)
LEMMA FreeUpcoming ==
  ASSUME ComponentInv, mutex = Free
  PROVE  Upcoming = data /\ Upcoming = visible
  <1>1. /\ call.todo = <<>> /\ visible = data /\ data \in [Key -> Entry]
    BY ComponentTypes DEF KVTypeOK, Idle, ComponentInv, SerialInv, MapInv, Uncommitted
  <1> QED
    BY <1>1, NothingDone DEF Upcoming

(* A call that takes the mutex is executed then. *)
LEMMA LockExecutes ==
  ASSUME ComponentInv, Locks
  PROVE  /\ revision' = revision + 1
         /\ call'.todo \in Promised!Calls
         /\ Upcoming' =
              [k \in Key |-> Promised!Outcome(Upcoming[k], k, call'.todo, revision + 1)]
  <1>1. PICK t \in Thread, kind \in {"put", "delete", "txn", "lease"}, todo \in Seq(Request),
             told \in SUBSET Key :
               Lock(t, kind, todo, told) /\ (visible = data => todo \in Serial!Calls)
    BY DEF Locks
  <1>2. mutex = Free /\ call'.todo = todo /\ revision' = revision + 1 /\ data' = data
    BY <1>1 DEF Lock
  <1>3. Upcoming = data /\ Upcoming = visible
    BY <1>2, FreeUpcoming
  <1>4. Upcoming' = [k \in Key |-> Serial!Outcome(data[k], k, todo, revision + 1)]
    BY <1>2 DEF Upcoming
  <1>5. Upcoming' = [k \in Key |-> Promised!Outcome(Upcoming[k], k, todo, revision + 1)]
    BY <1>3, <1>4, SameOutcome
  <1> QED
    BY <1>1, <1>2, <1>3, <1>5, SameCalls

(* The steps inside the mutex bring about what was to come. *)
LEMMA ProceedKeepsUpcoming ==
  ASSUME KVTypeOK, KVProceed
  PROVE  Upcoming' = Upcoming /\ revision' = revision
  <1>1. call \in Call /\ data \in [Key -> Entry] /\ call.todo \in Seq(Request) /\ revision \in Nat
    BY DEF KVTypeOK, Call
  <1>2. revision' = revision
    BY DEF KVProceed, PutDetach, PutStore, EraseKey, EraseDone, TxnRange, Unlock
  <1>3. ASSUME call.todo # <<>>, call'.todo = Tail(call.todo),
               \A k \in Key : data'[k] = After(data[k], k, Head(call.todo), revision)
        PROVE  Upcoming' = Upcoming
    <2>1. \A k \in Key : Serial!Outcome(data'[k], k, call'.todo, revision') =
                           Serial!Outcome(data[k], k, call.todo, revision)
      BY <1>1, <1>2, <1>3, OutcomeOfFirst
    <2> QED
      BY <2>1 DEF Upcoming
  <1>4. CASE PutDetach \/ Unlock
    <2>1. call'.todo = call.todo /\ data' = data
      BY <1>1, <1>4 DEF PutDetach, Unlock, Call, Idle
    <2> QED
      BY <1>2, <2>1 DEF Upcoming
  <1>5. CASE PutStore
    <2> DEFINE op == Head(call.todo)
    <2>1. /\ op.type = "put" /\ op.key \in Key /\ call.todo # <<>>
          /\ call'.todo = Tail(call.todo)
          /\ data' = [data EXCEPT ![op.key] = PutEntry(data[op.key], op, revision)]
      BY <1>1, <1>5, HeadAndTail DEF PutStore, Busy, Call
    <2>2. \A k \in Key : data'[k] = After(data[k], k, op, revision)
      BY <1>1, <2>1 DEF After, Covers
    <2> QED
      BY <1>2, <1>3, <2>1, <2>2
  <1>6. CASE \E k \in Key : EraseKey(k)
    <2>1. PICK k \in Key : EraseKey(k)
      BY <1>6
    <2>2. /\ call'.todo = call.todo /\ call.todo # <<>>
          /\ data' = [data EXCEPT ![k] = Absent] /\ Covers(Head(call.todo), k)
      BY <1>1, <2>1 DEF EraseKey, Call, Busy, Covers, KeysToDelete, KeysInRange
    <2>3. \A e \in Entry : Serial!Outcome(e, k, call.todo, revision) =
                            Serial!Outcome(Absent, k, Tail(call.todo), revision)
      BY <1>1, <2>2, OutcomeOfFirst DEF After
    <2>4. Absent \in Entry /\ \A j \in Key : data'[j] = IF j = k THEN Absent ELSE data[j]
      BY <1>1, <2>2, AbsentType
    <2>5. \A j \in Key : Serial!Outcome(data'[j], j, call'.todo, revision') =
                           Serial!Outcome(data[j], j, call.todo, revision)
      BY <1>1, <1>2, <2>2, <2>3, <2>4
    <2> QED
      BY <1>2, <2>5 DEF Upcoming
  <1>7. CASE EraseDone
    <2> DEFINE op == Head(call.todo)
    <2>1. op.type = "delete" /\ call.todo # <<>> /\ call'.todo = Tail(call.todo) /\ data' = data
      BY <1>1, <1>7 DEF EraseDone, Busy, Call
    <2>2. \A k \in Key : Covers(op, k) => data[k] = Absent
      BY <1>7 DEF EraseDone, Covers, KeysToDelete, KeysInRange, Present
    <2>3. \A k \in Key : data'[k] = After(data[k], k, op, revision)
      BY <2>1, <2>2 DEF After
    <2> QED
      BY <1>2, <1>3, <2>1, <2>3
  <1>8. CASE TxnRange
    <2> DEFINE op == Head(call.todo)
    <2>1. op.type = "range" /\ call.todo # <<>> /\ call'.todo = Tail(call.todo) /\ data' = data
      BY <1>1, <1>8 DEF TxnRange, Busy, Call
    <2>2. \A k \in Key : data'[k] = After(data[k], k, op, revision)
      BY <2>1 DEF After, Covers
    <2> QED
      BY <1>2, <1>3, <2>1, <2>2
  <1> QED
    BY <1>2, <1>4, <1>5, <1>6, <1>7, <1>8 DEF KVProceed

(* An entry to come is the one there is, or none, or one of this call with a lease
   that one of its puts names. *)
LEMMA UpcomingKinds ==
  ASSUME KVTypeOK, NEW k \in Key
  PROVE  \/ /\ Upcoming[k] \in {data[k], Absent}
            /\ BetweenLeases(k) => Upcoming[k] = Absent
         \/ /\ mutex # Free /\ Upcoming[k].mod = revision
            /\ \E i \in 1 .. Len(call.todo) :
                 call.todo[i].type = "put" /\ Upcoming[k].lease = call.todo[i].lease
  <1>1. data[k] \in Entry /\ call.todo \in Seq(Request) /\ revision \in Nat
    BY DEF KVTypeOK, Call
  <1>2. Upcoming[k] = Serial!Outcome(data[k], k, call.todo, revision)
    BY DEF Upcoming
  <1>3. mutex = Free => call.todo = <<>>
    BY DEF KVTypeOK, Idle
  <1>4. BetweenLeases(k) =>
          call.todo # <<>> /\ Head(call.todo).type = "put" /\ Head(call.todo).key = k
    BY DEF BetweenLeases, Busy
  <1>5. CASE mutex = Free
    BY <1>2, <1>3, <1>4, <1>5, NothingDone
  <1>6. CASE mutex # Free
    BY <1>1, <1>2, <1>4, <1>6, OutcomeKinds
  <1> QED
    BY <1>5, <1>6

(* A key that is to have a lease under revocation is one to be deleted, or its put
   came too late for the revocation. *)
EndingInv ==
  \A t \in Thread : Revoking(t) =>
    \A k \in Key : Upcoming[k].lease = revoking[t] =>
      k \in snapshot[t] \/ Upcoming[k].mod >= since[t]

(* A thread has keys to delete only in a Revoke. *)
SnapshotInv == \A t \in Thread : ~Revoking(t) => snapshot[t] = {}

PromiseInv ==
  /\ ComponentInv /\ KeysetInv /\ NamedInv /\ KeysetComplete /\ SinceInv
  /\ SnapshotInv /\ EndingInv

(* Every step of the lease manager keeps that. *)
LEMMA SnapshotStep ==
  ASSUME LMTypeOK, SnapshotInv, [LMNext]_lmVars
  PROVE  SnapshotInv'
  <1> USE DEF LMTypeOK, SnapshotInv, Revoking
  <1>1. CASE UNCHANGED revokeVars
    BY <1>1 DEF revokeVars
  <1>2. CASE LMClient
    <2>1. CASE \E t \in Thread \ {Sweeper}, l \in LeaseId : RevokeStart(t, l)
      BY <2>1 DEF RevokeStart, LeaseId, NoLease
    <2> QED
      BY <1>1, <1>2, <2>1 DEF LMClient, Grant, KeepAlive, AttachKey, DetachKey
  <1>3. ASSUME NEW t \in Thread, LMRevoke(t)
        PROVE  SnapshotInv'
    BY <1>3 DEF LMRevoke, RevokeKey, RevokeFinish
  <1>4. CASE LMSweep
    <2>1. ASSUME NEW l \in LeaseId, SweepNext(l)
          PROVE  SnapshotInv'
      BY <2>1, LMAssumption DEF SweepNext, LeaseId, NoLease, revokeVars
    <2> QED
      BY <1>1, <1>4, <2>1 DEF LMSweep, SweepWake, SweepScan
  <1>5. CASE Tick \/ UNCHANGED lmVars
    BY <1>1, <1>5 DEF Tick, lmVars, revokeVars
  <1> QED
    BY <1>2, <1>3, <1>4, <1>5 DEF LMNext

(* A revocation that begins finds the keys of its lease. *)
LEMMA RevokeFinds ==
  ASSUME PromiseInv, NEW l \in leases
  PROVE  /\ Unseen \in {revision, revision + 1}
         /\ keys[l] \subseteq Key /\ l # 0 /\ l \in LeaseId
         /\ \A k \in keys[l] :
              \/ Upcoming[k].lease = l
              \/ Unseen = revision /\ (Upcoming[k] = Absent \/ Upcoming[k].mod = revision)
         /\ \A k \in Key : Upcoming[k].lease = l => k \in keys[l] \/ Upcoming[k].mod >= Unseen
  <1>1. KVTypeOK /\ LMTypeOK /\ KeysetSound /\ KeysetComplete /\ revision \in Nat
    BY ComponentTypes DEF PromiseInv, KeysetInv, KVTypeOK
  <1>2. l \in LeaseId /\ l # 0 /\ keys[l] \subseteq Key
    BY <1>1 DEF LMTypeOK, LeaseId
  <1>3. Unseen = (IF mutex = Free THEN revision + 1 ELSE revision)
    BY DEF Unseen
  <1>4. mutex = Free => \A k \in Key : Upcoming[k] = data[k]
    BY FreeUpcoming DEF PromiseInv
  <1>5. ASSUME NEW k \in keys[l]
        PROVE  \/ Upcoming[k].lease = l
               \/ Unseen = revision /\ (Upcoming[k] = Absent \/ Upcoming[k].mod = revision)
    <2>1. data[k].lease = l /\ k \in Key
      BY <1>1, <1>2 DEF KeysetSound
    <2> QED
      BY <1>1, <1>3, <1>4, <2>1, UpcomingKinds
  <1>6. ASSUME NEW k \in Key, Upcoming[k].lease = l
        PROVE  k \in keys[l] \/ Upcoming[k].mod >= Unseen
    <2>1. CASE Upcoming[k] \in {data[k], Absent} /\ (BetweenLeases(k) => Upcoming[k] = Absent)
      <3>1. Absent.lease = 0
        BY DEF Absent
      <3>2. data[k].lease = l /\ ~BetweenLeases(k)
        BY <1>2, <1>6, <2>1, <3>1
      <3> QED
        BY <1>1, <3>2 DEF KeysetComplete
    <2>2. CASE mutex # Free /\ Upcoming[k].mod = revision
      BY <1>1, <1>3, <2>2
    <2> QED
      BY <1>1, <2>1, <2>2, UpcomingKinds
  <1> QED
    BY <1>1, <1>2, <1>3, <1>5, <1>6

(* A new lease starts without keys. *)
LEMMA GrantFinds ==
  ASSUME PromiseInv, NEW k \in Key
  PROVE  Upcoming[k].lease < nextLeaseId
  <1>1. KVTypeOK /\ LMTypeOK /\ NamedInv
    BY ComponentTypes DEF PromiseInv
  <1>2. nextLeaseId \in Nat /\ 0 < nextLeaseId /\ Absent.lease = 0
    BY <1>1, LMAssumption DEF LMTypeOK, Absent
  <1> QED
    BY <1>1, <1>2, UpcomingKinds DEF NamedInv

(* Steps that leave the revocations alone, one by one. *)
LEMMA EndingKept ==
  ASSUME PromiseInv, UNCHANGED <<revoking, snapshot, since>>,
         \A k \in Key : \/ Upcoming'[k] = Upcoming[k]
                        \/ Upcoming'[k] = Absent
                        \/ Upcoming'[k].mod = revision + 1
  PROVE  EndingInv' /\ Ending' = Ending
  <1>1. Ending' = Ending
    BY DEF Ending
  <1>2. /\ since \in [Thread -> Nat] /\ Unseen <= revision + 1 /\ revision \in Nat
        /\ \A t \in Thread : since[t] <= Unseen
        /\ Absent.lease = 0
    BY ComponentTypes DEF PromiseInv, SinceInv, Unseen, KVTypeOK, Absent
  <1>3. \A t \in Thread : since[t] <= revision + 1
    <2>1. Unseen \in Nat
      BY <1>2 DEF Unseen
    <2> QED
      BY <1>2, <2>1
  <1>4. ASSUME NEW t \in Thread, Revoking(t), NEW k \in Key, Upcoming'[k].lease = revoking[t]
        PROVE  k \in snapshot[t] \/ Upcoming'[k].mod >= since[t]
    <2>1. revoking[t] # 0
      BY <1>4 DEF Revoking, NoLease
    <2>2. CASE Upcoming'[k] = Upcoming[k]
      BY <1>4, <2>2 DEF PromiseInv, EndingInv
    <2>3. CASE Upcoming'[k] = Absent
      BY <1>2, <1>4, <2>1, <2>3
    <2>4. CASE Upcoming'[k].mod = revision + 1
      BY <1>2, <1>3, <2>4
    <2> QED
      BY <2>2, <2>3, <2>4
  <1> QED
    BY <1>1, <1>4 DEF EndingInv, Revoking

(* What a call that takes the mutex makes of an entry to come. *)
LEMMA LockUpcoming ==
  ASSUME ComponentInv, Locks, NEW k \in Key
  PROVE  \/ Upcoming'[k] = Upcoming[k]
         \/ Upcoming'[k] = Absent
         \/ Upcoming'[k].mod = revision + 1
  <1>1. KVTypeOK /\ KVTypeOK'
    BY ComponentTypes, LockType
  <1>2. call'.todo \in Seq(Request) /\ data[k] \in Entry /\ revision \in Nat
    BY <1>1 DEF KVTypeOK, Call
  <1>3. mutex = Free /\ data' = data /\ revision' = revision + 1
    BY DEF Locks, Lock
  <1>4. Upcoming[k] = data[k]
    BY <1>3, FreeUpcoming
  <1>5. Upcoming'[k] = Serial!Outcome(data[k], k, call'.todo, revision + 1)
    BY <1>3 DEF Upcoming
  <1> QED
    BY <1>2, <1>4, <1>5, OutcomeKinds

(* A request of a client is executed. *)
LEMMA PromiseRequest ==
  ASSUME PromiseInv, NEW t \in Clients, KVRequest(t)
  PROVE  Promised!LPNext /\ EndingInv'
  <1>1. Locks /\ UNCHANGED <<lmVars, since>>
    BY PutLocks, DeleteLocks, TxnLocks
       DEF KVRequest, Clients, ClientPut, ClientDelete, ClientTxn
  <1>2. /\ revision' = revision + 1 /\ call'.todo \in Promised!Calls
        /\ Upcoming' =
             [k \in Key |-> Promised!Outcome(Upcoming[k], k, call'.todo, revision + 1)]
    BY <1>1, LockExecutes DEF PromiseInv
  <1>3. UNCHANGED <<leases, nextLeaseId, revoking, snapshot, since>>
    BY <1>1 DEF lmVars
  <1>4. EndingInv' /\ Ending' = Ending
    BY <1>1, <1>3, LockUpcoming, EndingKept DEF PromiseInv
  <1>5. Promised!SSNext
    BY <1>2 DEF Promised!SSNext
  <1> QED
    BY <1>3, <1>4, <1>5 DEF Promised!LPNext, Promised!Execute, Promised!leaseVars

(* The deletion of a key by a revocation. *)
LEMMA PromiseDelete ==
  ASSUME PromiseInv, NEW t \in Thread, NEW k \in Key, RevokeDeletes(t, k)
  PROVE  Promised!LPNext /\ EndingInv'
  <1>1. Locks
    BY DeleteLocks DEF RevokeDeletes, RangeEnd
  <1>2. /\ LMTypeOK /\ k \in snapshot[t] /\ Revoking(t)
        /\ snapshot' = [snapshot EXCEPT ![t] = @ \ {k}]
        /\ UNCHANGED <<leases, nextLeaseId, revoking, since>>
        /\ mutex = Free /\ data' = data /\ revision' = revision + 1
        /\ call'.todo = <<DeleteRequest(k, NoEnd)>>
    BY ComponentTypes DEF RevokeDeletes, RevokeKey, LeaseDelete, Lock, leaseTable, PromiseInv
  <1>3. Upcoming = data /\ KVTypeOK
    BY <1>2, FreeUpcoming, ComponentTypes DEF PromiseInv
  <1>4. ASSUME NEW j \in Key
        PROVE  Upcoming'[j] = IF j = k THEN Absent ELSE Upcoming[j]
    <2> DEFINE op == DeleteRequest(k, NoEnd)
    <2>1. /\ op \in Request /\ <<op>> \in Seq(Request) /\ <<op>> # <<>>
          /\ Head(<<op>>) = op /\ Tail(<<op>>) = <<>>
      BY DEF DeleteRequest, Request, RangeEnd
    <2>2. Covers(op, j) <=> j = k
      BY KeyAssumption DEF Covers, KeyInRange, DeleteRequest
    <2>3. op.type # "put"
      BY DEF DeleteRequest
    <2> HIDE DEF op
    <2>4. data[j] \in Entry /\ revision + 1 \in Nat
      BY <1>3 DEF KVTypeOK
    <2>5. Upcoming'[j] = Serial!Outcome(data[j], j, <<op>>, revision + 1)
      BY <1>2 DEF Upcoming, op
    <2>6. Upcoming'[j] = Serial!Outcome(After(data[j], j, op, revision + 1), j, <<>>, revision + 1)
      BY <2>1, <2>4, <2>5, OutcomeOfFirst
    <2>7. Upcoming'[j] = After(data[j], j, op, revision + 1)
      BY <2>6, NothingDone
    <2> QED
      BY <1>3, <2>2, <2>3, <2>7 DEF After
  <1>5. Upcoming' = [Upcoming EXCEPT ![k] = Absent]
    BY <1>4 DEF Upcoming
  <1>6. /\ k \in Ending[t].keys
        /\ Ending' = [Ending EXCEPT ![t].keys = @ \ {k}]
    BY <1>2 DEF Ending, LMTypeOK
  <1>7. Promised!DeleteFound(t)
    <2>1. Absent = Promised!Absent
      BY DEF Absent, Promised!Absent
    <2> QED
      BY <1>2, <1>5, <1>6, <2>1 DEF Promised!DeleteFound
  <1>8. EndingInv'
    <2> SUFFICES ASSUME NEW s \in Thread, Revoking(s), NEW j \in Key,
                        Upcoming'[j].lease = revoking[s]
                 PROVE  j \in snapshot'[s] \/ Upcoming'[j].mod >= since[s]
      BY <1>2 DEF EndingInv, Revoking
    <2>1. j # k
      <3>1. Absent.lease = 0 /\ revoking[s] # 0
        BY DEF Absent, Revoking, NoLease
      <3> QED
        BY <1>4, <3>1
    <2>2. j \in snapshot[s] \/ Upcoming[j].mod >= since[s]
      BY <1>4, <2>1 DEF PromiseInv, EndingInv
    <2> QED
      BY <1>2, <1>4, <2>1, <2>2 DEF LMTypeOK
  <1> QED
    BY <1>7, <1>8 DEF Promised!LPNext

(* A revocation that begins, of a client or of the expiration thread. *)
LEMMA PromiseBegin ==
  ASSUME PromiseInv, NEW t \in Thread, NEW l \in leases, ~Revoking(t),
         revoking' = [revoking EXCEPT ![t] = l], snapshot' = [snapshot EXCEPT ![t] = keys[l]],
         since' = [since EXCEPT ![t] = Unseen], UNCHANGED <<kvVars, leases, nextLeaseId>>
  PROVE  Promised!LPNext /\ EndingInv'
  <1>1. LMTypeOK /\ since \in [Thread -> Nat] /\ since[t] = 0 /\ snapshot[t] = {}
    BY ComponentTypes DEF PromiseInv, SinceInv, SnapshotInv
  <1>2. Upcoming' = Upcoming /\ revision' = revision
    BY DEF kvVars, Upcoming
  <1>3. /\ Unseen \in {revision, revision + 1}
        /\ keys[l] \subseteq Key /\ l # 0 /\ l \in LeaseId
        /\ \A k \in keys[l] :
             \/ Upcoming[k].lease = l
             \/ Unseen = revision /\ (Upcoming[k] = Absent \/ Upcoming[k].mod = revision)
        /\ \A k \in Key : Upcoming[k].lease = l => k \in keys[l] \/ Upcoming[k].mod >= Unseen
    BY RevokeFinds
  <1> DEFINE new == [lease |-> l, keys |-> keys[l], since |-> Unseen]
  <1>4. Ending' = [Ending EXCEPT ![t] = new]
    BY <1>1 DEF Ending, LMTypeOK
  <1>5. Ending'[t] = new
    BY <1>4 DEF Ending
  <1>6. new \in [lease : leases, keys : SUBSET Key, since : {revision, revision + 1}]
    <2>1. l \in leases /\ keys[l] \in SUBSET Key /\ Unseen \in {revision, revision + 1}
      BY <1>3
    <2> QED
      BY <2>1
  <1>7. Ending[t] = Promised!NotEnding
    BY <1>1 DEF Ending, Promised!NotEnding, Revoking, NoLease
  <1>8. Absent = Promised!Absent
    BY DEF Absent, Promised!Absent
  <1>9. \A k \in new.keys :
          \/ Upcoming[k].lease = new.lease
          \/ new.since = revision /\ (Upcoming[k] = Promised!Absent \/ Upcoming[k].mod = revision)
    BY <1>3, <1>8
  <1>10. Promised!BeginRevoke(t)
    <2> HIDE DEF new
    <2> QED
      BY <1>2, <1>4, <1>5, <1>6, <1>7, <1>9 DEF Promised!BeginRevoke, Promised!storeVars
  <1>11. EndingInv'
    <2> SUFFICES ASSUME NEW s \in Thread, Revoking(s)', NEW k \in Key,
                        Upcoming[k].lease = revoking'[s]
                 PROVE  k \in snapshot'[s] \/ Upcoming[k].mod >= since'[s]
      BY <1>2 DEF EndingInv
    <2>1. CASE s = t
      BY <1>1, <1>3, <2>1 DEF LMTypeOK
    <2>2. CASE s # t
      <3>1. /\ revoking'[s] = revoking[s] /\ snapshot'[s] = snapshot[s] /\ since'[s] = since[s]
        BY <1>1, <2>2 DEF LMTypeOK
      <3> QED
        BY <3>1 DEF PromiseInv, EndingInv, Revoking
    <2> QED
      BY <2>1, <2>2
  <1> QED
    BY <1>10, <1>11 DEF Promised!LPNext

(* The end of a revocation. *)
LEMMA PromiseEnd ==
  ASSUME PromiseInv, NEW t \in Thread, RevokeReturns(t)
  PROVE  Promised!LPNext /\ EndingInv'
  <1>1. /\ LMTypeOK /\ since \in [Thread -> Nat] /\ Revoking(t) /\ snapshot[t] = {}
        /\ leases' = leases \ {revoking[t]}
        /\ revoking' = [revoking EXCEPT ![t] = NoLease]
        /\ since' = [since EXCEPT ![t] = 0]
        /\ UNCHANGED <<snapshot, nextLeaseId, kvVars>>
    BY ComponentTypes DEF PromiseInv, SinceInv, RevokeReturns, RevokeFinish
  <1>2. Upcoming' = Upcoming /\ revision' = revision
    BY <1>1 DEF kvVars, Upcoming
  <1>3. /\ Ending[t] # Promised!NotEnding /\ Ending[t].keys = {}
        /\ Ending[t].lease = revoking[t] /\ Ending[t].since = since[t]
    BY <1>1 DEF Ending, Promised!NotEnding, Revoking, NoLease
  <1>4. Ending' = [Ending EXCEPT ![t] = Promised!NotEnding]
    BY <1>1 DEF Ending, Promised!NotEnding, NoLease, LMTypeOK
  <1>5. \A k \in Key : Upcoming[k].lease = revoking[t] => Upcoming[k].mod >= since[t]
    BY <1>1 DEF PromiseInv, EndingInv
  <1>6. Promised!EndRevoke(t)
    BY <1>1, <1>2, <1>3, <1>4, <1>5 DEF Promised!EndRevoke, Promised!storeVars
  <1>7. EndingInv'
    BY <1>1, <1>2 DEF PromiseInv, EndingInv, Revoking, LMTypeOK
  <1> QED
    BY <1>6, <1>7 DEF Promised!LPNext

(* Every step of the server is a step of the map with leases, or none. *)
LEMMA PromiseStep ==
  ASSUME PromiseInv, [Next]_vars
  PROVE  [Promised!LPNext]_<<<<Upcoming, revision>>, <<leases, nextLeaseId, Ending>>>> /\ EndingInv'
  <1>1. LMTypeOK /\ KVTypeOK
    BY ComponentTypes DEF PromiseInv
  <1>2. ASSUME UNCHANGED <<kvVars, leases, nextLeaseId, revoking, snapshot, since>>
        PROVE  UNCHANGED <<<<Upcoming, revision>>, <<leases, nextLeaseId, Ending>>>> /\ EndingInv'
    <2>1. Upcoming' = Upcoming /\ revision' = revision
      BY <1>2 DEF kvVars, Upcoming
    <2> QED
      BY <1>2, <2>1, EndingKept
  <1>3. ASSUME NEW t \in Clients, KVRequest(t)
        PROVE  Promised!LPNext /\ EndingInv'
    BY <1>3, PromiseRequest
  <1>4. CASE InMutex
    <2>1. KVProceed /\ UNCHANGED <<leases, nextLeaseId, revoking, snapshot, since>>
      BY <1>1, <1>4, InMutexMoves
         DEF InMutex, DetachOld, AttachAndStore, DetachAndErase, AttachKey, DetachKey, lmVars,
             revokeVars
    <2>2. Upcoming' = Upcoming /\ revision' = revision
      BY <1>1, <2>1, ProceedKeepsUpcoming
    <2> QED
      BY <2>1, <2>2, EndingKept
  <1>5. CASE LeaseRequest
    <2>1. ASSUME NEW seconds \in Ttl, Grant(seconds)
          PROVE  Promised!LPNext /\ EndingInv'
      <3>1. /\ leases' = leases \cup {nextLeaseId} /\ nextLeaseId' = nextLeaseId + 1
            /\ UNCHANGED <<kvVars, revoking, snapshot, since>>
        BY <1>5, <2>1 DEF LeaseRequest, Grant, revokeVars
      <3>2. Upcoming' = Upcoming /\ revision' = revision
        BY <3>1 DEF kvVars, Upcoming
      <3>3. EndingInv' /\ Ending' = Ending
        BY <3>1, <3>2, EndingKept
      <3>4. Promised!GrantLease
        BY <3>1, <3>2, <3>3, GrantFinds DEF Promised!GrantLease, Promised!storeVars
      <3> QED
        BY <3>3, <3>4 DEF Promised!LPNext
    <2>2. ASSUME NEW l \in LeaseId, KeepAlive(l)
          PROVE  UNCHANGED <<kvVars, leases, nextLeaseId, revoking, snapshot, since>>
      BY <1>5, <2>2 DEF LeaseRequest, KeepAlive, revokeVars
    <2> QED
      BY <1>2, <1>5, <2>1, <2>2 DEF LeaseRequest
  <1>6. ASSUME NEW t \in Clients, NEW l \in LeaseId, ClientRevoke(t, l)
        PROVE  Promised!LPNext /\ EndingInv'
    <2>1. /\ ~Revoking(t) /\ l \in leases /\ t \in Thread
          /\ revoking' = [revoking EXCEPT ![t] = l]
          /\ snapshot' = [snapshot EXCEPT ![t] = keys[l]]
          /\ since' = [since EXCEPT ![t] = Unseen]
          /\ UNCHANGED <<kvVars, leases, nextLeaseId>>
      BY <1>6 DEF ClientRevoke, RevokeStart, leaseTable, Clients
    <2> QED
      BY <2>1, PromiseBegin
  <1>7. ASSUME NEW t \in Thread, NEW k \in Key, RevokeDeletes(t, k)
        PROVE  Promised!LPNext /\ EndingInv'
    BY <1>7, PromiseDelete
  <1>8. ASSUME NEW t \in Thread, RevokeReturns(t)
        PROVE  Promised!LPNext /\ EndingInv'
    BY <1>8, PromiseEnd
  <1>9. CASE Sweep
    <2>1. CASE (SweepWake \/ SweepScan) /\ UNCHANGED since
      BY <1>2, <1>9, <2>1 DEF Sweep, SweepWake, SweepScan, leaseTable, revokeVars
    <2>2. ASSUME NEW l \in LeaseId, SweepNext(l),
                 since' = IF l \in leases THEN [since EXCEPT ![Sweeper] = Unseen] ELSE since
          PROVE  \/ Promised!LPNext /\ EndingInv'
                 \/ UNCHANGED <<kvVars, leases, nextLeaseId, revoking, snapshot, since>>
      <3>1. /\ ~Revoking(Sweeper) /\ UNCHANGED <<kvVars, leases, nextLeaseId>>
            /\ Sweeper \in Thread
        BY <1>9, <2>2, LMAssumption DEF Sweep, SweepNext, leaseTable
      <3>2. CASE l \in leases
        BY <2>2, <3>1, <3>2, PromiseBegin DEF SweepNext
      <3>3. CASE l \notin leases
        BY <2>2, <3>1, <3>3 DEF SweepNext, revokeVars
      <3> QED
        BY <3>2, <3>3
    <2> QED
      BY <1>2, <1>9, <2>1, <2>2 DEF Sweep
  <1>10. CASE Tick /\ UNCHANGED <<kvVars, since>>
    BY <1>2, <1>10 DEF Tick, leaseTable, revokeVars
  <1>11. CASE UNCHANGED vars
    BY <1>2, <1>11 DEF vars, lmVars
  <1> QED
    BY <1>3, <1>4, <1>5, <1>6, <1>7, <1>8, <1>9, <1>10, <1>11 DEF Next

(* The first state has no leases and an empty map. *)
LEMMA PromiseInit == Init => SnapshotInv /\ EndingInv /\ Promised!LPInit
  <1> SUFFICES ASSUME Init
               PROVE  SnapshotInv /\ EndingInv /\ Promised!LPInit
    OBVIOUS
  <1>1. ComponentInv /\ mutex = Free /\ data = [k \in Key |-> Absent] /\ revision = 1
    BY ComponentInit DEF Init, KVInit
  <1>2. Upcoming = [k \in Key |-> Promised!Absent]
    BY <1>1, FreeUpcoming DEF Absent, Promised!Absent
  <1>3. /\ leases = {} /\ nextLeaseId = 1 /\ revoking = [t \in Thread |-> NoLease]
        /\ snapshot = [t \in Thread |-> {}] /\ since = [t \in Thread |-> 0]
    BY DEF Init, LMInit
  <1>4. Ending = [t \in Thread |-> Promised!NotEnding]
    BY <1>3 DEF Ending, Promised!NotEnding, NoLease
  <1> QED
    BY <1>1, <1>2, <1>3, <1>4
       DEF SnapshotInv, EndingInv, Revoking, Promised!LPInit, Promised!SSInit

(* The invariant holds throughout, whatever the server's life is like. *)
LEMMA PromiseKept ==
  ASSUME Naming # "any"
  PROVE  Init /\ [][Next]_vars => IsLeasedMap
  <1>1. Init => PromiseInv /\ Promised!LPInit
    <2>1. Init => KeysetInv
      BY DEF Init, LMInit, KVInit, KeysetInv, KeysetSound, Idle
    <2>2. Init => SinceInv
      BY DEF Init, LMInit, KVInit, SinceInv, Revoking, Unseen, NoLease
    <2> QED
      BY <2>1, <2>2, ComponentInit, CompleteInit, PromiseInit DEF PromiseInv
  <1>2. PromiseInv /\ [Next]_vars =>
          /\ PromiseInv'
          /\ [Promised!LPNext]_<<<<Upcoming, revision>>, <<leases, nextLeaseId, Ending>>>>
    <2> SUFFICES ASSUME PromiseInv, [Next]_vars
                 PROVE  /\ PromiseInv'
                        /\ [Promised!LPNext]_<<<<Upcoming, revision>>,
                                                <<leases, nextLeaseId, Ending>>>>
      OBVIOUS
    <2>1. ComponentInv' /\ KeysetInv' /\ NamedInv' /\ KeysetComplete' /\ SinceInv'
      BY ComponentStep, KeysetStep, NamedStep, CompleteStep, SinceStep DEF PromiseInv
    <2>2. SnapshotInv'
      BY ComponentTypes, ComponentsMove, SnapshotStep DEF PromiseInv
    <2> QED
      BY <2>1, <2>2, PromiseStep DEF PromiseInv
  <1> QED
    BY <1>1, <1>2, PTL DEF IsLeasedMap, Promised!LPSpec, Promised!storeVars, Promised!leaseVars

(* When clients put only leases they were granted, the store and the leases keep
   the promise of LeasedMap, whatever calls, revocations and expiries come between
   the steps of one another. *)
THEOREM LeasesArePromised == Naming # "any" => (Spec => IsLeasedMap)
  <1> SUFFICES ASSUME Naming # "any"
               PROVE  Spec => IsLeasedMap
    OBVIOUS
  <1> QED
    BY PromiseKept, PTL DEF Spec
=============================================================================
