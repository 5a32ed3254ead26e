------------------------------ MODULE KVStore ------------------------------
(***************************************************************************)
(* The key-value store (class KVStore, src/kv/kv_store.cpp).                *)
(*                                                                          *)
(* Every call runs under the store's one mutex, but not in one step: while  *)
(* it holds the mutex a call talks to the lease manager, which has a mutex  *)
(* of its own, and to the watch callbacks.  So a call is modelled as the    *)
(* step that takes the mutex, one step per visit to the lease manager, and  *)
(* the step that runs the callbacks and releases the mutex.  Accesses to    *)
(* data_ are protected by the mutex, hence each is part of the step it      *)
(* belongs to.                                                              *)
(*                                                                          *)
(* The module is a component: LeaseStore conjoins its steps with those of   *)
(* LeaseManager.  On its own, KVSpec lets any thread make any call.         *)
(***************************************************************************)
EXTENDS KVData

CONSTANTS
  Free,         \* the value of mutex while nobody holds it
  Kind,         \* the calls made: "put", "delete", "txn", "lease"
  MaxRevision   \* bound: clients start no call at or past this revision

ASSUME KVAssumption ==
  /\ Free \notin Thread
  /\ MaxRevision \in Nat
  /\ Kind \subseteq {"put", "delete", "txn", "lease"}

VARIABLES
  data,      \* data_: the entry of every key, Absent when data_ has none
  revision,  \* revision_
  mutex,     \* the thread inside mutex_, or Free
  call,      \* what the call inside mutex_ still has to do
  visible,   \* history: data_ when mutex_ was last released
  replica    \* history: the mod_revision of each key in a copy that a consumer
             \* of the callbacks builds; 0 for a key it does not hold

kvVars == <<data, revision, mutex, call, visible, replica>>

(* detached: the lease the head put replaces has been told already.
   told: the keys whose event the callbacks get before the release. *)
Call == [kind : {"idle", "put", "delete", "txn", "lease"}, todo : Seq(Request),
         detached : BOOLEAN, told : SUBSET Key]

Idle == [kind |-> "idle", todo |-> <<>>, detached |-> FALSE, told |-> {}]

(* Initially data_ is empty; revision_ starts at 1. *)
KVInit ==
  /\ data = [k \in Key |-> Absent]
  /\ revision = 1
  /\ mutex = Free
  /\ call = Idle
  /\ visible = data
  /\ replica = [k \in Key |-> 0]

-----------------------------------------------------------------------------
(* Comparisons. *)

Related(result, x, y) ==
  \/ result = "equal" /\ x = y
  \/ result = "not_equal" /\ x # y
  \/ result = "greater" /\ x > y
  \/ result = "less" /\ x < y

(* Reading an arm of a oneof that is not set yields zero (or ""). *)
Operand(cmp, arm) == IF cmp.arm = arm THEN cmp.operand ELSE 0

(* A missing key fails every comparison.  Whatever the target, a number is
   compared with the version arm. *)
EvaluateCompare(cmp, e) ==
  /\ Present(e)
  /\ Related(cmp.result, e[cmp.target],
             Operand(cmp, IF cmp.target = "value" THEN "value" ELSE "version"))

-----------------------------------------------------------------------------
(* Taking the mutex. *)

Lock(t, kind, todo, told) ==
  /\ mutex = Free
  /\ mutex' = t
  /\ revision' = revision + 1
  /\ call' = [kind |-> kind, todo |-> todo, detached |-> FALSE, told |-> told]
  /\ UNCHANGED <<data, visible, replica>>

Put(t, k, v, l) ==
  /\ revision < MaxRevision
  /\ Lock(t, "put", <<PutRequest(k, v, l)>>, {k})

(* The RPC always asks for the previous entries, so every deleted key is
   reported. *)
DeleteRange(t, k, end) ==
  /\ revision < MaxRevision
  /\ Lock(t, "delete", <<DeleteRequest(k, end)>>, {})

\* Mutant: the last comparison decides alone.
TxnLastDecides(t, txn) ==
  /\ revision < MaxRevision
  /\ LET n == Len(txn.compares)
         holds == EvaluateCompare(txn.compares[n], data[txn.compares[n].key])
     IN  Lock(t, "txn", IF holds THEN txn.success ELSE txn.failure, {})

(* The comparisons are evaluated and the branch chosen as soon as the mutex
   is held. *)
Txn(t, txn) ==
  /\ revision < MaxRevision
  /\ LET holds == \A i \in DOMAIN txn.compares :
                    EvaluateCompare(txn.compares[i], data[txn.compares[i].key])
     IN  Lock(t, "txn", IF holds THEN txn.success ELSE txn.failure, {})

\* Mutant: the callback deletes every key from k on.
LeaseDeleteFrom(t, k) ==
  Lock(t, "lease", <<DeleteRequest(k, FromKey)>>, {})

(* The lease manager's deleteKeyCallback_: Delete(key, "", nullptr). *)
LeaseDelete(t, k) ==
  Lock(t, "lease", <<DeleteRequest(k, NoEnd)>>, {})

-----------------------------------------------------------------------------
(* Inside the mutex: the steps of the operation at the head of `todo'. *)

Busy(type) == mutex # Free /\ call.todo # <<>> /\ Head(call.todo).type = type

(* A put over a key with a lease first takes the key from that lease. *)
NeedsDetach(k) == Present(data[k]) /\ data[k].lease > 0

\* Mutant: the put restarts the version of a key that exists.
PutEntryVersionRestarts(old, req, r) ==
  [value |-> req.value, lease |-> req.lease,
   create |-> IF Present(old) THEN old.create ELSE r,
   mod |-> r, version |-> 1]

\* Mutant: the put keeps the modification revision of a key that exists.
PutEntryModKept(old, req, r) ==
  [value |-> req.value, lease |-> req.lease,
   create |-> IF Present(old) THEN old.create ELSE r,
   mod |-> IF Present(old) THEN old.mod ELSE r,
   version |-> IF Present(old) THEN old.version + 1 ELSE 1]

PutEntry(old, req, r) ==
  [value |-> req.value, lease |-> req.lease,
   create |-> IF Present(old) THEN old.create ELSE r,
   mod |-> r,
   version |-> IF Present(old) THEN old.version + 1 ELSE 1]

(* The visit to DetachKey(prev.lease, key). *)
PutDetach ==
  /\ Busy("put")
  /\ ~call.detached
  /\ NeedsDetach(Head(call.todo).key)
  /\ call' = [call EXCEPT !.detached = TRUE]
  /\ UNCHANGED <<data, revision, mutex, visible, replica>>

(* The visit to AttachKey(lease, key), whose status is ignored, and the write. *)
PutStore ==
  LET req == Head(call.todo)
  IN  /\ Busy("put")
      /\ call.detached \/ ~NeedsDetach(req.key)
      /\ data' = [data EXCEPT ![req.key] = PutEntry(@, req, revision)]
      /\ call' = [call EXCEPT !.todo = Tail(@), !.detached = FALSE]
      /\ UNCHANGED <<revision, mutex, visible, replica>>

(* The keys the delete at the head has yet to erase: nothing else changes
   data_ meanwhile, so these are what is left of the list collected first. *)
KeysToDelete ==
  KeysInRange({k \in Key : Present(data[k])}, Head(call.todo).key, Head(call.todo).end)

\* Mutant: erased keys are not collected for the callbacks.
EraseKeyUntold(k) ==
  /\ Busy("delete")
  /\ k \in KeysToDelete
  /\ data' = [data EXCEPT ![k] = Absent]
  /\ UNCHANGED <<revision, mutex, call, visible, replica>>

(* DetachKey(lease, k), if k has a lease, and the erasure of k; the map is
   unordered, so is the iteration. *)
EraseKey(k) ==
  /\ Busy("delete")
  /\ k \in KeysToDelete
  /\ data' = [data EXCEPT ![k] = Absent]
  /\ call' = IF call.kind = "delete" THEN [call EXCEPT !.told = @ \cup {k}] ELSE call
  /\ UNCHANGED <<revision, mutex, visible, replica>>

EraseDone ==
  /\ Busy("delete")
  /\ KeysToDelete = {}
  /\ call' = [call EXCEPT !.todo = Tail(@)]
  /\ UNCHANGED <<data, revision, mutex, visible, replica>>

(* A range in a transaction changes nothing; what it puts in the reply is left
   out here, as the rest of a transaction's reply is. *)
TxnRange ==
  /\ Busy("range")
  /\ call' = [call EXCEPT !.todo = Tail(@)]
  /\ UNCHANGED <<data, revision, mutex, visible, replica>>

\* Mutant: the frame of the call survives it.
UnlockKeepsTold ==
  /\ mutex # Free
  /\ call.todo = <<>>
  /\ replica' = [k \in Key |-> IF k \in call.told THEN data[k].mod ELSE replica[k]]
  /\ visible' = data
  /\ mutex' = Free
  /\ call' = [call EXCEPT !.kind = "idle"]
  /\ UNCHANGED <<data, revision>>

(* The callbacks, then the release.  A put event carries the new entry; a
   consumer of a delete event drops the key. *)
Unlock ==
  /\ mutex # Free
  /\ call.todo = <<>>
  /\ replica' = [k \in Key |-> IF k \in call.told THEN data[k].mod ELSE replica[k]]
  /\ visible' = data
  /\ mutex' = Free
  /\ call' = Idle
  /\ UNCHANGED <<data, revision>>

-----------------------------------------------------------------------------
(* Reading.  Get and KeyExists are data[k] and Present(data[k]). *)

StoredKeys == {k \in Key : Present(data[k])}

(* The entries a range request returns, in the RPC and in a transaction. *)
RangeReply(start, end, limit) == RangeKeys(StoredKeys, start, end, limit)

-----------------------------------------------------------------------------
(* The store on its own. *)

KVCall(t) ==
  \/ /\ "put" \in Kind
     /\ \E k \in Key, v \in Value, l \in LeaseName : Put(t, k, v, l)
  \/ /\ "delete" \in Kind
     /\ \E k \in Key, end \in RangeEnd : DeleteRange(t, k, end)
  \/ /\ "txn" \in Kind
     /\ \E txn \in TxnRequest : Txn(t, txn)
  \/ /\ "lease" \in Kind
     /\ revision < MaxRevision
     /\ \E k \in Key : LeaseDelete(t, k)

KVProceed ==
  \/ PutDetach
  \/ PutStore
  \/ \E k \in Key : EraseKey(k)
  \/ EraseDone
  \/ TxnRange
  \/ Unlock

KVNext == KVProceed \/ \E t \in Thread : KVCall(t)

KVSpec == KVInit /\ [][KVNext]_kvVars

-----------------------------------------------------------------------------
(* Properties. *)

(* Every variable has its type, and the frame of a call is set exactly while
   the mutex is held. *)
KVTypeOK ==
  /\ data \in [Key -> Entry]
  /\ revision \in Nat
  /\ mutex \in Thread \cup {Free}
  /\ call \in Call
  /\ visible \in [Key -> Entry]
  /\ replica \in [Key -> Nat]
  /\ mutex = Free <=> call.kind = "idle"
  /\ mutex = Free => call = Idle

(* The MVCC fields of an entry are in order: a key is created after revision 1,
   modified no earlier than created and no later than the store's revision,
   and version 1 marks the creation. *)
Versioned(e) ==
  Present(e) =>
    /\ 1 < e.create
    /\ e.create <= e.mod
    /\ e.mod <= revision
    /\ e.version >= 1
    /\ e.version = 1 => e.create = e.mod

RevisionOrder == \A k \in Key : Versioned(data[k])

(* To those who take the mutex the store is a versioned map whose every call
   is one commit: the steps of a call, its ++revision_ included, show up
   together when the mutex is released. *)
Committed == INSTANCE VersionedMap
               WITH store <- visible,
                    rev <- IF mutex = Free THEN revision ELSE revision - 1

IsVersionedMap == Committed!VMSpec

(* And each commit is a call executed alone: what the comparisons of a
   transaction see is what its operations then change, and a key is left as the
   operations, one after the other, leave it.  A transaction succeeds only where
   what it says of versions and values is so, as the protocol has it, and fails
   only where that is not so, a key is missing, or it compares another field:
   what the server makes of the latter is not promised. *)
Serial == INSTANCE SerialStore
            WITH store <- visible,
                 rev <- IF mutex = Free THEN revision ELSE revision - 1

IsSerial == Serial!SSSpec

(* Whatever a Put or a DeleteRange of a client changes reaches the callbacks
   before the mutex is released: a copy built from the events holds the same
   modification revisions. *)
ClientWritesAreFed ==
  [][call.kind \in {"put", "delete"} =>
       \A k \in Key : visible'[k] # visible[k] => replica'[k] = visible'[k].mod]_kvVars

(* Every call lets go of the mutex. *)
MutexReleased == (mutex # Free) ~> (mutex = Free)

=============================================================================
