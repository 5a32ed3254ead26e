----------------------------- MODULE LeaseStore -----------------------------
(***************************************************************************)
(* The key-value store and the lease manager together, as server.cpp wires  *)
(* them: the store attaches and detaches keys while it holds its mutex, and *)
(* the lease manager deletes a revoked lease's keys through the store while *)
(* it holds none.                                                           *)
(*                                                                          *)
(* Client threads make the calls of both services; the expiration thread    *)
(* sweeps.  The two mutexes are never taken in the opposite order, so steps *)
(* of the components meet only in the actions below.                        *)
(***************************************************************************)
EXTENDS KVStore, LeaseManager

CONSTANT Naming   \* the leases clients put: "any" id of LeaseName, ids that
                  \* were "granted", or leases "live" at the call

ASSUME LSAssumption == Naming \in {"any", "granted", "live"}

VARIABLE since    \* history: the first revision a put not seen by the snapshot
                  \* of the thread's Revoke can have; 0 outside Revoke

vars == <<kvVars, lmVars, since>>

Init ==
  /\ KVInit
  /\ LMInit
  /\ since = [t \in Thread |-> 0]

-----------------------------------------------------------------------------
(* The calls of the key-value service.  A client thread is in one call at a
   time. *)

Clients == Thread \ {Sweeper}

MayName(l) ==
  \/ l = NoLease
  \/ Naming = "any"
  \/ Naming = "granted" /\ l < nextLeaseId
  \/ Naming = "live" /\ l \in leases

NamesOnly(requests) ==
  \A i \in DOMAIN requests : requests[i].type = "put" => MayName(requests[i].lease)

ClientPut(t, k, v, l) ==
  /\ ~Revoking(t)
  /\ MayName(l)
  /\ Put(t, k, v, l)
  /\ UNCHANGED <<lmVars, since>>

ClientDelete(t, k, end) ==
  /\ ~Revoking(t)
  /\ DeleteRange(t, k, end)
  /\ UNCHANGED <<lmVars, since>>

ClientTxn(t, txn) ==
  /\ ~Revoking(t)
  /\ NamesOnly(txn.success)
  /\ NamesOnly(txn.failure)
  /\ Txn(t, txn)
  /\ UNCHANGED <<lmVars, since>>

KVRequest(t) ==
  \/ /\ "put" \in Kind
     /\ \E k \in Key, v \in Value, l \in LeaseName : ClientPut(t, k, v, l)
  \/ /\ "delete" \in Kind
     /\ \E k \in Key, end \in RangeEnd : ClientDelete(t, k, end)
  \/ /\ "txn" \in Kind
     /\ \E txn \in TxnRequest : ClientTxn(t, txn)

-----------------------------------------------------------------------------
(* Inside the store's mutex, each visit to the lease manager with the step of
   the store it belongs to. *)

DetachOld ==
  LET k == Head(call.todo).key
  IN  /\ PutDetach
      /\ DetachKey(data[k].lease, k)
      /\ UNCHANGED since

\* Mutant: the key joins its new lease in a later step than the write.
AttachAndStoreUnattached ==
  /\ PutStore
  /\ UNCHANGED <<lmVars, since>>

AttachAndStore ==
  LET req == Head(call.todo)
  IN  /\ PutStore
      /\ IF req.lease > 0 THEN AttachKey(req.lease, req.key) ELSE UNCHANGED lmVars
      /\ UNCHANGED since

\* Mutant: the delete leaves the key with its lease.
DetachAndEraseAttached(k) ==
  /\ EraseKey(k)
  /\ UNCHANGED <<lmVars, since>>

DetachAndErase(k) ==
  /\ EraseKey(k)
  /\ IF data[k].lease > 0 THEN DetachKey(data[k].lease, k) ELSE UNCHANGED lmVars
  /\ UNCHANGED since

InMutex ==
  \/ DetachOld
  \/ AttachAndStore
  \/ \E k \in Key : DetachAndErase(k)
  \/ (EraseDone \/ TxnRange \/ Unlock) /\ UNCHANGED <<lmVars, since>>

-----------------------------------------------------------------------------
(* The calls of the lease service and the expiration thread. *)

LeaseRequest ==
  /\ \/ \E seconds \in Ttl : Grant(seconds)
     \/ \E l \in LeaseId : KeepAlive(l)
  /\ UNCHANGED <<kvVars, since>>

(* The first revision a put can have that attaches its key to the lease after
   the snapshot: the put inside the mutex has the revision already. *)
Unseen == IF mutex = Free THEN revision + 1 ELSE revision

ClientRevoke(t, l) ==
  /\ mutex # t
  /\ RevokeStart(t, l)
  /\ since' = [since EXCEPT ![t] = Unseen]
  /\ UNCHANGED kvVars

(* The callback waits for the store's mutex and deletes the key, whatever lease
   the key has by then. *)
RevokeDeletes(t, k) ==
  /\ RevokeKey(t, k)
  /\ LeaseDelete(t, k)
  /\ UNCHANGED since

\* Mutant: the lease is erased before the callbacks have run.
RevokeReturnsEarly(t) ==
  /\ Revoking(t)
  /\ mutex # t
  /\ leases' = leases \ {revoking[t]}
  /\ ttl' = [ttl EXCEPT ![revoking[t]] = 0]
  /\ expireTime' = [expireTime EXCEPT ![revoking[t]] = 0]
  /\ keys' = [keys EXCEPT ![revoking[t]] = {}]
  /\ revoking' = [revoking EXCEPT ![t] = NoLease]
  /\ snapshot' = [snapshot EXCEPT ![t] = {}]
  /\ since' = [since EXCEPT ![t] = 0]
  /\ UNCHANGED <<kvVars, nextLeaseId, now, sweep>>

RevokeReturns(t) ==
  /\ mutex # t
  /\ RevokeFinish(t)
  /\ since' = [since EXCEPT ![t] = 0]
  /\ UNCHANGED kvVars

Sweep ==
  /\ \/ SweepWake /\ UNCHANGED since
     \/ SweepScan /\ UNCHANGED since
     \/ \E l \in LeaseId :
          /\ SweepNext(l)
          /\ since' = IF l \in leases THEN [since EXCEPT ![Sweeper] = Unseen] ELSE since
  /\ UNCHANGED kvVars

Next ==
  \/ \E t \in Clients : KVRequest(t)
  \/ InMutex
  \/ LeaseRequest
  \/ \E t \in Clients, l \in LeaseId : ClientRevoke(t, l)
  \/ \E t \in Thread, k \in Key : RevokeDeletes(t, k)
  \/ \E t \in Thread : RevokeReturns(t)
  \/ Sweep
  \/ Tick /\ UNCHANGED <<kvVars, since>>

(* The thread inside the mutex and the expiration thread run whenever they can.
   Strong fairness of the expiration thread's callbacks is what std::mutex is
   trusted for here: a thread that waits for the store's mutex is not passed
   over for ever. *)
Spec ==
  /\ Init /\ [][Next]_vars
  /\ WF_vars(InMutex)
  /\ WF_vars(Sweep)
  /\ SF_vars(\E k \in Key : RevokeDeletes(Sweeper, k))
  /\ WF_vars(RevokeReturns(Sweeper))

-----------------------------------------------------------------------------
(* Properties. *)

(* The types of both components; since is set exactly inside Revoke. *)
TypeOK ==
  /\ KVTypeOK
  /\ LMTypeOK
  /\ since \in [Thread -> Nat]
  /\ \A t \in Thread : since[t] = 0 <=> ~Revoking(t)

(* A lease's key set holds only keys that are stored with that lease, at every
   step of every call: what Revoke copies was the lease's own. *)
KeysetSound ==
  \A l \in leases : \A k \in keys[l] : Present(data[k]) /\ data[k].lease = l

(* A put has taken the key from its old lease and not yet given it the new. *)
BetweenLeases(k) == Busy("put") /\ call.detached /\ Head(call.todo).key = k

(* A key stored with a lease that exists is in that lease's key set, so that a
   revocation will find it, except between the two visits of a put.  This needs
   clients that name only leases they were granted. *)
KeysetComplete ==
  \A k \in Key : data[k].lease \in leases =>
                   k \in keys[data[k].lease] \/ BetweenLeases(k)

(* A revocation leaves no key behind that the lease had when it began: a key
   the lease has when it is erased was put since. *)
RevokeDeletesKeys ==
  [][\A t \in Thread : Revoking(t) /\ revoking'[t] = NoLease =>
       \A k \in keys[revoking[t]] : data[k].mod >= since[t]]_vars

(* What the store holds once the call inside the mutex is over: nobody can see
   it before. *)
Upcoming == [k \in Key |-> Serial!Outcome(data[k], k, call.todo, revision)]

(* What each thread's Revoke has before it. *)
Ending == [t \in Thread |-> [lease |-> revoking[t], keys |-> snapshot[t], since |-> since[t]]]

(* To clients, who name only leases they were granted, store and leases are a
   map with leases: each call, a revocation's deletion included, is one step, at
   the moment it takes the mutex; a lease starts without keys; and when a lease
   goes none is left that it had when its revocation began, although a put moves
   its key from lease to lease in steps that come before and after those of
   Revoke and none of these looks at the store. *)
Promised == INSTANCE LeasedMap
              WITH store <- Upcoming, rev <- revision,
                   live <- leases, nextLease <- nextLeaseId, ending <- Ending

IsLeasedMap == Promised!LPSpec

-----------------------------------------------------------------------------
(* What the documentation says and this server does not do. *)

(* "When the attached lease expires, the key will be deleted" (kv.proto:26,
   README.md:227): no key is stored with a lease that is gone, or it would be
   there for ever. *)
NoOrphan ==
  mutex = Free =>
    \A k \in Key : data[k].lease # NoLease => data[k].lease \in leases

(* "All keys attached to the lease will expire and be deleted" (rpc.proto:90),
   "If lease is 0, then no lease is attached to the key" (kv.proto:27): what a
   revocation deletes is attached to the lease it revokes. *)
RevokeDeletesOnlyOwn ==
  [][call.kind = "lease" /\ mutex # Free =>
       \A k \in Key : Present(data[k]) /\ ~Present(data'[k]) =>
                        data[k].lease = revoking[mutex]]_vars
=============================================================================
