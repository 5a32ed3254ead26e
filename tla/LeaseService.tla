---------------------------- MODULE LeaseService ----------------------------
(***************************************************************************)
(* The Lease RPCs (class LeaseServiceImpl) over the lease manager: what     *)
(* their replies promise clients, and the expiration thread that has to     *)
(* keep it.                                                                 *)
(*                                                                          *)
(* A handler makes one call of the manager and fills its reply from what    *)
(* the call returned.  The header's revision is the store's business        *)
(* (KVService, ServeLease).  A client may count a TTL from when it sent its *)
(* request, so what a reply is worth starts at the manager's own reading of *)
(* the clock, however late the reply arrives.  An error reply promises      *)
(* nothing and follows a call that changed nothing.                         *)
(***************************************************************************)
EXTENDS LeaseManager

VARIABLE
  promised  \* history: promised[l] is the latest time up to which a reply said
            \* that lease l lives, 0 if none did

lsvVars == <<lmVars, promised>>

LSVInit ==
  /\ LMInit
  /\ promised = [l \in LeaseId |-> 0]

-----------------------------------------------------------------------------
(* The handlers. *)

(* A reply with this TTL for lease l; one that is not positive says that no time
   is left. *)
ReplyTtl(l, seconds) ==
  LET until == now + seconds * Second
  IN  promised' = IF seconds > 0 /\ promised[l] < until
                  THEN [promised EXCEPT ![l] = until]
                  ELSE promised

LeaseGrant(seconds) == Grant(seconds) /\ ReplyTtl(nextLeaseId, seconds)

(* The reply to a renewal carries the TTL that the lease was granted. *)
LeaseKeepAlive(l) == KeepAlive(l) /\ ReplyTtl(l, ttl[l])

LeaseTimeToLive(l) ==
  /\ l \in leases
  /\ ReplyTtl(l, TimeToLive(l))
  /\ UNCHANGED lmVars

-----------------------------------------------------------------------------
(* The handlers beside what promises nothing: the key-value calls that attach
   and detach keys, revocations, the expiration thread and the clock. *)

Replies ==
  \/ \E seconds \in Ttl : LeaseGrant(seconds)
  \/ \E l \in LeaseId : LeaseKeepAlive(l) \/ LeaseTimeToLive(l)

Silent ==
  /\ \/ \E l \in LeaseId, k \in Key : AttachKey(l, k) \/ DetachKey(l, k)
     \/ \E t \in Thread \ {Sweeper}, l \in LeaseId : RevokeStart(t, l)
     \/ \E t \in Thread : LMRevoke(t)
     \/ LMSweep
     \/ Tick
  /\ UNCHANGED promised

LSVNext == Replies \/ Silent

(* The fairness of LMSpec: the expiration thread runs whenever it can. *)
LSVSpec ==
  /\ LSVInit /\ [][LSVNext]_lsvVars
  /\ WF_lsvVars(LMSweep /\ UNCHANGED promised)
  /\ WF_lsvVars(LMRevoke(Sweeper) /\ UNCHANGED promised)

-----------------------------------------------------------------------------
(* Properties. *)

(* The deadline that lease l gets when it is renewed now lies ahead, and within
   the range of the clock's type. *)
Fits(l) == now + ttl[l] * Second \in now .. ClockRange - 1

(* While the expiration thread revokes a lease, deleting its keys one by one,
   the time that any reply promised for it is over: what was granted, what each
   renewal added and what LeaseTimeToLive reported as left.  This needs clients
   that renew before the deadline (LateKeepAlive = FALSE) and deadlines that fit
   the clock's type. *)
PromisedTimeKept ==
  \A l \in leases : revoking[Sweeper] = l /\ Fits(l) => promised[l] <= now
=============================================================================
