------------------------------ MODULE LeasedMap ------------------------------
(***************************************************************************)
(* What the store and the lease manager promise together, without locks or  *)
(* intermediate steps: every call is executed alone and at once             *)
(* (SerialStore), the revocations' deletions among them; a lease is granted *)
(* once and starts without keys; a revocation deletes keys that had its     *)
(* lease when it began, and when it is over the keys that have the lease    *)
(* still were put since.                                                    *)
(***************************************************************************)
EXTENDS SerialStore

VARIABLES
  live,        \* the leases there are
  nextLease,   \* the lease that is granted next
  ending       \* ending[t]: the lease t is revoking, the keys it has yet to
               \* delete, and the revision from which on a put is too late for
               \* the revocation to find its key

NotEnding == [lease |-> 0, keys |-> {}, since |-> 0]

storeVars == <<store, rev>>
leaseVars == <<live, nextLease, ending>>

LPInit ==
  /\ SSInit
  /\ live = {}
  /\ nextLease = 1
  /\ ending = [t \in Thread |-> NotEnding]

Execute == UNCHANGED leaseVars /\ SSNext

GrantLease ==
  /\ nextLease' = nextLease + 1
  /\ live' = live \cup {nextLease}
  /\ \A k \in Key : store[k].lease < nextLease
  /\ UNCHANGED <<storeVars, ending>>

(* The last call may still be under way where `since' is its revision: then
   what it writes may be missed, and what it writes over may be found. *)
BeginRevoke(t) ==
  LET new == ending'[t]
  IN  /\ ending[t] = NotEnding
      /\ new \in [lease : live, keys : SUBSET Key, since : {rev, rev + 1}]
      /\ ending' = [ending EXCEPT ![t] = new]
      /\ \A k \in new.keys :
           \/ store[k].lease = new.lease
           \/ new.since = rev /\ (store[k] = Absent \/ store[k].mod = rev)
      /\ UNCHANGED <<storeVars, live, nextLease>>

DeleteFound(t) ==
  \E k \in ending[t].keys :
    /\ rev' = rev + 1
    /\ ending' = [ending EXCEPT ![t].keys = @ \ {k}]
    /\ store' = [store EXCEPT ![k] = Absent]
    /\ UNCHANGED <<live, nextLease>>

EndRevoke(t) ==
  /\ ending[t] # NotEnding
  /\ ending[t].keys = {}
  /\ \A k \in Key : store[k].lease = ending[t].lease => store[k].mod >= ending[t].since
  /\ live' = live \ {ending[t].lease}
  /\ ending' = [ending EXCEPT ![t] = NotEnding]
  /\ UNCHANGED <<storeVars, nextLease>>

LPNext ==
  \/ GrantLease
  \/ Execute
  \/ \E t \in Thread : BeginRevoke(t) \/ DeleteFound(t) \/ EndRevoke(t)

LPSpec == LPInit /\ [][LPNext]_<<storeVars, leaseVars>>
=============================================================================
