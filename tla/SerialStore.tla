----------------------------- MODULE SerialStore -----------------------------
(***************************************************************************)
(* What the key-value store promises of every call: it is executed alone    *)
(* and at once, at the next revision, on the map the call before it left.   *)
(* The operations of a call are those of a put, a delete, or a branch of a  *)
(* transaction that its comparisons allow on that same map, and each key    *)
(* ends as the last delete that covers it and the puts after it say.        *)
(***************************************************************************)
EXTENDS KVData

VARIABLES
  store,   \* store[k]: the entry of key k
  rev      \* the revision of the last call

(* What the protocol settles and a client of any etcd may count on: the version
   of a key, zero where the key is missing (kv.proto:19), or its value, against
   the operand given for that (rpc.proto:574).  A comparison of another field,
   or with the operand of another field, is open here: the server reads these
   otherwise than the protocol does. *)
Settled(cmp) == cmp.target \in {"version", "value"} /\ cmp.arm = cmp.target

Holds(cmp) ==
  LET x == store[cmp.key][cmp.target]
  IN  /\ cmp.result = "equal" => x = cmp.operand
      /\ cmp.result = "not_equal" => x # cmp.operand
      /\ cmp.result = "greater" => x > cmp.operand
      /\ cmp.result = "less" => x < cmp.operand

(* The success operations are for comparisons that hold as far as they are
   settled.  The failure operations are for one that does not, or that is open:
   so is one on a missing key, in this direction only. *)
MaySucceed(txn) ==
  \A i \in DOMAIN txn.compares : Settled(txn.compares[i]) => Holds(txn.compares[i])

MustSucceed(txn) ==
  \A i \in DOMAIN txn.compares :
    LET cmp == txn.compares[i]
    IN  Settled(cmp) /\ store[cmp.key] # Absent /\ Holds(cmp)

Branches(txn) ==
  {ops \in {txn.success} : MaySucceed(txn)} \cup {ops \in {txn.failure} : ~MustSucceed(txn)}

(* The operations of the calls that may be made next. *)
Calls ==
  {<<PutRequest(k, v, l)>> : k \in Key, v \in Value, l \in LeaseName}
    \cup {<<DeleteRequest(k, end)>> : k \in Key, end \in RangeEnd}
    \cup UNION {Branches(txn) : txn \in TxnRequest}

(* The operations that delete k, and those that put it after all of these. *)
Deletes(k, ops) ==
  {i \in 1 .. Len(ops) : ops[i].type = "delete" /\ KeyInRange(k, ops[i].key, ops[i].end)}

Puts(k, ops) ==
  {i \in 1 .. Len(ops) : /\ ops[i].type = "put" /\ ops[i].key = k
                         /\ \A j \in Deletes(k, ops) : j < i}

Latest(S) == CHOOSE i \in S : \A j \in S : j <= i

(* What the deletes leave of the entry of k for those puts. *)
Base(old, k, ops) == IF Deletes(k, ops) = {} THEN old ELSE Absent

(* What the operations of a call at revision r make of the entry of key k. *)
Outcome(old, k, ops, r) ==
  LET base == Base(old, k, ops)
      puts == Puts(k, ops)
      last == ops[Latest(puts)]
  IN  IF puts = {}
      THEN base
      ELSE [value |-> last.value, lease |-> last.lease,
            create |-> IF Present(base) THEN base.create ELSE r,
            mod |-> r,
            version |-> base.version + Cardinality(puts)]

SSInit ==
  /\ store = [k \in Key |-> Absent]
  /\ rev = 1

SSNext ==
  /\ rev' = rev + 1
  /\ \E ops \in Calls : store' = [k \in Key |-> Outcome(store[k], k, ops, rev + 1)]

SSSpec == SSInit /\ [][SSNext]_<<store, rev>>
=============================================================================
