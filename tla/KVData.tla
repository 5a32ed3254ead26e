------------------------------- MODULE KVData -------------------------------
(***************************************************************************)
(* What the key-value store holds and what clients ask of it: the entries   *)
(* (struct KVStore::KeyInfo), the operations of a call, the comparisons and *)
(* the transactions.                                                        *)
(***************************************************************************)
EXTENDS KeyRange, Sequences

CONSTANTS
  Value,        \* the values clients put; 0 is the empty string
  LeaseName,    \* the lease ids clients put; 0 names no lease
  TxnRequest    \* the transactions clients send

Target == {"version", "create", "mod", "lease", "value"}

(* A comparison carries its operand in one arm of a oneof, which need not be
   the arm that goes with its target. *)
Compare ==
  [key : Key, target : Target, result : {"equal", "not_equal", "greater", "less"},
   arm : Target, operand : Nat]

(* One operation of a call; `end' is for deletes, `value' and `lease' for puts.
   A range request inside a transaction changes nothing but the reply. *)
Request ==
  [type : {"put", "delete", "range"}, key : Key, end : RangeEnd,
   value : Nat, lease : Nat]

ASSUME RequestAssumption ==
  /\ Value \subseteq Nat
  /\ LeaseName \subseteq Nat
  /\ TxnRequest \subseteq [compares : Seq(Compare), success : Seq(Request),
                           failure : Seq(Request)]

PutRequest(k, v, l) ==
  [type |-> "put", key |-> k, end |-> NoEnd, value |-> v, lease |-> l]

DeleteRequest(k, end) ==
  [type |-> "delete", key |-> k, end |-> end, value |-> 0, lease |-> 0]

Entry == [value : Nat, lease : Nat, create : Nat, mod : Nat, version : Nat]

(* The entry of a key the store does not hold. *)
Absent == [value |-> 0, lease |-> 0, create |-> 0, mod |-> 0, version |-> 0]

Present(e) == e # Absent
=============================================================================
