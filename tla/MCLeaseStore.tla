---------------------------- MODULE MCLeaseStore ----------------------------
(***************************************************************************)
(* Instances of LeaseStore for TLC.                                         *)
(***************************************************************************)
EXTENDS LeaseStore

Lookup == [DeleteRequest(1, FromKey) EXCEPT !.type = "range"]

(* A transaction that rebinds one key and deletes the others, and one that
   deletes a key and puts it again in the same revision. *)
MCTxnRequest ==
  { [compares |-> <<>>,
     success |-> <<DeleteRequest(2, FromKey), PutRequest(1, 0, 2)>>,
     failure |-> <<>>],
    [compares |-> <<[key |-> 1, target |-> "lease", result |-> "equal",
                     arm |-> "version", operand |-> 1]>>,
     success |-> <<DeleteRequest(1, NoEnd), PutRequest(1, 0, 1)>>,
     failure |-> <<PutRequest(2, 0, 0), Lookup>>] }
=============================================================================
