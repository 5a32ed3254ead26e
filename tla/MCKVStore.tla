----------------------------- MODULE MCKVStore -----------------------------
(***************************************************************************)
(* Instances of KVService, with the store in it, for TLC.                   *)
(***************************************************************************)
EXTENDS KVService, TLC

P(k, v, l) == PutRequest(k, v, l)
D(k, end) == DeleteRequest(k, end)
R(k, end) == [DeleteRequest(k, end) EXCEPT !.type = "range"]

Cmp(k, target, result, arm, n) ==
  [key |-> k, target |-> target, result |-> result, arm |-> arm, operand |-> n]

(* Create if absent, a swap if version and value are as expected, and a swap by
   revision and lease, with operations that detach, erase and put a key again. *)
MCTxnRequest ==
  { [compares |-> <<Cmp(1, "create", "equal", "create", 0)>>,
     success |-> <<P(1, 1, 1)>>,
     failure |-> <<P(1, 1, 1), R(1, FromKey), P(2, 1, 0)>>],
    [compares |-> <<Cmp(1, "version", "equal", "version", 1),
                    Cmp(2, "value", "not_equal", "value", 0)>>,
     success |-> <<D(1, 3), P(1, 0, 1)>>,
     failure |-> <<D(1, FromKey)>>],
    [compares |-> <<Cmp(1, "mod", "greater", "mod", 2), Cmp(2, "lease", "less", "version", 1)>>,
     success |-> <<P(2, 1, 1)>>,
     failure |-> <<P(1, 0, 0), P(3, 0, 1)>>] }

(* Two keys of three, and the first page of all. *)
MCRangeRequest == {All(1, 3), [All(1, FromKey) EXCEPT !.limit = 2]}

(* The threads are interchangeable where no liveness is checked. *)
MCThreads == Permutations(Thread)
=============================================================================
