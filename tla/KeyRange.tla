------------------------------ MODULE KeyRange ------------------------------
(***************************************************************************)
(* Keys, range bounds and what a range request selects (KVStore::KeyInRange *)
(* and KVStore::RangeInternal).                                             *)
(*                                                                          *)
(* The store only ever compares keys, so a key is a natural number and the  *)
(* order of the numbers is the lexicographic order of the byte strings.     *)
(***************************************************************************)
EXTENDS Common, Naturals, FiniteSets

CONSTANTS
  NoEnd,    \* an empty range_end: the request names one key
  FromKey   \* a range_end that starts with a zero byte: no upper bound

ASSUME KeyAssumption ==
  /\ Key \subseteq Nat
  /\ NoEnd \notin Nat
  /\ FromKey \notin Nat
  /\ NoEnd # FromKey

RangeEnd == Key \cup {NoEnd, FromKey}

(* [start, end), one key, or every key from start on. *)
KeyInRange(k, start, end) ==
  /\ start <= k
  /\ \/ end = NoEnd /\ k = start
     \/ end = FromKey
     \/ end \in Nat /\ k < end

KeysInRange(S, start, end) == {k \in S : KeyInRange(k, start, end)}

\* Mutant: the comparator of the sort is turned round.
RangeKeysDescending(S, start, end, limit) ==
  LET hit == KeysInRange(S, start, end)
  IN  {k \in hit : limit = 0 \/ Cardinality({j \in hit : j > k}) < limit}

(* The keys RangeInternal returns: it sorts the matches and stops after
   `limit' of them (0: no limit), so a match is returned when fewer than
   `limit' matches are smaller.  The reply is that set in ascending order. *)
RangeKeys(S, start, end, limit) ==
  LET hit == KeysInRange(S, start, end)
  IN  {k \in hit : limit = 0 \/ Cardinality({j \in hit : j < k}) < limit}
=============================================================================
