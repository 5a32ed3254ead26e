---------------------------- MODULE VersionedMap ----------------------------
(***************************************************************************)
(* What the key-value store promises, without locks or intermediate steps:  *)
(* a map from keys to versioned entries that moves from one revision to the *)
(* next in one indivisible step.  Everything a commit writes is stamped     *)
(* with the commit's revision, so a modification revision never comes back, *)
(* and an entry keeps its creation revision until the key is deleted.       *)
(***************************************************************************)
EXTENDS Naturals

CONSTANTS
  Key,     \* the keys
  Absent   \* the entry of a key the map does not hold

VARIABLES
  store,   \* store[k]: the entry of key k
  rev      \* the revision of the last commit

Present(e) == e # Absent

(* `new' is what revision r makes of `old' when it writes the key. *)
Stamped(old, new, r) ==
  /\ Present(new)
  /\ new.mod = r
  /\ \/ new.create = r /\ new.version >= 1
     \/ /\ Present(old)
        /\ new.create = old.create
        /\ new.version > old.version

(* A revision leaves a key alone, deletes it, or stamps it. *)
Follows(old, new, r) ==
  \/ new = old
  \/ new = Absent
  \/ Stamped(old, new, r)

VMInit ==
  /\ store = [k \in Key |-> Absent]
  /\ rev = 1

Commit ==
  /\ rev' = rev + 1
  /\ \A k \in Key : Follows(store[k], store'[k], rev + 1)

VMSpec == VMInit /\ [][Commit]_<<store, rev>>
=============================================================================
