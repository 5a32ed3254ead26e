---------------------------- MODULE MCWatchStore ----------------------------
(***************************************************************************)
(* Instances of WatchStore for TLC.                                         *)
(***************************************************************************)
EXTENDS WatchStore, TLC

(* One key, both keys, and a range that ends before the second. *)
MCWatchRange == {<<2, NoEnd>>, <<1, FromKey>>, <<1, 2>>}

MCOneKey == {<<1, NoEnd>>}

(* The streams are interchangeable where no liveness is checked. *)
MCSymmetry == Permutations(Stream)
=============================================================================
