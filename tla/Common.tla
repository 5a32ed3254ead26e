------------------------------- MODULE Common -------------------------------
(***************************************************************************)
(* The constants that every component shares.                               *)
(***************************************************************************)
CONSTANTS
  Key,     \* the keys of the store, in lexicographic order
  Thread   \* the threads that call the store and the lease manager
=============================================================================
