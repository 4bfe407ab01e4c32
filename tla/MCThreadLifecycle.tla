------------------------ MODULE MCThreadLifecycle ------------------------
(***************************************************************************)
(* The thread lifecycle on three host threads and three records.           *)
(***************************************************************************)
EXTENDS ThreadLifecycle, TLC

(* Which host thread or record is which does not matter. *)
MCSymmetry == Permutations(Native) \cup Permutations(Slot)
=============================================================================
