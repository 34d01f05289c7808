--------------------------- MODULE MCFastSpinlock ---------------------------
(***************************************************************************)
(* FastSpinlock with four threads: an owner, two rivals that are backing   *)
(* off or in their spin loops, and one that arrives meanwhile.             *)
(***************************************************************************)
EXTENDS FastSpinlock
=============================================================================
