----------------------------- MODULE MCPlayers ------------------------------
(***************************************************************************)
(* Players with two workers and two sessions.  The positions are the       *)
(* origin and one in a zone that is not near.                              *)
(***************************************************************************)
EXTENDS Players, TLC

Symmetry == Permutations(Workers) \cup Permutations(Sessions)

MCPositions == {<<0, 0>>, <<250, -450>>}
=============================================================================
