--------------------------- MODULE MCSessionPool ---------------------------
(***************************************************************************)
(* SessionPool with two IO workers and the main thread.  The sessions are  *)
(* not symmetric: the free list orders them.                               *)
(***************************************************************************)
EXTENDS SessionPool
=============================================================================
