--------------------------- MODULE MCSessionSends ---------------------------
(***************************************************************************)
(* SessionSends with two workers that meet on one session; the             *)
(* configurations differ in the property they check.                       *)
(***************************************************************************)
EXTENDS SessionSends
=============================================================================
