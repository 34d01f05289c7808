-------------------------- MODULE MCCircularBuffer --------------------------
(***************************************************************************)
(* CircularBuffer with five bytes: region B, the gap before A and a        *)
(* removal that spans both regions fit at once.                            *)
(***************************************************************************)
EXTENDS CircularBuffer
=============================================================================
