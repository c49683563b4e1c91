--------------------------- MODULE MCSharedArray ---------------------------
(***************************************************************************)
(* Instances of SharedArray for TLC: one writer, one reader, an array of   *)
(* three elements in two chunks, the second one cut short.                 *)
(***************************************************************************)
EXTENDS SharedArray

CONSTANTS w1, r1
=============================================================================
