------------------------------- MODULE MCChat -------------------------------
(***************************************************************************)
(* Instances of Chat for TLC: one user with a few lines.                   *)
(***************************************************************************)
EXTENDS Chat, TLC

CONSTANTS u1, hello
=============================================================================
