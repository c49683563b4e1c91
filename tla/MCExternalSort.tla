--------------------------- MODULE MCExternalSort ---------------------------
(***************************************************************************)
(* Instances of ExternalSort for TLC: files of up to four lines, of which  *)
(* one is longer than a block.                                             *)
(***************************************************************************)
EXTENDS ExternalSort

MCLines == {<<0, 0>>, <<1, 1>>, <<1, 3>>, <<2, 1>>}
MCInputs == SeqOf(MCLines, 4)
=============================================================================
