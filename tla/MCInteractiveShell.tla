------------------------- MODULE MCInteractiveShell -------------------------
(***************************************************************************)
(* Instances of InteractiveShell for TLC: a command in the background,     *)
(* pipelines of two and three stages, and a line with every operator.      *)
(***************************************************************************)
EXTENDS InteractiveShell

MCLines == {<<"a", "&">>,
            <<"a", "|", "b", "|", "c">>,
            <<"&&", "a", "<", "f", "&&", "b", "|", "c", "||", "d", "&">>}
=============================================================================
