------------------------- MODULE MCParalelScheduler -------------------------
(***************************************************************************)
(* Instances of ParalelScheduler for TLC: two workers and four tasks, one  *)
(* of them (t4) submitted by another task (t1) while a worker runs it.     *)
(* The ring starts with one slot, so that it grows from 1 to 2 (always     *)
(* unwrapped) and from 2 to 4 (wrapped or not).                            *)
(***************************************************************************)
EXTENDS ParalelScheduler, TLC

CONSTANTS s1, s2, t1, t2, t3, t4

MCFirstTasks == s1 :> {t1, t2} @@ s2 :> {t3}

MCSpawns == [t \in {t1, t2, t3, t4} |-> IF t = t1 THEN {t4} ELSE {}]
=============================================================================
