------------------------------ MODULE TaskPool ------------------------------
(***************************************************************************)
(* What a user of paralel_scheduler relies on, without threads, locks or   *)
(* memory: tasks are accepted into a queue, start in the order in which    *)
(* they were accepted, at most Width at a time, each one once; the pool    *)
(* closes only when nothing accepted is left.                              *)
(*                                                                         *)
(* broken is the specification's escape: once it is TRUE the pool promises *)
(* nothing.  An implementation shows that it sets broken only where it     *)
(* has to.                                                                 *)
(***************************************************************************)
EXTENDS Naturals, Sequences, FiniteSets

CONSTANTS Tasks,   \* the tasks that may be handed to the pool, each once
          Width    \* how many tasks may run at the same time

VARIABLES fifo,    \* accepted and not started, oldest first
          active,  \* started and not finished
          done,    \* finished
          closed,  \* the pool has been shut down
          broken   \* the pool no longer promises anything

poolVars == <<fifo, active, done, closed, broken>>

Queued == {fifo[i] : i \in 1..Len(fifo)}

Init ==
  /\ fifo = << >>
  /\ active = {}
  /\ done = {}
  /\ closed = FALSE
  /\ broken = FALSE

\* A task is accepted at the end of the queue.
Accept(t) ==
  /\ ~closed
  /\ t \notin Queued \cup active \cup done
  /\ fifo' = Append(fifo, t)
  /\ UNCHANGED <<active, done, closed, broken>>

\* The oldest accepted task starts.
Start ==
  /\ fifo # << >>
  /\ Cardinality(active) < Width
  /\ fifo' = Tail(fifo)
  /\ active' = active \cup {Head(fifo)}
  /\ UNCHANGED <<done, closed, broken>>

Finish(t) ==
  /\ active' = active \ {t}
  /\ done' = done \cup {t}
  /\ UNCHANGED <<fifo, closed, broken>>

Close ==
  /\ fifo = << >>
  /\ active = {}
  /\ closed' = TRUE
  /\ UNCHANGED <<fifo, active, done, broken>>

Next ==
  \/ \E t \in Tasks : Accept(t)
  \/ Start
  \/ \E t \in active : Finish(t)
  \/ Close
  \/ broken'

Spec == Init /\ [][Next]_poolVars
=============================================================================
