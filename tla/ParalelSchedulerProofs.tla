----------------------- MODULE ParalelSchedulerProofs -----------------------
(***************************************************************************)
(* Machine-checked proofs about ParalelScheduler, for every number of      *)
(* workers, clients and tasks and every initial capacity.                  *)
(***************************************************************************)
EXTENDS ParalelScheduler, FiniteSetTheorems, FunctionTheorems, SequenceTheorems, TLAPS

\* The phases of Main, in the order in which it goes through them.
Starting == pc[Main] = "create"
Closing == pc[Main] \in {"destroy", "stopping", "join", "ended"}
Stopped == pc[Main] \in {"join", "ended"}

\* Each thread is at a place of its own code.
PlacesInv ==
  /\ \A w \in Workers :
       pc[w] \in {"new", "lock", "test", "waiting", "call", "task", "submit", "exited"}
  /\ \A s \in Submitters : pc[s] \in {"new", "task", "submit"}
  /\ pc[Main] \in {"create", "serve", "destroy", "stopping", "join", "ended"}

\* The threads inside a critical section are those that own the mutex.
LockInv ==
  \A th \in Threads : pc[th] \in {"test", "submit", "stopping"} <=> mutex = th

\* Workers i, i+1, ... have not been created while ps_init is in its loop, and
\* after a ps_init that succeeded all of them have.
CreationInv ==
  /\ Starting => \A w \in Workers : pc[w] = "new" <=> w >= i
  /\ ~Starting /\ ~failed => \A w \in Workers : pc[w] # "new"
  /\ Starting => ~failed
  /\ pc[Main] = "serve" => ~failed

\* Before ps_init has returned 0 there is no client and no task.
IdleInv ==
  Starting \/ failed =>
    /\ qsize = 0
    /\ \A w \in Workers : pc[w] \notin {"call", "task", "submit"}
    /\ \A s \in Submitters : pc[s] = "new"

\* Once ps_destroy is called, only tasks call ps_submit.
ClientsInv ==
  Closing => \A s \in Submitters :
               pc[s] # "submit" /\ (pc[s] = "task" => todo[s] = {})

\* The stop flag is set from the critical section of ps_destroy on; nobody
\* sleeps then, and nobody has returned before.
StopInv ==
  /\ stop => Stopped
  /\ Stopped => stop \/ (pc[Main] = "ended" /\ i = 0)
  /\ \A w \in Workers : pc[w] = "waiting" => ~stop
  /\ \A w \in Workers : pc[w] = "exited" => stop

\* What the join loop has passed has returned.
JoinInv == stop => \A w \in Workers : w < i => pc[w] = "exited"

\* A task that is queued after the stop has a worker to drain it.
DrainInv ==
  stop /\ qsize > 0 => \E w \in Workers : pc[w] \notin {"new", "exited"}

\* The mutex, the phases and the drain: the invariant behind DestroyDrains.
ShutdownInv ==
  /\ PlacesInv
  /\ LockInv
  /\ CreationInv
  /\ IdleInv
  /\ ClientsInv
  /\ StopInv
  /\ JoinInv
  /\ DrainInv
\* While the ring has not been scrambled, what is queued and what a worker is
\* about to call are submitted tasks.
WordsInv ==
  ~scrambled =>
    /\ \A k \in 0..(qsize - 1) : queue[(qfront + k) % qcap] \in Tasks
    /\ \A w \in Workers : pc[w] = "call" => cur[w] \in Tasks

-----------------------------------------------------------------------------
\* Arithmetic of the ring: an index taken modulo a capacity is a slot.
LEMMA SlotInRange ==
  ASSUME NEW a \in Nat, NEW n \in Nat \ {0}
  PROVE  a % n \in 0..(n - 1)
  OBVIOUS

\* What growing the ring can leave in the old slots: words, whichever of the
\* two copies it was.
LEMMA CopiesTyped ==
  ASSUME NamesAssumption, TypeOK, NEW c \in Copies
  PROVE  c \in [0..(qcap - 1) -> Words]
<1> USE DEF TypeOK, Copies
<1>1. CASE qfront = 0
  BY <1>1
<1>2. CASE qfront # 0 /\ c \in CopiesInPlace
  BY <1>2 DEF CopiesInPlace
<1>3. CASE qfront # 0 /\ c \in CopiesFromReleased
  <2>1. PICK S \in SUBSET (0..(qcap - 1)) :
          c = [k \in 0..(qcap - 1) |-> IF Source(k) \in S THEN Junk ELSE queue[Source(k)]]
    BY <1>3 DEF CopiesFromReleased
  <2>2. ASSUME NEW k \in 0..(qcap - 1)
        PROVE  Source(k) \in 0..(qcap - 1)
    BY SlotInRange DEF Source
  <2>. QED BY <2>1, <2>2 DEF Words
<1>. QED BY <1>1, <1>2, <1>3

\* A submission, growing or not, leaves a well-formed ring.
LEMMA StoreTyped ==
  ASSUME NamesAssumption, TypeOK, NEW t \in Tasks, SubmitStore(t)
  PROVE  /\ qcap' \in Nat \ {0}
         /\ queue' \in [0..(qcap' - 1) -> Words]
         /\ qsize' \in 0..qcap'
         /\ qfront' \in 0..(qcap' - 1)
         /\ scrambled' \in BOOLEAN
         /\ qsize' = qsize + 1
<1> USE DEF TypeOK
<1>0. t \in Words
  BY DEF Words
<1>1. CASE qsize < qcap /\ Store(queue, qcap, qfront, t) /\ UNCHANGED scrambled
  <2>1. (qfront + qsize) % qcap \in 0..(qcap - 1)
    BY SlotInRange
  <2>. QED BY <1>0, <1>1, <2>1 DEF Store
<1>2. CASE /\ qsize = qcap
           /\ \E c \in Copies : Store(Doubled(c), 2 * qcap, 0, t)
           /\ scrambled' = (scrambled \/ qfront > 0)
  <2>1. PICK c \in Copies : Store(Doubled(c), 2 * qcap, 0, t)
    BY <1>2
  <2>2. c \in [0..(qcap - 1) -> Words]
    BY CopiesTyped
  <2>3. Doubled(c) \in [0..(2 * qcap - 1) -> Words]
    BY <2>2 DEF Doubled, Words
  <2>4. /\ qcap' = 2 * qcap
        /\ qfront' = 0
        /\ qsize' = qsize + 1
        /\ queue' = [Doubled(c) EXCEPT ![(0 + qsize) % (2 * qcap)] = t]
    BY <2>1 DEF Store
  <2>5. queue' \in [0..(2 * qcap - 1) -> Words]
    BY <1>0, <2>3, <2>4
  <2>. QED BY <1>2, <2>4, <2>5
<1>. QED BY <1>1, <1>2 DEF SubmitStore

\* Every step is one of these; the proofs below go through them one by one.
LEMMA StepCases ==
  ASSUME [Next]_vars
  PROVE  \/ \E w \in Workers :
               \/ WorkerLock(w) \/ WorkerWait(w) \/ WorkerExit(w) \/ WorkerTake(w)
               \/ WorkerCall(w) \/ WorkerCallJunk(w) \/ WorkerReturn(w)
               \/ SpuriousWakeup(w)
         \/ \E c \in Clients : SubmitLock(c) \/ Submit(c) \/ SubmitDropped(c)
         \/ InitNoMemory \/ CreateWorker \/ CreateFails \/ InitReturns
         \/ CallDestroy \/ DestroyLock \/ StopAndBroadcast
         \/ Join \/ JoinJunk \/ DestroyReturns
         \/ UNCHANGED vars
  BY DEF Next, WorkerStep, SubmitStep, InitStep, DestroyStep, Terminated

\* TypeOK holds in every reachable state, for all values of the constants.
THEOREM TypeCorrect == Spec => []TypeOK
<1>1. Init => TypeOK
  <2> SUFFICES ASSUME Init
               PROVE  TypeOK
    OBVIOUS
  <2> USE DEF Init, Words, PCs
  <2>1. /\ qcap \in Nat \ {0}
        /\ queue \in [0..(qcap - 1) -> Words]
        /\ qsize \in 0..qcap
        /\ qfront \in 0..(qcap - 1)
        /\ i \in 0..ThreadCount
    BY SizesAssumption DEF SizesAssumption
  <2>2. pc \in [Threads -> PCs]
    OBVIOUS
  <2>3. todo \in [Clients -> SUBSET Tasks]
    BY WorkAssumption DEF WorkAssumption
  <2>. QED BY <2>1, <2>2, <2>3 DEF TypeOK
<1>2. TypeOK /\ [Next]_vars => TypeOK'
  <2> SUFFICES ASSUME TypeOK, [Next]_vars
               PROVE  TypeOK'
    OBVIOUS
  <2> USE SizesAssumption, NamesAssumption, WorkAssumption
      DEF SizesAssumption, NamesAssumption, WorkAssumption,
          TypeOK, Words, PCs, Clients, Threads, ring, history
  <2>1. CASE \E w \in Workers : WorkerLock(w)
    BY <2>1 DEF WorkerLock, Acquire
  <2>2. CASE \E w \in Workers : WorkerWait(w)
    BY <2>2 DEF WorkerWait
  <2>3. CASE \E w \in Workers : WorkerExit(w)
    BY <2>3 DEF WorkerExit
  <2>4. CASE \E w \in Workers : WorkerTake(w)
    BY <2>4 DEF WorkerTake, TakeSlot
  <2>5. CASE \E w \in Workers : WorkerCall(w)
    BY <2>5 DEF WorkerCall
  <2>6. CASE \E w \in Workers : WorkerCallJunk(w)
    BY <2>6 DEF WorkerCallJunk
  <2>7. CASE \E w \in Workers : WorkerReturn(w)
    BY <2>7 DEF WorkerReturn
  <2>8. CASE \E w \in Workers : SpuriousWakeup(w)
    BY <2>8 DEF SpuriousWakeup
  <2>9. CASE \E c \in Clients : SubmitLock(c)
    BY <2>9 DEF SubmitLock, Acquire
  <2>10. CASE \E c \in Clients : Submit(c)
    <3>1. PICK c \in Clients : Submit(c)
      BY <2>10
    <3>2. PICK t \in todo[c] : SubmitStore(t) /\ SignalAndUnlock(c)
                              /\ todo' = [todo EXCEPT ![c] = @ \ {t}]
      BY <3>1 DEF Submit
    <3>3. t \in Tasks
      OBVIOUS
    <3>4. pc' \in [Threads -> PCs]
      <4>1. pc \in [Threads -> PCs] /\ {"task", "lock"} \subseteq PCs
        OBVIOUS
      <4>2. CASE pc' = [pc EXCEPT ![c] = "task"]
        BY <4>1, <4>2
      <4>3. CASE \E w \in Waiting : pc' = [pc EXCEPT ![c] = "task", ![w] = "lock"]
        <5>1. PICK w \in Waiting : pc' = [pc EXCEPT ![c] = "task", ![w] = "lock"]
          BY <4>3
        <5>. QED BY ONLY <4>1, <5>1
      <4>. QED BY <3>2, <4>2, <4>3 DEF SignalAndUnlock, UnlockOnly
    <3>5. /\ qcap' \in Nat \ {0}
          /\ queue' \in [0..(qcap' - 1) -> Words]
          /\ qsize' \in 0..qcap'
          /\ qfront' \in 0..(qcap' - 1)
          /\ scrambled' \in BOOLEAN
      BY <3>2, <3>3, StoreTyped
    <3>. QED BY <3>1, <3>2, <3>4, <3>5 DEF Submit
  <2>11. CASE \E c \in Clients : SubmitDropped(c)
    BY <2>11 DEF SubmitDropped, UnlockOnly
  <2>12. CASE InitNoMemory
    BY <2>12 DEF InitNoMemory
  <2>13. CASE CreateWorker
    BY <2>13 DEF CreateWorker, Workers
  <2>14. CASE CreateFails
    BY <2>14 DEF CreateFails
  <2>15. CASE InitReturns
    BY <2>15 DEF InitReturns
  <2>16. CASE CallDestroy
    BY <2>16 DEF CallDestroy
  <2>17. CASE DestroyLock
    BY <2>17 DEF DestroyLock, Acquire
  <2>18. CASE StopAndBroadcast
    BY <2>18 DEF StopAndBroadcast, Waiting
  <2>19. CASE Join
    BY <2>19 DEF Join
  <2>20. CASE JoinJunk
    BY <2>20 DEF JoinJunk
  <2>21. CASE DestroyReturns
    BY <2>21 DEF DestroyReturns
  <2>22. CASE UNCHANGED vars
    BY <2>22 DEF vars
  <2>. QED
    BY StepCases, <2>1, <2>2, <2>3, <2>4, <2>5, <2>6, <2>7, <2>8, <2>9, <2>10, <2>11,
       <2>12, <2>13, <2>14, <2>15, <2>16, <2>17, <2>18, <2>19, <2>20, <2>21, <2>22
<1>. QED BY <1>1, <1>2, PTL DEF Spec

-----------------------------------------------------------------------------
\* A signal moves at most one sleeping worker back to the mutex.
LEMMA SignalWakesOne ==
  ASSUME NamesAssumption, TypeOK, NEW c \in Clients, pc[c] = "submit", SignalAndUnlock(c)
  PROVE  /\ pc'[c] = "task"
         /\ \A th \in Threads \ {c} :
              pc'[th] = pc[th] \/ (th \in Workers /\ pc[th] = "waiting" /\ pc'[th] = "lock")
<1> USE DEF TypeOK, Threads, Clients
<1>1. CASE Waiting = {}
  BY <1>1 DEF SignalAndUnlock, UnlockOnly
<1>2. CASE Waiting # {}
  <2>1. PICK w \in Waiting : pc' = [pc EXCEPT ![c] = "task", ![w] = "lock"]
    BY <1>2 DEF SignalAndUnlock
  <2>2. w \in Workers /\ pc[w] = "waiting" /\ w # c
    BY DEF Waiting
  <2>. QED BY <2>1, <2>2
<1>. QED BY <1>1, <1>2

\* The phases, the mutex and the drain stay consistent in every reachable state.
THEOREM ShutdownInvariant == Spec => []ShutdownInv
<1>1. Init => ShutdownInv
  BY SizesAssumption, NamesAssumption
  DEF SizesAssumption, NamesAssumption, Init, Threads, Clients, Workers,
      Starting, Closing, Stopped, ShutdownInv, PlacesInv, LockInv, CreationInv,
      IdleInv, ClientsInv, StopInv, JoinInv, DrainInv
<1>2. TypeOK /\ ShutdownInv /\ [Next]_vars => ShutdownInv'
  <2> SUFFICES ASSUME TypeOK, ShutdownInv, [Next]_vars
               PROVE  ShutdownInv'
    OBVIOUS
  <2> USE NamesAssumption
      DEF NamesAssumption, TypeOK, Threads, Clients, ring, history,
          Starting, Closing, Stopped, ShutdownInv, PlacesInv, LockInv, CreationInv,
          IdleInv, ClientsInv, StopInv, JoinInv, DrainInv
  <2>1. CASE \E w \in Workers : WorkerLock(w)
    BY <2>1 DEF WorkerLock, Acquire
  <2>2. CASE \E w \in Workers : WorkerWait(w)
    BY <2>2 DEF WorkerWait
  <2>3. CASE \E w \in Workers : WorkerExit(w)
    BY <2>3 DEF WorkerExit
  <2>4. CASE \E w \in Workers : WorkerTake(w)
    BY <2>4 DEF WorkerTake, TakeSlot
  <2>5. CASE \E w \in Workers : WorkerCall(w)
    BY <2>5 DEF WorkerCall
  <2>6. CASE \E w \in Workers : WorkerCallJunk(w)
    BY <2>6 DEF WorkerCallJunk
  <2>7. CASE \E w \in Workers : WorkerReturn(w)
    BY <2>7 DEF WorkerReturn
  <2>8. ASSUME NEW w \in Workers, SpuriousWakeup(w)
        PROVE  ShutdownInv'
    <3>1. PlacesInv' /\ LockInv' /\ CreationInv' /\ StopInv' /\ JoinInv'
      BY <2>8 DEF SpuriousWakeup
    <3>2. IdleInv' /\ ClientsInv' /\ DrainInv'
      BY <2>8 DEF SpuriousWakeup
    <3>. QED BY <3>1, <3>2
  <2>9. CASE \E c \in Clients : SubmitLock(c)
    BY <2>9 DEF SubmitLock, Acquire
  <2>10. ASSUME NEW c \in Clients, Submit(c)
        PROVE  ShutdownInv'
    <3>1. /\ pc'[c] = "task"
          /\ \A th \in Threads \ {c} :
               pc'[th] = pc[th] \/ (th \in Workers /\ pc[th] = "waiting" /\ pc'[th] = "lock")
      BY <2>10, SignalWakesOne DEF Submit
    <3>2. /\ pc[c] = "submit" /\ mutex' = Nobody
          /\ UNCHANGED <<stop, i, failed>>
      BY <2>10 DEF Submit
    <3>3. c # Main /\ ~Starting /\ ~failed
      BY <3>2
    <3>4. PlacesInv' /\ StopInv' /\ JoinInv' /\ CreationInv'
      BY <3>1, <3>2, <3>3
    <3>5. LockInv'
      BY <3>1, <3>2
    <3>6. IdleInv'
      BY <3>1, <3>2, <3>3
    <3>7. ClientsInv'
      BY <2>10, <3>1, <3>2, <3>3 DEF Submit
    <3>8. DrainInv'
      <4>1. stop => c \in Workers
        BY <3>2
      <4>. QED BY <3>1, <3>2, <4>1
    <3>. QED BY <3>4, <3>5, <3>6, <3>7, <3>8
  <2>11. CASE \E c \in Clients : SubmitDropped(c)
    BY <2>11 DEF SubmitDropped, UnlockOnly
  <2>12. CASE InitNoMemory
    BY <2>12 DEF InitNoMemory
  <2>13. ASSUME CreateWorker
        PROVE  ShutdownInv'
    <3>0. i \in Workers /\ i # Main
      BY <2>13, SizesAssumption DEF SizesAssumption, CreateWorker, Workers
    <3>1. PlacesInv' /\ IdleInv' /\ ClientsInv'
          /\ StopInv' /\ DrainInv'
      BY <2>13, <3>0 DEF CreateWorker
    <3>2. LockInv'
      BY <2>13, <3>0 DEF CreateWorker
    <3>3. CreationInv'
      BY <2>13, <3>0 DEF CreateWorker, Workers
    <3>4. JoinInv'
      BY <2>13, <3>0 DEF CreateWorker
    <3>. QED BY <3>1, <3>2, <3>3, <3>4
  <2>14. CASE CreateFails
    BY <2>14 DEF CreateFails
  <2>15. ASSUME InitReturns
        PROVE  ShutdownInv'
    <3>1. PlacesInv' /\ ClientsInv' /\ StopInv'
          /\ JoinInv' /\ DrainInv'
      BY <2>15 DEF InitReturns
    <3>2. LockInv'
      BY <2>15 DEF InitReturns
    <3>3. CreationInv'
      BY <2>15 DEF InitReturns, Workers
    <3>4. IdleInv'
      BY <2>15 DEF InitReturns
    <3>. QED BY <3>1, <3>2, <3>3, <3>4
  <2>16. CASE CallDestroy
    BY <2>16 DEF CallDestroy
  <2>17. CASE DestroyLock
    BY <2>17 DEF DestroyLock, Acquire
  <2>18. ASSUME StopAndBroadcast
        PROVE  ShutdownInv'
    <3>1. PlacesInv' /\ LockInv' /\ CreationInv'
          /\ IdleInv' /\ ClientsInv' /\ StopInv'
      BY <2>18 DEF StopAndBroadcast, Waiting
    <3>2. JoinInv'
      BY <2>18 DEF StopAndBroadcast, Workers
    <3>3. DrainInv'
      <4>1. 0 \in Workers
        BY SizesAssumption DEF SizesAssumption, Workers
      <4>2. qsize > 0 => pc[0] \notin {"new", "exited"}
        BY <2>18, <4>1 DEF StopAndBroadcast
      <4>. QED BY <2>18, <4>1, <4>2 DEF StopAndBroadcast, Waiting
    <3>. QED BY <3>1, <3>2, <3>3
  <2>19. ASSUME Join
        PROVE  ShutdownInv'
    <3>1. PlacesInv' /\ LockInv' /\ CreationInv' /\ IdleInv'
          /\ ClientsInv' /\ StopInv' /\ DrainInv'
      BY <2>19 DEF Join
    <3>2. JoinInv'
      BY <2>19 DEF Join, Workers
    <3>. QED BY <3>1, <3>2
  <2>20. CASE JoinJunk
    BY <2>20 DEF JoinJunk
  <2>21. CASE DestroyReturns
    BY <2>21 DEF DestroyReturns
  <2>22. CASE UNCHANGED vars
    BY <2>22 DEF vars
  <2>. QED
    BY StepCases, <2>1, <2>2, <2>3, <2>4, <2>5, <2>6, <2>7, <2>8, <2>9, <2>10, <2>11,
       <2>12, <2>13, <2>14, <2>15, <2>16, <2>17, <2>18, <2>19, <2>20, <2>21, <2>22
<1>. QED BY <1>1, <1>2, TypeCorrect, PTL DEF Spec

\* When ps_destroy returns it has joined every worker, and then nothing is
\* queued and the mutex is free, although tasks may have submitted tasks after
\* the stop flag was set.
THEOREM DestroyDrainsEverything == Spec => []DestroyDrains
<1>1. TypeOK /\ ShutdownInv => DestroyDrains
  <2> SUFFICES ASSUME TypeOK, ShutdownInv, pc[Main] = "ended", i = ThreadCount
               PROVE  /\ \A w \in Workers : pc[w] = "exited"
                      /\ qsize = 0
                      /\ mutex = Nobody
    BY DEF DestroyDrains
  <2>1. stop
    BY SizesAssumption DEF SizesAssumption, ShutdownInv, StopInv, Stopped
  <2>2. \A w \in Workers : pc[w] = "exited"
    BY <2>1, SizesAssumption DEF SizesAssumption, ShutdownInv, JoinInv, Workers
  <2>3. qsize = 0
    BY <2>1, <2>2 DEF ShutdownInv, DrainInv, TypeOK
  <2>4. \A th \in Threads : pc[th] \notin {"test", "submit", "stopping"}
    BY <2>2 DEF ShutdownInv, ClientsInv, Closing, PlacesInv, Threads, Clients
  <2>5. mutex = Nobody
    BY <2>4 DEF ShutdownInv, LockInv, TypeOK
  <2>. QED BY <2>2, <2>3, <2>5
<1>. QED BY <1>1, TypeCorrect, ShutdownInvariant, PTL

-----------------------------------------------------------------------------
\* The slot after the front, counted from the new front or from the old one.
LEMMA SlotFromNext ==
  ASSUME NEW n \in Nat \ {0}, NEW a \in 0..(n - 1), NEW k \in 0..(n - 2)
  PROVE  (((a + 1) % n) + k) % n = (a + (k + 1)) % n
<1>1. CASE a + 1 < n
  BY <1>1
<1>2. CASE a + 1 = n
  BY <1>2
<1>. QED BY <1>1, <1>2

\* An index below the capacity is its own slot.
LEMMA SmallIndex ==
  ASSUME NEW n \in Nat \ {0}, NEW x \in 0..(n - 1)
  PROVE  x % n = x
  OBVIOUS

\* Two places of a ring are two slots.
LEMMA SlotsApart ==
  ASSUME NEW n \in Nat \ {0}, NEW a \in 0..(n - 1), NEW l \in 0..(n - 1), NEW k \in 0..(l - 1)
  PROVE  (a + k) % n # (a + l) % n
<1>1. a + k < n => (a + k) % n = a + k
  OBVIOUS
<1>2. a + l < n => (a + l) % n = a + l
  OBVIOUS
<1>3. a + k >= n => (a + k) % n = a + k - n
  OBVIOUS
<1>4. a + l >= n => (a + l) % n = a + l - n
  OBVIOUS
<1> QED BY <1>1, <1>2, <1>3, <1>4

\* A submission leaves what is queued in its order, with the new task behind it, or
\* scrambles the ring.
LEMMA StoreAppends ==
  ASSUME TypeOK, NEW t \in Tasks, SubmitStore(t), ~scrambled'
  PROVE  /\ ~scrambled /\ qsize' = qsize + 1
         /\ \A k \in 0..(qsize - 1) :
              queue'[(qfront' + k) % qcap'] = queue[(qfront + k) % qcap]
         /\ queue'[(qfront' + qsize) % qcap'] = t
<1>1. /\ qcap \in Nat \ {0} /\ qsize \in 0..qcap /\ qfront \in 0..(qcap - 1)
      /\ queue \in [0..(qcap - 1) -> Words] /\ scrambled \in BOOLEAN
  BY DEF TypeOK
<1>2. ~scrambled
  BY DEF SubmitStore
<1>3. CASE qsize < qcap /\ Store(queue, qcap, qfront, t)
  <2>1. /\ queue' = [queue EXCEPT ![(qfront + qsize) % qcap] = t]
        /\ qcap' = qcap /\ qfront' = qfront /\ qsize' = qsize + 1
    BY <1>3 DEF Store
  <2>2. (qfront + qsize) % qcap \in 0..(qcap - 1)
    BY <1>1, SlotInRange
  <2>3. ASSUME NEW k \in 0..(qsize - 1)
        PROVE  queue'[(qfront + k) % qcap] = queue[(qfront + k) % qcap]
    <3>1. (qfront + k) % qcap \in 0..(qcap - 1)
      BY <1>1, SlotInRange
    <3>2. (qfront + k) % qcap # (qfront + qsize) % qcap
      <4>1. qsize \in 0..(qcap - 1)
        BY <1>1, <1>3
      <4> QED BY ONLY <1>1, <4>1, k \in 0..(qsize - 1), SlotsApart
    <3> QED BY <1>1, <2>1, <3>1, <3>2
  <2> QED BY <1>1, <1>2, <2>1, <2>2, <2>3
<1>4. CASE qsize = qcap /\ qfront = 0 /\ Store(Doubled(queue), 2 * qcap, 0, t)
  <2> DEFINE n == 2 * qcap
  <2>1. /\ queue' = [Doubled(queue) EXCEPT ![(0 + qsize) % n] = t]
        /\ qcap' = n /\ qfront' = 0 /\ qsize' = qsize + 1
    BY <1>4 DEF Store
  <2>2. n \in Nat \ {0} /\ qcap < n
    BY <1>1
  <2>3. Doubled(queue) = [k \in 0..(n - 1) |-> IF k < qcap THEN queue[k] ELSE Junk]
    BY DEF Doubled
  <2> HIDE DEF n
  <2>4. (0 + qsize) % n = qsize /\ qsize \in 0..(n - 1)
    BY <1>1, <1>4, <2>2, SmallIndex
  <2>5. ASSUME NEW k \in 0..(qsize - 1)
        PROVE  queue'[(0 + k) % n] = queue[(qfront + k) % qcap]
    <3>1. k \in 0..(n - 1) /\ (0 + k) % n = k
      BY <1>1, <1>4, <2>2, SmallIndex
    <3>2. (qfront + k) % qcap = k
      BY <1>1, <1>4, SmallIndex
    <3> QED BY <1>1, <1>4, <2>1, <2>3, <2>4, <3>1, <3>2
  <2>6. queue'[(0 + qsize) % n] = t
    BY <2>1, <2>3, <2>4
  <2> QED BY <1>2, <2>1, <2>5, <2>6
<1>5. \/ qsize < qcap /\ Store(queue, qcap, qfront, t)
      \/ qsize = qcap /\ qfront = 0 /\ Store(Doubled(queue), 2 * qcap, 0, t)
  <2>1. CASE qsize = qcap /\ scrambled' = (scrambled \/ qfront > 0)
             /\ \E c \in Copies : Store(Doubled(c), 2 * qcap, 0, t)
    <3>0. ~(qfront > 0)
      BY <2>1, Zenon
    <3>1. qfront = 0
      BY <1>1, <3>0
    <3>. QED BY <2>1, <3>1 DEF Copies
  <2>. QED BY <2>1 DEF SubmitStore
<1>. QED BY <1>3, <1>4, <1>5

\* A submission into a ring of tasks leaves a ring of tasks, or scrambles it.
LEMMA StoreKeepsTasks ==
  ASSUME TypeOK, WordsInv, NEW t \in Tasks, SubmitStore(t), ~scrambled'
  PROVE  \A k \in 0..(qsize' - 1) : queue'[(qfront' + k) % qcap'] \in Tasks
<1>1. qsize \in Nat
  BY DEF TypeOK
<1>2. /\ ~scrambled /\ qsize' = qsize + 1
      /\ \A k \in 0..(qsize - 1) :
           queue'[(qfront' + k) % qcap'] = queue[(qfront + k) % qcap]
      /\ queue'[(qfront' + qsize) % qcap'] = t
  BY StoreAppends
<1>3. \A k \in 0..(qsize' - 1) : k = qsize \/ k \in 0..(qsize - 1)
  BY <1>1, <1>2
<1> QED BY <1>2, <1>3 DEF WordsInv

\* Taking the front leaves a ring of tasks, and what was taken is a task.
LEMMA TakeKeepsTasks ==
  ASSUME TypeOK, WordsInv, ~scrambled, NEW w \in Workers, WorkerTake(w)
  PROVE  WordsInv'
<1>1. /\ qcap \in Nat \ {0} /\ qsize \in 0..qcap /\ qfront \in 0..(qcap - 1)
      /\ \A k \in 0..(qsize - 1) : queue[(qfront + k) % qcap] \in Tasks
  BY DEF TypeOK, WordsInv
<1>2. /\ qsize > 0 /\ qsize' = qsize - 1
      /\ qfront' = (qfront + 1) % qcap /\ qcap' = qcap /\ queue' = queue
  BY DEF WorkerTake, TakeSlot
<1>3. queue[qfront] \in Tasks
  <2>1. (qfront + 0) % qcap = qfront
    BY <1>1, SmallIndex
  <2>. QED BY <1>1, <1>2, <2>1
<1>4. ASSUME NEW k \in 0..(qsize - 2)
      PROVE  queue[(qfront' + k) % qcap] \in Tasks
  <2>1. (qfront' + k) % qcap = (qfront + (k + 1)) % qcap
    BY <1>1, <1>2, SlotFromNext
  <2>2. k + 1 \in 0..(qsize - 1)
    BY <1>1
  <2>. QED BY <1>1, <2>1, <2>2
<1>5. \A k \in 0..(qsize' - 1) : queue'[(qfront' + k) % qcap'] \in Tasks
  <2>1. 0..(qsize' - 1) = 0..(qsize - 2)
    BY <1>1, <1>2
  <2>. QED BY <1>2, <1>4, <2>1
<1>6. \A v \in Workers : pc'[v] = "call" => cur'[v] \in Tasks
  BY <1>3 DEF WorkerTake, TakeSlot, TypeOK, WordsInv
<1>. QED BY <1>5, <1>6 DEF WordsInv

\* The words in use are submitted tasks in every reachable state, or the ring
\* has been scrambled.
THEOREM WordsInvariant == Spec => []WordsInv
<1>1. Init => WordsInv
  BY NamesAssumption DEF NamesAssumption, Init, WordsInv, Threads, Clients
<1>2. TypeOK /\ WordsInv /\ [Next]_vars => WordsInv'
  <2> SUFFICES ASSUME TypeOK, WordsInv, [Next]_vars
               PROVE  WordsInv'
    OBVIOUS
  <2> USE NamesAssumption
      DEF NamesAssumption, TypeOK, WordsInv, Threads, Clients, ring, history
  <2>1. CASE \E w \in Workers : WorkerLock(w)
    BY <2>1 DEF WorkerLock, Acquire
  <2>2. CASE \E w \in Workers : WorkerWait(w)
    BY <2>2 DEF WorkerWait
  <2>3. CASE \E w \in Workers : WorkerExit(w)
    BY <2>3 DEF WorkerExit
  <2>4. CASE \E w \in Workers : WorkerTake(w)
    <3>1. scrambled' = scrambled
      BY <2>4 DEF WorkerTake, TakeSlot
    <3>. QED BY <2>4, <3>1, TakeKeepsTasks
  <2>5. CASE \E w \in Workers : WorkerCall(w)
    BY <2>5 DEF WorkerCall
  <2>6. CASE \E w \in Workers : WorkerCallJunk(w)
    BY <2>6 DEF WorkerCallJunk
  <2>7. CASE \E w \in Workers : WorkerReturn(w)
    BY <2>7 DEF WorkerReturn
  <2>8. CASE \E w \in Workers : SpuriousWakeup(w)
    BY <2>8 DEF SpuriousWakeup
  <2>9. CASE \E c \in Clients : SubmitLock(c)
    BY <2>9 DEF SubmitLock, Acquire
  <2>10. ASSUME NEW c \in Clients, Submit(c), ~scrambled'
        PROVE  WordsInv'
    <3>1. PICK t \in todo[c] : SubmitStore(t) /\ SignalAndUnlock(c)
      BY <2>10 DEF Submit
    <3>2. \A k \in 0..(qsize' - 1) : queue'[(qfront' + k) % qcap'] \in Tasks
      BY <2>10, <3>1, StoreKeepsTasks
    <3>3. \A w \in Workers : pc'[w] = "call" => pc[w] = "call"
      BY <2>10, <3>1, SignalWakesOne DEF Submit
    <3>4. ~scrambled /\ cur' = cur
      BY <2>10, <3>1 DEF Submit, SubmitStore
    <3>. QED BY <3>2, <3>3, <3>4
  <2>11. CASE \E c \in Clients : SubmitDropped(c)
    BY <2>11 DEF SubmitDropped, UnlockOnly
  <2>12. CASE InitNoMemory
    BY <2>12 DEF InitNoMemory
  <2>13. CASE CreateWorker
    BY <2>13 DEF CreateWorker
  <2>14. CASE CreateFails
    BY <2>14 DEF CreateFails
  <2>15. CASE InitReturns
    BY <2>15 DEF InitReturns
  <2>16. CASE CallDestroy
    BY <2>16 DEF CallDestroy
  <2>17. CASE DestroyLock
    BY <2>17 DEF DestroyLock, Acquire
  <2>18. CASE StopAndBroadcast
    BY <2>18 DEF StopAndBroadcast, Waiting
  <2>19. CASE Join
    BY <2>19 DEF Join
  <2>20. CASE JoinJunk
    BY <2>20 DEF JoinJunk
  <2>21. CASE DestroyReturns
    BY <2>21 DEF DestroyReturns
  <2>22. CASE UNCHANGED vars
    BY <2>22 DEF vars
  <2>23. scrambled' => WordsInv'
    OBVIOUS
  <2>. QED
    BY StepCases, <2>1, <2>2, <2>3, <2>4, <2>5, <2>6, <2>7, <2>8, <2>9, <2>10, <2>11,
       <2>12, <2>13, <2>14, <2>15, <2>16, <2>17, <2>18, <2>19, <2>20, <2>21, <2>22, <2>23
<1>. QED BY <1>1, <1>2, TypeCorrect, PTL DEF Spec

\* Undefined behaviour needs a growth with qfront > 0 or a failed ps_init: no
\* schedule of workers and clients makes a worker call anything but a task.
THEOREM UndefinedOnlyWhereKnown == Spec => []UndefinedOnlyWhere
<1>1. Init => UndefinedOnlyWhere
  BY DEF Init, UndefinedOnlyWhere
<1>2. TypeOK /\ ShutdownInv /\ WordsInv /\ UndefinedOnlyWhere /\ [Next]_vars
        => UndefinedOnlyWhere'
  <2> SUFFICES ASSUME TypeOK, ShutdownInv, WordsInv, UndefinedOnlyWhere, [Next]_vars
               PROVE  UndefinedOnlyWhere'
    OBVIOUS
  <2> USE NamesAssumption DEF NamesAssumption, UndefinedOnlyWhere, ring, history
  <2>1. CASE \E w \in Workers : WorkerLock(w)
    BY <2>1 DEF WorkerLock, Acquire
  <2>2. CASE \E w \in Workers : WorkerWait(w)
    BY <2>2 DEF WorkerWait
  <2>3. CASE \E w \in Workers : WorkerExit(w)
    BY <2>3 DEF WorkerExit
  <2>4. CASE \E w \in Workers : WorkerTake(w)
    BY <2>4 DEF WorkerTake, TakeSlot
  <2>5. CASE \E w \in Workers : WorkerCall(w)
    BY <2>5 DEF WorkerCall
  <2>6. CASE \E w \in Workers : WorkerCallJunk(w)
    BY <2>6 DEF WorkerCallJunk, WordsInv
  <2>7. CASE \E w \in Workers : WorkerReturn(w)
    BY <2>7 DEF WorkerReturn
  <2>8. CASE \E w \in Workers : SpuriousWakeup(w)
    BY <2>8 DEF SpuriousWakeup
  <2>9. CASE \E c \in Clients : SubmitLock(c)
    BY <2>9 DEF SubmitLock, Acquire
  <2>10. CASE \E c \in Clients : Submit(c)
    BY <2>10 DEF Submit, SubmitStore, TypeOK
  <2>11. CASE \E c \in Clients : SubmitDropped(c)
    BY <2>11 DEF SubmitDropped
  <2>12. CASE InitNoMemory
    BY <2>12 DEF InitNoMemory
  <2>13. CASE CreateWorker
    BY <2>13 DEF CreateWorker
  <2>14. CASE CreateFails
    BY <2>14 DEF CreateFails
  <2>15. CASE InitReturns
    BY <2>15 DEF InitReturns
  <2>16. CASE CallDestroy
    BY <2>16 DEF CallDestroy
  <2>17. CASE DestroyLock
    BY <2>17 DEF DestroyLock, Acquire
  <2>18. CASE StopAndBroadcast
    BY <2>18 DEF StopAndBroadcast
  <2>19. CASE Join
    BY <2>19 DEF Join
  <2>20. CASE JoinJunk
    BY <2>20, SizesAssumption DEF JoinJunk, ShutdownInv, CreationInv, Starting, Workers, TypeOK, SizesAssumption
  <2>21. CASE DestroyReturns
    BY <2>21 DEF DestroyReturns
  <2>22. CASE UNCHANGED vars
    BY <2>22 DEF vars
  <2>. QED
    BY StepCases, <2>1, <2>2, <2>3, <2>4, <2>5, <2>6, <2>7, <2>8, <2>9, <2>10, <2>11,
       <2>12, <2>13, <2>14, <2>15, <2>16, <2>17, <2>18, <2>19, <2>20, <2>21, <2>22
<1>. QED BY <1>1, <1>2, TypeCorrect, ShutdownInvariant, WordsInvariant, PTL DEF Spec
-----------------------------------------------------------------------------
\* Workers are counted as numbers are.
LEMMA WorkersCount ==
  ASSUME NEW S \in SUBSET Workers, NEW T \in SUBSET Workers
  PROVE  /\ Cardinality(S) \in Nat
         /\ S \subseteq T => Cardinality(S) <= Cardinality(T)
         /\ \A w \in S : Cardinality(S \ {w}) = Cardinality(S) - 1
         /\ \A w \in Workers \ S : Cardinality(S \cup {w}) = Cardinality(S) + 1
<1>1. IsFiniteSet(Workers)
  BY SizesAssumption, FS_Interval DEF SizesAssumption, Workers
<1>2. IsFiniteSet(S) /\ IsFiniteSet(T)
  BY <1>1, FS_Subset
<1>. QED
  BY <1>2, FS_CardinalityType, FS_Subset, FS_AddElement, FS_RemoveElement

\* A step that takes nobody from the queue's mutex and puts nobody to sleep.
NobodyTurnsAway ==
  \A w \in Workers : /\ pc[w] \in {"lock", "test"} => pc'[w] \in {"lock", "test"}
                     /\ pc'[w] = "waiting" => pc[w] = "waiting"

LEMMA NobodyTurnsAwayKeeps ==
  ASSUME TypeOK, WorkConserving, NobodyTurnsAway, qsize' = qsize
  PROVE  WorkConserving'
<1>1. Heading \subseteq Heading' /\ (Waiting' # {} => Waiting # {})
  BY DEF NobodyTurnsAway, Heading, Waiting
<1>2. Heading \in SUBSET Workers /\ Heading' \in SUBSET Workers
  BY DEF Heading
<1>3. Cardinality(Heading) <= Cardinality(Heading') /\ Cardinality(Heading) \in Nat
      /\ Cardinality(Heading') \in Nat
  BY <1>1, <1>2, WorkersCount
<1>. QED
  BY <1>1, <1>3 DEF WorkConserving, TypeOK

\* Whoever takes a task was awake for it.  (paralel_scheduler.c:21-24)
LEMMA TakeConserves ==
  ASSUME TypeOK, WorkConserving, NEW w \in Workers, WorkerTake(w)
  PROVE  WorkConserving'
<1>1. qsize' = qsize - 1 /\ pc' = [pc EXCEPT ![w] = "call"] /\ pc[w] = "test"
  BY DEF WorkerTake, TakeSlot
<1>2. Heading' = Heading \ {w} /\ w \in Heading /\ Waiting' = Waiting
  BY <1>1 DEF Heading, Waiting, TypeOK, Threads, Clients
<1>3. Heading \in SUBSET Workers
  BY DEF Heading
<1>4. Cardinality(Heading') = Cardinality(Heading) - 1 /\ Cardinality(Heading) \in Nat
  BY <1>2, <1>3, WorkersCount
<1>. QED
  BY <1>1, <1>2, <1>4 DEF WorkConserving, TypeOK

\* One signal for one task: it wakes a worker, or none sleeps.
\* (paralel_scheduler.c:75-83)
LEMMA SubmitConserves ==
  ASSUME NamesAssumption, TypeOK, WorkConserving, NEW c \in Clients, Submit(c)
  PROVE  WorkConserving'
<1>1. PICK t \in todo[c] : SubmitStore(t) /\ SignalAndUnlock(c)
  BY DEF Submit
<1>2. pc[c] = "submit" /\ t \in Tasks
  BY <1>1 DEF Submit, TypeOK
<1>3. qsize' = qsize + 1
  BY <1>1, <1>2, StoreTyped
<1>4. Heading \in SUBSET Workers
  BY DEF Heading
<1>5. CASE Waiting = {}
  <2>1. Waiting' = {}
    BY <1>1, <1>5 DEF SignalAndUnlock, UnlockOnly, Waiting, TypeOK, Threads, Clients
  <2>. QED
    BY <2>1 DEF WorkConserving
<1>6. CASE Waiting # {}
  <2>1. PICK w \in Waiting : pc' = [pc EXCEPT ![c] = "task", ![w] = "lock"]
    BY <1>1, <1>6 DEF SignalAndUnlock
  <2>2. w \in Workers \ Heading /\ w # c
    BY <1>2 DEF Waiting, Heading
  <2>3. Heading' = Heading \cup {w}
    BY <1>2, <2>1, <2>2 DEF Heading, TypeOK, Threads, Clients
  <2>4. Cardinality(Heading') = Cardinality(Heading) + 1 /\ Cardinality(Heading) \in Nat
    BY <1>4, <2>2, <2>3, WorkersCount
  <2>. QED
    BY <1>3, <1>6, <2>4 DEF WorkConserving, TypeOK
<1>. QED
  BY <1>5, <1>6

\* For any number of workers and clients: no wake-up is lost and none is owed.
\* (one pthread_cond_signal per ps_submit, paralel_scheduler.c:82)
THEOREM NoWakeupIsLost == Spec => []WorkConserving
<1>1. Init => WorkConserving
  BY NamesAssumption
  DEF NamesAssumption, Init, WorkConserving, Waiting, Threads, Clients
<1>2. TypeOK /\ WorkConserving /\ [Next]_vars => WorkConserving'
  <2> SUFFICES ASSUME TypeOK, WorkConserving, [Next]_vars
               PROVE  WorkConserving'
    OBVIOUS
  <2>1. CASE \E w \in Workers : WorkerTake(w)
    BY <2>1, TakeConserves
  <2>2. CASE \E c \in Clients : Submit(c)
    BY <2>2, SubmitConserves, NamesAssumption
  <2>3. CASE \E w \in Workers : WorkerWait(w) \/ WorkerExit(w)
    <3>1. qsize' = 0
      BY <2>3 DEF WorkerWait, WorkerExit, ring
    <3>2. Heading' \in SUBSET Workers
      BY DEF Heading
    <3>. QED
      BY <3>1, <3>2, WorkersCount DEF WorkConserving
  <2>4. CASE \/ \E w \in Workers : \/ WorkerLock(w) \/ WorkerCall(w) \/ WorkerCallJunk(w)
                                   \/ WorkerReturn(w) \/ SpuriousWakeup(w)
             \/ \E c \in Clients : SubmitLock(c) \/ SubmitDropped(c)
    <3>1. qsize' = qsize
      BY <2>4 DEF WorkerLock, WorkerCall, WorkerCallJunk, WorkerReturn, SpuriousWakeup,
                  SubmitLock, SubmitDropped, Acquire, ring
    <3>2. NobodyTurnsAway
      BY <2>4 DEF WorkerLock, WorkerCall, WorkerCallJunk, WorkerReturn, SpuriousWakeup,
                  SubmitLock, SubmitDropped, Acquire, UnlockOnly, NobodyTurnsAway, TypeOK,
                  Threads, Clients
    <3>. QED
      BY <3>1, <3>2, NobodyTurnsAwayKeeps
  <2>5. CASE \/ InitNoMemory \/ CreateWorker \/ CreateFails \/ InitReturns
             \/ CallDestroy \/ DestroyLock \/ StopAndBroadcast
             \/ Join \/ JoinJunk \/ DestroyReturns \/ UNCHANGED vars
    <3>1. qsize' = qsize
      BY <2>5 DEF InitNoMemory, CreateWorker, CreateFails, InitReturns, CallDestroy,
                  DestroyLock, StopAndBroadcast, Join, JoinJunk, DestroyReturns, Acquire,
                  vars, ring
    <3>2. NobodyTurnsAway
      BY <2>5, NamesAssumption, SizesAssumption
      DEF InitNoMemory, CreateWorker, CreateFails, InitReturns, CallDestroy,
          DestroyLock, StopAndBroadcast, Join, JoinJunk, DestroyReturns, Acquire,
          vars, NobodyTurnsAway, NamesAssumption, SizesAssumption, TypeOK, Threads,
          Clients, Waiting
    <3>. QED
      BY <3>1, <3>2, NobodyTurnsAwayKeeps
  <2>. QED
    BY StepCases, <2>1, <2>2, <2>3, <2>4, <2>5
<1>. QED BY <1>1, <1>2, TypeCorrect, PTL DEF Spec
-----------------------------------------------------------------------------
\* The pool as TaskPool sees it.
Fifo == [k \in 1..qsize |-> queue[(qfront + k - 1) % qcap]]
Active == {cur[w] : w \in Busy}
Done == {t \in Tasks : runs[t] > 0} \ Active

\* Tasks that ps_submit has stored, and those that it will be called for.
Accepted == {Fifo[k] : k \in 1..qsize} \cup Active \cup {t \in Tasks : runs[t] > 0}
Submitted(t) ==
  \/ \E s \in Submitters : t \in FirstTasks[s]
  \/ \E u \in Tasks : t \in Spawns[u] /\ runs[u] > 0

\* A queued task is queued once, and has not been called.
QueuedOnce ==
  /\ \A k \in 1..qsize : Fifo[k] \in Tasks /\ Fifo[k] \notin Active /\ runs[Fifo[k]] = 0
  /\ \A k, l \in 1..qsize : Fifo[k] = Fifo[l] => k = l

\* No two workers have the same task.
TakenOnce ==
  /\ \A w \in Busy : cur[w] \in Tasks /\ (pc[w] = "call" <=> runs[cur[w]] = 0)
  /\ \A w, v \in Busy : cur[w] = cur[v] => w = v

\* What is still to be submitted has not been, and everything comes from its caller.
SubmittedOnce ==
  /\ \A s \in Submitters : todo[s] \subseteq FirstTasks[s]
  /\ \A w \in Workers : todo[w] # {} => /\ pc[w] \in {"task", "submit"}
                                        /\ todo[w] \subseteq Spawns[cur[w]]
  /\ \A c \in Clients : todo[c] \cap Accepted = {}
  /\ \A t \in Accepted : Submitted(t)

\* While the ring has not been scrambled, every task is in one place.
OnceInv == ~scrambled => QueuedOnce /\ TakenOnce /\ SubmittedOnce

LEMMA FifoIsQueue ==
  ASSUME TypeOK
  PROVE  /\ qsize \in Nat
         /\ \A k \in 1..qsize : Fifo[k] = queue[(qfront + (k - 1)) % qcap]
<1>1. qsize \in Nat /\ qfront \in Nat
  BY DEF TypeOK
<1>2. ASSUME NEW k \in 1..qsize PROVE qfront + k - 1 = qfront + (k - 1)
  BY <1>1
<1> QED BY <1>1, <1>2 DEF Fifo

\* Steps that neither store nor take, call or finish a task.
Quiet ==
  /\ UNCHANGED <<queue, qsize, qcap, qfront, cur, runs, scrambled>>
  /\ \A w \in Workers : /\ pc'[w] = "call" <=> pc[w] = "call"
                        /\ pc'[w] \in {"task", "submit"} <=> pc[w] \in {"task", "submit"}
  /\ \A c \in Clients : todo'[c] \subseteq todo[c]

LEMMA QuietKeeps ==
  ASSUME OnceInv, Quiet
  PROVE  OnceInv' /\ Fifo' = Fifo /\ Active' = Active /\ Done' = Done
<1>1. Fifo' = Fifo
  BY DEF Quiet, Fifo
<1>2. Busy' = Busy /\ cur' = cur /\ runs' = runs /\ qsize' = qsize /\ scrambled' = scrambled
  BY DEF Quiet, Busy
<1>3. Active' = Active /\ Done' = Done
  BY <1>2 DEF Active, Done
<1>4. Accepted' = Accepted
  BY <1>1, <1>2, <1>3 DEF Accepted
<1>5. ASSUME ~scrambled PROVE QueuedOnce' /\ TakenOnce' /\ SubmittedOnce'
  <2>1. QueuedOnce'
    BY <1>1, <1>2, <1>3, <1>5 DEF OnceInv, QueuedOnce
  <2>2. TakenOnce'
    BY <1>2, <1>5 DEF OnceInv, TakenOnce, Quiet, Busy
  <2>3. \A t \in Accepted' : Submitted(t)'
    BY <1>2, <1>4, <1>5 DEF OnceInv, SubmittedOnce, Submitted
  <2>4. SubmittedOnce'
    BY <1>2, <1>4, <1>5, <2>3 DEF OnceInv, SubmittedOnce, Quiet, Clients
  <2> QED BY <2>1, <2>2, <2>4
<1> QED BY <1>1, <1>2, <1>3, <1>5 DEF OnceInv

\* A task that is taken leaves the front of the queue for a worker.
LEMMA TakeStarts ==
  ASSUME TypeOK, ShutdownInv, OnceInv, ~scrambled, NEW w \in Workers, WorkerTake(w)
  PROVE  /\ OnceInv' /\ qsize > 0 /\ qsize' = qsize - 1
         /\ w \notin Busy /\ Busy' = Busy \cup {w}
         /\ \A k \in 1..(qsize - 1) : Fifo'[k] = Fifo[k + 1]
         /\ Active' = Active \cup {Fifo[1]} /\ Done' = Done
<1> DEFINE t == Fifo[1]
<1>1. /\ pc[w] = "test" /\ qsize > 0 /\ qsize' = qsize - 1
      /\ qfront' = (qfront + 1) % qcap /\ qcap' = qcap /\ queue' = queue
      /\ pc' = [pc EXCEPT ![w] = "call"] /\ cur' = [cur EXCEPT ![w] = queue[qfront]]
      /\ UNCHANGED <<todo, runs, scrambled>>
  BY DEF WorkerTake, TakeSlot, history
<1>2. /\ qcap \in Nat \ {0} /\ qsize \in 0..qcap /\ qfront \in 0..(qcap - 1)
      /\ pc \in [Threads -> PCs] /\ cur \in [Workers -> Words]
  BY DEF TypeOK
<1>3. t = queue[qfront]
  <2>1. (qfront + 0) % qcap = qfront
    BY <1>2, SmallIndex
  <2>2. 1 \in 1..qsize /\ 1 - 1 = 0
    BY <1>1, <1>2
  <2> QED BY <2>1, <2>2, FifoIsQueue
<1>4. ASSUME NEW k \in 1..(qsize - 1) PROVE Fifo'[k] = Fifo[k + 1]
  <2>1. k \in 1..qsize' /\ k - 1 \in 0..(qcap - 2) /\ k + 1 \in 1..qsize
    BY <1>1, <1>2
  <2>2. Fifo'[k] = queue'[(qfront' + k - 1) % qcap']
    BY <2>1 DEF Fifo
  <2>3. qfront' \in Nat /\ qfront' + k - 1 = qfront' + (k - 1)
    BY <1>1, <1>2, SlotInRange
  <2>4. (qfront' + (k - 1)) % qcap = (qfront + ((k - 1) + 1)) % qcap
    BY <1>1, <1>2, <2>1, SlotFromNext
  <2>5. (k - 1) + 1 = (k + 1) - 1
    OBVIOUS
  <2> QED BY <1>1, <2>1, <2>2, <2>3, <2>4, <2>5, FifoIsQueue
<1>5. w \notin Busy /\ Busy' = Busy \cup {w}
  BY <1>1, <1>2 DEF Busy, Threads, Clients
<1> HIDE DEF t
<1>6. cur'[w] = t /\ \A v \in Busy : cur'[v] = cur[v] /\ pc'[v] = pc[v]
  BY <1>1, <1>2, <1>3, <1>5 DEF Busy, Threads, Clients
<1>7. Active' = Active \cup {t}
  BY <1>5, <1>6 DEF Active
<1>8. QueuedOnce /\ TakenOnce /\ SubmittedOnce
  BY DEF OnceInv
<1>9. t \in Tasks /\ t \notin Active /\ runs[t] = 0
  BY <1>1, <1>2, <1>8 DEF QueuedOnce, t
<1>10. Done' = Done
  BY <1>1, <1>7, <1>9 DEF Done
<1>11. Accepted' = Accepted
  <2>1. \A k \in 1..qsize' : k + 1 \in 1..qsize /\ Fifo'[k] = Fifo[k + 1]
    BY <1>1, <1>2, <1>4
  <2>2. \A k \in 1..qsize : k = 1 \/ (k - 1 \in 1..qsize' /\ Fifo'[k - 1] = Fifo[k])
    <3> TAKE k \in 1..qsize
    <3>1. k # 1 => k - 1 \in 1..(qsize - 1) /\ (k - 1) + 1 = k
      BY <1>2
    <3> QED BY <3>1, <1>1, <1>4
  <2>3. 1 \in 1..qsize
    BY <1>1, <1>2
  <2> QED BY <1>1, <1>7, <2>1, <2>2, <2>3 DEF Accepted, t
<1>12. QueuedOnce'
  <2>1. ASSUME NEW k \in 1..qsize'
        PROVE  Fifo'[k] \in Tasks /\ Fifo'[k] \notin Active' /\ runs'[Fifo'[k]] = 0
    <3>1. k + 1 \in 1..qsize /\ 1 \in 1..qsize /\ k + 1 # 1 /\ Fifo'[k] = Fifo[k + 1]
      BY <1>1, <1>2, <1>4
    <3> QED BY <3>1, <1>1, <1>7, <1>8 DEF QueuedOnce, t
  <2>2. ASSUME NEW k \in 1..qsize', NEW l \in 1..qsize', Fifo'[k] = Fifo'[l]
        PROVE  k = l
    <3>1. /\ k + 1 \in 1..qsize /\ Fifo'[k] = Fifo[k + 1]
          /\ l + 1 \in 1..qsize /\ Fifo'[l] = Fifo[l + 1]
      BY <1>1, <1>2, <1>4
    <3>2. k + 1 = l + 1
      BY <2>2, <3>1, <1>8 DEF QueuedOnce
    <3> QED BY <3>2
  <2> QED BY <2>1, <2>2 DEF QueuedOnce
<1>13. TakenOnce'
  <2>1. \A v \in Busy : cur[v] # t
    BY <1>9 DEF Active
  <2>2. pc'[w] = "call" /\ runs' = runs
    BY <1>1, <1>2 DEF Threads, Clients
  <2> QED BY <1>5, <1>6, <1>8, <1>9, <2>1, <2>2 DEF TakenOnce
<1>14. SubmittedOnce'
  <2>1. \A x \in Accepted' : Submitted(x)'
    BY <1>1, <1>8, <1>11 DEF SubmittedOnce, Submitted
  <2>2. ASSUME NEW v \in Workers, todo'[v] # {}
        PROVE  pc'[v] \in {"task", "submit"} /\ todo'[v] \subseteq Spawns[cur'[v]]
    <3>1. todo[v] # {} /\ todo' = todo
      BY <1>1, <2>2
    <3>2. pc[v] \in {"task", "submit"} /\ todo[v] \subseteq Spawns[cur[v]]
      BY <3>1, <1>8 DEF SubmittedOnce
    <3>3. v # w /\ v \in Busy
      BY <3>2, <1>1 DEF Busy
    <3> QED BY <1>6, <3>1, <3>2, <3>3
  <2> QED BY <1>1, <1>8, <1>11, <2>1, <2>2 DEF SubmittedOnce
<1> QED BY <1>1, <1>4, <1>5, <1>7, <1>10, <1>12, <1>13, <1>14 DEF OnceInv, t

\* A call of a task makes submissions due that nobody has made before.
LEMMA CallKeeps ==
  ASSUME TypeOK, OnceInv, ~scrambled, NEW w \in Workers, WorkerCall(w)
  PROVE  OnceInv' /\ Fifo' = Fifo /\ Active' = Active /\ Done' = Done
<1> DEFINE t == cur[w]
<1>1. /\ pc[w] = "call" /\ pc' = [pc EXCEPT ![w] = "task"]
      /\ runs' = [runs EXCEPT ![t] = @ + 1] /\ todo' = [todo EXCEPT ![w] = Spawns[t]]
      /\ UNCHANGED <<queue, qsize, qcap, qfront, cur, scrambled>>
  BY DEF WorkerCall, ring
<1>2. /\ QueuedOnce /\ TakenOnce /\ SubmittedOnce
      /\ pc \in [Threads -> PCs] /\ runs \in [Tasks -> Nat] /\ todo \in [Clients -> SUBSET Tasks]
  BY DEF OnceInv, TypeOK
<1>3. w \in Busy /\ t \in Tasks /\ t \in Active /\ runs[t] = 0
  BY <1>1, <1>2 DEF Busy, TakenOnce, Active
<1>4. Busy' = Busy /\ \A v \in Busy : v # w => cur[v] # t /\ pc'[v] = pc[v]
  BY <1>1, <1>2, <1>3 DEF Busy, Threads, Clients, TakenOnce
<1>5. Fifo' = Fifo /\ Active' = Active
  BY <1>1, <1>4 DEF Fifo, Active
<1> HIDE DEF t
<1>6. runs'[t] = 1 /\ \A u \in Tasks : u # t => runs'[u] = runs[u]
  BY <1>1, <1>2, <1>3
<1>7. \A u \in Tasks : runs'[u] > 0 <=> (runs[u] > 0 \/ u = t)
  BY <1>2, <1>3, <1>6
<1>8. Done' = Done
  BY <1>3, <1>5, <1>7 DEF Done
<1>9. Accepted' = Accepted
  BY <1>1, <1>3, <1>5, <1>7 DEF Accepted
<1>10. QueuedOnce'
  BY <1>1, <1>2, <1>3, <1>5, <1>6 DEF QueuedOnce
<1>11. TakenOnce'
  <2>1. pc'[w] = "task" /\ cur' = cur /\ cur[w] = t
    BY <1>1, <1>2 DEF Threads, Clients, t
  <2>2. \A v \in Busy : v # w => (pc'[v] = "call" <=> runs'[cur'[v]] = 0)
    BY <1>2, <1>4, <1>6, <2>1 DEF TakenOnce
  <2>3. runs'[cur'[w]] # 0
    BY <1>6, <2>1
  <2> QED BY <1>2, <1>4, <2>1, <2>2, <2>3 DEF TakenOnce
<1>12. Spawns[t] \cap Accepted = {}
  <2> SUFFICES ASSUME NEW x \in Spawns[t], x \in Accepted PROVE FALSE
    OBVIOUS
  <2>1. Submitted(x)
    BY <1>2 DEF SubmittedOnce
  <2>2. \A s \in Submitters : x \notin FirstTasks[s]
    BY <1>3, OnceAssumption
  <2>3. PICK u \in Tasks : x \in Spawns[u] /\ runs[u] > 0
    BY <2>1, <2>2 DEF Submitted
  <2>4. u # t
    BY <1>3, <2>3
  <2> QED BY <1>3, <2>3, <2>4, OnceAssumption
<1>13. SubmittedOnce'
  <2>1. /\ todo'[w] = Spawns[t] /\ \A c \in Clients : c # w => todo'[c] = todo[c]
        /\ pc'[w] = "task" /\ \A v \in Workers : v # w => pc'[v] = pc[v]
        /\ cur' = cur /\ cur[w] = t
    BY <1>1, <1>2 DEF Threads, Clients, t
  <2>2. \A s \in Submitters : s # w
    BY NamesAssumption
  <2>3. \A x \in Accepted' : Submitted(x)'
    BY <1>2, <1>7, <1>9 DEF SubmittedOnce, Submitted
  <2>4. \A s \in Submitters : todo'[s] \subseteq FirstTasks[s]
    BY <1>2, <2>1, <2>2 DEF SubmittedOnce, Clients
  <2>5. \A v \in Workers : todo'[v] # {} => /\ pc'[v] \in {"task", "submit"}
                                            /\ todo'[v] \subseteq Spawns[cur'[v]]
    BY <1>2, <2>1 DEF SubmittedOnce, Clients
  <2>6. \A c \in Clients : todo'[c] \cap Accepted' = {}
    BY <1>2, <1>9, <1>12, <2>1 DEF SubmittedOnce
  <2> QED BY <2>3, <2>4, <2>5, <2>6 DEF SubmittedOnce
<1> QED BY <1>5, <1>8, <1>10, <1>11, <1>13 DEF OnceInv

\* A task that returns is nobody else's.
LEMMA ReturnFinishes ==
  ASSUME TypeOK, OnceInv, ~scrambled, NEW w \in Workers, WorkerReturn(w)
  PROVE  /\ OnceInv' /\ Fifo' = Fifo /\ cur[w] \in Active
         /\ Active' = Active \ {cur[w]} /\ Done' = Done \cup {cur[w]}
<1> DEFINE t == cur[w]
<1>1. /\ pc[w] = "task" /\ todo[w] = {}
      /\ pc' = [pc EXCEPT ![w] = "lock"] /\ cur' = [cur EXCEPT ![w] = Junk]
      /\ UNCHANGED <<queue, qsize, qcap, qfront, todo, runs, scrambled>>
  BY DEF WorkerReturn, ring, history
<1>2. /\ QueuedOnce /\ TakenOnce /\ SubmittedOnce
      /\ pc \in [Threads -> PCs] /\ cur \in [Workers -> Words] /\ runs \in [Tasks -> Nat]
  BY DEF OnceInv, TypeOK
<1>3. w \in Busy /\ t \in Tasks /\ t \in Active /\ runs[t] > 0
  BY <1>1, <1>2 DEF Busy, TakenOnce, Active
<1>4. /\ Busy' = Busy \ {w}
      /\ \A v \in Busy : v # w => cur[v] # t /\ cur'[v] = cur[v] /\ pc'[v] = pc[v]
  BY <1>1, <1>2, <1>3 DEF Busy, Threads, Clients, TakenOnce
<1>5. Fifo' = Fifo /\ runs' = runs /\ qsize' = qsize
  BY <1>1 DEF Fifo
<1>6. Active' = Active \ {t}
  BY <1>4 DEF Active, t
<1> HIDE DEF t
<1>7. Done' = Done \cup {t}
  BY <1>3, <1>5, <1>6 DEF Done
<1>8. Accepted' = Accepted
  BY <1>3, <1>5, <1>6 DEF Accepted
<1>9. QueuedOnce'
  BY <1>2, <1>5, <1>6 DEF QueuedOnce
<1>10. TakenOnce'
  BY <1>2, <1>4, <1>5 DEF TakenOnce
<1>11. SubmittedOnce'
  <2>1. \A x \in Accepted' : Submitted(x)'
    BY <1>2, <1>5, <1>8 DEF SubmittedOnce, Submitted
  <2>2. ASSUME NEW v \in Workers, todo'[v] # {}
        PROVE  pc'[v] \in {"task", "submit"} /\ todo'[v] \subseteq Spawns[cur'[v]]
    <3>1. v # w /\ todo[v] # {} /\ todo' = todo
      BY <1>1, <2>2
    <3>2. pc[v] \in {"task", "submit"} /\ todo[v] \subseteq Spawns[cur[v]]
      BY <3>1, <1>2 DEF SubmittedOnce
    <3>3. v \in Busy
      BY <3>2 DEF Busy
    <3> QED BY <1>4, <3>1, <3>2, <3>3
  <2> QED BY <1>1, <1>2, <1>8, <2>1, <2>2 DEF SubmittedOnce
<1> QED BY <1>3, <1>5, <1>6, <1>7, <1>9, <1>10, <1>11 DEF OnceInv, t

\* What a client submits is new to the pool.
LEMMA SubmitAccepts ==
  ASSUME TypeOK, ShutdownInv, OnceInv, ~scrambled', NEW c \in Clients, Submit(c)
  PROVE  /\ OnceInv' /\ ~scrambled /\ qsize' = qsize + 1
         /\ \A k \in 1..qsize : Fifo'[k] = Fifo[k]
         /\ Fifo'[qsize + 1] \in Tasks \ Accepted
         /\ Active' = Active /\ Done' = Done
<1>1. PICK t \in todo[c] : /\ SubmitStore(t) /\ SignalAndUnlock(c)
                           /\ todo' = [todo EXCEPT ![c] = @ \ {t}]
  BY DEF Submit
<1>2. /\ pc[c] = "submit" /\ cur' = cur /\ runs' = runs
  BY DEF Submit
<1>3. /\ qsize \in Nat /\ todo \in [Clients -> SUBSET Tasks] /\ runs \in [Tasks -> Nat]
      /\ qfront' \in Nat
  BY <1>1, NamesAssumption, StoreTyped DEF TypeOK
<1>4. t \in Tasks
  BY <1>1, <1>3
<1>5. /\ ~scrambled /\ qsize' = qsize + 1
      /\ \A k \in 0..(qsize - 1) :
           queue'[(qfront' + k) % qcap'] = queue[(qfront + k) % qcap]
      /\ queue'[(qfront' + qsize) % qcap'] = t
  BY <1>1, <1>4, StoreAppends
<1>6. /\ \A k \in 1..qsize : Fifo'[k] = Fifo[k]
      /\ Fifo'[qsize + 1] = t
  <2>1. ASSUME NEW k \in 1..(qsize + 1)
        PROVE  Fifo'[k] = queue'[(qfront' + (k - 1)) % qcap']
    <3>1. qfront' + k - 1 = qfront' + (k - 1)
      BY <1>3
    <3>2. Fifo'[k] = queue'[(qfront' + k - 1) % qcap']
      BY <1>5 DEF Fifo
    <3> QED BY <3>1, <3>2
  <2>2. \A k \in 1..qsize : k \in 1..(qsize + 1) /\ k - 1 \in 0..(qsize - 1)
    BY <1>3
  <2>3. \A k \in 1..qsize : Fifo'[k] = Fifo[k]
    BY <1>5, <2>1, <2>2, FifoIsQueue
  <2>4. qsize + 1 \in 1..(qsize + 1) /\ (qsize + 1) - 1 = qsize
    BY <1>3
  <2> QED BY <1>5, <2>1, <2>3, <2>4
<1>7. /\ QueuedOnce /\ TakenOnce /\ SubmittedOnce
  BY <1>5 DEF OnceInv
<1>8. t \notin Accepted
  BY <1>1, <1>7 DEF SubmittedOnce
<1>9. /\ pc'[c] = "task"
      /\ \A th \in Threads \ {c} :
           pc'[th] = pc[th] \/ (th \in Workers /\ pc[th] = "waiting" /\ pc'[th] = "lock")
  BY <1>1, <1>2, NamesAssumption, SignalWakesOne
<1>10. /\ Busy' = Busy
       /\ \A w \in Workers : /\ pc'[w] = "call" <=> pc[w] = "call"
                             /\ pc'[w] \in {"task", "submit"} <=> pc[w] \in {"task", "submit"}
  BY <1>2, <1>9 DEF Busy, Threads, Clients
<1>11. Active' = Active /\ Done' = Done
  BY <1>2, <1>10 DEF Active, Done
<1>12. Accepted' = Accepted \cup {t}
  <2>1. 1..qsize' = (1..qsize) \cup {qsize + 1}
    BY <1>3, <1>5
  <2>2. {Fifo'[k] : k \in 1..qsize'} = {Fifo[k] : k \in 1..qsize} \cup {t}
    BY <1>6, <2>1
  <2> QED BY <1>2, <1>11, <2>2 DEF Accepted
<1>13. QueuedOnce'
  <2>1. t \notin Active /\ runs[t] = 0 /\ \A k \in 1..qsize : Fifo[k] # t
    BY <1>3, <1>4, <1>8 DEF Accepted
  <2>2. \A k \in 1..qsize' : k \in 1..qsize \/ k = qsize + 1
    BY <1>3, <1>5
  <2>3. \A k \in 1..qsize' : Fifo'[k] \in Tasks /\ Fifo'[k] \notin Active' /\ runs'[Fifo'[k]] = 0
    BY <1>2, <1>4, <1>6, <1>7, <1>11, <2>1, <2>2 DEF QueuedOnce
  <2>4. \A k, l \in 1..qsize' : Fifo'[k] = Fifo'[l] => k = l
    BY <1>6, <1>7, <2>1, <2>2 DEF QueuedOnce
  <2> QED BY <2>3, <2>4 DEF QueuedOnce
<1>14. TakenOnce'
  BY <1>2, <1>7, <1>10 DEF TakenOnce, Busy
<1>15. /\ c \in Submitters => t \in FirstTasks[c]
       /\ c \in Workers => c \in Busy /\ t \in Spawns[cur[c]] /\ runs[cur[c]] > 0 /\ cur[c] \in Tasks
  <2>1. c \in Submitters => t \in FirstTasks[c]
    BY <1>1, <1>7 DEF SubmittedOnce
  <2>2. c \in Workers => c \in Busy /\ t \in Spawns[cur[c]]
    BY <1>1, <1>2, <1>7 DEF SubmittedOnce, Busy
  <2>3. c \in Workers => cur[c] \in Tasks /\ runs[cur[c]] # 0
    BY <1>2, <1>7, <2>2 DEF TakenOnce
  <2> QED BY <1>3, <2>1, <2>2, <2>3
<1>16. ASSUME NEW d \in Clients, d # c PROVE t \notin todo[d]
  <2>1. CASE d \in Submitters
    <3>1. todo[d] \subseteq FirstTasks[d]
      BY <1>7, <2>1 DEF SubmittedOnce
    <3> QED BY <1>15, <1>16, <2>1, <3>1, OnceAssumption DEF Clients
  <2>2. CASE d \in Workers
    <3> SUFFICES ASSUME t \in todo[d] PROVE FALSE
      OBVIOUS
    <3>1. d \in Busy /\ t \in Spawns[cur[d]] /\ cur[d] \in Tasks
      BY <1>7, <2>2 DEF SubmittedOnce, TakenOnce, Busy
    <3>2. c \in Workers => cur[c] # cur[d]
      BY <1>7, <1>15, <1>16, <3>1 DEF TakenOnce
    <3> QED BY <1>15, <3>1, <3>2, OnceAssumption DEF Clients
  <2> QED BY <2>1, <2>2 DEF Clients
<1>17. SubmittedOnce'
  <2>1. todo'[c] = todo[c] \ {t} /\ \A d \in Clients : d # c => todo'[d] = todo[d]
    BY <1>1, <1>3
  <2>2. \A d \in Clients : todo'[d] \subseteq todo[d] /\ t \notin todo'[d]
    BY <1>16, <2>1
  <2>3. Submitted(t)
    BY <1>15 DEF Submitted, Clients
  <2>4. \A x \in Accepted' : Submitted(x)'
    BY <1>2, <1>7, <1>12, <2>3 DEF SubmittedOnce, Submitted
  <2>5. \A s \in Submitters : todo'[s] \subseteq FirstTasks[s]
    BY <1>7, <2>2 DEF SubmittedOnce, Clients
  <2>6. \A w \in Workers : todo'[w] # {} => /\ pc'[w] \in {"task", "submit"}
                                            /\ todo'[w] \subseteq Spawns[cur'[w]]
    BY <1>2, <1>7, <1>10, <2>2 DEF SubmittedOnce, Clients
  <2>7. \A d \in Clients : todo'[d] \cap Accepted' = {}
    BY <1>7, <1>12, <2>2 DEF SubmittedOnce
  <2> QED BY <2>4, <2>5, <2>6, <2>7 DEF SubmittedOnce
<1> QED BY <1>4, <1>5, <1>6, <1>8, <1>11, <1>13, <1>14, <1>17 DEF OnceInv

\* All other steps are quiet.
TakesPart(w) == WorkerTake(w) \/ WorkerCall(w) \/ WorkerReturn(w)

LEMMA OthersAreQuiet ==
  ASSUME TypeOK, ShutdownInv, [Next]_vars,
         \A w \in Workers : ~TakesPart(w), \A c \in Clients : ~Submit(c)
  PROVE  Quiet
<1> USE NamesAssumption DEF Quiet, ring, history, Threads, Clients, TypeOK
<1>1. CASE \E w \in Workers : WorkerLock(w)
  BY <1>1 DEF WorkerLock, Acquire
<1>2. CASE \E w \in Workers : WorkerWait(w) \/ WorkerExit(w)
  BY <1>2 DEF WorkerWait, WorkerExit
<1>3. CASE \E w \in Workers : WorkerCallJunk(w) \/ SpuriousWakeup(w)
  BY <1>3 DEF WorkerCallJunk, SpuriousWakeup
<1>4. CASE \E c \in Clients : SubmitLock(c)
  BY <1>4 DEF SubmitLock, Acquire
<1>5. CASE \E c \in Clients : SubmitDropped(c)
  BY <1>5 DEF SubmitDropped, UnlockOnly
<1>6. CASE CreateWorker
  <2>1. i \in Workers /\ i >= i
    BY <1>6, SizesAssumption DEF CreateWorker, Workers
  <2>2. pc[i] = "new" /\ pc' = [pc EXCEPT ![i] = "lock"]
    BY <1>6, <2>1 DEF CreateWorker, ShutdownInv, CreationInv, Starting
  <2> QED BY <1>6, <2>1, <2>2 DEF CreateWorker
<1>7. CASE InitNoMemory \/ CreateFails \/ InitReturns \/ CallDestroy \/ DestroyLock
  BY <1>7 DEF InitNoMemory, CreateFails, InitReturns, CallDestroy, DestroyLock, Acquire
<1>8. CASE StopAndBroadcast \/ Join \/ JoinJunk \/ DestroyReturns
  BY <1>8 DEF StopAndBroadcast, Waiting, Join, JoinJunk, DestroyReturns
<1>9. CASE UNCHANGED vars
  BY <1>9 DEF vars
<1> QED
  BY StepCases, <1>1, <1>2, <1>3, <1>4, <1>5, <1>6, <1>7, <1>8, <1>9 DEF TakesPart

\* As long as the ring has not been scrambled, each task is in one place: still to be
\* submitted, in the queue once, with one worker, or done.
\* (paralel_scheduler.c:15-26, 75-83)
THEOREM OnceInvariant == Spec => []OnceInv
<1>1. Init => OnceInv
  <2> SUFFICES ASSUME Init PROVE OnceInv
    OBVIOUS
  <2>1. /\ qsize = 0 /\ \A t \in Tasks : runs[t] = 0
        /\ \A s \in Submitters : todo[s] = FirstTasks[s]
        /\ \A w \in Workers : todo[w] = {} /\ pc[w] = "new"
    BY NamesAssumption DEF Init, Clients, Threads
  <2>2. Busy = {} /\ Active = {}
    BY <2>1 DEF Busy, Active
  <2>3. Accepted = {}
    BY <2>1, <2>2 DEF Accepted
  <2> QED BY <2>1, <2>2, <2>3 DEF OnceInv, QueuedOnce, TakenOnce, SubmittedOnce
<1>2. TypeOK /\ ShutdownInv /\ OnceInv /\ [Next]_vars => OnceInv'
  <2> SUFFICES ASSUME TypeOK, ShutdownInv, OnceInv, [Next]_vars, ~scrambled' PROVE OnceInv'
    BY DEF OnceInv
  <2>1. ASSUME NEW w \in Workers, TakesPart(w) PROVE OnceInv'
    <3>1. ~scrambled
      BY <2>1 DEF TakesPart, WorkerTake, TakeSlot, WorkerCall, WorkerReturn, history
    <3> QED BY <2>1, <3>1, TakeStarts, CallKeeps, ReturnFinishes DEF TakesPart
  <2>2. ASSUME NEW c \in Clients, Submit(c) PROVE OnceInv'
    BY <2>2, SubmitAccepts
  <2> QED BY <2>1, <2>2, OthersAreQuiet, QuietKeeps
<1> QED BY <1>1, <1>2, TypeCorrect, ShutdownInvariant, PTL DEF Spec

-----------------------------------------------------------------------------
\* Sequences, element by element.
LEMMA IsSequence ==
  ASSUME NEW m \in Nat, NEW S, NEW f \in [1..m -> S]
  PROVE  f \in Seq(S) /\ Len(f) = m
<1>1. f \in Seq(S)
  BY SeqDef
<1>2. DOMAIN f = 1..m /\ DOMAIN f = 1..Len(f) /\ Len(f) \in Nat
  BY <1>1, LenProperties
<1> QED BY <1>1, <1>2

LEMMA IsAppended ==
  ASSUME NEW S, NEW s \in Seq(S), NEW u \in Seq(S), Len(u) = Len(s) + 1,
         \A k \in 1..Len(s) : u[k] = s[k]
  PROVE  u = Append(s, u[Len(s) + 1])
<1> DEFINE x == u[Len(s) + 1]
           v == Append(s, x)
<1>1. Len(s) \in Nat /\ Len(s) + 1 \in 1..Len(u)
  BY LenProperties
<1>2. x \in S
  BY <1>1, ElementOfSeq
<1>3. v \in Seq(S) /\ Len(v) = Len(u)
  BY <1>2
<1>4. \A k \in 1..Len(u) : u[k] = v[k]
  <2> TAKE k \in 1..Len(u)
  <2>1. CASE k = Len(s) + 1
    BY <1>2, <2>1
  <2>2. CASE k # Len(s) + 1
    <3>1. k \in 1..Len(s)
      BY <1>1, <2>2
    <3> QED BY <1>2, <3>1
  <2> QED BY <2>1, <2>2
<1> HIDE DEF v
<1>5. u = v
  BY <1>3, <1>4, SeqEqual
<1> QED BY <1>5 DEF v

LEMMA IsTail ==
  ASSUME NEW S, NEW s \in Seq(S), NEW u \in Seq(S), Len(u) + 1 = Len(s),
         \A k \in 1..Len(u) : u[k] = s[k + 1]
  PROVE  s # << >> /\ u = Tail(s) /\ Head(s) = s[1]
<1>1. Len(u) \in Nat /\ Len(s) \in Nat
  BY LenProperties
<1>2. s # << >>
  BY <1>1, EmptySeq
<1>3. Tail(s) \in Seq(S) /\ Len(Tail(s)) = Len(s) - 1
      /\ \A k \in 1..Len(Tail(s)) : Tail(s)[k] = s[k + 1]
  BY <1>2, HeadTailProperties
<1>4. u = Tail(s)
  BY <1>1, <1>3, SeqEqual
<1> QED BY <1>2, <1>4

\* At most one task for each worker that is busy.
LEMMA FewerThanWorkers ==
  ASSUME NEW w \in Workers \ Busy
  PROVE  Cardinality(Active) < ThreadCount
<1>1. IsFiniteSet(Workers) /\ Cardinality(Workers) = ThreadCount
  BY SizesAssumption, FS_Interval DEF Workers
<1>2. IsFiniteSet(Workers \ {w}) /\ Cardinality(Workers \ {w}) = ThreadCount - 1
  BY <1>1, FS_RemoveElement
<1>3. Busy \subseteq Workers \ {w}
  BY DEF Busy
<1>4. IsFiniteSet(Busy) /\ Cardinality(Busy) <= ThreadCount - 1
  BY <1>2, <1>3, FS_Subset
<1>5. [v \in Busy |-> cur[v]] \in Surjection(Busy, Active)
  BY DEF Surjection, Active
<1>6. IsFiniteSet(Active) /\ Cardinality(Active) <= Cardinality(Busy)
  BY <1>4, <1>5, FS_Surjection
<1>7. Cardinality(Active) \in Nat /\ Cardinality(Busy) \in Nat /\ ThreadCount \in Nat
  BY <1>4, <1>6, FS_CardinalityType, SizesAssumption
<1> QED BY <1>4, <1>6, <1>7

-----------------------------------------------------------------------------
Closed == pc[Main] = "ended" /\ ~failed

LEMMA ClosedBy ==
  ASSUME TypeOK, [Next]_vars
  PROVE  \/ Closed' = Closed
         \/ Running /\ DestroyReturns
<1>1. Main \in Threads /\ Main \notin Clients /\ pc \in [Threads -> PCs]
  BY NamesAssumption DEF Threads, TypeOK
<1>2. CASE UNCHANGED vars
  BY <1>2 DEF vars, Closed
<1>3. CASE Running /\ ~DestroyReturns /\ ~UNCHANGED vars
  <2>1. pc[Main] # "ended"
    BY <1>3 DEF Running
  <2> SUFFICES pc'[Main] # "ended" \/ failed'
    BY <2>1 DEF Closed
  <2>2. CASE \E w \in Workers :
               \/ WorkerLock(w) \/ WorkerWait(w) \/ WorkerExit(w) \/ WorkerTake(w)
               \/ WorkerCall(w) \/ WorkerCallJunk(w) \/ WorkerReturn(w) \/ SpuriousWakeup(w)
    BY <1>1, <2>1, <2>2 DEF WorkerLock, WorkerWait, WorkerExit, WorkerTake, TakeSlot, WorkerCall,
         WorkerCallJunk, WorkerReturn, SpuriousWakeup, Acquire, Clients
  <2>3. CASE \E c \in Clients : SubmitLock(c) \/ SubmitDropped(c)
    BY <1>1, <2>1, <2>3 DEF SubmitLock, SubmitDropped, UnlockOnly, Acquire
  <2>4. ASSUME NEW c \in Clients, Submit(c) PROVE pc'[Main] # "ended"
    <3>1. pc[c] = "submit" /\ SignalAndUnlock(c)
      BY <2>4 DEF Submit
    <3>2. \A th \in Threads \ {c} :
            pc'[th] = pc[th] \/ (th \in Workers /\ pc[th] = "waiting" /\ pc'[th] = "lock")
      BY <3>1, NamesAssumption, SignalWakesOne
    <3> QED BY <1>1, <2>1, <3>2 DEF Clients
  <2>5. CASE InitNoMemory
    BY <2>5 DEF InitNoMemory
  <2>6. CASE CreateWorker
    BY <1>1, <2>1, <2>6 DEF CreateWorker, TypeOK, Workers, Clients
  <2>7. CASE CreateFails \/ InitReturns \/ CallDestroy \/ DestroyLock \/ StopAndBroadcast
    BY <1>1, <2>7, NamesAssumption
    DEF CreateFails, InitReturns, CallDestroy, DestroyLock, StopAndBroadcast, Acquire, Clients
  <2>8. CASE Join \/ JoinJunk
    BY <2>1, <2>8 DEF Join, JoinJunk
  <2> QED BY StepCases, <1>3, <2>2, <2>3, <2>4, <2>5, <2>6, <2>7, <2>8
<1>4. Running \/ UNCHANGED vars
  BY DEF Next, Terminated
<1> QED BY <1>2, <1>3, <1>4

\* A step of a worker or a client does not close the pool.
LEMMA SameCloser ==
  ASSUME TypeOK, [Next]_vars,
         (\E w \in Workers : TakesPart(w)) \/ (\E c \in Clients : Submit(c))
  PROVE  ~Closed /\ Closed' = Closed
<1>1. Main \in Threads /\ Main \notin Clients /\ pc \in [Threads -> PCs]
  BY NamesAssumption DEF Threads, TypeOK
<1>2. pc'[Main] = pc[Main] /\ pc' # pc /\ failed' = failed
  <2>1. ASSUME NEW w \in Workers, TakesPart(w)
        PROVE  pc'[Main] = pc[Main] /\ pc' # pc /\ failed' = failed
    <3>1. w \in Threads /\ w # Main
      BY <1>1 DEF Threads, Clients
    <3> QED BY <1>1, <2>1, <3>1 DEF TakesPart, WorkerTake, TakeSlot, WorkerCall, WorkerReturn
  <2>2. ASSUME NEW c \in Clients, Submit(c)
        PROVE  pc'[Main] = pc[Main] /\ pc' # pc /\ failed' = failed
    <3>1. pc[c] = "submit" /\ SignalAndUnlock(c) /\ failed' = failed /\ c # Main
      BY <1>1, <2>2 DEF Submit
    <3>2. /\ pc'[c] = "task"
          /\ \A th \in Threads \ {c} :
               pc'[th] = pc[th] \/ (th \in Workers /\ pc[th] = "waiting" /\ pc'[th] = "lock")
      BY <3>1, NamesAssumption, SignalWakesOne
    <3> QED BY <1>1, <3>1, <3>2 DEF Clients
  <2> QED BY <2>1, <2>2
<1>3. Running
  BY <1>2 DEF Next, Terminated, vars
<1> QED BY <1>2, <1>3 DEF Running, Closed

\* TaskPool counts as FiniteSets does.
LEMMA PoolCounts ==
  \A S : Pool!Cardinality(S) = Cardinality(S)
  BY DEF Pool!Cardinality, Cardinality

\* A step of the pool is a step of TaskPool, or none.
LEMMA StepRefines ==
  ASSUME TypeOK, ShutdownInv, OnceInv, TypeOK', OnceInv', DestroyDrains', [Next]_vars
  PROVE  [Pool!Next]_(Pool!poolVars)
<1> DEFINE
      Unchanged == /\ Fifo' = Fifo /\ Active' = Active /\ Done' = Done
                   /\ Closed' = Closed /\ scrambled' = scrambled
      Accepts(t) == /\ ~Closed /\ t \notin {Fifo[k] : k \in 1..Len(Fifo)} \cup Active \cup Done
                    /\ Fifo' = Append(Fifo, t) /\ Active' = Active /\ Done' = Done
                    /\ Closed' = Closed /\ scrambled' = scrambled
      Starts == /\ Fifo # << >> /\ Cardinality(Active) < ThreadCount
                /\ Fifo' = Tail(Fifo) /\ Active' = Active \cup {Head(Fifo)}
                /\ Done' = Done /\ Closed' = Closed /\ scrambled' = scrambled
      Finishes(t) == /\ Active' = Active \ {t} /\ Done' = Done \cup {t}
                     /\ Fifo' = Fifo /\ Closed' = Closed /\ scrambled' = scrambled
      Closes == /\ Fifo = << >> /\ Active = {} /\ Closed' = TRUE
                /\ Fifo' = Fifo /\ Active' = Active /\ Done' = Done /\ scrambled' = scrambled
<1>1. \/ Unchanged \/ (\E t \in Tasks : Accepts(t)) \/ Starts
      \/ (\E t \in Active : Finishes(t)) \/ Closes \/ scrambled'
      => [Pool!Next]_(Pool!poolVars)
  <2>1. Unchanged => UNCHANGED Pool!poolVars
    BY DEF Pool!poolVars, Fifo, Active, Done, Closed
  <2>2. ASSUME NEW t \in Tasks, Accepts(t) PROVE Pool!Accept(t)
    BY <2>2 DEF Pool!Accept, Pool!Queued, Fifo, Active, Done, Closed
  <2>3. Starts => Pool!Start
    BY PoolCounts DEF Pool!Start, Fifo, Active, Done, Closed
  <2>4. ASSUME NEW t \in Active, Finishes(t) PROVE Pool!Finish(t)
    BY <2>4 DEF Pool!Finish, Fifo, Active, Done, Closed
  <2>5. Closes => Pool!Close
    BY DEF Pool!Close, Fifo, Active, Done, Closed
  <2> HIDE DEF Unchanged, Accepts, Starts, Finishes, Closes
  <2>6. (\E t \in Tasks : Accepts(t)) => Pool!Next
    BY <2>2 DEF Pool!Next
  <2>7. (\E t \in Active : Finishes(t)) => Pool!Next
    BY <2>4 DEF Pool!Next, Active
  <2>8. Starts \/ Closes \/ scrambled' => Pool!Next
    BY <2>3, <2>5 DEF Pool!Next
  <2> QED BY <2>1, <2>6, <2>7, <2>8
<1> SUFFICES ASSUME ~scrambled'
             PROVE  \/ Unchanged \/ (\E t \in Tasks : Accepts(t)) \/ Starts
                    \/ (\E t \in Active : Finishes(t)) \/ Closes
  BY <1>1
<1>2. scrambled = FALSE /\ scrambled' = FALSE
  <2>1. scrambled \in BOOLEAN /\ scrambled' \in BOOLEAN
    BY DEF TypeOK
  <2>2. ~scrambled
    <3>1. CASE \E c \in Clients : Submit(c)
      BY <3>1, SubmitAccepts
    <3>2. CASE \E w \in Workers : TakesPart(w)
      BY <3>2 DEF TakesPart, WorkerTake, TakeSlot, WorkerCall, WorkerReturn, history
    <3>3. CASE Quiet
      BY <3>3 DEF Quiet
    <3> QED BY <3>1, <3>2, <3>3, OthersAreQuiet
  <2> QED BY <2>1, <2>2
<1>3. Fifo \in Seq(Tasks) /\ Len(Fifo) = qsize /\ qsize \in Nat
  <2>1. qsize \in Nat /\ Fifo \in [1..qsize -> Tasks]
    <3>1. QueuedOnce /\ qsize \in Nat
      BY <1>2 DEF TypeOK, OnceInv
    <3>2. \A k \in 1..qsize : Fifo[k] \in Tasks
      BY <3>1 DEF QueuedOnce
    <3>3. Fifo = [k \in 1..qsize |-> Fifo[k]]
      BY DEF Fifo
    <3> HIDE DEF Fifo
    <3> QED BY <3>1, <3>2, <3>3
  <2> HIDE DEF Fifo
  <2> QED BY <2>1, IsSequence
<1>4. Fifo' \in Seq(Tasks) /\ Len(Fifo') = qsize'
  <2>1. qsize' \in Nat /\ Fifo' \in [1..qsize' -> Tasks]
    <3>1. QueuedOnce' /\ qsize' \in Nat
      BY <1>2 DEF TypeOK, OnceInv
    <3>2. \A k \in 1..qsize' : Fifo'[k] \in Tasks
      BY <3>1 DEF QueuedOnce
    <3>3. Fifo' = [k \in 1..qsize' |-> Fifo'[k]]
      BY DEF Fifo
    <3> QED BY <3>1, <3>2, <3>3
  <2> QED BY <2>1, IsSequence
<1>5. ASSUME NEW w \in Workers, WorkerTake(w) PROVE Starts
  <2>1. /\ qsize' = qsize - 1 /\ w \notin Busy
        /\ \A k \in 1..(qsize - 1) : Fifo'[k] = Fifo[k + 1]
        /\ Active' = Active \cup {Fifo[1]} /\ Done' = Done
    BY <1>2, <1>5, TakeStarts
  <2>2. Fifo # << >> /\ Fifo' = Tail(Fifo) /\ Head(Fifo) = Fifo[1]
    <3>1. Len(Fifo') + 1 = Len(Fifo)
      BY <1>3, <1>4, <2>1
    <3>2. \A k \in 1..Len(Fifo') : Fifo'[k] = Fifo[k + 1]
      BY <1>4, <2>1
    <3> QED BY <1>3, <1>4, <3>1, <3>2, IsTail
  <2>3. Cardinality(Active) < ThreadCount
    BY <2>1, FewerThanWorkers
  <2>4. Closed' = Closed
    BY <1>5, SameCloser DEF TakesPart
  <2> QED BY <1>2, <2>1, <2>2, <2>3, <2>4
<1>6. ASSUME NEW w \in Workers, WorkerCall(w) PROVE Unchanged
  BY <1>2, <1>6, CallKeeps, SameCloser DEF TakesPart
<1>7. ASSUME NEW w \in Workers, WorkerReturn(w) PROVE \E t \in Active : Finishes(t)
  BY <1>2, <1>7, ReturnFinishes, SameCloser DEF TakesPart
<1>8. ASSUME NEW c \in Clients, Submit(c) PROVE \E t \in Tasks : Accepts(t)
  <2> DEFINE t == Fifo'[qsize + 1]
  <2>1. /\ qsize' = qsize + 1 /\ \A k \in 1..qsize : Fifo'[k] = Fifo[k]
        /\ t \in Tasks \ Accepted /\ Active' = Active /\ Done' = Done
    BY <1>8, SubmitAccepts
  <2>2. Fifo' = Append(Fifo, t)
    BY <1>3, <1>4, <2>1, IsAppended
  <2>3. t \notin {Fifo[k] : k \in 1..Len(Fifo)} \cup Active \cup Done
    BY <1>3, <2>1 DEF Accepted, Done
  <2>4. Closed' = Closed /\ ~Closed
    BY <1>8, SameCloser
  <2> QED BY <1>2, <2>1, <2>2, <2>3, <2>4
<1>9. CASE Quiet
  <2>1. Fifo' = Fifo /\ Active' = Active /\ Done' = Done
    BY <1>9, QuietKeeps
  <2>2. CASE Closed' = Closed
    BY <1>2, <2>1, <2>2
  <2>3. CASE Closed' # Closed
    <3>1. Running /\ DestroyReturns
      BY <2>3, ClosedBy
    <3>2. pc'[Main] = "ended" /\ i' = ThreadCount /\ pc[Main] = "join"
      BY <3>1, NamesAssumption DEF DestroyReturns, TypeOK, Threads
    <3>3. qsize' = 0 /\ \A w \in Workers : pc'[w] = "exited"
      BY <3>2 DEF DestroyDrains
    <3>4. Fifo = << >>
      BY <1>4, <2>1, <3>3, EmptySeq
    <3>5. Active' = {}
      BY <3>3 DEF Active, Busy
    <3>6. Closed' = TRUE
      BY <2>3, <3>2 DEF Closed
    <3> QED BY <1>2, <2>1, <3>4, <3>5, <3>6
  <2> QED BY <2>2, <2>3
<1> QED BY <1>5, <1>6, <1>7, <1>8, <1>9, OthersAreQuiet DEF TakesPart

\* Tasks start in the order of their submission, each once and at most one per worker,
\* and ps_destroy returns only when all have finished: the pool is a TaskPool until its
\* ring is scrambled.  (paralel_scheduler.c:15-26, 75-99)
THEOREM PoolKeepsItsPromise == Spec => PoolPromise
<1>1. Init => Pool!Init
  <2> SUFFICES ASSUME Init PROVE Pool!Init
    OBVIOUS
  <2>1. /\ qsize = 0 /\ scrambled = FALSE /\ \A t \in Tasks : runs[t] = 0
        /\ pc[Main] = "create" /\ \A w \in Workers : pc[w] = "new"
    BY NamesAssumption DEF Init, Clients, Threads
  <2>2. Active = {} /\ Done = {} /\ Closed = FALSE
    BY <2>1 DEF Active, Busy, Done, Closed
  <2>3. Fifo = << >>
    <3>1. Fifo \in [1..0 -> Tasks]
      BY <2>1 DEF Fifo
    <3>2. Fifo \in Seq(Tasks) /\ Len(Fifo) = 0
      BY <3>1, IsSequence
    <3> QED BY <3>2, EmptySeq
  <2> QED BY <2>1, <2>2, <2>3 DEF Pool!Init, Fifo, Active, Done, Closed
<1>2. TypeOK /\ ShutdownInv /\ OnceInv /\ TypeOK' /\ OnceInv' /\ DestroyDrains' /\ [Next]_vars
        => [Pool!Next]_(Pool!poolVars)
  BY StepRefines
<1> QED
  BY <1>1, <1>2, TypeCorrect, ShutdownInvariant, OnceInvariant, DestroyDrainsEverything, PTL
  DEF Spec, PoolPromise, Pool!Spec
=============================================================================
