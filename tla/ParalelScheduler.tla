-------------------------- MODULE ParalelScheduler --------------------------
(***************************************************************************)
(* The thread pool of th-2/paralelScheduler: ps_init creates the worker    *)
(* threads, ps_submit appends a task to a ring buffer that doubles when it *)
(* is full, worker takes tasks from the front, ps_destroy stops the        *)
(* workers, joins them and frees the pool.  The ring and the stop flag are *)
(* protected by one mutex; idle workers wait on one condition variable.    *)
(*                                                                         *)
(* One action is one step of one thread between two points at which        *)
(* another thread can interfere: taking the mutex, the critical section up *)
(* to its release, a call of a task, one turn of a loop of ps_init or      *)
(* ps_destroy.  pthread_cond_wait releases the mutex and starts waiting in *)
(* one step; a signalled worker competes for the mutex again and repeats   *)
(* the loop test.                                                          *)
(*                                                                         *)
(* The code leaves undefined what it reads from the block that realloc has *)
(* released, from memory it never wrote, and from the handle of a thread   *)
(* that was never created.  Those reads are nondeterministic choices here; *)
(* a call or a join through such a value ends the process (fault).         *)
(***************************************************************************)
EXTENDS Integers, Sequences, FiniteSets

CONSTANTS
  ThreadCount,    \* thread_count given to ps_init
  QueueCapacity,  \* queue_capacity given to ps_init
  Submitters,     \* client threads that call ps_submit
  Main,           \* the thread that calls ps_init and ps_destroy
  Tasks,          \* the submissions; one task is submitted once
  FirstTasks,     \* FirstTasks[s]: what client s submits
  Spawns,         \* Spawns[t]: what task t submits while a worker runs it
  Junk,           \* a word of memory that holds no submitted task
  Nobody,         \* the owner of a free mutex
  Faults,         \* calls that may fail: "malloc", "create", "realloc"
  MaxSpurious     \* bound: spurious wake-ups in one behaviour

Workers == 0..(ThreadCount - 1)
Clients == Workers \cup Submitters   \* every thread that may call ps_submit
Threads == Clients \cup {Main}
Words == Tasks \cup {Junk}

ASSUME SizesAssumption ==
  /\ ThreadCount \in Nat \ {0}
  /\ QueueCapacity \in Nat \ {0}
  /\ MaxSpurious \in Nat

ASSUME NamesAssumption ==
  /\ Main \notin Clients
  /\ Submitters \cap Workers = {}
  /\ Nobody \notin Threads
  /\ Junk \notin Tasks

ASSUME WorkAssumption ==
  /\ FirstTasks \in [Submitters -> SUBSET Tasks]
  /\ Spawns \in [Tasks -> SUBSET Tasks]

\* A task stands for one call of ps_submit: it has one caller, a client or a task.
ASSUME OnceAssumption ==
  /\ \A s, r \in Submitters : s # r => FirstTasks[s] \cap FirstTasks[r] = {}
  /\ \A t, u \in Tasks : t # u => Spawns[t] \cap Spawns[u] = {}
  /\ \A s \in Submitters : \A t \in Tasks : FirstTasks[s] \cap Spawns[t] = {}

VARIABLES
  queue, qsize, qcap, qfront, stop,  \* the fields of paralel_scheduler
  mutex,      \* the thread that holds p->lock, or Nobody
  pc,         \* where each thread is
  todo,       \* todo[c]: the tasks that thread c still has to submit
  cur,        \* cur[w]: the local t of worker w, Junk when it has none
  i,          \* the loop counter of ps_init, then of ps_destroy
  failed,     \* ps_init could not create a thread
  runs,       \* history: how often each task was called
  scrambled,  \* history: the ring grew while qfront > 0
  fault,      \* "none", or the undefined step that ended the process
  spurious    \* how many spurious wake-ups there were

ring == <<queue, qsize, qcap, qfront>>
history == <<runs, scrambled, fault>>
vars == <<ring, stop, mutex, pc, todo, cur, i, failed, history, spurious>>

Waiting == {w \in Workers : pc[w] = "waiting"}

Init ==
  /\ queue = [k \in 0..(QueueCapacity - 1) |-> Junk]
  /\ qsize = 0
  /\ qcap = QueueCapacity
  /\ qfront = 0
  /\ stop = FALSE
  /\ mutex = Nobody
  /\ pc = [th \in Threads |-> IF th = Main THEN "create" ELSE "new"]
  /\ todo = [c \in Clients |-> IF c \in Submitters THEN FirstTasks[c] ELSE {}]
  /\ cur = [w \in Workers |-> Junk]
  /\ i = 0
  /\ failed = FALSE
  /\ runs = [t \in Tasks |-> 0]
  /\ scrambled = FALSE
  /\ fault = "none"
  /\ spurious = 0

-----------------------------------------------------------------------------
\* The mutex.

Acquire(th, from, to) ==
  /\ pc[th] = from
  /\ mutex = Nobody
  /\ mutex' = th
  /\ pc' = [pc EXCEPT ![th] = to]
  /\ UNCHANGED <<ring, stop, todo, cur, i, failed, history, spurious>>

-----------------------------------------------------------------------------
\* worker

WorkerLock(w) == Acquire(w, "lock", "test")

\* while (p->qsize == 0 && !p->stop) pthread_cond_wait(&p->cond, &p->lock)
WorkerWait(w) ==
  /\ pc[w] = "test"
  /\ qsize = 0
  /\ ~stop
  /\ mutex' = Nobody
  /\ pc' = [pc EXCEPT ![w] = "waiting"]
  /\ UNCHANGED <<ring, stop, todo, cur, i, failed, history, spurious>>

\* Mutant of WorkerExit: the stop flag alone ends a worker.
ExitOnStop(w) ==
  /\ pc[w] = "test"
  /\ stop
  /\ mutex' = Nobody
  /\ pc' = [pc EXCEPT ![w] = "exited"]
  /\ UNCHANGED <<ring, stop, todo, cur, i, failed, history, spurious>>

WorkerExit(w) ==
  /\ pc[w] = "test"
  /\ stop
  /\ qsize = 0
  /\ mutex' = Nobody
  /\ pc' = [pc EXCEPT ![w] = "exited"]
  /\ UNCHANGED <<ring, stop, todo, cur, i, failed, history, spurious>>

TakeSlot(w, k) ==
  /\ mutex' = Nobody
  /\ pc' = [pc EXCEPT ![w] = "call"]
  /\ cur' = [cur EXCEPT ![w] = queue[k]]
  /\ qsize' = qsize - 1
  /\ UNCHANGED <<queue, qcap, stop, todo, i, failed, history, spurious>>

\* Mutant of WorkerTake: qfront is not taken modulo the capacity.
TakeUnwrapped(w) ==
  /\ pc[w] = "test"
  /\ qsize > 0
  /\ qfront' = qfront + 1
  /\ TakeSlot(w, qfront)

\* Mutant of WorkerTake: the last task is taken, as from a stack.
TakeNewest(w) ==
  /\ pc[w] = "test"
  /\ qsize > 0
  /\ qfront' = qfront
  /\ TakeSlot(w, (qfront + qsize - 1) % qcap)

\* Mutant of WorkerTake: "if" in place of "while" around the wait.
TakeUntested(w) ==
  /\ pc[w] = "test"
  /\ qsize > 0 \/ spurious > 0
  /\ qfront' = (qfront + 1) % qcap
  /\ TakeSlot(w, qfront)

\* t = p->queue[p->qfront]; advance qfront; qsize--; unlock
WorkerTake(w) ==
  /\ pc[w] = "test"
  /\ qsize > 0
  /\ qfront' = (qfront + 1) % qcap
  /\ TakeSlot(w, qfront)

\* t(): the task begins; from here on it may call ps_submit itself.
WorkerCall(w) ==
  /\ pc[w] = "call"
  /\ cur[w] # Junk
  /\ runs' = [runs EXCEPT ![cur[w]] = @ + 1]
  /\ todo' = [todo EXCEPT ![w] = Spawns[cur[w]]]
  /\ pc' = [pc EXCEPT ![w] = "task"]
  /\ UNCHANGED <<ring, stop, mutex, cur, i, failed, scrambled, fault, spurious>>

\* t() through a word that is no task: the process does not survive it.
WorkerCallJunk(w) ==
  /\ pc[w] = "call"
  /\ cur[w] = Junk
  /\ fault' = "wildCall"
  /\ UNCHANGED <<ring, stop, mutex, pc, todo, cur, i, failed, runs, scrambled, spurious>>

\* t() returns and the worker goes round its loop.
WorkerReturn(w) ==
  /\ pc[w] = "task"
  /\ todo[w] = {}
  /\ cur' = [cur EXCEPT ![w] = Junk]
  /\ pc' = [pc EXCEPT ![w] = "lock"]
  /\ UNCHANGED <<ring, stop, mutex, todo, i, failed, history, spurious>>

\* pthread_cond_wait may return without a signal.
SpuriousWakeup(w) ==
  /\ pc[w] = "waiting"
  /\ spurious < MaxSpurious
  /\ spurious' = spurious + 1
  /\ pc' = [pc EXCEPT ![w] = "lock"]
  /\ UNCHANGED <<ring, stop, mutex, todo, cur, i, failed, history>>

-----------------------------------------------------------------------------
\* ps_submit

SubmitLock(c) == todo[c] # {} /\ Acquire(c, "task", "submit")

\* The caller unlocks without having woken anybody.
UnlockOnly(c) == pc' = [pc EXCEPT ![c] = "task"]

\* Mutant of SignalAndUnlock: the signal is sent only for an empty queue.
SignalFromEmpty(c) ==
  IF Waiting = {} \/ qsize > 0
  THEN UnlockOnly(c)
  ELSE \E w \in Waiting : pc' = [pc EXCEPT ![c] = "task", ![w] = "lock"]

\* pthread_cond_signal wakes one waiter, if there is one; then unlock.
SignalAndUnlock(c) ==
  IF Waiting = {}
  THEN UnlockOnly(c)
  ELSE \E w \in Waiting : pc' = [pc EXCEPT ![c] = "task", ![w] = "lock"]

\* pos = (qfront + qsize) % qcap; queue[pos] = t; qsize++
Store(block, cap, front, t) ==
  /\ queue' = [block EXCEPT ![(front + qsize) % cap] = t]
  /\ qcap' = cap
  /\ qfront' = front
  /\ qsize' = qsize + 1

\* The slot of the old ring that turn k of the copy loop reads.
Source(k) == (qfront + k) % qcap

\* The copy loop when realloc extended the block in place: new_queue and
\* p->queue are one array, so a turn may read a slot an earlier turn wrote.
CopiesInPlace ==
  {c \in [0..(qcap - 1) -> Words] :
     \A k \in 0..(qcap - 1) :
       c[k] = IF Source(k) < k THEN c[Source(k)] ELSE queue[Source(k)]}

\* The copy loop when realloc moved the block: p->queue has been released, and
\* the allocator or another thread may have overwritten any of its slots.
CopiesFromReleased ==
  {[k \in 0..(qcap - 1) |-> IF Source(k) \in S THEN Junk ELSE queue[Source(k)]] :
     S \in SUBSET (0..(qcap - 1))}

\* What the first qcap slots hold after growing.
Copies == IF qfront = 0 THEN {queue} ELSE CopiesInPlace \cup CopiesFromReleased

Doubled(c) == [k \in 0..(2 * qcap - 1) |-> IF k < qcap THEN c[k] ELSE Junk]

SubmitStore(t) ==
  \/ /\ qsize < qcap
     /\ Store(queue, qcap, qfront, t)
     /\ UNCHANGED scrambled
  \/ /\ qsize = qcap
     /\ \E c \in Copies : Store(Doubled(c), 2 * qcap, 0, t)
     /\ scrambled' = (scrambled \/ qfront > 0)

\* The critical section of ps_submit.
Submit(c) ==
  /\ pc[c] = "submit"
  /\ mutex' = Nobody
  /\ \E t \in todo[c] :
       /\ todo' = [todo EXCEPT ![c] = @ \ {t}]
       /\ SubmitStore(t)
       /\ SignalAndUnlock(c)
  /\ UNCHANGED <<stop, cur, i, failed, runs, fault, spurious>>

\* realloc returns NULL: the task is dropped and the caller is not told.
SubmitDropped(c) ==
  /\ "realloc" \in Faults
  /\ pc[c] = "submit"
  /\ qsize = qcap
  /\ mutex' = Nobody
  /\ \E t \in todo[c] : todo' = [todo EXCEPT ![c] = @ \ {t}]
  /\ UnlockOnly(c)
  /\ UNCHANGED <<ring, stop, cur, i, failed, history, spurious>>

-----------------------------------------------------------------------------
\* ps_init, called by Main

\* One of the two mallocs fails: ps_init returns -1, nothing was created.
InitNoMemory ==
  /\ "malloc" \in Faults
  /\ pc[Main] = "create"
  /\ i = 0
  /\ failed' = TRUE
  /\ pc' = [pc EXCEPT ![Main] = "ended"]
  /\ UNCHANGED <<ring, stop, mutex, todo, cur, i, history, spurious>>

CreateWorker ==
  /\ pc[Main] = "create"
  /\ i < ThreadCount
  /\ pc' = [pc EXCEPT ![i] = "lock"]
  /\ i' = i + 1
  /\ UNCHANGED <<ring, stop, mutex, todo, cur, failed, history, spurious>>

\* pthread_create fails: ps_init calls ps_destroy and returns -1.
CreateFails ==
  /\ "create" \in Faults
  /\ pc[Main] = "create"
  /\ i < ThreadCount
  /\ failed' = TRUE
  /\ pc' = [pc EXCEPT ![Main] = "destroy"]
  /\ UNCHANGED <<ring, stop, mutex, todo, cur, i, history, spurious>>

\* ps_init returns 0: the clients may start to submit.
InitReturns ==
  /\ pc[Main] = "create"
  /\ i = ThreadCount
  /\ pc' = [th \in Threads |-> IF th \in Submitters THEN "task"
                               ELSE IF th = Main THEN "serve" ELSE pc[th]]
  /\ UNCHANGED <<ring, stop, mutex, todo, cur, i, failed, history, spurious>>

-----------------------------------------------------------------------------
\* ps_destroy, called by Main

\* The owner destroys the pool after the clients' last ps_submit has returned.
CallDestroy ==
  /\ pc[Main] = "serve"
  /\ \A s \in Submitters : pc[s] = "task" /\ todo[s] = {}
  /\ pc' = [pc EXCEPT ![Main] = "destroy"]
  /\ UNCHANGED <<ring, stop, mutex, todo, cur, i, failed, history, spurious>>

DestroyLock == Acquire(Main, "destroy", "stopping")

\* Mutant of StopAndBroadcast: a signal in place of the broadcast.
StopAndSignal ==
  /\ pc[Main] = "stopping"
  /\ stop' = TRUE
  /\ \/ Waiting = {} /\ pc' = [pc EXCEPT ![Main] = "join"]
     \/ \E w \in Waiting : pc' = [pc EXCEPT ![Main] = "join", ![w] = "lock"]
  /\ mutex' = Nobody
  /\ i' = 0
  /\ UNCHANGED <<ring, todo, cur, failed, history, spurious>>

\* stop = 1; pthread_cond_broadcast; unlock
StopAndBroadcast ==
  /\ pc[Main] = "stopping"
  /\ stop' = TRUE
  /\ pc' = [th \in Threads |-> IF th = Main THEN "join"
                               ELSE IF th \in Waiting THEN "lock" ELSE pc[th]]
  /\ mutex' = Nobody
  /\ i' = 0
  /\ UNCHANGED <<ring, todo, cur, failed, history, spurious>>

\* pthread_join(p->threads[i], NULL) returns when worker i has returned.
Join ==
  /\ pc[Main] = "join"
  /\ i < ThreadCount
  /\ pc[i] = "exited"
  /\ i' = i + 1
  /\ UNCHANGED <<ring, stop, mutex, pc, todo, cur, failed, history, spurious>>

\* After a failed ps_init the loop also joins handles nobody filled in.
JoinJunk ==
  /\ pc[Main] = "join"
  /\ i < ThreadCount
  /\ pc[i] = "new"
  /\ fault' = "wildJoin"
  /\ UNCHANGED <<ring, stop, mutex, pc, todo, cur, i, failed, runs, scrambled, spurious>>

\* Destroy the mutex and the condition variable, free both arrays, return.
DestroyReturns ==
  /\ pc[Main] = "join"
  /\ i = ThreadCount
  /\ pc' = [pc EXCEPT ![Main] = "ended"]
  /\ UNCHANGED <<ring, stop, mutex, todo, cur, i, failed, history, spurious>>

-----------------------------------------------------------------------------
WorkerStep(w) ==
  \/ WorkerLock(w) \/ WorkerWait(w) \/ WorkerExit(w) \/ WorkerTake(w)
  \/ WorkerCall(w) \/ WorkerCallJunk(w) \/ WorkerReturn(w)

SubmitStep(c) == SubmitLock(c) \/ Submit(c) \/ SubmitDropped(c)

InitStep == InitNoMemory \/ CreateWorker \/ CreateFails \/ InitReturns

DestroyStep ==
  DestroyLock \/ StopAndBroadcast \/ Join \/ JoinJunk \/ DestroyReturns

Running == fault = "none" /\ pc[Main] # "ended"

\* The process is gone: it ended, or it hit an undefined step.
Terminated == ~Running /\ UNCHANGED vars

Next ==
  \/ /\ Running
     /\ \/ \E w \in Workers : WorkerStep(w) \/ SpuriousWakeup(w)
        \/ \E c \in Clients : SubmitStep(c)
        \/ InitStep \/ CallDestroy \/ DestroyStep
  \/ Terminated

Spec == Init /\ [][Next]_vars

\* Every thread is scheduled whenever it can take a step of the library; tasks
\* return.  Nothing is assumed about who gets a contended mutex, and the owner
\* need not ever call ps_destroy.
Fairness ==
  /\ \A w \in Workers : WF_vars(Running /\ (WorkerStep(w) \/ SubmitStep(w)))
  /\ \A s \in Submitters : WF_vars(Running /\ SubmitStep(s))
  /\ WF_vars(Running /\ (InitStep \/ DestroyStep))

FairSpec == Spec /\ Fairness
-----------------------------------------------------------------------------
\* Properties.

PCs == {"new", "lock", "test", "waiting", "call", "task", "submit", "exited",
        "create", "serve", "destroy", "stopping", "join", "ended"}

\* The fields hold what their C types and the ring discipline allow.
TypeOK ==
  /\ qcap \in Nat \ {0}
  /\ queue \in [0..(qcap - 1) -> Words]
  /\ qsize \in 0..qcap
  /\ qfront \in 0..(qcap - 1)
  /\ stop \in BOOLEAN
  /\ mutex \in Threads \cup {Nobody}
  /\ pc \in [Threads -> PCs]
  /\ todo \in [Clients -> SUBSET Tasks]
  /\ cur \in [Workers -> Words]
  /\ i \in 0..ThreadCount
  /\ failed \in BOOLEAN
  /\ runs \in [Tasks -> Nat]
  /\ scrambled \in BOOLEAN
  /\ fault \in {"none", "wildCall", "wildJoin"}
  /\ spurious \in Nat

\* Workers that are on their way to look at the queue.
Heading == {w \in Workers : pc[w] \in {"lock", "test"}}

\* No wake-up is lost and none is owed: while any worker sleeps, each queued
\* task has a worker of its own that is awake and about to test the queue.
\* (one pthread_cond_signal per ps_submit, paralel_scheduler.c:82)
WorkConserving == Waiting # {} => qsize <= Cardinality(Heading)

\* ps_destroy frees the ring only when every worker has returned, nothing is
\* queued and nobody holds the mutex, even if tasks submitted more tasks after
\* the stop flag was set.  (paralel_scheduler.c:15, 92-99)
DestroyDrains ==
  pc[Main] = "ended" /\ i = ThreadCount =>
    /\ \A w \in Workers : pc[w] = "exited"
    /\ qsize = 0
    /\ mutex = Nobody

\* The process runs into undefined behaviour in two ways only: a task word lost
\* when a ring with qfront > 0 grew, and a join after pthread_create failed.  No
\* interleaving of workers and clients takes a slot that was never written.
UndefinedOnlyWhere ==
  /\ fault = "wildCall" => scrambled
  /\ fault = "wildJoin" => failed

\* Once ps_destroy has been called it returns (or the process is gone).
ShutdownCompletes == pc[Main] = "destroy" ~> ~Running

InRing(t) == \E k \in 0..(qsize - 1) : queue[(qfront + k) % qcap] = t

\* A queued task is called, whatever the other threads do, unless the ring
\* was scrambled or the process ended by undefined behaviour.
QueuedTaskRuns ==
  \A t \in Tasks :
    InRing(t) ~> (runs[t] > 0 \/ scrambled \/ fault # "none")

\* The whole pool against what it promises; a scrambled ring voids the promise.
Busy == {w \in Workers : pc[w] \in {"call", "task", "submit"}}

Pool == INSTANCE TaskPool WITH
  Width  <- ThreadCount,
  fifo   <- [k \in 1..qsize |-> queue[(qfront + k - 1) % qcap]],
  active <- {cur[w] : w \in Busy},
  done   <- {t \in Tasks : runs[t] > 0} \ {cur[w] : w \in Busy},
  closed <- pc[Main] = "ended" /\ ~failed,
  broken <- scrambled

\* Tasks start in the order of their submission, each once, and ps_destroy
\* returns only when all of them have finished.
PoolPromise == Pool!Spec

\* When main has seen ps_destroy return, every task it submitted has completed
\* exactly once.  (main.c:48 reports "All tasks completed.")
AllTasksCompleted ==
  pc[Main] = "ended" /\ ~failed => \A t \in Tasks : runs[t] = 1
=============================================================================
