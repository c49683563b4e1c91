# A TLA+ verification of linux_homeworks

The repository is a collection of small, independent Linux programs in C and C++: system calls,
processes, signals, pipes, shared memory, sockets and threads. There is no library they share. Some of
them are exercises of a page, straight-line code around a few system calls. Ten are programs with a logic
of their own: threads or processes that share something, or a loop over system calls that may do less than
they were asked. Those are what this project is about. Everything below says where the code is,
what state it keeps, what can go wrong, which module models it and what the checks and the proofs show.

Contents: [1 Inventory](#1-inventory) · [2 Plan](#2-plan) · [3 Modules](#3-modules-and-how-they-correspond-to-the-code) ·
[4 Runs](#4-runs-bounds-and-what-they-show) · [5 Fairness](#5-fairness) · [6 Proofs](#6-proofs) ·
[7 What is not modelled](#7-what-is-not-modelled) · [8 Running it](#8-running-it)

## 1 Inventory

### 1.1 Thread pool — `th-2/paralelScheduler`

*State.* `paralel_scheduler`: the ring `queue`, `qsize`, `qcap`, `qfront`, the flag `stop`, the array of
threads; one mutex and one condition variable.
*Operations.* `ps_init` creates the workers; `ps_submit` appends a task, doubles a full ring, and signals;
`worker` waits, takes the front, unlocks, calls the task; `ps_destroy` sets `stop`, broadcasts, joins, frees.
*Interaction.* Any client thread submits; a task may submit tasks itself, because it runs without the mutex.
*Hard.* Lost or owed wake-ups, wake-ups without a signal, the drain of the queue at shutdown while running
tasks submit more, the growth of a ring that has wrapped, calls that fail half way.
*Correct when* tasks start in the order of their submission, each once; no queued task waits while all idle
workers sleep; `ps_destroy` returns, and returns only when nothing is left.

### 1.2 Chat — `ipc-4`

*State of the server.* The table `clients[MAX_CLIENTS]` of (active, sockfd, name) under `clients_mutex`; the
static buffer in `get_client_name`; per connection one thread with its local buffers.
*State of the client.* `sockfd` and the flag `running`, shared without a lock by the main thread and
`receive_handler`.
*Operations.* accept; receive the name; `add_client`; the command loop (`/exit`, `/list`, a text);
`broadcast_message` (sends to every slot with the mutex held); `remove_client`; close. In the client: send a
line, receive and print, close and join.
*Interaction.* TCP streams. `client.c` ends a line with a newline but not a name, and the server takes what one
`recv` returns, up to the first newline in it, for one name or line.
*Hard.* Two handlers in `get_client_name` at the same time; several lines in one `recv`; descriptor numbers
that are reused; a client that does not read, or is gone, while the server sends to it under the mutex; a
client that closes its socket while its other thread is blocked in `recv`.
*Correct when* the table lists exactly the connections in their command loop, every client in the table
hears every broadcast in one order, texts carry the name of their author, slots come back, clients end.

### 1.3 Shared array — `ipc-3`

*State.* A control object in shared memory (three sizes and a process-shared mutex) and one object per chunk;
per process the mappings. The objects outlive the processes.
*Operations.* The constructor creates the control object with `O_EXCL` or opens the one there is; `operator[]`
maps a chunk on first use, creating it if need be; `lock`, `unlock`. `first.cpp` writes, `second.cpp` reads,
both for ever; only a signal or an exception ends them.
*Hard.* Construction in many system calls, with another process in between; a creator that fails and unlinks
the name; processes that are killed, with or without the lock, and started again; the arithmetic of chunks.
*Correct when* the critical sections exclude each other, a reader sees what one turn of the writer has left,
no element lies outside of what is mapped.

### 1.4 Parallel sum — `th_1/computesum.c`

*State.* The array, one `args` record per thread, no lock. *Operations.* Fill in parallel, join, sum in
parallel, join and add up. *Hard.* The remainder of the division; reading before filling has ended; the
fallback when a thread cannot be created. *Correct when* the total is the sum of the array.

### 1.5 Shell — `ps_2`

*State.* The tokens of the line, the commands collected so far, the pipe ends, the children.
*Operations.* The walk over the tokens with `&&`, `||`, `|`, `&` and redirections; `executeProcess`
(fork, exec, waitpid unless in the background); `executePipeline` (pipes, forks, closes, one `wait` per stage).
*Hard.* Pipe ends that somebody still holds; `wait`, which returns any child, with background children around;
`fork` or `pipe` failing in the middle. *Correct when* the prompt always comes back, no stage misses its input
or its reader, and a pipeline returns when its stages have ended.

### 1.6 External sort — `bonusTask/external_sort.cpp`

*State.* The lines collected up to the memory limit; the temporary files, which are the sorted runs; for
each open run what was read ahead and not yet used; a heap with at most one line of each run.
*Operations.* Read the input in blocks and cut it into lines; sort and write a run when the next line would
exceed the limit; copy a single run; merge several.
*Hard.* Lines that straddle blocks, the last line without a newline, runs of different lengths, and calls whose
failure nobody looks at. *Correct when* the output has the lines of the input, in order, each as often.

### 1.7 Copy with holes — `fs_10/copyWithHoles.cpp`

*State.* Offsets in two files, the size looked up at the beginning, the number of bytes copied.
*Operations.* `SEEK_DATA`, `SEEK_HOLE`, copy the data in blocks, `ftruncate` at the end.
*Hard.* Holes at either end, short reads, a source that another process writes to or truncates meanwhile, a
destination that is the source. *Correct when* bytes, size and holes are those of the source, and the report
is true of the copy.

### 1.8 Prime service — `IPC-2`

*State.* Two processes, two pipes, four ends of which each process inherits all; the sieve of the child.
*Operations.* The parent sends a number and waits for the answer; the child looks it up; both close and end on
`0`, end of file or a signal. *Hard.* Ends left open, SIGPIPE, signals at any moment, an answer that belongs to
an earlier number. *Correct when* each answer belongs to its number and nobody waits for ever.

### 1.9 HTTP client — `bonus_http4ever`

*State.* The list of addresses, how much was sent, received and written. *Operations.* Connect to the first
address that answers, send the request, save the answer, look for the status line. *Hard.* `send`, `recv` and
`write` that do a part of what they were asked; every exit has a code of its own. *Correct when* the file is
the answer.

### 1.10 The rest

`env_2/complexAndSorting` has a merge sort template and complex numbers. `fs_1`, `fs_4`, `fs_5`, `ps_1`, `ipc-1`,
`env_1` and `env_1.2` are a few system calls or statements each; `fs_2` and `fs_3` do not compile. `PROJECT.json`
lists every one with the reason.

## 2 Plan

Order, most important first. All modules of the plan are written; theorems that are proved have a tick.

| # | modules | abstract specification or composition | theorems |
|---|---------|----------------------------------------|----------|
| 1 | `ParalelScheduler` | implements `TaskPool` | ✓ types, drain, where undefined behaviour can come from, `WorkConserving`, the refinement `PoolPromise` |
| 2 | `ChatNet`, `ChatServer`, `ChatRoom` | server among arbitrary clients | ✓ types, `TableIsCurrent`, `HeardEverything` |
| 3 | `ChatClient`, `Chat` | implements `ChatRoom` (`ClientsFitRoom`) | ✓ types, the refinement `ClientsFitRoom`, `RoomHolds` |
| 4 | `ChunkMath`, `SharedArray` | | ✓ exclusion, no leaked lock, chunk arithmetic, types, `AccessInside`, `ChunkWhole`, `Consistent` |
| 5 | `ComputeSum` | | ✓ types, `ChunksApart`, `ReadsFilled`, `TotalIsSum` |
| 6 | `InteractiveShell` | | ✓ types, `NoEarlyEnd`, `StagesEnded` |
| 7 | `ExternalSort` | the output against a sorted permutation of the input (`IsResult`) | ✓ types, `OutputSorted`, `WithinMemory`, `SortedUnlessLost` |
| 8 | `CopyWithHoles` | the copy against the file it copies | ✓ types, `CopyIsExact`, `OnlyWhatWasThere`, `ReportIsTrue` |
| 9 | `PrimeService` | answers against the definition of a prime | ✓ types, `BrokenBySignalOnly`, `AnswersArePrimes` |
| 10 | `HttpForever` | the file against the answer | ✓ types, `SavedAsSent` |

Each module is written to be proved about: constants with named assumptions, one action per step, invariants
as conjunctions of named parts, no `RECURSIVE` operator. Every invariant that a passing run checks is now a
theorem; what is left of the plan is what TLAPS cannot state a proof of, the liveness properties.

## 3 Modules and how they correspond to the code

A step of a model is what one thread does between two points at which another can interfere. Data is
abstracted: a task, a name, a line is a value; a stream is a sequence of sends; printing is left out.
Definitions whose comment begins with "Mutant of" are plausible wrong versions of an action; no specification
uses them. They serve to show that each property notices a bug of that kind. (`UnlockOnly` of the pool and
`LengthFloor`, `LengthFull` of the sum serve the same purpose.)

**`TaskPool`** is the promise of the pool without threads: a queue of accepted tasks, a set of running ones,
a set of finished ones. Its variable `broken` is the point from which nothing is promised.

**`ParalelScheduler`** — `paralel_scheduler.c`. The variables are the fields of the struct, the owner of the
mutex, a place per thread, the locals `t` and `i`. A worker in `pthread_cond_wait` is at place `waiting`;
`pthread_cond_signal` moves one waiter to `lock` (it must compete for the mutex again), a broadcast all of
them. Growing is modelled by what `realloc` may do: if it extended the block in place, the copy loop reads
slots that it has overwritten (`CopiesInPlace`); if it moved the block, the loop reads memory that has been
released, so any slot may hold junk (`CopiesFromReleased`). Calling junk and joining a handle that was never
written end the process (`fault`). `runs` and `scrambled` are history variables. The ring is mapped to
`TaskPool` by `Pool`.

**`ChatNet`** is external: TCP as the two programs see it. Streams keep the order of sends and lose their
borders; a closed end answers with a reset; the next send on a reset connection raises SIGPIPE. It also says
what *any* client may do to its connection (`AnyConnect`, `AnySend`, `AnyReceive`, `AnyLeave`).

**`ChatServer`** — `server.c`. A line is a segment, and its newline is left out unless it is all there is (`Newline`): an
empty line or an empty name, at which what one `recv` returns is cut off (`FirstLine`). One action per critical
section, `recv`, `send`, and formatting step;
`broadcast_message` takes the mutex, then one step per slot, then releases it; `get_client_name` is two steps
(the copy is not atomic, and a reader without the mutex may see it half done) and formatting is a third.
Descriptors are the lowest free number, so they are reused at once.

**`ChatRoom`** composes `ChatServer` with arbitrary clients, which send anything at any time, and records which
broadcasts are owed to whom. **`ChatClient`** is `client.c`, both threads, including a `close` while the other
thread is in `recv`. **`Chat`** composes the server with it and keeps the same record. `ClientsFitRoom` is a refinement:
every behaviour of `Chat` is one of `ChatRoom!Spec`, so what is proved of `ChatRoom` holds with `client.c` in it
(`RoomHolds`). The bound on the sends of a client is in `MCChatRoom` only; it is one of exploration, as is that
nothing is explored there after the server has died.

**`ChunkMath`** is the arithmetic of `shared_array.h`, modulo `WordLimit`. **`SharedArray`** is the class with
the loops of `first.cpp` and `second.cpp`. A name leads to an object, and a new object replaces it only after an
unlink. The constructor is modelled call by call; the writes of the sizes and the reads by an opener come in
any order, because nothing orders them. The process may be killed at any place (`Crash`) and started again
(`Restart`); a mutex it held stays locked. A turn of the writer uses two elements, a turn of the reader the first ten at most (`Printed`).

**`ComputeSum`** — `computesum.c`. One step per element. The size of a chunk, the remainder and the start of a chunk are
`int` in the code, and here they wrap at `IntLimit` (`ToInt`). The properties are about arrays whose length an `int` can
hold (`CountFitsInt`), because for longer ones the code is wrong (section 6). When `pthread_create` fails, main runs the thread
function itself and reaches its `pthread_exit`.

**`InteractiveShell`** — `InteractiveShell.cpp`. `ScanToken` is one turn of the token loop; `Returns` is the
rest of the turn after a command has returned. A pipe is the sets of processes that hold its ends and one bit
for "not empty". Children inherit every end the shell holds, also those a failed pipeline has left open; `pipe`
may fail at any time. The programs in a pipeline are external: filters that pass on what they read and may end at any time.

**`ExternalSort`** — `external_sort.cpp`. A line is a letter and a length, which gives it an order, a size and
beginnings. Files are sequences of lines; where a block ends in one is counted in bytes, so `got` and `fetched` say
how far a file was read and `taken` and `drawn` how many of its lines were used. The heap is the set of runs that
have a line in it. A failing call is `Noticed` (the program throws) or `Ignored` (nobody looks at the result);
`unnoticed` is a history variable of the latter.

**`CopyWithHoles`** — `copyWithHoles.cpp`. A file is a sequence of cells, a byte or a hole. `ChangeSource` is another
process that rewrites or truncates the source; `OpenDestination` empties it when both names lead to one file;
`unreadable` cells make `read` fail. `versions` is a history variable: what the source has been.

**`PrimeService`** — `IPC-2`. `open[p]` are the ends of the pipes process `p` holds; a read ends when a pipe is empty and
nobody holds its write end, a write to a pipe nobody can read ends the process. `Signalled` may come at any time.
The sieve is a fold over the candidates, as the loop is, and so is the list of the primes it leaves.

**`HttpForever`** — `httpforever.cpp`. One action per call; each `send`, `recv` and `write` moves any number of bytes
from one up. An exit has the code of the source, or 141 for SIGPIPE.

**`MCPrograms`** puts the five programs that stand alone — `ComputeSum` and the four above — side by side: the
first state picks one of them, and the variables of the others stay at one value. They do not interact, so this is
five instances in one run, not a composition; each keeps its own module, its own constants and its own properties.

`MC*` modules hold the values for TLC, `*Proofs` modules the theorems.

## 4 Runs, bounds and what they show

Runs that pass:

| run | instance | properties |
|-----|----------|------------|
| `MCParalelScheduler` | 2 workers, 2 clients, 4 tasks, one submitted by another; ring from 1 to 4; failing `malloc`, `pthread_create`, `realloc`; one spurious wake-up | `TypeOK`, `WorkConserving`, `DestroyDrains`, `UndefinedOnlyWhere`, refinement `PoolPromise`, `ShutdownCompletes`, `QueuedTaskRuns` |
| `MCChatRoom` | 2 clients, 2 slots, 2 sends each (name or `/exit`, in any order), 2 segments per direction, up to 2 segments per `recv` | `TypeOK`, `TableIsCurrent`, `HeardEverything` |
| `MCChatSlots` | 2 clients, 1 slot, 2 sends each (name or a lone newline), 1 segment per direction | `SlotIsFreed` |
| `MCChat` | 1 client, 3 lines, 1 segment per direction | `TypeOK`, refinement `ClientsFitRoom`, `ReceiverDrains`, `ExitEnds` |
| `MCSharedArray` | 1 writer, 1 reader, 3 elements in 2 chunks, 2 turns of the writer, 1 failing call, 2 kills, 2 restarts | `TypeOK`, `Exclusive`, `NotLeaked`, `Consistent`, `ChunkWhole`, `AccessInside` |
| `MCPrograms`, the sum | 1 to 5 elements, 1 to 3 threads, an `int` that holds 0 to 4, failing `pthread_create` | `TotalIsSum`, `ChunksApart`, `ReadsFilled` |
| the copy | files of up to 4 cells, a buffer of 2, one change of the source to one of 4 contents | `CopyIsExact`, `ReportIsTrue`, `OnlyWhatWasThere` |
| the external sort | files of up to 4 lines, with and without a newline at the end; memory for 5 bytes, blocks of 3, one failing call | `OutputSorted`, `WithinMemory`, `SortedUnlessLost` |
| the HTTP client | up to 2 addresses, a request of 3 bytes, answers of up to 4, a buffer of 2 | `SavedAsSent` |
| the prime service | a sieve up to 25, the numbers -1, 1, 9 and 10, two of them asked, signals | `AnswersArePrimes`, `BrokenBySignalOnly`, `NobodyHangs` |
| all five | | `ProgramsTypeOK`, `ProgramsEnd` |
| `MCInteractiveShell` | 3 processes, 2 pipes; three lines: a background command, a pipeline of three, all operators | `TypeOK`, `StagesEnded`, `NoEarlyEnd`, `PromptReturns` |

Runs that find a behaviour of the code that disagrees with what the repository says of it (`findings` in
`PROJECT.json`; each in one property):

| run | property | what happens |
|-----|----------|--------------|
| `MCParalelSchedulerGrowth` | `AllTasksCompleted` | a ring that grows with its front not at slot 0 is copied from the block `realloc` has taken: a task runs twice, another never (`paralel_scheduler.c:69`) |
| `MCChatName` | `Attributed` | a text is announced under another client's name (`server.c:74`) |
| `MCChatExit` | `ExitQuits` | name and `/exit` arrive in one `recv`; the client never ends (`client.c:110`) |
| `MCSharedArrayEarly` | `LockedWhenReady` | the mutex is locked before its creator initialises it (`shared_array.h:70`) |
| `MCExternalSort` | `SuccessMeansSorted` | a run that begins with a line longer than a block is taken for empty and is missing from the output (`external_sort.cpp:138`) |

The properties of the passing runs say what remains true around these flaws: `PoolPromise` holds until a wrapped
ring grows, `Exclusive` until a mutex is locked early, `ExitEnds` unless the server has misread a line,
`SlotIsFreed` unless the server has died, `SortedUnlessLost` unless a run begins with too long a line or an error was
ignored. One more was met and has no run: when `pthread_create` fails, `computesum.c` says "main thread will handle
task" (lines 80, 106), and does, but the thread function ends in `pthread_exit`, which ends main before it prints a
total. The model has that step (`pc = "gone"`), and `Finishes` allows it.

*Why the bounds are enough.*
- The pool: two workers are the fewest that race for one task and for one signal; four tasks make the ring grow
  twice, from 1 (never wrapped) and from 2 (wrapped or not); one task submits another, so tasks arrive after
  `stop`. `MaxSpurious` is 1: one worker that wakes for nothing while the other takes the task.
- The chat: two clients are the fewest for two handlers in one function; with two slots both are in the table,
  with one slot one is refused and the slot is handed on; a descriptor is reused within the two connections. A
  buffer of one segment makes every send block; `RecvMax` 2 lets two sends run together.
- The shared array: one writer and one reader construct at the same time, and either can be the creator. One fault
  gives the name a second object. Two kills and two restarts let both processes, or one of them twice, be killed
  inside and come back. Three elements of four bytes in chunks of eight give a full and a short chunk; `WordLimit`
  is larger than any byte count that arises, as 2^64 is.
- The sum: with up to 4 elements and 3 threads every case of the division occurs: even, with remainder, with more
  threads than elements. Five elements do not fit the `int` of the run: with one thread the length of its chunk is
  negative, as with 2^31 elements in the program. That part of the run is there for the types and for `ProgramsEnd`; the
  properties of the sum leave it out.
- The copy: four cells hold a hole at either end and between two pieces of data, and data longer than the buffer; a
  replacement may be shorter, longer or empty.
- The external sort: lines have 1, 2, 2 and 4 bytes with their newlines. A limit of 5 bytes gives up to four runs, of
  one to four lines; a block of 3 bytes ends inside lines, in the input and in the runs, and one line is longer than it.
- The HTTP client: an answer needs two `recv` at least, a block two `write` or one; the status line is in the answer
  or it is not.
- The prime service: there are nine primes up to 25, so 9 is the last number with an answer, and 25 is the square of a
  prime; two requests are enough for an answer to belong to an earlier one.
- The shell: three processes are a full pipeline, or a background child and a pipeline that runs out of
  processes in the middle; two pipes are used up when a failed pipeline has left one open.

`CHECK_DEADLOCK FALSE` stands in configurations whose system may stop: clients that have left, processes killed
with no restart left, a shell nobody types into, programs that have ended, or one process waiting for a mutex that a killed one holds.
The pool is checked for deadlock; its end is an explicit step (`Terminated`).

## 5 Fairness

Only weak fairness of threads and processes is assumed: a thread that can go on is scheduled some time. Nothing
is assumed about who gets a contended mutex, and no external event has to happen (no user types, no owner
calls `ps_destroy`, no client leaves, no system call fails).

- `ParalelScheduler`: each worker, client and main, for steps of the library. Tasks return (`WorkerReturn` is a
  step of the worker); `CallDestroy` is not fair.
- `ChatRoom`: the server's threads; and a client that keeps its connection receives what was sent to it. The
  latter is an assumption on clients: a client that never reads blocks the server under its mutex, as the code
  stands. `ReceiverDrains` shows in `Chat` that `client.c` meets it: its receiver is a thread of its own.
- `Chat`: the server's threads, the receiver, and the main thread once it has left its loop.
- `MCPrograms`: every thread of the sum; the steps of the copy, though not the changes that others make to the source;
  the external sort, which nobody has to answer; and both processes of the prime service, but neither signals nor what
  the user types. Nothing is assumed of the HTTP client: it may wait for its server for ever, and no property says
  that it does not.
- `InteractiveShell`: the shell, and programs whose work is done or whose input has ended (`ProcessStep`); that
  they may also fail early (`ExitEarly`) is not fair.

## 6 Proofs

All proofs are checked by TLAPS, for every value of the constants, from the assumptions named in the modules, which
TLC evaluates on each run: `SizesAssumption`, `NamesAssumption`, `WorkAssumption` and `OnceAssumption` of the pool (the
last says that a task stands for one call of `ps_submit`, so it has one caller: a client or a task); `BufferAssumption`,
`ServerAssumption` (finitely many clients), `RoomAssumption` and `ClientAssumption` of the chat; `ArrayAssumption` and
`WordAssumption`; `ArgumentsAssumption`; `CopyAssumption`, `FilesAssumption`, `HttpAssumption`, `ServiceAssumption`;
`BoundsAssumption` of the shell.

**`ParalelSchedulerProofs`.**
- `TypeCorrect`: `TypeOK` is inductive by itself. The work is in the ring: `SlotInRange` (an index modulo the
  capacity is a slot), `CopiesTyped` (whatever the growth leaves in the old slots are words) and `StoreTyped`.
- `ShutdownInvariant`, `DestroyDrainsEverything`: `DestroyDrains` is not inductive. That nothing is queued when the
  last worker has returned needs that a task which is still running keeps its worker from having returned
  (`DrainInv`); that needs that clients have stopped before `ps_destroy` (`ClientsInv`), that nobody sleeps once `stop`
  is set (`StopInv`), that the critical sections exclude each other (`LockInv`), and where `ps_init` is in its loop
  (`CreationInv`, `IdleInv`). Their conjunction `ShutdownInv` is inductive: one step per action, one lemma per kind
  of step.
- `WordsInvariant`, `UndefinedOnlyWhereKnown`: while no wrapped ring has grown, each queued slot is a submitted task.
  A ring that grows with its front at slot 0 keeps its slots; the other case sets `scrambled`.
- `NoWakeupIsLost`: `WorkConserving` is kept by every step from one that satisfies `TypeOK`. Sleepers and the workers
  on their way to the queue are counted as finite sets: a submission adds one task and its signal moves one worker from
  the first set to the second (`SubmitConserves`), a worker that takes a task leaves the second (`TakeConserves`), and
  every other step puts nobody to sleep and turns nobody away (`NobodyTurnsAwayKeeps`), or happens only when nothing
  is queued.
- `OnceInvariant`, `PoolKeepsItsPromise`: the refinement of `TaskPool`. Each step maps to one action of it or to none:
  `Submit` to `Accept` (`SubmitAccepts`), `WorkerTake` to `Start` (`TakeStarts`), `WorkerReturn` to `Finish`
  (`ReturnFinishes`), the return of `ps_destroy` to `Close`, and a call of a task and all the rest to none
  (`CallKeeps`, `OthersAreQuiet`). The queue of `TaskPool` is the ring read from its front: a submission appends to it
  also when an unwrapped ring doubles (`StoreAppends`), and a take removes its head (`SlotFromNext`). That a task is
  accepted only once is what needs `OnceInv`: each task is still to be submitted by its one caller, or queued once, or with
  one worker, or done, and what a task will submit has not been submitted before it is called. That `Start` finds a
  worker free is counting (`FewerThanWorkers`); that `Close` finds nothing left is `DestroyDrains`. Once the ring is
  scrambled the promise is void, so nothing has to be shown.

**`ChatRoomProofs`.** `TableStaysCurrent`, `EverybodyHears` and `RoomTypeCorrect`, for any number of clients that may do
anything, and any number of slots. `TableIsCurrent` counts; `Listed` says the same slot by slot (every slot has its user,
every user its slot, no two slots one descriptor), which a step can be seen to keep. It needs that a connection has its
descriptor from `accept` to `close` and that there is always one left (`Descriptors`, and a pigeonhole argument,
`DescriptorLeft`): descriptors are reused at once, so a slot that outlived its connection would list another client. For
`HeardEverything`, `Owing` says what each client is owed at every moment: the message of the broadcast whose handler
has not come to its slot yet (`Pending`), and nothing if there is none. There is at most one such handler because
it holds the mutex (`MutexHeld`). When SIGPIPE ends the server in the middle of a broadcast, all connections are gone,
and what was owed is void with them.

**`ChatProofs`.** `ClientsFit`: `Chat` implements `ChatRoom!Spec`; the first state maps to the first state, each step to a
step of the server, to one of a client in `ChatRoom`, or to none. A
client that sends, receives or closes must have its connection open (`OpenWhileUsed`), which two threads share: the
receiver can be in `recv` while the main thread closes, and whoever is last drops the connection, once
(`ReceiverAlongside`). `RoomHolds` draws the conclusion: it cites `TableStaysCurrent` and `EverybodyHears` through an
instance of `ChatRoomProofs`, so both properties hold of `Chat` for any number of `client.c` and of slots.
`ChatTypeCorrect` follows from it: `ServerOnNet` says what a step of the server does to the connections (send once,
receive, or change its own ends), `AsAnyClient` what one of a client does, and neither puts more than `SocketBuffer`
segments into a connection.

**`SharedArrayProofs`.** `Exclusive` and `NotLeaked` about any number of writers and readers, faults, kills and
restarts. They are not inductive because `pthread_mutex_init` *unlocks*: one has to know that the object it
initialises was made by the initialising process (`CreatorInv`), that no other process ever makes the same one
(`MadeInv`: names only move forward), and that whoever has locked it before did so early. `MutexInv` is the
inductive conjunction. `StepKinds` sorts the thirty actions into seven kinds so that each conjunct is proved once
per kind.

The same module has the contents of the array. `ArrayInv` adds to the exclusion: every name has its objects in the order
of its unlinks, and no more unlinks than failed calls (`Counts`); what a process has opened, at every place (`Opened`);
the element and chunk it is at (`AtElement`); that a mutex whose holder was killed stays locked (`LeftLocked`); that an
object without its size has its maker still at it, inside the critical section, or a mutex that nobody will get
(`HalfMade`); and that the array agrees with its first element except while a writer is between its two writes
(`HalfwayInv`), so that what a reader has copied is what is there (`Current`). `ReadersSeeConsistent`,
`ChunksComeWhole` and `AccessesAreInside` follow, for any number of processes, kills and restarts. They, and
`ArrayTypeCorrect`, have hypotheses that the code leaves to its callers: the size rounded up to a chunk fits 64 bits
(`RoundedUp`: line 32 does not check), and, for `AccessesAreInside`, the chunk size is a multiple of four. The proof found
that `Consistent` had to say what it means for more than ten elements: the reader prints ten, so the element
that the counter stands in front of is compared only if it is one of them.

`ChunkExistsFor`, `ElementIsMapped` and `ElementsApart` are about the arithmetic alone: an index has a chunk, its element
lies in the mapped bytes of that chunk, and elements do not overlap. The default chunk size meets both hypotheses up
to 2^64 - 2^30 bytes.

**`FoldLemmas`.** What a fold or a sum of the community modules is, for every set and every length: the proofs of three
programs need it. The library's induction theorems take an operator as a parameter, which the provers cannot instantiate;
here induction is over a *set*: `Induction` says that a set with 0 in it, and with n + 1 whenever it has n, has all of `Nat`,
and each use puts into that set the numbers for which the claim holds. `FoldExists` constructs the function that
`MapThenFoldSet` chooses, `SumRemoves` shows that any element may be taken out first (the choice of an order does not
matter), and from it follow `SumAdds`, `SumSame` and `SumDisjoint`; `FoldsInOrder` says what `FoldLeft` is, step by step.

**`ProgramsProofs`, the sum.** `ThreadsNeverMeet` and `SumsReadNumbers`, for any array whose length is below `IntLimit`
(2^31 in the program) and any number of threads below it. With that hypothesis no conversion to `int` changes a
number (`ToIntKeeps`, `NothingCut`), and without it the theorems are false of the code: with 5 · 2^30 elements and five threads
`i * chunkSize` wraps, and the chunk of thread 4 is that of thread 0; with 2^32 elements and one thread the chunk is
empty and the total printed is 0 (`computesum.c:63-64`, `76-77`). The chunks of two threads follow each other
(`ChunksFollow`: the start of a later chunk is not before the end of an earlier one, which is where the multiplication
by the chunk size comes in), and `SumInv` says where main and every thread stand: which threads have been created, what
each has filled so far, and that after `joinFill` every chunk is filled.

`PrintsTheSum`: `TotalIsSum` is only about the last state, so `TotalInv` says what is known before it. A thread at index n
of its chunk has the sum of the first n elements of it (`SumsSoFar`), main has the sum of all that lies before the chunk
it joins next (`TotalSoFar`), and the last chunk ends where the array ends, although the lengths do not divide. That a sum
once made stays true needs that nobody fills an element while somebody adds (`OneJob`).

**`ProgramsProofs`, the copy.** `CopiesAreExact`, `NothingInvented` and `ReportsAreTrue`, for any file and any buffer. The heart
of `CopyInv` is `Matches`: up to the offset the destination has the cells of the source, with the holes at its end left
out, which the last step adds by extending it. That a piece of data is copied whole needs that between `SEEK_DATA` and
`SEEK_HOLE` there is no hole (`Exact`); what `read` returns and `write` leaves are lemmas (`ReadReturns`, `WriteLeaves`,
`ResizeLeaves`). For the report, the bytes counted are the cells of data, since no cell is written twice.

**`ExternalSortProofs`.** `MergeWritesInOrder`. `OutputSorted` is not inductive: a line that is popped has to come after
every line that was written, so each line in the heap does (`Merging`), and so does the run that has just lost its line
(`Refilling`), whose next line is not before it because runs are sorted. Nothing is needed about blocks: a run that is
cut short, or a line that is lost, leaves the order alone. That is why this holds whatever fails, and
the next ones do not.

`SortsTheFile` is the other half: `SortedUnlessLost`, that nothing is lost or doubled. It is shown by counting each line.
While the file is read, the lines taken from it are those in the buffer and in the runs (`Collected`); when reading has
ended without an ignored error nothing is left in the file, also when its last line has no newline (`ReadInv`: the rest of
the bytes is then exactly that line, or nothing). A single run is copied block by block, in whole lines (`SingleInv`). In
a merge the output has, of each run, the lines drawn without the one in the heap (`AllWritten`), and a run has a line in
the heap unless it is being refilled or has come to its end (`NoneDropped`): a run that begins with a line longer than
a block breaks exactly this, and that is `RunLost`. At the end every run is written whole (`MergedInv`).

`RunsWithinMemory`: the buffer keeps within the limit or has one line (`MemoryInv`), so a run written from it does; the
exception in `WithinMemory` is the last run, to which the rest without a newline is added with no test: that run may
exceed the limit, but by no more than that line, the one thing left in the file (`Leftover`). `SortTypesInvariant`
is not inductive by itself: `SortTypes` adds that nothing has been merged before two runs or more are opened.

**`ProgramsProofs`, the prime service.** `NobodyWritesToNobody`, for any sieve and whatever signals come. A write fails with `SIGPIPE`
when nobody holds the other end to read, so the invariant has to say which ends each process holds at each place
(`Holds`), that a request and its reply alternate, so that nothing is in the pipes while the user is asked (`Alternate`),
and that the child leaves only after the parent, and the parent only with no request behind it (`Farewell`). What
the sieve contains does not matter for this.

It matters for `PrintsThePrime`. `SieveMarks` is the correctness of the sieve for every size: after the candidates up to n
the numbers without a divisor up to n (and not above their root) are marked, and a number that is not prime has a
divisor not above its root (`SmallDivisor`), so the loop may stop there and may skip the candidates that are crossed out
themselves. `PrimesListed` says that `primes` has the primes in order, the n-th at place n, and `ResultIsAnswer` that the
child's two tests choose between it and -1. `Belongs` ties the request, the child's number, the reply and the answer to the
number typed last, whichever of the two pipes they are in.

**`InteractiveShellProofs`.** `NoStageIsCutOff` and `WaitsForItsStages`, for any lines and any number of processes and
pipes. A stage misses its input when nobody holds the write end while its predecessor runs. `HoldsEnds` says that a
process holds the ends it uses from `fork` on; that needs that the shell holds both ends of every pipe it is still
handing out (`ShellHolds`), that a pipe is new when it is made, so that nobody uses it, and that `Exec` closes what it
does not use only after `dup2`. For the calls of `wait`, `OwnCounted` counts: of the stages that were started and not
reaped there are at most as many as there are calls to come and calls that have returned somebody else.

**`ProgramsProofs`, the HTTP client.** `SavesWhatWasSent`: what the server has of the request, what was
received and what the file holds are beginnings of the request and the answer at every place (`HttpInv`); the piece
in the buffer is the one that follows what was received before, however the calls divide it. Success is claimed only when the
connection has ended and the status line was in what was received, and by then that is all.

**`ProgramsProofs`, the types.** `ProgramsTypes` is about the five programs side by side, as the run checks them: each step is
one of its program and leaves the other four alone (`StepOfEach`), so `ProgramsInv`, the invariants above together, is
inductive, and it implies `ProgramsTypeOK` (whose part about the sum is, again, about arrays an `int` can count). The other theorems about these programs are stated for the specification of each
(`Spec`, `CopySpec`, `SortSpec`, `HttpSpec`, `ServiceSpec`); `EachProgramRuns` shows that a behaviour of all five is one of each,
so they hold in the run too.

*Only model-checked.* Liveness (`ShutdownCompletes`, `QueuedTaskRuns`, `SlotIsFreed`, `ReceiverDrains`, `ExitEnds`,
`ProgramsEnd`, `NobodyHangs`, `PromptReturns`): TLAPS has no support for fairness and `ENABLED`.

## 7 What is not modelled

- Wording, formatting, logging, and the sizes of buffers where only text depends on them: a name longer than
  `NAME_SIZE`, a line longer than `BUFFER_SIZE`, a list of users that `strcat` writes past its buffer.
- Thread creation that fails in the chat programs: its result is not looked at.
- Capacity 0 or negative arguments of `ps_init`, and the overflow of `qcap * 2`.
- An instance of the shared array with other sizes than the array has, and the destructor.
- Quoting, redirections and the PATH in the shell, and its end of input, where it reads empty lines for ever.
- In the parallel sum: timing. Arrays longer than an `int` can count are in the model, but no property or theorem is
  about them, and what their chunks outside of the array do to memory is not modelled.
- In the shared array: the cast of the writer's counter to 32 bits (`first.cpp:19`, `21`), which cuts something after
  2^31 turns, half a second each; `ArrayAssumption` says that `MaxCounter` is below that.
- In the external sort: short writes (a line that is written in part, `external_sort.cpp:160`), the removal of the temporary files, two sorters that use the same names for them
  (`temp_run_0.txt` and so on), and the arguments of `main`.
- In the copy: the blocks of a file system, to which holes are rounded.
- In the prime service: signals before the handlers are set, and `isPrime`, which nobody calls.
- In the HTTP client: the name and the request as text.
- The components of section 1.10.

Some of the code's hazards have no property. The first kind is in the models, but the code does what is feared, so
nothing that rules it out can hold, and the properties that are checked go around it:
- the pool joins handles that were never written when `pthread_create` has failed (`paralel_scheduler.c:47`), and a
  submission whose `realloc` failed is dropped without a word (`:62`);
- one chat client that stops reading stops the server, and one that has reset its connection ends it (`server.c:26`);
- a chunk count read as 0 ends the process inside its critical section (`shared_array.h:65`); a creator that fails
  leaves a second array under the same name possible (`:50`); a process that is killed leaves the mutex locked for
  ever (`:108`);
- no total is printed after `pthread_create` has failed (`computesum.c:81`);
- a pipeline returns early when `wait` takes a background child (`InteractiveShell.cpp:334`), nobody waits for the
  stages that a failed `fork` leaves running (`:279`), and background children stay zombies until some `wait` takes
  them (`:250`);
- a copy of a file that cannot be read tries for ever (`copyWithHoles.cpp:83`), and the prime service goes on with a
  number nobody typed when its input has ended (`main.cpp:79`).

The second kind is known from reading alone: a capacity of 0, which doubling leaves at
0 (`paralel_scheduler.c:60`); the list of users that outgrows its buffer (`server.c:38`); a client that sits in `fgets`
after its server has gone (`client.c:90`); a control object of size 0 that a killed creator leaves (`shared_array.h:40`);
a chunk size that is no multiple of four (`shared_array.h:103`, the hypothesis of `ElementIsMapped`); a pipeline whose
stages failed and which counts as successful for `&&` (`InteractiveShell.cpp:337`); a shell that
reads empty lines for ever at the end of its input (`InteractiveShell.cpp:30`).

## 8 Running it

    tlasany M.tla                          # parse
    tlc -workers 2 -config MCChat.cfg MCChat.tla
    tlapm SharedArrayProofs.tla            # check the proofs

`PROJECT.json` names the module of each configuration, the lines each definition models, the mutant that each
property notices, the hazards of the code, and the theorems.
