---------------------------- MODULE SharedArray ----------------------------
(***************************************************************************)
(* ipc-3: processes that share an array.  Class shared_array keeps it in   *)
(* shared-memory objects: a control object with the sizes and a mutex, and *)
(* one object per chunk, made when the chunk is first used.  Writers run   *)
(* first.cpp, readers run second.cpp.                                      *)
(*                                                                         *)
(* An object outlives the processes that made it.  A name leads to one     *)
(* object at a time; when a creator fails it unlinks the name, and         *)
(* processes that have opened the old object keep it.  Memory of a new     *)
(* object is zero, so a mutex in it looks unlocked before it has been      *)
(* initialised, and initialising it makes it unlocked again.  The creator  *)
(* writes the sizes, and others read them, with nothing to order the       *)
(* accesses: any order is possible.                                        *)
(***************************************************************************)
EXTENDS ChunkMath, Sequences

CONSTANTS
  Writers, Readers,  \* the processes that run first.cpp and second.cpp
  Size,              \* the size argument of all of them
  ChunkBytes,        \* chunk_bytes_
  MaxCounter,        \* bound: the counter of a writer
  MaxFaults,         \* bound: failing system calls of creators
  MaxCrashes,        \* bound: processes killed from outside
  MaxRestarts        \* bound: processes started again

Procs == Writers \cup Readers
Chunks == 0..(ChunkCount(Size, ChunkBytes) - 1)
Indices == 0..(Size - 1)
Control == -1                   \* the name of the control object, among the chunks
Names == {Control} \cup Chunks
Objects == 1..(MaxFaults + 1)   \* what a name can lead to, one after the other
Fields == {"size", "chunks", "chunkBytes"}

ASSUME ArrayAssumption ==
  /\ Writers \cap Readers = {}
  /\ Size \in Nat /\ SizeAccepted(Size)
  /\ ChunkBytes \in Nat /\ ChunkBytes >= ElementBytes
  /\ MaxCounter \in Nat
  /\ MaxCounter - 2^30 < 2^30  \* below 2^31: the cast to value_type cuts nothing (first.cpp:19)
  /\ MaxFaults \in Nat /\ MaxCrashes \in Nat /\ MaxRestarts \in Nat

VARIABLES
  named,    \* named[n]: the object that name n leads to, 0 if there is none
  made,     \* made[n]: how many objects have been made under name n
  sized,    \* sized[n]: those of them that have their size
  written,  \* written[o]: the sizes that have been written to control object o
  ready,    \* the control objects whose mutex has been initialised
  locked,   \* the control objects whose mutex is locked
  data,     \* data[o][i]: element i, in the object o of its chunk
  pc,       \* where each process is
  ctl,      \* ctl[p]: the control object that p has opened
  unread,   \* unread[p]: the sizes that p has still to read
  seen,     \* seen[p]: the sizes that p has read, and found to be its own
  maps,     \* maps[p][c]: the object that p has mapped for chunk c, 0 if none
  fd,       \* fd[p]: the chunk object that p is about to map, 0 if none
  counter,  \* counter of a writer
  pos,      \* which element access of its critical section p is at
  snap,     \* snap[p][i]: what a reader has read in this critical section
  faults, crashes, restarts,
  early,    \* history: control objects whose mutex was locked before it was ready
  orphaned  \* history: control objects whose mutex was locked when its owner ended

shm == <<named, made, sized, written, ready, locked, data>>
locals == <<ctl, unread, seen, maps, fd, counter, pos, snap>>
bounds == <<faults, crashes, restarts>>
histories == <<early, orphaned>>
vars == <<shm, pc, locals, bounds, histories>>

NoMaps == [c \in Chunks |-> 0]
NoSnap == [i \in Indices |-> 0]

Init ==
  /\ named = [n \in Names |-> 0]
  /\ made = [n \in Names |-> 0]
  /\ sized = [n \in Names |-> {}]
  /\ written = [o \in Objects |-> {}]
  /\ ready = {}
  /\ locked = {}
  /\ data = [o \in Objects |-> NoSnap]
  /\ pc = [p \in Procs |-> "start"]
  /\ ctl = [p \in Procs |-> 0]
  /\ unread = [p \in Procs |-> Fields]
  /\ seen = [p \in Procs |-> {}]
  /\ maps = [p \in Procs |-> NoMaps]
  /\ fd = [p \in Procs |-> 0]
  /\ counter = [w \in Writers |-> 0]
  /\ pos = [p \in Procs |-> 0]
  /\ snap = [p \in Procs |-> NoSnap]
  /\ faults = 0 /\ crashes = 0 /\ restarts = 0
  /\ early = {} /\ orphaned = {}

Goto(p, place) == pc' = [pc EXCEPT ![p] = place]

\* The places between lock and unlock.
Inside == {"access", "truncate", "mapOwn", "reopen", "check", "map", "use", "unlock"}

\* The process ends, by an exception nobody catches or by a signal.  Its memory is
\* gone and nothing else is cleaned up: a mutex it holds stays locked.
Ends(p) ==
  /\ Goto(p, "ended")
  /\ orphaned' = IF pc[p] \in Inside THEN orphaned \cup {ctl[p]} ELSE orphaned
  /\ ctl' = [ctl EXCEPT ![p] = 0]
  /\ unread' = [unread EXCEPT ![p] = Fields]
  /\ seen' = [seen EXCEPT ![p] = {}]
  /\ maps' = [maps EXCEPT ![p] = NoMaps]
  /\ fd' = [fd EXCEPT ![p] = 0]
  /\ counter' = [w \in Writers |-> IF w = p THEN 0 ELSE counter[w]]
  /\ pos' = [pos EXCEPT ![p] = 0]
  /\ snap' = [snap EXCEPT ![p] = NoSnap]
  /\ UNCHANGED early

Unlink(n) == named' = [named EXCEPT ![n] = 0]

\* Mutant of Creates, without O_EXCL: whatever the name leads to is replaced.
CreatesOver(n) ==
  /\ made' = [made EXCEPT ![n] = @ + 1]
  /\ named' = [named EXCEPT ![n] = made'[n]]
  /\ UNCHANGED <<sized, written, ready, locked, data>>

\* shm_open with O_CREAT | O_EXCL makes a new object of size 0.
Creates(n) ==
  /\ named[n] = 0
  /\ made' = [made EXCEPT ![n] = @ + 1]
  /\ named' = [named EXCEPT ![n] = made'[n]]
  /\ UNCHANGED <<sized, written, ready, locked, data>>

\* ftruncate gives the object its size.
Sizes(n, o) == sized' = [sized EXCEPT ![n] = @ \cup {o}]

-----------------------------------------------------------------------------
\* The constructor.

CreateControl(p) ==
  /\ pc[p] = "start"
  /\ Creates(Control)
  /\ ctl' = [ctl EXCEPT ![p] = made'[Control]]
  /\ Goto(p, "ctlTruncate")
  /\ UNCHANGED <<unread, seen, maps, fd, counter, pos, snap, bounds, histories>>

TruncateControl(p) ==
  /\ pc[p] = "ctlTruncate"
  /\ Sizes(Control, ctl[p])
  /\ Goto(p, "ctlWrite")
  /\ UNCHANGED <<named, made, written, ready, locked, data, locals, bounds, histories>>

\* meta[0], meta[1], meta[2]
WriteField(p, f) ==
  /\ pc[p] = "ctlWrite"
  /\ f \notin written[ctl[p]]
  /\ written' = [written EXCEPT ![ctl[p]] = @ \cup {f}]
  /\ UNCHANGED <<named, made, sized, ready, locked, data, pc, locals, bounds, histories>>

\* pthread_mutex_init: from here on the object is complete.
InitMutex(p) ==
  /\ pc[p] = "ctlWrite"
  /\ written[ctl[p]] = Fields
  /\ ready' = ready \cup {ctl[p]}
  /\ locked' = locked \ {ctl[p]}
  /\ seen' = [seen EXCEPT ![p] = Fields]
  /\ Goto(p, "idle")
  /\ UNCHANGED <<named, made, sized, written, data>>
  /\ UNCHANGED <<ctl, unread, maps, fd, counter, pos, snap, bounds, histories>>

\* ftruncate, mmap or pthread_mutex_init fails: the creator unlinks the name.
CreatorFails(p) ==
  /\ faults < MaxFaults
  /\ \/ pc[p] = "ctlTruncate"
     \/ pc[p] = "ctlWrite" /\ written[ctl[p]] \in {{}, Fields}
  /\ faults' = faults + 1
  /\ Unlink(Control)
  /\ Ends(p)
  /\ UNCHANGED <<made, sized, written, ready, locked, data, crashes, restarts>>

\* EEXIST: the object is opened in a second call.
ControlExists(p) ==
  /\ pc[p] = "start"
  /\ named[Control] # 0
  /\ Goto(p, "ctlReopen")
  /\ UNCHANGED <<shm, locals, bounds, histories>>

ReopenControl(p) ==
  /\ pc[p] = "ctlReopen"
  /\ named[Control] # 0
  /\ ctl' = [ctl EXCEPT ![p] = named[Control]]
  /\ Goto(p, "ctlCheck")
  /\ UNCHANGED <<shm, unread, seen, maps, fd, counter, pos, snap, bounds, histories>>

\* "shm_open ctl failed", "control shm has unexpected size"
ControlRefused(p) ==
  /\ \/ pc[p] = "ctlReopen" /\ named[Control] = 0
     \/ pc[p] = "ctlCheck" /\ ctl[p] \notin sized[Control]
  /\ Ends(p)
  /\ UNCHANGED <<shm, bounds>>

CheckControl(p) ==
  /\ pc[p] = "ctlCheck"
  /\ ctl[p] \in sized[Control]
  /\ Goto(p, "ctlRead")
  /\ UNCHANGED <<shm, locals, bounds, histories>>

ReadField(p, f) ==
  /\ pc[p] = "ctlRead"
  /\ f \in unread[p]
  /\ unread' = [unread EXCEPT ![p] = @ \ {f}]
  /\ seen' = [seen EXCEPT ![p] = IF f \in written[ctl[p]] THEN @ \cup {f} ELSE @]
  /\ UNCHANGED <<shm, pc, ctl, maps, fd, counter, pos, snap, bounds, histories>>

\* The size and the chunk size must be the expected ones; meta[1] is not checked.
Attach(p) ==
  /\ pc[p] = "ctlRead"
  /\ unread[p] = {}
  /\ {"size", "chunkBytes"} \subseteq seen[p]
  /\ Goto(p, "idle")
  /\ UNCHANGED <<shm, locals, bounds, histories>>

\* "Existing shared array has different size", "... different chunk size"
AttachRefused(p) ==
  /\ pc[p] = "ctlRead"
  /\ unread[p] = {}
  /\ ~({"size", "chunkBytes"} \subseteq seen[p])
  /\ Ends(p)
  /\ UNCHANGED <<shm, bounds>>

-----------------------------------------------------------------------------
\* One turn of the loop of main: lock, the element accesses, unlock.

\* The elements that p uses in a critical section, one after the other.
Printed == IF Size < 10 THEN Size ELSE 10
Uses(p) == IF p \in Writers THEN <<0, counter[p] % Size>>
           ELSE [k \in 1..Printed |-> k - 1]
Element(p) == Uses(p)[pos[p]]
ChunkOf(p) == Chunk(Element(p), ChunkBytes)

\* Mutant of Lock: a mutex that is taken does not stop the caller.
LockTaken(p) ==
  /\ pc[p] = "idle"
  /\ (p \in Writers => counter[p] < MaxCounter)
  /\ locked' = locked \cup {ctl[p]}
  /\ early' = IF ctl[p] \in ready THEN early ELSE early \cup {ctl[p]}
  /\ counter' = [w \in Writers |-> IF w = p THEN counter[w] + 1 ELSE counter[w]]
  /\ pos' = [pos EXCEPT ![p] = 1]
  /\ Goto(p, "access")
  /\ UNCHANGED <<named, made, sized, written, ready, data>>
  /\ UNCHANGED <<ctl, unread, seen, maps, fd, snap, bounds, orphaned>>

\* Mutant of Lock: readers go without the mutex.
LockWriters(p) ==
  /\ pc[p] = "idle"
  /\ (p \in Writers => ctl[p] \notin locked)
  /\ (p \in Writers => counter[p] < MaxCounter)
  /\ locked' = IF p \in Writers THEN locked \cup {ctl[p]} ELSE locked
  /\ early' = IF ctl[p] \in ready THEN early ELSE early \cup {ctl[p]}
  /\ counter' = [w \in Writers |-> IF w = p THEN counter[w] + 1 ELSE counter[w]]
  /\ pos' = [pos EXCEPT ![p] = 1]
  /\ Goto(p, "access")
  /\ UNCHANGED <<named, made, sized, written, ready, data>>
  /\ UNCHANGED <<ctl, unread, seen, maps, fd, snap, bounds, orphaned>>

Lock(p) ==
  /\ pc[p] = "idle"
  /\ ctl[p] \notin locked
  /\ (p \in Writers => counter[p] < MaxCounter)
  /\ locked' = locked \cup {ctl[p]}
  /\ early' = IF ctl[p] \in ready THEN early ELSE early \cup {ctl[p]}
  /\ counter' = [w \in Writers |-> IF w = p THEN counter[w] + 1 ELSE counter[w]]
  /\ pos' = [pos EXCEPT ![p] = 1]
  /\ Goto(p, "access")
  /\ UNCHANGED <<named, made, sized, written, ready, data>>
  /\ UNCHANGED <<ctl, unread, seen, maps, fd, snap, bounds, orphaned>>

\* operator[], ensure_mapped: the chunk has been mapped before.
AlreadyMapped(p) ==
  /\ pc[p] = "access"
  /\ "chunks" \in seen[p]
  /\ maps[p][ChunkOf(p)] # 0
  /\ Goto(p, "use")
  /\ UNCHANGED <<shm, locals, bounds, histories>>

\* chunk_count_ was read as 0: maps_ has no elements, and maps_[chunk] is a
\* read through a null pointer.
WildAccess(p) ==
  /\ pc[p] = "access"
  /\ "chunks" \notin seen[p]
  /\ Ends(p)
  /\ UNCHANGED <<shm, bounds>>

NeedsChunk(p) ==
  /\ pc[p] = "access"
  /\ "chunks" \in seen[p]
  /\ maps[p][ChunkOf(p)] = 0

CreateChunk(p) ==
  /\ NeedsChunk(p)
  /\ Creates(ChunkOf(p))
  /\ fd' = [fd EXCEPT ![p] = made'[ChunkOf(p)]]
  /\ Goto(p, "truncate")
  /\ UNCHANGED <<ctl, unread, seen, maps, counter, pos, snap, bounds, histories>>

TruncateChunk(p) ==
  /\ pc[p] = "truncate"
  /\ Sizes(ChunkOf(p), fd[p])
  /\ Goto(p, "mapOwn")
  /\ UNCHANGED <<named, made, written, ready, locked, data, locals, bounds, histories>>

ChunkExists(p) ==
  /\ NeedsChunk(p)
  /\ named[ChunkOf(p)] # 0
  /\ Goto(p, "reopen")
  /\ UNCHANGED <<shm, locals, bounds, histories>>

ReopenChunk(p) ==
  /\ pc[p] = "reopen"
  /\ named[ChunkOf(p)] # 0
  /\ fd' = [fd EXCEPT ![p] = named[ChunkOf(p)]]
  /\ Goto(p, "check")
  /\ UNCHANGED <<shm, ctl, unread, seen, maps, counter, pos, snap, bounds, histories>>

CheckChunk(p) ==
  /\ pc[p] = "check"
  /\ fd[p] \in sized[ChunkOf(p)]
  /\ Goto(p, "map")
  /\ UNCHANGED <<shm, locals, bounds, histories>>

\* "shm_open chunk failed", "Existing chunk has different size"
ChunkRefused(p) ==
  /\ \/ pc[p] = "reopen" /\ named[ChunkOf(p)] = 0
     \/ pc[p] = "check" /\ fd[p] \notin sized[ChunkOf(p)]
  /\ Ends(p)
  /\ UNCHANGED <<shm, bounds>>

\* ftruncate fails, or mmap of a chunk that p has made: p unlinks the name.
ChunkFails(p) ==
  /\ faults < MaxFaults
  /\ pc[p] \in {"truncate", "mapOwn"}
  /\ faults' = faults + 1
  /\ Unlink(ChunkOf(p))
  /\ Ends(p)
  /\ UNCHANGED <<made, sized, written, ready, locked, data, crashes, restarts>>

MapChunk(p) ==
  /\ pc[p] \in {"map", "mapOwn"}
  /\ maps' = [maps EXCEPT ![p][ChunkOf(p)] = fd[p]]
  /\ fd' = [fd EXCEPT ![p] = 0]
  /\ Goto(p, "use")
  /\ UNCHANGED <<shm, ctl, unread, seen, counter, pos, snap, bounds, histories>>

\* Mutant of UseElement: the mutex is released after the first element.
UseUnlocked(p) ==
  LET o == maps[p][ChunkOf(p)]
  IN  /\ pc[p] = "use"
      /\ IF p \in Writers
         THEN data' = [data EXCEPT ![o][Element(p)] = counter[p]] /\ UNCHANGED snap
         ELSE snap' = [snap EXCEPT ![p][Element(p)] = data[o][Element(p)]] /\ UNCHANGED data
      /\ IF pos[p] < Len(Uses(p))
         THEN pos' = [pos EXCEPT ![p] = @ + 1] /\ Goto(p, "access")
         ELSE UNCHANGED pos /\ Goto(p, "unlock")
      /\ locked' = locked \ {ctl[p]}
      /\ UNCHANGED <<named, made, sized, written, ready>>
      /\ UNCHANGED <<ctl, unread, seen, maps, fd, counter, bounds, histories>>

\* The element is written (first.cpp) or read (second.cpp).
UseElement(p) ==
  LET o == maps[p][ChunkOf(p)]
  IN  /\ pc[p] = "use"
      /\ IF p \in Writers
         THEN data' = [data EXCEPT ![o][Element(p)] = counter[p]] /\ UNCHANGED snap
         ELSE snap' = [snap EXCEPT ![p][Element(p)] = data[o][Element(p)]] /\ UNCHANGED data
      /\ IF pos[p] < Len(Uses(p))
         THEN pos' = [pos EXCEPT ![p] = @ + 1] /\ Goto(p, "access")
         ELSE UNCHANGED pos /\ Goto(p, "unlock")
      /\ UNCHANGED <<named, made, sized, written, ready, locked>>
      /\ UNCHANGED <<ctl, unread, seen, maps, fd, counter, bounds, histories>>

\* Mutant of Unlock: the next turn begins without it.
Forget(p) ==
  /\ pc[p] = "unlock"
  /\ pos' = [pos EXCEPT ![p] = 0]
  /\ snap' = [snap EXCEPT ![p] = NoSnap]
  /\ Goto(p, "idle")
  /\ UNCHANGED <<named, made, sized, written, ready, locked, data>>
  /\ UNCHANGED <<ctl, unread, seen, maps, fd, counter, bounds, histories>>

Unlock(p) ==
  /\ pc[p] = "unlock"
  /\ locked' = locked \ {ctl[p]}
  /\ pos' = [pos EXCEPT ![p] = 0]
  /\ snap' = [snap EXCEPT ![p] = NoSnap]
  /\ Goto(p, "idle")
  /\ UNCHANGED <<named, made, sized, written, ready, data>>
  /\ UNCHANGED <<ctl, unread, seen, maps, fd, counter, bounds, histories>>

-----------------------------------------------------------------------------
\* The world around the processes.

\* A signal ends a process: control-C is the only way out of both programs.  A
\* system call that fails in a process that is not a creator does the same.
Crash(p) ==
  /\ pc[p] \notin {"start", "ended"}
  /\ crashes < MaxCrashes
  /\ crashes' = crashes + 1
  /\ Ends(p)
  /\ UNCHANGED <<shm, faults, restarts>>

\* The program is started again, with nothing but the objects left over.
Restart(p) ==
  /\ pc[p] = "ended"
  /\ restarts < MaxRestarts
  /\ restarts' = restarts + 1
  /\ Goto(p, "start")
  /\ UNCHANGED <<shm, locals, faults, crashes, histories>>

Construct(p) ==
  \/ CreateControl(p) \/ TruncateControl(p) \/ InitMutex(p) \/ CreatorFails(p)
  \/ ControlExists(p) \/ ReopenControl(p) \/ ControlRefused(p) \/ CheckControl(p)
  \/ Attach(p) \/ AttachRefused(p)
  \/ \E f \in Fields : WriteField(p, f) \/ ReadField(p, f)

Loop(p) ==
  \/ Lock(p) \/ AlreadyMapped(p) \/ WildAccess(p)
  \/ CreateChunk(p) \/ TruncateChunk(p) \/ ChunkExists(p) \/ ReopenChunk(p)
  \/ CheckChunk(p) \/ ChunkRefused(p) \/ ChunkFails(p) \/ MapChunk(p)
  \/ UseElement(p) \/ Unlock(p)

Next == \E p \in Procs : Construct(p) \/ Loop(p) \/ Crash(p) \/ Restart(p)

Spec == Init /\ [][Next]_vars
-----------------------------------------------------------------------------
TypeOK ==
  /\ named \in [Names -> Objects \cup {0}]
  /\ made \in [Names -> 0..(MaxFaults + 1)]
  /\ sized \in [Names -> SUBSET Objects]
  /\ written \in [Objects -> SUBSET Fields]
  /\ ready \subseteq Objects
  /\ locked \subseteq Objects
  /\ data \in [Objects -> [Indices -> 0..MaxCounter]]
  /\ ctl \in [Procs -> Objects \cup {0}]
  /\ maps \in [Procs -> [Chunks -> Objects \cup {0}]]
  /\ counter \in [Writers -> 0..MaxCounter]
  /\ snap \in [Procs -> [Indices -> 0..MaxCounter]]

\* While nobody has locked a mutex that was not ready, two processes inside the
\* critical section use two different arrays.  (shared_array.h:108-109)
Exclusive ==
  \A p, q \in Procs :
    p # q /\ pc[p] \in Inside /\ pc[q] \in Inside => ctl[p] # ctl[q] \/ ctl[p] \in early

\* A mutex is locked only while a process is inside, or after one ended there.
\* (first.cpp:18-23: no other way out of the critical section)
NotLeaked ==
  \A o \in locked : o \in orphaned \/ \E p \in Procs : ctl[p] = o /\ pc[p] \in Inside

\* A reader prints a consistent array: the counter in element 0 is also where the
\* writer put it, if that is one of the elements the reader prints, however often
\* writers are killed and started again, unless a mutex was locked early or a name
\* was unlinked.  (first.cpp:19-21, second.cpp:19-20)
Consistent ==
  \A r \in Readers :
    pc[r] = "unlock" /\ early = {} /\ faults = 0 /\ snap[r][0] > 0 /\ snap[r][0] % Size < Printed
      => snap[r][snap[r][0] % Size] = snap[r][0]

\* ensure_mapped is not atomic, but inside the critical section nobody finds a
\* chunk half made by somebody else.  (shared_array.h:133-154)
ChunkWhole ==
  \A p \in Procs :
    pc[p] = "check" /\ ctl[p] \notin early /\ faults = 0 => fd[p] \in sized[ChunkOf(p)]

\* The element that a process is about to use lies inside the bytes that it has
\* mapped for the chunk.  (shared_array.h:97-104, 126-131, 150)
AccessInside ==
  \A p \in Procs :
    pc[p] = "use" =>
      /\ ChunkOf(p) \in Chunks
      /\ Offset(Element(p), ChunkBytes) + ElementBytes <= ChunkSize(ChunkOf(p), Size, ChunkBytes)

\* A process that holds the lock holds an initialised mutex.
\* (shared_array.h:108: "mutex not initialized" otherwise)
LockedWhenReady == \A p \in Procs : pc[p] \in Inside => ctl[p] \in ready
=============================================================================
