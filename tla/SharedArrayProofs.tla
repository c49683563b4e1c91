-------------------------- MODULE SharedArrayProofs --------------------------
(***************************************************************************)
(* Machine-checked proofs about SharedArray, for every number of writers   *)
(* and readers, every size, and any number of crashes and restarts.        *)
(***************************************************************************)
EXTENDS SharedArray, TLAPS

-----------------------------------------------------------------------------
(* The arithmetic, for every size and every chunk size. *)

\* What integer division means.
LEMMA Division ==
  ASSUME NEW a \in Nat, NEW b \in Nat \ {0}
  PROVE  /\ a \div b \in Nat
         /\ b * (a \div b) <= a
         /\ a < b * (a \div b) + b
  OBVIOUS

\* Multiples of a chunk are ordered like the chunks.
LEMMA Multiples ==
  ASSUME NEW c \in Nat, NEW d \in Nat, NEW b \in Nat \ {0}, c * b < d * b
  PROVE  c < d
<1> SUFFICES ASSUME d <= c PROVE FALSE
  OBVIOUS
<1>1. PICK k \in Nat : c = d + k
  BY c = d + (c - d) /\ c - d \in Nat
<1>2. c * b = d * b + k * b
  BY <1>1
<1>3. k * b \in Nat /\ c * b \in Nat /\ d * b \in Nat
  OBVIOUS
<1> QED BY <1>2, <1>3

\* Every element has a chunk, as long as rounding the size up does not leave the
\* word.  (shared_array.h:32, 98-100: maps_[chunk] is within maps_)
THEOREM ChunkExistsFor ==
  ASSUME WordAssumption,
         NEW size \in Nat, NEW b \in Nat, b >= ElementBytes,
         SizeAccepted(size), TotalBytes(size) + b - 1 < WordLimit,
         NEW idx \in 0..(size - 1)
  PROVE  Chunk(idx, b) \in 0..(ChunkCount(size, b) - 1)
<1> USE DEF ElementBytes
<1> DEFINE t == TotalBytes(size)
           c == Chunk(idx, b)
           m == ChunkCount(size, b)
<1>1. t \in Nat /\ b \in Nat \ {0} /\ idx * 4 \in Nat /\ idx * 4 < t
  BY DEF TotalBytes
<1>2. (t + b - 1) % WordLimit = t + b - 1
  BY <1>1 DEF WordAssumption
<1>3. m \in Nat /\ t + b - 1 < b * m + b
  <2>1. m = (t + b - 1) \div b
    BY <1>2 DEF ChunkCount
  <2> DEFINE a == t + b - 1
  <2>2. a \in Nat
    BY <1>1
  <2> HIDE DEF a
  <2>3. a \div b \in Nat /\ a < b * (a \div b) + b
    BY <1>1, <2>2, Division
  <2>4. m = a \div b
    BY <2>1 DEF a
  <2> HIDE DEF m
  <2>5. m \in Nat /\ a < b * m + b
    BY <2>3, <2>4
  <2> QED BY <2>5 DEF a
<1>4. c \in Nat /\ b * c <= idx * 4
  BY <1>1, Division DEF Chunk
<1>5. b * c < b * m
  <2>1. b * c \in Nat /\ b * m \in Nat
    BY <1>1, <1>3, <1>4
  <2> HIDE DEF t, c, m
  <2> QED BY <2>1, <1>1, <1>3, <1>4
<1>6. c < m
  <2> HIDE DEF c, m
  <2>1. c * b < m * b
    BY <1>1, <1>3, <1>4, <1>5
  <2> QED BY <2>1, <1>1, <1>3, <1>4, Multiples
<1> QED BY <1>3, <1>4, <1>6

\* An element lies in the bytes that are mapped for its chunk, as long as chunks
\* hold whole elements.  (shared_array.h:101-103, 126-131)
THEOREM ElementIsMapped ==
  ASSUME WordAssumption,
         NEW size \in Nat, NEW q \in Nat \ {0},
         SizeAccepted(size), TotalBytes(size) + q * ElementBytes < WordLimit,
         NEW idx \in 0..(size - 1)
  PROVE  LET b == q * ElementBytes
         IN  Offset(idx, b) \in Nat
             /\ Offset(idx, b) + ElementBytes <= ChunkSize(Chunk(idx, b), size, b)
<1> USE DEF ElementBytes
<1> DEFINE b == q * 4
           t == TotalBytes(size)
           c == Chunk(idx, b)
           s == c * b
<1>1. t \in Nat /\ b \in Nat \ {0} /\ idx * 4 \in Nat /\ t = size * 4
  BY DEF TotalBytes
<1>2. c \in Nat /\ b * c <= idx * 4 /\ idx * 4 < b * c + b
  BY <1>1, Division DEF Chunk
<1>3. s \in Nat /\ s <= idx * 4 /\ idx * 4 < s + b
  BY <1>1, <1>2
\* The start of the chunk is a multiple of the element, so a whole element fits.
<1>4. idx * 4 + 4 <= s + b
  <2>1. c * q \in Nat /\ s = (c * q) * 4
    BY <1>2
  <2> HIDE DEF c, s
  <2> QED BY <2>1, <1>3
<1>5. s % WordLimit = s /\ (s + b) % WordLimit = s + b
  <2>1. s + b < WordLimit
    BY <1>1, <1>3
  <2> HIDE DEF s, b
  <2> QED BY <2>1, <1>1, <1>3 DEF WordAssumption
<1>6. Offset(idx, b) = idx * 4 - s
  BY DEF Offset
<1>7. ChunkSize(c, size, b) = IF s + b > t THEN t - s ELSE b
  BY <1>5 DEF ChunkSize
<1>8. idx * 4 + 4 <= t
  BY <1>1
<1> HIDE DEF b, c, s, t
<1>9. idx * 4 - s \in Nat /\ idx * 4 - s + 4 <= ChunkSize(c, size, b)
  BY <1>1, <1>3, <1>4, <1>7, <1>8
<1> QED BY <1>6, <1>9 DEF b, c

\* Two elements of one chunk do not overlap.  (shared_array.h:99-103)
THEOREM ElementsApart ==
  ASSUME NEW b \in Nat \ {0}, NEW i \in Nat, NEW j \in Nat, i < j,
         Chunk(i, b) = Chunk(j, b)
  PROVE  Offset(i, b) + ElementBytes <= Offset(j, b)
<1>1. Chunk(i, b) \in Nat
  BY Division DEF Chunk, ElementBytes
<1>2. Chunk(i, b) * b \in Nat
  BY <1>1
<1> QED BY <1>2 DEF Offset, ElementBytes

-----------------------------------------------------------------------------
(* The mutex. *)

Constructing == {"ctlTruncate", "ctlWrite"}
Elsewhere == {"start", "ctlReopen", "ctlCheck", "ctlRead", "idle", "ended"}

\* What the proofs need to know of the types.
PlainTypes ==
  /\ pc \in [Procs -> Constructing \cup Elsewhere \cup Inside]
  /\ ctl \in [Procs -> Nat]
  /\ named \in [Names -> Nat]
  /\ made \in [Names -> Nat]
  /\ ready \subseteq Nat

\* Control objects are numbered in the order in which they were made.
MadeInv ==
  /\ named[Control] <= made[Control]
  /\ \A p \in Procs : ctl[p] <= made[Control]
  /\ \A o \in ready : o <= made[Control]

\* A creator is alone with its object, which is not ready before it is done.
CreatorInv ==
  /\ \A p \in Procs : pc[p] \in Constructing => ctl[p] \notin ready
  /\ \A p, q \in Procs :
       pc[p] \in Constructing /\ pc[q] \in Constructing /\ p # q => ctl[p] # ctl[q]

\* A process inside has locked its mutex, and nothing has reset that mutex unless
\* it was locked too early.
HeldInv ==
  \A p \in Procs :
    pc[p] \in Inside => /\ ctl[p] \in ready \cup early
                        /\ ctl[p] \in locked \cup early

MutexInv ==
  /\ PlainTypes
  /\ MadeInv
  /\ CreatorInv
  /\ HeldInv
  /\ Exclusive
  /\ NotLeaked

-----------------------------------------------------------------------------
\* A process moves within the places of its part of the program, and nothing else
\* that the invariant speaks of changes.
Moves(p) ==
  /\ \/ pc[p] \in Constructing /\ pc'[p] \in Constructing
     \/ pc[p] \in Elsewhere /\ pc'[p] \in Elsewhere
     \/ pc[p] \in Inside /\ pc'[p] \in Inside
  /\ pc' = [pc EXCEPT ![p] = pc'[p]]
  /\ UNCHANGED <<ready, locked, ctl, early, orphaned>>

\* The names other processes see may change under p, but objects are not forgotten.
NamesGrow ==
  /\ named' \in [Names -> Nat] /\ made' \in [Names -> Nat]
  /\ named'[Control] <= made'[Control]
  /\ made[Control] <= made'[Control]

LEMMA ControlIsAName == Control \in Names
  BY DEF Names

LEMMA SameGrows ==
  ASSUME PlainTypes, MadeInv, UNCHANGED <<named, made>>
  PROVE  NamesGrow
  BY ControlIsAName DEF PlainTypes, MadeInv, NamesGrow

\* Making an object, and taking a name away.
LEMMA CreatesGrow ==
  ASSUME PlainTypes, MadeInv, NEW n, Creates(n)
  PROVE  NamesGrow
<1> USE ControlIsAName DEF PlainTypes, MadeInv, Creates, NamesGrow
<1>1. CASE n \notin Names
  <2>1. named' = named /\ made' = made
    BY <1>1
  <2> QED BY <2>1, SameGrows
<1>2. CASE n \in Names
  <2>1. made'[n] = made[n] + 1 /\ named'[n] = made'[n]
    BY <1>2
  <2>2. made' \in [Names -> Nat] /\ named' \in [Names -> Nat]
    BY <1>2, <2>1
  <2>3. CASE n = Control
    BY <2>1, <2>2, <2>3
  <2>4. CASE n # Control
    BY <2>2, <2>4
  <2> QED BY <2>3, <2>4
<1> QED BY <1>1, <1>2

LEMMA UnlinkGrows ==
  ASSUME PlainTypes, MadeInv, NEW n, Unlink(n), UNCHANGED made
  PROVE  NamesGrow
<1> USE ControlIsAName DEF PlainTypes, MadeInv, Unlink, NamesGrow
<1>1. CASE n \notin Names
  <2>1. named' = named
    BY <1>1
  <2> QED BY <2>1, SameGrows
<1>2. CASE n \in Names
  <2>1. named' \in [Names -> Nat]
    BY <1>2
  <2>2. named'[Control] \in {0, named[Control]}
    BY <1>2
  <2> QED BY <2>1, <2>2
<1> QED BY <1>1, <1>2

\* The steps that only move.
LEMMA MovesKeep ==
  ASSUME MutexInv, NEW p \in Procs, Moves(p), NamesGrow
  PROVE  MutexInv'
<1> USE DEF MutexInv, Moves, NamesGrow, Constructing, Elsewhere, Inside
<1>1. PlainTypes'
  BY DEF PlainTypes
<1>2. MadeInv'
  BY ControlIsAName DEF PlainTypes, MadeInv
<1>3. CreatorInv'
  BY DEF PlainTypes, CreatorInv
<1>4. HeldInv'
  BY DEF PlainTypes, HeldInv
<1>5. Exclusive'
  BY DEF PlainTypes, Exclusive
<1>6. NotLeaked'
  BY DEF PlainTypes, NotLeaked
<1> QED BY <1>1, <1>2, <1>3, <1>4, <1>5, <1>6

\* A process that ends, wherever it was.
LEMMA EndsKeeps ==
  ASSUME MutexInv, NEW p \in Procs, Ends(p), NamesGrow, UNCHANGED <<ready, locked>>
  PROVE  MutexInv'
<1> USE DEF MutexInv, Ends, Goto, NamesGrow, Constructing, Elsewhere, Inside
<1>1. PlainTypes'
  BY DEF PlainTypes
<1>2. MadeInv'
  BY ControlIsAName DEF PlainTypes, MadeInv
<1>3. CreatorInv'
  BY DEF PlainTypes, CreatorInv
<1>4. HeldInv'
  BY DEF PlainTypes, HeldInv
<1>5. Exclusive'
  BY DEF PlainTypes, Exclusive
<1>6. NotLeaked'
  BY DEF PlainTypes, NotLeaked
<1> QED BY <1>1, <1>2, <1>3, <1>4, <1>5, <1>6

-----------------------------------------------------------------------------
\* The five steps that do more.

LEMMA CreateControlKeeps ==
  ASSUME MutexInv, NEW p \in Procs, CreateControl(p)
  PROVE  MutexInv'
<1> USE ControlIsAName
    DEF MutexInv, CreateControl, Creates, Goto, histories, Constructing, Elsewhere, Inside
<1>1. PlainTypes'
  BY DEF PlainTypes
<1>2. MadeInv'
  BY ControlIsAName DEF PlainTypes, MadeInv
<1>3. CreatorInv'
  BY DEF PlainTypes, MadeInv, CreatorInv
<1>4. HeldInv'
  BY DEF PlainTypes, HeldInv
<1>5. Exclusive'
  BY DEF PlainTypes, Exclusive
<1>6. NotLeaked'
  BY DEF PlainTypes, NotLeaked
<1> QED BY <1>1, <1>2, <1>3, <1>4, <1>5, <1>6

LEMMA ReopenControlKeeps ==
  ASSUME MutexInv, NEW p \in Procs, ReopenControl(p)
  PROVE  MutexInv'
<1> USE ControlIsAName
    DEF MutexInv, ReopenControl, Goto, shm, histories, Constructing, Elsewhere, Inside
<1>1. PlainTypes'
  BY DEF PlainTypes
<1>2. MadeInv'
  BY ControlIsAName DEF PlainTypes, MadeInv
<1>3. CreatorInv'
  BY DEF PlainTypes, CreatorInv
<1>4. HeldInv'
  BY DEF PlainTypes, HeldInv
<1>5. Exclusive'
  BY DEF PlainTypes, Exclusive
<1>6. NotLeaked'
  BY DEF PlainTypes, NotLeaked
<1> QED BY <1>1, <1>2, <1>3, <1>4, <1>5, <1>6

\* Initialising the mutex unlocks it, but nobody holds it who did not lock it early.
LEMMA InitMutexKeeps ==
  ASSUME MutexInv, NEW p \in Procs, InitMutex(p)
  PROVE  MutexInv'
<1> USE ControlIsAName
    DEF MutexInv, InitMutex, Goto, histories, Constructing, Elsewhere, Inside
<1>1. PlainTypes'
  BY DEF PlainTypes
<1>2. MadeInv'
  BY ControlIsAName DEF PlainTypes, MadeInv
<1>3. CreatorInv'
  BY DEF PlainTypes, CreatorInv
<1>4. HeldInv'
  BY DEF PlainTypes, CreatorInv, HeldInv
<1>5. Exclusive'
  BY DEF PlainTypes, Exclusive
<1>6. NotLeaked'
  BY DEF PlainTypes, NotLeaked
<1> QED BY <1>1, <1>2, <1>3, <1>4, <1>5, <1>6

LEMMA LockKeeps ==
  ASSUME MutexInv, NEW p \in Procs, Lock(p)
  PROVE  MutexInv'
<1> USE ControlIsAName
    DEF MutexInv, Lock, Goto, Constructing, Elsewhere, Inside
<1>1. PlainTypes'
  BY DEF PlainTypes
<1>2. MadeInv'
  BY ControlIsAName DEF PlainTypes, MadeInv
<1>3. CreatorInv'
  BY DEF PlainTypes, CreatorInv
<1>4. HeldInv'
  BY DEF PlainTypes, HeldInv
<1>5. Exclusive'
  BY DEF PlainTypes, HeldInv, Exclusive
<1>6. NotLeaked'
  BY DEF PlainTypes, NotLeaked
<1> QED BY <1>1, <1>2, <1>3, <1>4, <1>5, <1>6

LEMMA UnlockKeeps ==
  ASSUME MutexInv, NEW p \in Procs, Unlock(p)
  PROVE  MutexInv'
<1> USE ControlIsAName
    DEF MutexInv, Unlock, Goto, histories, Constructing, Elsewhere, Inside
<1>1. PlainTypes'
  BY DEF PlainTypes
<1>2. MadeInv'
  BY ControlIsAName DEF PlainTypes, MadeInv
<1>3. CreatorInv'
  BY DEF PlainTypes, CreatorInv
<1>4. HeldInv'
  BY DEF PlainTypes, HeldInv, Exclusive
<1>5. Exclusive'
  BY DEF PlainTypes, Exclusive
<1>6. NotLeaked'
  BY DEF PlainTypes, NotLeaked
<1> QED BY <1>1, <1>2, <1>3, <1>4, <1>5, <1>6

\* Every step is one of the seven kinds.
LEMMA StepKinds ==
  ASSUME MutexInv, NEW p \in Procs,
         Construct(p) \/ Loop(p) \/ Crash(p) \/ Restart(p)
  PROVE  \/ Moves(p) /\ NamesGrow
         \/ Ends(p) /\ NamesGrow /\ UNCHANGED <<ready, locked>>
         \/ CreateControl(p) \/ ReopenControl(p) \/ InitMutex(p) \/ Lock(p) \/ Unlock(p)
<1> USE DEF MutexInv
<1> DEFINE Kinds == \/ Moves(p) /\ NamesGrow
                    \/ Ends(p) /\ NamesGrow /\ UNCHANGED <<ready, locked>>
                    \/ CreateControl(p) \/ ReopenControl(p) \/ InitMutex(p) \/ Lock(p) \/ Unlock(p)
<1> SUFFICES Kinds
  OBVIOUS
<1>1. CASE CreateControl(p) \/ ReopenControl(p) \/ InitMutex(p) \/ Lock(p) \/ Unlock(p)
  BY <1>1
\* Steps that neither make nor take away a name.
<1>2. CASE \/ TruncateControl(p) \/ (\E f \in Fields : WriteField(p, f) \/ ReadField(p, f))
           \/ ControlExists(p) \/ CheckControl(p) \/ Attach(p)
           \/ AlreadyMapped(p) \/ TruncateChunk(p) \/ ChunkExists(p) \/ ReopenChunk(p)
           \/ CheckChunk(p) \/ MapChunk(p) \/ UseElement(p) \/ Restart(p)
  <2>1. UNCHANGED <<named, made, ready, locked, ctl, early, orphaned>>
    BY <1>2 DEF TruncateControl, WriteField, ReadField, ControlExists, CheckControl, Attach,
       AlreadyMapped, TruncateChunk, ChunkExists, ReopenChunk, CheckChunk, MapChunk,
       UseElement, Restart, Sizes, Goto, shm, locals, histories
  <2>2. Moves(p)
    BY <1>2, <2>1 DEF PlainTypes, Moves, Constructing, Elsewhere, Inside, Goto, NeedsChunk,
       TruncateControl, WriteField, ReadField, ControlExists, CheckControl, Attach,
       AlreadyMapped, TruncateChunk, ChunkExists, ReopenChunk, CheckChunk, MapChunk,
       UseElement, Restart
  <2> QED BY <2>1, <2>2, SameGrows
<1>3. CASE CreateChunk(p)
  <2>1. Moves(p)
    BY <1>3 DEF PlainTypes, Moves, Constructing, Elsewhere, Inside, Goto, NeedsChunk,
       CreateChunk, Creates, histories
  <2>2. NamesGrow
    BY <1>3, CreatesGrow DEF CreateChunk
  <2> QED BY <2>1, <2>2
<1>4. CASE ControlRefused(p) \/ AttachRefused(p) \/ WildAccess(p) \/ ChunkRefused(p) \/ Crash(p)
  <2>1. Ends(p) /\ UNCHANGED <<named, made, ready, locked>>
    BY <1>4 DEF ControlRefused, AttachRefused, WildAccess, ChunkRefused, Crash, shm
  <2> QED BY <2>1, SameGrows
<1>5. CASE CreatorFails(p)
  BY <1>5, UnlinkGrows DEF CreatorFails
<1>6. CASE ChunkFails(p)
  BY <1>6, UnlinkGrows DEF ChunkFails
<1> QED
  BY <1>1, <1>2, <1>3, <1>4, <1>5, <1>6 DEF Construct, Loop

-----------------------------------------------------------------------------
\* The control object, its mutex and the processes that hold it stay consistent,
\* whoever constructs, locks, ends and starts again.  (shared_array.h:24-154)
THEOREM MutexInvariant == Spec => []MutexInv
<1>1. Init => MutexInv
  BY ControlIsAName DEF Init, MutexInv, PlainTypes, MadeInv, CreatorInv, HeldInv, Exclusive,
     NotLeaked, Constructing, Elsewhere, Inside
<1>2. MutexInv /\ [Next]_vars => MutexInv'
  <2> SUFFICES ASSUME MutexInv, [Next]_vars PROVE MutexInv'
    OBVIOUS
  <2>1. CASE UNCHANGED vars
    BY <2>1 DEF vars, shm, locals, histories, MutexInv, PlainTypes, MadeInv, CreatorInv, HeldInv,
       Exclusive, NotLeaked
  <2>2. ASSUME NEW p \in Procs, Construct(p) \/ Loop(p) \/ Crash(p) \/ Restart(p)
        PROVE  MutexInv'
    BY <2>2, StepKinds, MovesKeep, EndsKeeps, CreateControlKeeps, ReopenControlKeeps,
       InitMutexKeeps, LockKeeps, UnlockKeeps
  <2> QED BY <2>1, <2>2 DEF Next
<1> QED BY <1>1, <1>2, PTL DEF Spec

\* Two processes are in the critical section of one array at the same time only if
\* its mutex was locked before it had been initialised.  (shared_array.h:108-109)
THEOREM MutualExclusion == Spec => []Exclusive
  BY MutexInvariant, PTL DEF MutexInv

\* A mutex that stays locked was locked by a process that ended inside.
\* (first.cpp:18-23, second.cpp:17-22)
THEOREM LockNotLeaked == Spec => []NotLeaked
  BY MutexInvariant, PTL DEF MutexInv

-----------------------------------------------------------------------------
(* What is in the memory. *)

\* The array is so small that rounding its bytes up to chunks stays in the word.
RoundedUp == TotalBytes(Size) + ChunkBytes - 1 < WordLimit

Attached == Constructing \cup {"ctlCheck", "ctlRead", "idle"} \cup Inside
WithFile == {"truncate", "mapOwn", "check", "map"}

\* How many elements p uses in a critical section.
Turns(p) == IF p \in Writers THEN 2 ELSE Printed

MoreTypes ==
  /\ pos \in [Procs -> Nat]
  /\ fd \in [Procs -> Nat]
  /\ faults \in 0..MaxFaults

\* A name gets another object only after one of its objects has been unlinked.
Counts ==
  \A n \in Names :
    /\ named[n] <= made[n]
    /\ made[n] <= faults + 1
    /\ named[n] = 0 => made[n] <= faults

\* What a process has opened and mapped was made, and belongs to the name it used.
Opened ==
  \A p \in Procs :
    /\ pc[p] \in Attached => ctl[p] \in 1..made[Control]
    /\ pc[p] \in WithFile => fd[p] \in 1..made[ChunkOf(p)]
    /\ \A c \in Chunks : maps[p][c] <= made[c]
    /\ pc[p] = "use" => maps[p][ChunkOf(p)] # 0

\* Inside, a process is at one of its element accesses, or done with the last one.
AtElement ==
  \A p \in Procs :
    /\ pc[p] \in Inside => pos[p] \in 1..Turns(p)
    /\ pc[p] = "unlock" => pos[p] = Turns(p)

\* The mutex of a process that ended inside stays locked, with nobody inside.
LeftLocked ==
  \A o \in orphaned \ early :
    /\ o \in ready \cap locked
    /\ \A p \in Procs : pc[p] \in Inside => ctl[p] # o

\* A chunk without its size is being made, or its maker ended while holding the lock.
HalfMade ==
  faults = 0 =>
    \A c \in Chunks :
      named[c] # 0 /\ named[c] \notin sized[c] =>
        \/ 1 \in orphaned
        \/ \E p \in Procs : pc[p] = "truncate" /\ ChunkOf(p) = c

\* The counter in element 0 is also where it belongs, except between the two
\* writes of a writer that is inside, or has ended there.
Agrees == data[1][0] = 0 \/ data[1][data[1][0] % Size] = data[1][0]
Halfway(w) == pc[w] \in Inside \ {"unlock"} /\ pos[w] = 2
Whole ==
  faults = 0 =>
    \/ Agrees
    \/ 1 \in orphaned \cup early
    \/ \E w \in Writers : Halfway(w)
HalfwayInv ==
  faults = 0 /\ 1 \notin early =>
    \A w \in Writers : Halfway(w) => data[1][0] = counter[w]

\* What a reader inside has read is still in the array.
Read(r) == IF pc[r] = "unlock" THEN pos[r] ELSE pos[r] - 1
Current ==
  faults = 0 /\ 1 \notin early =>
    \A r \in Readers :
      pc[r] \in Inside => \A i \in Indices : i < Read(r) => snap[r][i] = data[1][i]

ArrayInv ==
  /\ TypeOK
  /\ MoreTypes
  /\ Counts
  /\ Opened
  /\ AtElement
  /\ LeftLocked
  /\ HalfMade
  /\ Whole
  /\ HalfwayInv
  /\ Current

-----------------------------------------------------------------------------
\* Facts about constants, and about the element a process is at.

LEMMA TurnsPositive ==
  /\ Printed \in 1..Size
  /\ \A p \in Procs : Turns(p) \in Nat \ {0}
  /\ 0 \in Indices
<1>1. Size \in Nat \ {0} /\ MaxFaults \in Nat
  BY ArrayAssumption DEF SizeAccepted
<1>2. Printed \in 1..Size /\ Printed \in Nat \ {0}
  BY <1>1 DEF Printed
<1>3. \A p \in Procs : Turns(p) \in Nat \ {0}
  BY <1>2 DEF Turns
<1>4. 0 \in Indices
  BY <1>1 DEF Indices
<1> QED BY <1>2, <1>3, <1>4

LEMMA ObjectsPositive == 1 \in Objects /\ \A o \in Objects \cup {0} : o \in Nat
  BY ArrayAssumption DEF Objects

LEMMA UsesLength ==
  ASSUME NEW p \in Procs
  PROVE  Len(Uses(p)) = Turns(p)
<1>1. CASE p \in Writers
  BY <1>1 DEF Uses, Turns
<1>2. CASE p \notin Writers
  BY <1>2, TurnsPositive, ArrayAssumption DEF Uses, Turns
<1> QED BY <1>1, <1>2

LEMMA ElementIsIndex ==
  ASSUME TypeOK, NEW p \in Procs, pos[p] \in 1..Turns(p)
  PROVE  /\ Element(p) \in Indices
         /\ p \in Writers => Element(p) = IF pos[p] = 1 THEN 0 ELSE counter[p] % Size
         /\ p \notin Writers => Element(p) = pos[p] - 1
<1>1. CASE p \in Writers
  <2>1. counter[p] \in Nat
    BY <1>1, ArrayAssumption DEF TypeOK
  <2>2. counter[p] % Size \in 0..(Size - 1)
    BY <2>1, ArrayAssumption DEF SizeAccepted
  <2>3. pos[p] \in {1, 2}
    BY <1>1 DEF Turns
  <2>4. Element(p) = IF pos[p] = 1 THEN 0 ELSE counter[p] % Size
    BY <1>1, <2>3 DEF Element, Uses
  <2> QED BY <1>1, <2>2, <2>4, ArrayAssumption DEF Indices
<1>2. CASE p \notin Writers
  <2>1. pos[p] \in 1..Printed
    BY <1>2 DEF Turns
  <2>2. Element(p) = pos[p] - 1
    BY <1>2, <2>1 DEF Element, Uses
  <2> QED BY <1>2, <2>1, <2>2, TurnsPositive, ArrayAssumption DEF Indices
<1> QED BY <1>1, <1>2

LEMMA ChunksAreNames ==
  Chunks \subseteq Names /\ Control \in Names /\ Control \notin Chunks
  BY DEF Chunks, Names, Control

LEMMA ChunkIsAName ==
  ASSUME RoundedUp, TypeOK, NEW p \in Procs, pos[p] \in 1..Turns(p)
  PROVE  ChunkOf(p) \in Chunks
<1>1. Element(p) \in 0..(Size - 1)
  BY ElementIsIndex DEF Indices
<1>2. Size \in Nat /\ ChunkBytes \in Nat /\ ChunkBytes >= ElementBytes /\ SizeAccepted(Size)
  BY ArrayAssumption
<1> QED BY <1>1, <1>2, ChunkExistsFor, WordAssumption DEF RoundedUp, ChunkOf, Chunks

\* A process whose place in the array does not change stays with its chunk.
LEMMA SameElement ==
  ASSUME NEW p \in Procs, pos'[p] = pos[p], p \in Writers => counter'[p] = counter[p]
  PROVE  Element(p)' = Element(p) /\ ChunkOf(p)' = ChunkOf(p)
  BY DEF ChunkOf, Element, Uses

\* While nothing has been unlinked, every name has led to one object at most, and
\* everybody inside is in the same array.
LEMMA OneObject ==
  ASSUME RoundedUp, MutexInv, ArrayInv, faults = 0
  PROVE  /\ \A n \in Names : named[n] = made[n] /\ made[n] \in {0, 1}
         /\ \A p \in Procs : pc[p] \in Attached => ctl[p] = 1
         /\ \A p \in Procs : pc[p] \in Inside => ctl[p] = 1
         /\ \A p \in Procs : pc[p] \in WithFile => fd[p] = 1 /\ named[ChunkOf(p)] = 1
         /\ \A p \in Procs : pc[p] = "use" => maps[p][ChunkOf(p)] = 1
         /\ \A p, q \in Procs :
              pc[p] \in Inside /\ pc[q] \in Inside /\ p # q => 1 \in early
<1> USE DEF ArrayInv
<1>1. \A n \in Names : named[n] \in Nat /\ made[n] \in Nat
  BY DEF MutexInv, PlainTypes
<1>2. \A n \in Names : named[n] = made[n] /\ made[n] \in {0, 1}
  BY <1>1 DEF Counts
<1>3. \A p \in Procs : pc[p] \in Attached => ctl[p] = 1
  BY <1>2, ControlIsAName DEF Opened, MutexInv, PlainTypes
<1>4. \A p \in Procs : pc[p] \in Inside => ctl[p] = 1
  BY <1>3 DEF Attached
<1>5. \A p \in Procs : pc[p] \in Inside => ChunkOf(p) \in Chunks
  BY ChunkIsAName DEF AtElement
<1>6. \A p \in Procs : pc[p] \in WithFile => fd[p] = 1 /\ named[ChunkOf(p)] = 1
  <2> SUFFICES ASSUME NEW p \in Procs, pc[p] \in WithFile
               PROVE  fd[p] = 1 /\ named[ChunkOf(p)] = 1
    OBVIOUS
  <2>1. ChunkOf(p) \in Names
    BY <1>5, ChunksAreNames DEF WithFile, Inside
  <2>2. fd[p] \in 1..made[ChunkOf(p)]
    BY DEF Opened
  <2> QED BY <2>1, <2>2, <1>2
<1>7. \A p \in Procs : pc[p] = "use" => maps[p][ChunkOf(p)] = 1
  <2> SUFFICES ASSUME NEW p \in Procs, pc[p] = "use"
               PROVE  maps[p][ChunkOf(p)] = 1
    OBVIOUS
  <2>1. ChunkOf(p) \in Chunks /\ ChunkOf(p) \in Names
    BY <1>5, ChunksAreNames DEF Inside
  <2>2. maps[p][ChunkOf(p)] \in Nat
    <3>1. maps[p] \in [Chunks -> Objects \cup {0}]
      BY DEF TypeOK
    <3>2. maps[p][ChunkOf(p)] \in Objects \cup {0}
      BY <3>1, <2>1
    <3> QED BY <3>2, ObjectsPositive
  <2>3. maps[p][ChunkOf(p)] <= made[ChunkOf(p)] /\ maps[p][ChunkOf(p)] # 0
    BY <2>1 DEF Opened
  <2> QED BY <2>1, <2>2, <2>3, <1>2
<1>8. \A p, q \in Procs :
        pc[p] \in Inside /\ pc[q] \in Inside /\ p # q => 1 \in early
  BY <1>4 DEF MutexInv, Exclusive
<1> QED BY <1>2, <1>3, <1>4, <1>6, <1>7, <1>8

-----------------------------------------------------------------------------
\* Steps that touch neither the data nor anybody's place among the elements.

StaysIn(p) == pc[p] \in Inside \ {"unlock"} /\ pc'[p] \in Inside \ {"unlock"}
StaysOut(p) == pc[p] \notin Inside /\ pc'[p] \notin Inside

Steady(p) ==
  /\ UNCHANGED <<data, counter, pos, snap, faults, early, orphaned>>
  /\ StaysIn(p) \/ StaysOut(p)
  /\ pc' = [pc EXCEPT ![p] = pc'[p]]
  /\ ctl' = [ctl EXCEPT ![p] = ctl'[p]]
  /\ pc[p] \in Inside => ctl'[p] = ctl[p]

LEMMA SteadyPlaces ==
  ASSUME MutexInv, NEW p \in Procs, Steady(p)
  PROVE  /\ \A q \in Procs : pc'[q] \in Inside <=> pc[q] \in Inside
         /\ \A q \in Procs : pc'[q] = "unlock" <=> pc[q] = "unlock"
         /\ \A q \in Procs : pc[q] \in Inside => ctl'[q] = ctl[q]
         /\ \A q \in Procs : q # p => pc'[q] = pc[q] /\ ctl'[q] = ctl[q]
  BY DEF MutexInv, PlainTypes, Steady, StaysIn, StaysOut, Inside

LEMMA SteadyKeeps ==
  ASSUME MutexInv, ArrayInv, NEW p \in Procs, Steady(p)
  PROVE  AtElement' /\ Whole' /\ HalfwayInv' /\ Current'
<1> USE SteadyPlaces DEF ArrayInv
<1>1. UNCHANGED <<data, counter, pos, snap, faults, early, orphaned>>
  BY DEF Steady
<1>2. \A w \in Writers : Halfway(w)' <=> Halfway(w)
  BY <1>1 DEF Halfway, Procs
<1>3. \A r \in Readers : Read(r)' = Read(r)
  BY <1>1 DEF Read, Procs
<1>4. AtElement'
  BY <1>1 DEF AtElement
<1>5. Whole'
  BY <1>1, <1>2 DEF Whole, Agrees
<1>6. HalfwayInv'
  BY <1>1, <1>2 DEF HalfwayInv
<1>7. Current'
  BY <1>1, <1>3 DEF Current, Procs
<1> QED BY <1>4, <1>5, <1>6, <1>7

\* The mutexes that were left locked stay so, unless the step unlocks one of them.
LEMMA LeftLockedKept ==
  ASSUME MutexInv, ArrayInv, NEW p \in Procs, Steady(p), UNCHANGED <<ready, locked>>
  PROVE  LeftLocked'
<1>1. UNCHANGED <<early, orphaned>>
  BY DEF Steady
<1> QED BY <1>1, SteadyPlaces DEF ArrayInv, LeftLocked

\* An object comes into being.
LEMMA MakesOne ==
  ASSUME MutexInv, ArrayInv, NEW n \in Names, Creates(n), faults' = faults
  PROVE  /\ Counts'
         /\ named' \in [Names -> Objects \cup {0}]
         /\ made' \in [Names -> 0..(MaxFaults + 1)]
         /\ \A m \in Names : made[m] <= made'[m]
         /\ \A m \in Names : m # n => named'[m] = named[m]
         /\ made'[n] \in 1..(MaxFaults + 1) /\ named'[n] = made'[n]
<1> USE DEF ArrayInv
<1>1. \A m \in Names : named[m] \in Nat /\ made[m] \in Nat
  BY DEF MutexInv, PlainTypes
<1>2. named[n] = 0 /\ made[n] <= faults
  BY DEF Creates, Counts
<1>3. made' = [made EXCEPT ![n] = made[n] + 1] /\ named' = [named EXCEPT ![n] = made[n] + 1]
  BY DEF Creates, TypeOK
<1>4. made'[n] = made[n] + 1 /\ named'[n] = made[n] + 1
  BY <1>3 DEF TypeOK
<1>5. \A m \in Names : m # n => made'[m] = made[m] /\ named'[m] = named[m]
  BY <1>3 DEF TypeOK
<1>6. faults \in Nat /\ faults <= MaxFaults /\ MaxFaults \in Nat
  BY ArrayAssumption DEF MoreTypes
<1>7. made[n] + 1 \in 0..(MaxFaults + 1) /\ made[n] + 1 \in Objects \cup {0}
  BY <1>1, <1>2, <1>6 DEF Objects
<1>8. made' \in [Names -> 0..(MaxFaults + 1)] /\ named' \in [Names -> Objects \cup {0}]
  BY <1>3, <1>7 DEF TypeOK
<1>9. Counts'
  BY <1>1, <1>2, <1>4, <1>5, <1>6 DEF Counts
<1> QED BY <1>1, <1>2, <1>4, <1>5, <1>6, <1>8, <1>9

\* Nothing that p has, and nothing that is asked of it at its new place, has changed.
LEMMA OpenedKept ==
  ASSUME RoundedUp, ArrayInv, NEW p \in Procs, Steady(p), MutexInv,
         \A n \in Names : made'[n] \in Nat /\ made[n] <= made'[n],
         \A q \in Procs : q # p => fd'[q] = fd[q] /\ maps'[q] = maps[q],
         pc'[p] \in Attached => ctl'[p] \in 1..made'[Control],
         pc'[p] \in WithFile => fd'[p] \in 1..made'[ChunkOf(p)],
         \A c \in Chunks : maps'[p][c] <= made'[c],
         pc'[p] = "use" => maps'[p][ChunkOf(p)] # 0
  PROVE  Opened'
<1> USE DEF ArrayInv
<1>1. \A q \in Procs : ChunkOf(q)' = ChunkOf(q)
  BY SameElement DEF Steady
<1>2. \A n \in Names : made[n] \in Nat
  BY DEF MutexInv, PlainTypes
<1>3. \A q \in Procs : q # p => pc'[q] = pc[q] /\ ctl'[q] = ctl[q]
  BY SteadyPlaces
<1> SUFFICES ASSUME NEW q \in Procs
             PROVE  /\ pc'[q] \in Attached => ctl'[q] \in 1..made'[Control]
                    /\ pc'[q] \in WithFile => fd'[q] \in 1..made'[ChunkOf(q)]
                    /\ \A c \in Chunks : maps'[q][c] <= made'[c]
                    /\ pc'[q] = "use" => maps'[q][ChunkOf(q)] # 0
  BY <1>1 DEF Opened
<1>4. CASE q = p
  BY <1>4
<1>5. CASE q # p
  <2>1. pc[q] \in WithFile => ChunkOf(q) \in Names
    BY ChunkIsAName, ChunksAreNames DEF AtElement, WithFile, Inside
  <2>2. pc[q] \in Attached => ctl[q] \in 1..made'[Control]
    BY ChunksAreNames, <1>2 DEF Opened
  <2>3. pc[q] \in WithFile => fd[q] \in 1..made'[ChunkOf(q)]
    BY <2>1, <1>2 DEF Opened
  <2>4. \A c \in Chunks : maps[q][c] <= made'[c]
    <3> SUFFICES ASSUME NEW c \in Chunks PROVE maps[q][c] <= made'[c]
      OBVIOUS
    <3>1. maps[q][c] \in Objects \cup {0}
      BY DEF TypeOK
    <3>2. maps[q][c] \in Nat /\ c \in Names
      BY <3>1, ObjectsPositive, ChunksAreNames
    <3>3. maps[q][c] <= made[c]
      BY DEF Opened
    <3> QED BY <3>2, <3>3, <1>2
  <2>5. pc[q] = "use" => maps[q][ChunkOf(q)] # 0
    BY DEF Opened
  <2> QED BY <1>3, <1>5, <2>2, <2>3, <2>4, <2>5
<1> QED BY <1>4, <1>5

\* Which chunks are half made, and by whom.
LEMMA HalfMadeKept ==
  ASSUME MutexInv, ArrayInv, NEW p \in Procs, Steady(p),
         \A c \in Chunks :
           faults = 0 /\ named'[c] # 0 /\ named'[c] \notin sized'[c] =>
             \/ pc'[p] = "truncate" /\ ChunkOf(p) = c
             \/ /\ named[c] # 0 /\ named[c] \notin sized[c]
                /\ ~(pc[p] = "truncate" /\ ChunkOf(p) = c)
  PROVE  HalfMade'
<1> USE DEF ArrayInv
<1>1. \A q \in Procs : ChunkOf(q)' = ChunkOf(q)
  BY SameElement DEF Steady
<1>2. UNCHANGED <<faults, orphaned>>
  BY DEF Steady
<1> SUFFICES ASSUME faults = 0, NEW c \in Chunks, named'[c] # 0, named'[c] \notin sized'[c],
                    1 \notin orphaned
             PROVE  \E q \in Procs : pc'[q] = "truncate" /\ ChunkOf(q) = c
  BY <1>1, <1>2 DEF HalfMade
<1>3. CASE pc'[p] = "truncate" /\ ChunkOf(p) = c
  BY <1>3
<1>4. CASE /\ named[c] # 0 /\ named[c] \notin sized[c]
           /\ ~(pc[p] = "truncate" /\ ChunkOf(p) = c)
  <2>1. PICK q \in Procs : pc[q] = "truncate" /\ ChunkOf(q) = c
    BY <1>4 DEF HalfMade
  <2> QED BY <2>1, <1>4, SteadyPlaces
<1> QED BY <1>3, <1>4

\* Steps of p that leave the shared memory alone.
LEMMA LocalKeeps ==
  ASSUME RoundedUp, MutexInv, ArrayInv, NEW p \in Procs, Steady(p), UNCHANGED shm,
         pc[p] # "truncate",
         \A q \in Procs : q # p => fd'[q] = fd[q] /\ maps'[q] = maps[q],
         ctl' \in [Procs -> Objects \cup {0}],
         maps' \in [Procs -> [Chunks -> Objects \cup {0}]],
         fd' \in [Procs -> Nat],
         pc'[p] \in Attached => ctl'[p] \in 1..made[Control],
         pc'[p] \in WithFile => fd'[p] \in 1..made[ChunkOf(p)],
         \A c \in Chunks : maps'[p][c] <= made[c],
         pc'[p] = "use" => maps'[p][ChunkOf(p)] # 0
  PROVE  ArrayInv'
<1>1. UNCHANGED <<named, made, sized, written, ready, locked, data>>
  BY DEF shm
<1>2. UNCHANGED <<counter, pos, snap, faults, early, orphaned>>
  BY DEF Steady
<1>3. TypeOK' /\ MoreTypes' /\ Counts'
  BY <1>1, <1>2 DEF ArrayInv, TypeOK, MoreTypes, Counts
<1>4. Opened'
  <2>1. \A n \in Names : made'[n] \in Nat /\ made[n] <= made'[n]
    BY <1>1 DEF MutexInv, PlainTypes
  <2> QED BY <2>1, <1>1, OpenedKept
<1>5. HalfMade'
  BY <1>1, HalfMadeKept
<1>6. AtElement' /\ Whole' /\ HalfwayInv' /\ Current'
  BY SteadyKeeps
<1>7. LeftLocked'
  BY <1>1, LeftLockedKept
<1> QED BY <1>3, <1>4, <1>5, <1>6, <1>7 DEF ArrayInv

\* What Opened says of one process, with its types.
LEMMA OpenedBy ==
  ASSUME ArrayInv, NEW p \in Procs
  PROVE  /\ pc[p] \in Attached => ctl[p] \in 1..made[Control]
         /\ pc[p] \in WithFile => fd[p] \in 1..made[ChunkOf(p)]
         /\ \A c \in Chunks : maps[p][c] <= made[c]
         /\ ctl \in [Procs -> Objects \cup {0}]
         /\ maps \in [Procs -> [Chunks -> Objects \cup {0}]]
         /\ fd \in [Procs -> Nat]
  BY DEF ArrayInv, Opened, TypeOK, MoreTypes

LEMMA ConstructingKeeps ==
  ASSUME RoundedUp, MutexInv, ArrayInv, NEW p \in Procs,
         \/ ControlExists(p) \/ CheckControl(p) \/ Attach(p)
         \/ \E f \in Fields : ReadField(p, f)
  PROVE  ArrayInv'
<1>1. UNCHANGED <<shm, data, ctl, maps, fd, counter, pos, snap, faults, early, orphaned>>
  BY DEF ControlExists, CheckControl, Attach, ReadField, locals, histories, bounds, shm
<1>2. /\ pc[p] \in {"start", "ctlCheck", "ctlRead"}
      /\ pc' = [pc EXCEPT ![p] = pc'[p]]
      /\ \/ pc'[p] = "ctlReopen"
         \/ pc[p] \in {"ctlCheck", "ctlRead"} /\ pc'[p] \in {"ctlRead", "idle"}
  BY DEF MutexInv, PlainTypes, ControlExists, CheckControl, Attach, ReadField, Goto
<1>3. Steady(p)
  BY <1>1, <1>2 DEF Steady, StaysOut, Inside, ArrayInv, TypeOK
<1>4. pc[p] \in {"ctlCheck", "ctlRead"} => pc[p] \in Attached
  BY DEF Attached
<1>5. pc'[p] \in Attached => pc[p] \in {"ctlCheck", "ctlRead"}
  BY <1>2 DEF Attached, Constructing, Inside
<1>6. pc'[p] \notin WithFile /\ pc'[p] # "use" /\ pc[p] # "truncate"
  BY <1>2 DEF WithFile
<1> QED BY <1>1, <1>3, <1>4, <1>5, <1>6, OpenedBy, LocalKeeps

LEMMA ReopensKeeps ==
  ASSUME RoundedUp, MutexInv, ArrayInv, NEW p \in Procs, ReopenControl(p)
  PROVE  ArrayInv'
<1> USE DEF ReopenControl, Goto
<1>1. UNCHANGED <<shm, data, maps, fd, counter, pos, snap, faults, early, orphaned>>
  BY DEF histories, bounds, shm
<1>2. named[Control] \in Objects /\ named[Control] \in 1..made[Control]
  <2>1. named[Control] \in Objects \cup {0} /\ named[Control] # 0
    BY ControlIsAName DEF ArrayInv, TypeOK
  <2>2. named[Control] \in Nat /\ made[Control] \in Nat
    BY ControlIsAName DEF MutexInv, PlainTypes
  <2>3. named[Control] <= made[Control]
    BY ControlIsAName DEF ArrayInv, Counts
  <2> QED BY <2>1, <2>2, <2>3
<1>3. /\ pc[p] = "ctlReopen" /\ pc'[p] = "ctlCheck"
      /\ pc' = [pc EXCEPT ![p] = pc'[p]]
      /\ ctl' = [ctl EXCEPT ![p] = ctl'[p]] /\ ctl'[p] = named[Control]
  BY OpenedBy DEF MutexInv, PlainTypes
<1>4. ctl' \in [Procs -> Objects \cup {0}]
  BY <1>2, <1>3, OpenedBy
<1>5. Steady(p)
  BY <1>1, <1>3 DEF Steady, StaysOut, Inside
<1>6. pc'[p] \notin WithFile /\ pc'[p] # "use" /\ pc[p] # "truncate"
  BY <1>3 DEF WithFile
<1> QED BY <1>1, <1>2, <1>3, <1>4, <1>5, <1>6, OpenedBy, LocalKeeps

LEMMA RestartKeeps ==
  ASSUME RoundedUp, MutexInv, ArrayInv, NEW p \in Procs, Restart(p)
  PROVE  ArrayInv'
<1>1. UNCHANGED <<shm, data, ctl, maps, fd, counter, pos, snap, faults, early, orphaned>>
  BY DEF Restart, locals, histories, shm
<1>2. pc[p] = "ended" /\ pc'[p] = "start" /\ pc' = [pc EXCEPT ![p] = pc'[p]]
  BY DEF MutexInv, PlainTypes, Restart, Goto
<1>3. Steady(p)
  BY <1>1, <1>2 DEF Steady, StaysOut, Inside, ArrayInv, TypeOK
<1>4. pc'[p] \notin Attached /\ pc'[p] \notin WithFile /\ pc'[p] # "use" /\ pc[p] # "truncate"
  BY <1>2 DEF Attached, Constructing, WithFile, Inside
<1> QED BY <1>1, <1>3, <1>4, OpenedBy, LocalKeeps

\* The chunk of a process inside, and what it has opened of it.
LEMMA InsideFacts ==
  ASSUME RoundedUp, MutexInv, ArrayInv, NEW p \in Procs, pc[p] \in Inside
  PROVE  /\ pos[p] \in 1..Turns(p)
         /\ ChunkOf(p) \in Chunks /\ ChunkOf(p) \in Names
         /\ ctl[p] \in 1..made[Control] /\ ctl[p] \in Objects
         /\ named[ChunkOf(p)] \in Objects \cup {0}
         /\ named[ChunkOf(p)] # 0 => named[ChunkOf(p)] \in 1..made[ChunkOf(p)]
         /\ pc[p] \in WithFile => fd[p] \in 1..made[ChunkOf(p)] /\ fd[p] \in Objects
<1> USE DEF ArrayInv
<1>1. pos[p] \in 1..Turns(p)
  BY DEF AtElement
<1>2. ChunkOf(p) \in Chunks /\ ChunkOf(p) \in Names
  BY <1>1, ChunkIsAName, ChunksAreNames
<1>3. ctl[p] \in 1..made[Control]
  BY DEF Opened, Attached
<1>4. \A n \in Names : made[n] \in 0..(MaxFaults + 1) /\ named[n] \in Objects \cup {0}
  BY DEF TypeOK
<1>5. ctl[p] \in Objects
  BY <1>3, <1>4, ControlIsAName, ArrayAssumption DEF Objects
<1>6. named[ChunkOf(p)] # 0 => named[ChunkOf(p)] \in 1..made[ChunkOf(p)]
  <2>1. named[ChunkOf(p)] \in Nat /\ made[ChunkOf(p)] \in Nat
    BY <1>2 DEF MutexInv, PlainTypes
  <2>2. named[ChunkOf(p)] <= made[ChunkOf(p)]
    BY <1>2 DEF Counts
  <2> QED BY <2>1, <2>2
<1>7. pc[p] \in WithFile => fd[p] \in 1..made[ChunkOf(p)] /\ fd[p] \in Objects
  BY <1>2, <1>4, ArrayAssumption DEF Opened, Objects
<1> QED BY <1>1, <1>2, <1>3, <1>4, <1>5, <1>6, <1>7

LEMMA ChunkStepsKeep ==
  ASSUME RoundedUp, MutexInv, ArrayInv, NEW p \in Procs,
         AlreadyMapped(p) \/ ChunkExists(p) \/ CheckChunk(p)
  PROVE  ArrayInv'
<1>1. UNCHANGED <<shm, data, ctl, maps, fd, counter, pos, snap, faults, early, orphaned>>
  BY DEF AlreadyMapped, ChunkExists, CheckChunk, locals, histories, bounds, shm
<1>2. /\ pc' = [pc EXCEPT ![p] = pc'[p]]
      /\ \/ pc[p] = "access" /\ pc'[p] = "use" /\ maps[p][ChunkOf(p)] # 0
         \/ pc[p] = "access" /\ pc'[p] = "reopen"
         \/ pc[p] = "check" /\ pc'[p] = "map"
  BY DEF MutexInv, PlainTypes, AlreadyMapped, ChunkExists, CheckChunk, NeedsChunk, Goto
<1>3. pc[p] \in Inside /\ StaysIn(p) /\ pc[p] # "truncate"
  BY <1>2 DEF StaysIn, Inside
<1>4. Steady(p)
  BY <1>1, <1>2, <1>3 DEF Steady, ArrayInv, TypeOK
<1>5. pc'[p] \in WithFile => pc[p] \in WithFile
  BY <1>2 DEF WithFile
<1>6. maps'[p] = maps[p] /\ (pc'[p] = "use" => maps'[p][ChunkOf(p)] # 0)
  BY <1>1, <1>2
<1> QED BY <1>1, <1>3, <1>4, <1>5, <1>6, OpenedBy, InsideFacts, LocalKeeps

LEMMA ReopenChunkKeeps ==
  ASSUME RoundedUp, MutexInv, ArrayInv, NEW p \in Procs, ReopenChunk(p)
  PROVE  ArrayInv'
<1> USE DEF ReopenChunk, Goto
<1>1. UNCHANGED <<shm, data, ctl, maps, counter, pos, snap, faults, early, orphaned>>
  BY DEF histories, bounds, shm
<1>2. /\ pc[p] = "reopen" /\ pc'[p] = "check"
      /\ pc' = [pc EXCEPT ![p] = pc'[p]]
      /\ fd' = [fd EXCEPT ![p] = fd'[p]] /\ fd'[p] = named[ChunkOf(p)]
      /\ named[ChunkOf(p)] # 0
  BY OpenedBy DEF MutexInv, PlainTypes
<1>3. pc[p] \in Inside /\ StaysIn(p)
  BY <1>2 DEF StaysIn, Inside
<1>4. Steady(p)
  BY <1>1, <1>2, <1>3 DEF Steady, ArrayInv, TypeOK
<1>5. fd'[p] \in 1..made[ChunkOf(p)] /\ fd'[p] \in Nat
  BY <1>2, <1>3, InsideFacts, ObjectsPositive
<1>6. fd' \in [Procs -> Nat]
  BY <1>2, <1>5, OpenedBy
<1> QED BY <1>1, <1>2, <1>3, <1>4, <1>5, <1>6, OpenedBy, InsideFacts, LocalKeeps

LEMMA MapChunkKeeps ==
  ASSUME RoundedUp, MutexInv, ArrayInv, NEW p \in Procs, MapChunk(p)
  PROVE  ArrayInv'
<1> DEFINE c == ChunkOf(p)
<1>1. UNCHANGED <<shm, data, ctl, counter, pos, snap, faults, early, orphaned>>
  BY DEF MapChunk, histories, bounds, shm
<1>2. /\ pc[p] \in {"map", "mapOwn"} /\ pc'[p] = "use"
      /\ pc' = [pc EXCEPT ![p] = pc'[p]]
      /\ fd' = [fd EXCEPT ![p] = 0]
      /\ maps' = [maps EXCEPT ![p][c] = fd[p]]
  BY DEF MutexInv, PlainTypes, MapChunk, Goto
<1> HIDE DEF c
<1>3. pc[p] \in Inside /\ pc[p] \in WithFile /\ StaysIn(p)
  BY <1>2 DEF StaysIn, Inside, WithFile
<1>4. Steady(p)
  BY <1>1, <1>2, <1>3 DEF Steady, ArrayInv, TypeOK
<1>5. c \in Chunks /\ fd[p] \in 1..made[c] /\ fd[p] \in Objects
  BY <1>3, InsideFacts DEF c
<1>6. fd' \in [Procs -> Nat] /\ \A q \in Procs : q # p => fd'[q] = fd[q]
  BY <1>2, OpenedBy
<1>7. /\ maps[p] \in [Chunks -> Objects \cup {0}]
      /\ maps' = [maps EXCEPT ![p] = [maps[p] EXCEPT ![c] = fd[p]]]
  BY <1>2, OpenedBy
<1>8. [maps[p] EXCEPT ![c] = fd[p]] \in [Chunks -> Objects \cup {0}]
  BY <1>5, <1>7
<1>9. /\ maps' \in [Procs -> [Chunks -> Objects \cup {0}]]
      /\ maps'[p] = [maps[p] EXCEPT ![c] = fd[p]]
      /\ \A q \in Procs : q # p => maps'[q] = maps[q]
  BY <1>7, <1>8, OpenedBy
<1>10. \A d \in Chunks : maps'[p][d] <= made[d]
  BY <1>5, <1>7, <1>9, OpenedBy
<1>11. maps'[p][c] # 0
  BY <1>5, <1>7, <1>9
<1>12. pc'[p] \notin WithFile /\ pc[p] # "truncate"
  BY <1>2 DEF WithFile
<1> QED BY <1>1, <1>2, <1>3, <1>4, <1>6, <1>9, <1>10, <1>11, <1>12, OpenedBy, InsideFacts, LocalKeeps
     DEF c

\* Steps of the creator on the control object.
LEMMA CreateControlKeepsAll ==
  ASSUME RoundedUp, MutexInv, ArrayInv, NEW p \in Procs, CreateControl(p)
  PROVE  ArrayInv'
<1>1. UNCHANGED <<sized, written, ready, locked, data, maps, fd, counter, pos, snap, faults,
                  early, orphaned>>
  BY DEF CreateControl, Creates, histories, bounds
<1>2. Creates(Control)
  BY DEF CreateControl
<1>3. /\ pc[p] = "start" /\ pc'[p] = "ctlTruncate"
      /\ pc' = [pc EXCEPT ![p] = pc'[p]]
      /\ ctl' = [ctl EXCEPT ![p] = ctl'[p]] /\ ctl'[p] = made'[Control]
  BY OpenedBy DEF MutexInv, PlainTypes, CreateControl, Goto
<1>4. /\ Counts'
      /\ named' \in [Names -> Objects \cup {0}]
      /\ made' \in [Names -> 0..(MaxFaults + 1)]
      /\ \A m \in Names : made[m] <= made'[m]
      /\ \A m \in Names : m # Control => named'[m] = named[m]
      /\ made'[Control] \in 1..(MaxFaults + 1)
  BY <1>1, <1>2, ControlIsAName, MakesOne
<1>5. ctl'[p] \in Objects /\ ctl'[p] \in 1..made'[Control]
  BY <1>3, <1>4 DEF Objects
<1>6. ctl' \in [Procs -> Objects \cup {0}]
  BY <1>3, <1>5, OpenedBy
<1>7. Steady(p)
  BY <1>1, <1>3 DEF Steady, StaysOut, Inside
<1>8. TypeOK' /\ MoreTypes'
  BY <1>1, <1>4, <1>6 DEF ArrayInv, TypeOK, MoreTypes
<1>9. Opened'
  <2>1. pc'[p] \notin WithFile /\ pc'[p] # "use"
    BY <1>3 DEF WithFile
  <2>2. \A n \in Names : made'[n] \in Nat /\ made[n] \in Nat
    BY <1>4, ArrayAssumption DEF MutexInv, PlainTypes
  <2>3. \A c \in Chunks : maps'[p][c] <= made'[c]
    <3> SUFFICES ASSUME NEW c \in Chunks PROVE maps[p][c] <= made'[c]
      BY <1>1
    <3>1. maps[p][c] \in Objects \cup {0}
      BY OpenedBy
    <3>2. maps[p][c] \in Nat /\ maps[p][c] <= made[c] /\ c \in Names
      BY <3>1, OpenedBy, ObjectsPositive, ChunksAreNames
    <3> QED BY <3>2, <2>2, <1>4
  <2> QED BY <1>1, <1>4, <1>5, <1>7, <2>1, <2>2, <2>3, OpenedKept
<1>10. HalfMade'
  <2>1. \A c \in Chunks : named'[c] = named[c]
    BY <1>4, ChunksAreNames
  <2> QED BY <1>1, <1>3, <1>7, <2>1, HalfMadeKept
<1> QED BY <1>1, <1>4, <1>7, <1>8, <1>9, <1>10, SteadyKeeps, LeftLockedKept DEF ArrayInv

\* Steps that make no object and open none.
LEMMA NoNewObject ==
  ASSUME RoundedUp, MutexInv, ArrayInv, NEW p \in Procs, Steady(p),
         UNCHANGED <<named, made, ctl, maps, fd>>,
         pc'[p] \in Attached => pc[p] \in Attached,
         pc'[p] \in WithFile => pc[p] \in WithFile,
         pc'[p] # "use"
  PROVE  Opened' /\ Counts' /\ MoreTypes'
<1>1. Counts' /\ MoreTypes'
  BY DEF Steady, ArrayInv, Counts, MoreTypes
<1>2. \A n \in Names : made'[n] \in Nat /\ made[n] <= made'[n]
  BY DEF MutexInv, PlainTypes
<1> QED BY <1>1, <1>2, OpenedBy, OpenedKept

LEMMA TruncateControlKeeps ==
  ASSUME RoundedUp, MutexInv, ArrayInv, NEW p \in Procs, TruncateControl(p)
  PROVE  ArrayInv'
<1>1. UNCHANGED <<named, made, written, ready, locked, data, ctl, maps, fd, counter, pos, snap,
                  faults, early, orphaned>>
  BY DEF TruncateControl, locals, histories, bounds
<1>2. /\ pc[p] = "ctlTruncate" /\ pc'[p] = "ctlWrite"
      /\ pc' = [pc EXCEPT ![p] = pc'[p]]
      /\ sized' = [sized EXCEPT ![Control] = sized[Control] \cup {ctl[p]}]
  BY DEF MutexInv, PlainTypes, TruncateControl, Goto, Sizes, ArrayInv, TypeOK
<1>3. Steady(p)
  BY <1>1, <1>2 DEF Steady, StaysOut, Inside, ArrayInv, TypeOK
<1>4. ctl[p] \in Objects
  <2>1. ctl[p] \in Objects \cup {0} /\ ctl[p] \in 1..made[Control]
    BY <1>2, OpenedBy DEF Attached, Constructing
  <2> QED BY <2>1
<1>5. sized[Control] \cup {ctl[p]} \in SUBSET Objects
  BY <1>4, ControlIsAName DEF ArrayInv, TypeOK
<1>6. sized' \in [Names -> SUBSET Objects] /\ \A c \in Chunks : sized'[c] = sized[c]
  BY <1>2, <1>5, ChunksAreNames DEF ArrayInv, TypeOK
<1>7. TypeOK'
  BY <1>1, <1>6 DEF ArrayInv, TypeOK
<1>8. Opened' /\ Counts' /\ MoreTypes'
  BY <1>1, <1>2, <1>3, NoNewObject DEF Attached, Constructing, WithFile
<1>9. HalfMade'
  BY <1>1, <1>2, <1>3, <1>6, HalfMadeKept
<1> QED BY <1>1, <1>3, <1>7, <1>8, <1>9, SteadyKeeps, LeftLockedKept DEF ArrayInv

LEMMA WriteFieldKeeps ==
  ASSUME RoundedUp, MutexInv, ArrayInv, NEW p \in Procs, NEW f \in Fields, WriteField(p, f)
  PROVE  ArrayInv'
<1>1. UNCHANGED <<named, made, sized, ready, locked, data, pc, ctl, maps, fd, counter, pos, snap,
                  faults, early, orphaned>>
  BY DEF WriteField, locals, histories, bounds
<1>2. /\ pc[p] = "ctlWrite" /\ pc'[p] = "ctlWrite"
      /\ pc' = [pc EXCEPT ![p] = pc'[p]]
      /\ written' = [written EXCEPT ![ctl[p]] = written[ctl[p]] \cup {f}]
  BY <1>1 DEF MutexInv, PlainTypes, WriteField
<1>3. Steady(p)
  BY <1>1, <1>2 DEF Steady, StaysOut, Inside, ArrayInv, TypeOK
<1>4. ctl[p] \in Objects
  <2>1. ctl[p] \in Objects \cup {0} /\ ctl[p] \in 1..made[Control]
    BY <1>2, OpenedBy DEF Attached, Constructing
  <2> QED BY <2>1
<1>5. written[ctl[p]] \cup {f} \in SUBSET Fields
  BY <1>4 DEF ArrayInv, TypeOK
<1>6. written' \in [Objects -> SUBSET Fields]
  BY <1>2, <1>5 DEF ArrayInv, TypeOK
<1>7. TypeOK'
  BY <1>1, <1>6 DEF ArrayInv, TypeOK
<1>8. Opened' /\ Counts' /\ MoreTypes'
  BY <1>1, <1>2, <1>3, NoNewObject DEF WithFile
<1>9. HalfMade'
  BY <1>1, <1>2, <1>3, HalfMadeKept
<1> QED BY <1>1, <1>3, <1>7, <1>8, <1>9, SteadyKeeps, LeftLockedKept DEF ArrayInv

\* The mutex of a new object is nobody's: no process that ended held it, unless early.
LEMMA InitMutexKeepsAll ==
  ASSUME RoundedUp, MutexInv, ArrayInv, NEW p \in Procs, InitMutex(p)
  PROVE  ArrayInv'
<1>1. UNCHANGED <<named, made, sized, written, data, ctl, maps, fd, counter, pos, snap,
                  faults, early, orphaned>>
  BY DEF InitMutex, histories, bounds
<1>2. /\ pc[p] = "ctlWrite" /\ pc'[p] = "idle"
      /\ pc' = [pc EXCEPT ![p] = pc'[p]]
      /\ ready' = ready \cup {ctl[p]} /\ locked' = locked \ {ctl[p]}
  BY DEF MutexInv, PlainTypes, InitMutex, Goto
<1>3. Steady(p)
  BY <1>1, <1>2 DEF Steady, StaysOut, Inside, ArrayInv, TypeOK
<1>4. ctl[p] \in Objects
  <2>1. ctl[p] \in Objects \cup {0} /\ ctl[p] \in 1..made[Control]
    BY <1>2, OpenedBy DEF Attached, Constructing
  <2> QED BY <2>1
<1>5. TypeOK'
  BY <1>1, <1>2, <1>4 DEF ArrayInv, TypeOK
<1>6. Opened' /\ Counts' /\ MoreTypes'
  BY <1>1, <1>2, <1>3, NoNewObject DEF Attached, Constructing, WithFile
<1>7. HalfMade'
  BY <1>1, <1>2, <1>3, HalfMadeKept
<1>8. LeftLocked'
  <2>1. ctl[p] \notin ready
    BY <1>2 DEF MutexInv, CreatorInv, Constructing
  <2> QED BY <1>1, <1>2, <2>1, <1>3, SteadyPlaces DEF ArrayInv, LeftLocked
<1> QED BY <1>3, <1>5, <1>6, <1>7, <1>8, SteadyKeeps DEF ArrayInv

\* Steps inside that make a chunk.
LEMMA CreateChunkKeeps ==
  ASSUME RoundedUp, MutexInv, ArrayInv, NEW p \in Procs, CreateChunk(p)
  PROVE  ArrayInv'
<1> DEFINE c == ChunkOf(p)
<1>1. UNCHANGED <<sized, written, ready, locked, data, ctl, maps, counter, pos, snap, faults,
                  early, orphaned>>
  BY DEF CreateChunk, Creates, histories, bounds
<1>2. Creates(c)
  BY DEF CreateChunk
<1>3. /\ pc[p] = "access" /\ pc'[p] = "truncate"
      /\ pc' = [pc EXCEPT ![p] = pc'[p]]
      /\ fd' = [fd EXCEPT ![p] = fd'[p]] /\ fd'[p] = made'[c]
  BY OpenedBy DEF MutexInv, PlainTypes, CreateChunk, NeedsChunk, Goto
<1>4. pc[p] \in Inside /\ StaysIn(p)
  BY <1>3 DEF StaysIn, Inside
<1>5. c \in Chunks /\ c \in Names /\ ctl[p] \in 1..made[Control]
  BY <1>4, InsideFacts
<1> HIDE DEF c
<1>6. /\ Counts'
      /\ named' \in [Names -> Objects \cup {0}]
      /\ made' \in [Names -> 0..(MaxFaults + 1)]
      /\ \A m \in Names : made[m] <= made'[m]
      /\ \A m \in Names : m # c => named'[m] = named[m]
      /\ made'[c] \in 1..(MaxFaults + 1)
  BY <1>1, <1>2, <1>5, MakesOne
<1>7. fd'[p] \in Nat /\ fd'[p] \in 1..made'[c]
  BY <1>3, <1>6
<1>8. fd' \in [Procs -> Nat] /\ \A q \in Procs : q # p => fd'[q] = fd[q]
  BY <1>3, <1>7, OpenedBy
<1>9. Steady(p)
  BY <1>1, <1>3, <1>4 DEF Steady, ArrayInv, TypeOK
<1>10. TypeOK' /\ MoreTypes'
  BY <1>1, <1>6, <1>8 DEF ArrayInv, TypeOK, MoreTypes
<1>11. \A n \in Names : made'[n] \in Nat /\ made[n] \in Nat
  BY <1>6, ArrayAssumption DEF MutexInv, PlainTypes
<1>12. Opened'
  <2>1. pc'[p] # "use" /\ ctl'[p] \in 1..made'[Control]
    BY <1>1, <1>3, <1>5, <1>6, <1>11, ControlIsAName
  <2>2. \A d \in Chunks : maps'[p][d] <= made'[d]
    <3> SUFFICES ASSUME NEW d \in Chunks PROVE maps[p][d] <= made'[d]
      BY <1>1
    <3>1. maps[p][d] \in Objects \cup {0}
      BY OpenedBy
    <3>2. maps[p][d] \in Nat /\ maps[p][d] <= made[d] /\ d \in Names
      BY <3>1, OpenedBy, ObjectsPositive, ChunksAreNames
    <3> QED BY <3>2, <1>11, <1>6
  <2> QED BY <1>1, <1>6, <1>7, <1>8, <1>9, <1>11, <2>1, <2>2, OpenedKept DEF c
<1>13. HalfMade'
  <2>1. \A d \in Chunks : d # c => named'[d] = named[d]
    BY <1>6, ChunksAreNames
  <2> QED BY <1>1, <1>3, <1>9, <2>1, HalfMadeKept DEF c
<1> QED BY <1>1, <1>6, <1>9, <1>10, <1>12, <1>13, SteadyKeeps, LeftLockedKept DEF ArrayInv

LEMMA TruncateChunkKeeps ==
  ASSUME RoundedUp, MutexInv, ArrayInv, NEW p \in Procs, TruncateChunk(p)
  PROVE  ArrayInv'
<1> DEFINE c == ChunkOf(p)
<1>1. UNCHANGED <<named, made, written, ready, locked, data, ctl, maps, fd, counter, pos, snap,
                  faults, early, orphaned>>
  BY DEF TruncateChunk, locals, histories, bounds
<1>2. /\ pc[p] = "truncate" /\ pc'[p] = "mapOwn"
      /\ pc' = [pc EXCEPT ![p] = pc'[p]]
  BY DEF MutexInv, PlainTypes, TruncateChunk, Goto
<1>3. pc[p] \in Inside /\ pc[p] \in WithFile /\ StaysIn(p)
  BY <1>2 DEF StaysIn, Inside, WithFile
<1>4. c \in Chunks /\ c \in Names /\ fd[p] \in Objects
  BY <1>3, InsideFacts
<1>5. sized' = [sized EXCEPT ![c] = sized[c] \cup {fd[p]}]
  BY <1>4 DEF TruncateChunk, Sizes, ArrayInv, TypeOK
<1>6. faults = 0 => fd[p] = named[c]
  BY <1>3, OneObject
<1> HIDE DEF c
<1>7. sized[c] \cup {fd[p]} \in SUBSET Objects
  BY <1>4 DEF ArrayInv, TypeOK
<1>8. /\ sized' \in [Names -> SUBSET Objects]
      /\ \A d \in Names : d # c => sized'[d] = sized[d]
      /\ fd[p] \in sized'[c]
  BY <1>4, <1>5, <1>7 DEF ArrayInv, TypeOK
<1>9. Steady(p)
  BY <1>1, <1>2, <1>3 DEF Steady, ArrayInv, TypeOK
<1>10. TypeOK'
  BY <1>1, <1>8 DEF ArrayInv, TypeOK
<1>11. Opened' /\ Counts' /\ MoreTypes'
  BY <1>1, <1>2, <1>3, <1>9, NoNewObject DEF Attached
<1>12. HalfMade'
  <2> SUFFICES ASSUME NEW d \in Chunks, faults = 0, named'[d] # 0, named'[d] \notin sized'[d]
               PROVE  /\ named[d] # 0 /\ named[d] \notin sized[d]
                      /\ ~(pc[p] = "truncate" /\ ChunkOf(p) = d)
    BY <1>9, HalfMadeKept
  <2>1. d # c
    BY <1>1, <1>6, <1>8
  <2> QED BY <2>1, <1>1, <1>8, ChunksAreNames DEF c
<1> QED BY <1>1, <1>9, <1>10, <1>11, <1>12, SteadyKeeps, LeftLockedKept DEF ArrayInv

-----------------------------------------------------------------------------
\* Steps that change somebody's place among the elements.

Others(p) ==
  \A q \in Procs : q # p =>
    /\ pc'[q] = pc[q] /\ ctl'[q] = ctl[q] /\ fd'[q] = fd[q] /\ maps'[q] = maps[q]
    /\ pos'[q] = pos[q] /\ snap'[q] = snap[q]
    /\ q \in Writers => counter'[q] = counter[q]

LEMMA OpenedOthers ==
  ASSUME ArrayInv, NEW p \in Procs, Others(p), UNCHANGED made,
         pc'[p] \in Attached => ctl'[p] \in 1..made[Control],
         pc'[p] \notin WithFile, pc'[p] # "use",
         \A c \in Chunks : maps'[p][c] <= made[c]
  PROVE  Opened'
<1>1. \A q \in Procs : q # p => ChunkOf(q)' = ChunkOf(q)
  BY SameElement DEF Others
<1> SUFFICES ASSUME NEW q \in Procs
             PROVE  /\ pc'[q] \in Attached => ctl'[q] \in 1..made[Control]
                    /\ pc'[q] \in WithFile => fd'[q] \in 1..made[ChunkOf(q)']
                    /\ \A c \in Chunks : maps'[q][c] <= made[c]
                    /\ pc'[q] = "use" => maps'[q][ChunkOf(q)'] # 0
  BY DEF Opened
<1>2. CASE q = p
  BY <1>2
<1>3. CASE q # p
  BY <1>1, <1>3 DEF ArrayInv, Opened, Others
<1> QED BY <1>2, <1>3

\* p leaves the shared memory of the chunks alone.
LEMMA HalfMadeOthers ==
  ASSUME ArrayInv, NEW p \in Procs, Others(p), UNCHANGED <<named, sized, faults>>,
         pc[p] # "truncate" \/ (faults = 0 => 1 \in orphaned'),
         orphaned \subseteq orphaned'
  PROVE  HalfMade'
<1>1. \A q \in Procs : q # p => ChunkOf(q)' = ChunkOf(q)
  BY SameElement DEF Others
<1> SUFFICES ASSUME faults = 0, NEW c \in Chunks, named[c] # 0, named[c] \notin sized[c],
                    1 \notin orphaned'
             PROVE  \E q \in Procs : pc'[q] = "truncate" /\ ChunkOf(q)' = c
  BY DEF HalfMade
<1>2. PICK q \in Procs : pc[q] = "truncate" /\ ChunkOf(q) = c
  BY DEF ArrayInv, HalfMade
<1>3. q # p
  BY <1>2
<1> QED BY <1>1, <1>2, <1>3 DEF Others

LEMMA LockKeepsAll ==
  ASSUME RoundedUp, MutexInv, ArrayInv, NEW p \in Procs, Lock(p)
  PROVE  ArrayInv'
<1> USE DEF ArrayInv
<1>1. /\ UNCHANGED <<named, made, sized, written, ready, data, ctl, maps, fd, snap, faults,
                     orphaned>>
      /\ early \subseteq early'
      /\ counter' = [w \in Writers |-> IF w = p THEN counter[w] + 1 ELSE counter[w]]
      /\ locked' = locked \cup {ctl[p]}
      /\ ctl[p] \notin locked
      /\ p \in Writers => counter[p] < MaxCounter
  BY DEF Lock, bounds
<1>2. /\ pc[p] = "idle" /\ pc'[p] = "access"
      /\ pc' = [pc EXCEPT ![p] = pc'[p]]
      /\ pos' = [pos EXCEPT ![p] = 1] /\ pos'[p] = 1
  BY DEF MutexInv, PlainTypes, MoreTypes, Lock, Goto
<1>3. Others(p)
  BY <1>1, <1>2 DEF Others, MutexInv, PlainTypes, MoreTypes, TypeOK
<1>4. ctl[p] \in Objects /\ ctl[p] \in 1..made[Control]
  <2>1. ctl[p] \in Objects \cup {0} /\ ctl[p] \in 1..made[Control]
    BY <1>2, OpenedBy DEF Attached
  <2> QED BY <2>1
<1>5. counter' \in [Writers -> 0..MaxCounter]
  BY <1>1, ArrayAssumption DEF TypeOK
<1>6. TypeOK' /\ MoreTypes' /\ Counts'
  BY <1>1, <1>2, <1>4, <1>5 DEF TypeOK, MoreTypes, Counts
<1>7. Opened'
  <2>1. pc'[p] \notin WithFile /\ pc'[p] # "use"
    BY <1>2 DEF WithFile
  <2> QED BY <1>1, <1>3, <1>4, <2>1, OpenedBy, OpenedOthers
<1>8. AtElement'
  <2>1. 1 \in 1..Turns(p)
    BY TurnsPositive
  <2> QED BY <1>2, <1>3, <2>1 DEF AtElement, Others
<1>9. LeftLocked'
  <2>1. \A q \in Procs : pc'[q] \in Inside => q = p \/ (pc[q] \in Inside /\ ctl'[q] = ctl[q])
    BY <1>3 DEF Others
  <2> QED BY <1>1, <2>1 DEF LeftLocked
<1>10. HalfMade'
  BY <1>1, <1>2, <1>3, HalfMadeOthers
<1>11. \A w \in Writers : Halfway(w)' <=> Halfway(w)
  BY <1>2, <1>3 DEF Halfway, Others, Procs, Inside
<1>12. \A w \in Writers : Halfway(w) => w # p
  BY <1>2 DEF Halfway, Inside
<1>13. Whole'
  BY <1>1, <1>11 DEF Whole, Agrees
<1>14. HalfwayInv'
  BY <1>1, <1>11, <1>12 DEF HalfwayInv
<1>15. Current'
  <2> SUFFICES ASSUME faults = 0, 1 \notin early, NEW r \in Readers, pc'[r] \in Inside,
                      NEW i \in Indices, i < Read(r)'
               PROVE  snap[r][i] = data[1][i]
    BY <1>1 DEF Current
  <2>1. r \in Procs
    BY DEF Procs
  <2>2. r # p
    BY <1>2, ArrayAssumption DEF Read, Indices
  <2>3. pc[r] \in Inside /\ Read(r)' = Read(r)
    BY <1>3, <2>1, <2>2 DEF Others, Read
  <2> QED BY <2>3 DEF Current
<1> QED BY <1>6, <1>7, <1>8, <1>9, <1>10, <1>13, <1>14, <1>15

LEMMA UnlockKeepsAll ==
  ASSUME RoundedUp, MutexInv, ArrayInv, NEW p \in Procs, Unlock(p)
  PROVE  ArrayInv'
<1> USE DEF ArrayInv
<1>1. /\ UNCHANGED <<named, made, sized, written, ready, data, ctl, maps, fd, counter, faults,
                     early, orphaned>>
      /\ locked' = locked \ {ctl[p]}
  BY DEF Unlock, bounds, histories
<1>2. /\ pc[p] = "unlock" /\ pc'[p] = "idle" /\ pc[p] \in Inside
      /\ pc' = [pc EXCEPT ![p] = pc'[p]]
      /\ pos' = [pos EXCEPT ![p] = 0]
      /\ snap' = [snap EXCEPT ![p] = NoSnap]
  BY DEF MutexInv, PlainTypes, Unlock, Goto, Inside
<1>3. Others(p)
  BY <1>1, <1>2 DEF Others, MutexInv, PlainTypes, MoreTypes, TypeOK
<1>4. NoSnap \in [Indices -> 0..MaxCounter]
  BY ArrayAssumption DEF NoSnap
<1>5. snap' \in [Procs -> [Indices -> 0..MaxCounter]]
  BY <1>2, <1>4 DEF TypeOK
<1>6. TypeOK' /\ MoreTypes' /\ Counts'
  BY <1>1, <1>2, <1>5 DEF TypeOK, MoreTypes, Counts
<1>7. Opened'
  <2>1. pc'[p] \notin WithFile /\ pc'[p] # "use"
    BY <1>2 DEF WithFile
  <2>2. ctl'[p] \in 1..made[Control]
    BY <1>1, <1>2, OpenedBy DEF Attached
  <2> QED BY <1>1, <1>3, <2>1, <2>2, OpenedBy, OpenedOthers
<1>8. AtElement'
  BY <1>2, <1>3 DEF AtElement, Others, Inside
<1>9. LeftLocked'
  <2>1. \A q \in Procs : pc'[q] \in Inside => pc[q] \in Inside /\ ctl'[q] = ctl[q]
    BY <1>2, <1>3 DEF Others, Inside
  <2> QED BY <1>1, <1>2, <2>1 DEF LeftLocked
<1>10. HalfMade'
  BY <1>1, <1>2, <1>3, HalfMadeOthers
<1>11. \A w \in Writers : Halfway(w)' <=> Halfway(w)
  BY <1>2, <1>3 DEF Halfway, Others, Procs, Inside
<1>12. Whole'
  BY <1>1, <1>11 DEF Whole, Agrees
<1>13. HalfwayInv'
  BY <1>1, <1>11 DEF HalfwayInv
<1>14. Current'
  <2> SUFFICES ASSUME faults = 0, 1 \notin early, NEW r \in Readers, pc'[r] \in Inside,
                      NEW i \in Indices, i < Read(r)'
               PROVE  snap'[r][i] = data[1][i]
    BY <1>1 DEF Current
  <2>1. r \in Procs /\ r # p
    BY <1>2 DEF Procs, Inside
  <2>2. pc[r] \in Inside /\ Read(r)' = Read(r) /\ snap'[r] = snap[r]
    BY <1>3, <2>1 DEF Others, Read
  <2> QED BY <2>2 DEF Current
<1> QED BY <1>6, <1>7, <1>8, <1>9, <1>10, <1>12, <1>13, <1>14

\* What the use of an element does, whoever uses it.
UseFacts(p, o, e) ==
  /\ UNCHANGED <<named, made, sized, written, ready, locked, ctl, maps, fd, counter, faults,
                 early, orphaned>>
  /\ pc[p] = "use" /\ pc' = [pc EXCEPT ![p] = pc'[p]] /\ pos' = [pos EXCEPT ![p] = pos'[p]]
  /\ \/ pos[p] < Turns(p) /\ pos'[p] = pos[p] + 1 /\ pc'[p] = "access"
     \/ pos[p] = Turns(p) /\ pos'[p] = pos[p] /\ pc'[p] = "unlock"
  /\ \/ /\ p \in Writers
        /\ data' = [data EXCEPT ![o] = [data[o] EXCEPT ![e] = counter[p]]] /\ snap' = snap
     \/ /\ p \notin Writers
        /\ snap' = [snap EXCEPT ![p] = [snap[p] EXCEPT ![e] = data[o][e]]] /\ data' = data

LEMMA UsesOne ==
  ASSUME RoundedUp, MutexInv, ArrayInv, NEW p \in Procs, UseElement(p)
  PROVE  \E o \in Objects, e \in Indices :
           /\ UseFacts(p, o, e)
           /\ pos[p] \in 1..Turns(p)
           /\ e = Element(p)
           /\ faults = 0 => o = 1
<1> DEFINE o == maps[p][ChunkOf(p)]
           e == Element(p)
<1>1. pc[p] = "use" /\ pc[p] \in Inside
  BY DEF UseElement, Inside
<1>2. pos[p] \in 1..Turns(p) /\ ChunkOf(p) \in Chunks
  BY <1>1, InsideFacts
<1>3. e \in Indices
  BY <1>2, ElementIsIndex DEF ArrayInv
<1>4. o \in Objects \cup {0} /\ o # 0
  <2>1. maps[p] \in [Chunks -> Objects \cup {0}]
    BY OpenedBy
  <2> QED BY <2>1, <1>1, <1>2 DEF ArrayInv, Opened
<1>5. faults = 0 => o = 1
  BY <1>1, OneObject
<1>6. Len(Uses(p)) = Turns(p) /\ Turns(p) \in Nat /\ pos[p] \in Nat
  BY UsesLength, TurnsPositive, <1>2
<1>7. UNCHANGED <<named, made, sized, written, ready, locked, ctl, maps, fd, counter, faults,
                  early, orphaned>>
  BY DEF UseElement, bounds, histories
<1>8. IF pos[p] < Turns(p)
      THEN pos' = [pos EXCEPT ![p] = pos[p] + 1] /\ pc' = [pc EXCEPT ![p] = "access"]
      ELSE pos' = pos /\ pc' = [pc EXCEPT ![p] = "unlock"]
  BY <1>6 DEF UseElement, Goto
<1>9. IF p \in Writers
      THEN data' = [data EXCEPT ![o][e] = counter[p]] /\ snap' = snap
      ELSE snap' = [snap EXCEPT ![p][e] = data[o][e]] /\ data' = data
  BY DEF UseElement
<1> HIDE DEF o, e
<1>10. /\ pc' = [pc EXCEPT ![p] = pc'[p]] /\ pos' = [pos EXCEPT ![p] = pos'[p]]
       /\ \/ pos[p] < Turns(p) /\ pos'[p] = pos[p] + 1 /\ pc'[p] = "access"
          \/ pos[p] = Turns(p) /\ pos'[p] = pos[p] /\ pc'[p] = "unlock"
  BY <1>2, <1>6, <1>8 DEF ArrayInv, MoreTypes, MutexInv, PlainTypes
<1>11. \/ /\ p \in Writers
          /\ data' = [data EXCEPT ![o] = [data[o] EXCEPT ![e] = counter[p]]] /\ snap' = snap
       \/ /\ p \notin Writers
          /\ snap' = [snap EXCEPT ![p] = [snap[p] EXCEPT ![e] = data[o][e]]] /\ data' = data
  BY <1>9
<1>12. UseFacts(p, o, e)
  BY <1>1, <1>7, <1>10, <1>11 DEF UseFacts
<1> QED BY <1>2, <1>3, <1>4, <1>5, <1>12 DEF e

LEMMA UseElementKeeps ==
  ASSUME RoundedUp, MutexInv, ArrayInv, NEW p \in Procs, UseElement(p)
  PROVE  ArrayInv'
<1> USE DEF ArrayInv
<1>1. PICK o \in Objects, e \in Indices :
        /\ UseFacts(p, o, e)
        /\ pos[p] \in 1..Turns(p)
        /\ e = Element(p)
        /\ faults = 0 => o = 1
  BY UsesOne
<1>2. /\ UNCHANGED <<named, made, sized, written, ready, locked, ctl, maps, fd, counter, faults,
                     early, orphaned>>
      /\ pc[p] = "use" /\ pc[p] \in Inside
      /\ pc' = [pc EXCEPT ![p] = pc'[p]] /\ pos' = [pos EXCEPT ![p] = pos'[p]]
      /\ \/ pos[p] < Turns(p) /\ pos'[p] = pos[p] + 1 /\ pc'[p] = "access"
         \/ pos[p] = Turns(p) /\ pos'[p] = pos[p] /\ pc'[p] = "unlock"
  BY <1>1 DEF UseFacts, Inside
<1>3. p \in Writers =>
        data' = [data EXCEPT ![o] = [data[o] EXCEPT ![e] = counter[p]]] /\ snap' = snap
  BY <1>1 DEF UseFacts
<1>4. p \notin Writers =>
        snap' = [snap EXCEPT ![p] = [snap[p] EXCEPT ![e] = data[o][e]]] /\ data' = data
  BY <1>1 DEF UseFacts
<1>5. Turns(p) \in Nat /\ pos[p] \in Nat
  BY <1>1, TurnsPositive
<1>6. Others(p)
  BY <1>2, <1>3, <1>4 DEF Others, MutexInv, PlainTypes, MoreTypes, TypeOK
<1>7. TypeOK' /\ MoreTypes' /\ Counts'
  <2>1. data' \in [Objects -> [Indices -> 0..MaxCounter]] /\ snap' \in [Procs -> [Indices -> 0..MaxCounter]]
    <3>1. CASE p \in Writers
      <4>1. counter[p] \in 0..MaxCounter /\ data[o] \in [Indices -> 0..MaxCounter]
        BY <3>1 DEF TypeOK
      <4>2. [data[o] EXCEPT ![e] = counter[p]] \in [Indices -> 0..MaxCounter]
        BY <4>1
      <4> QED BY <3>1, <4>2, <1>3 DEF TypeOK
    <3>2. CASE p \notin Writers
      <4>1. data[o][e] \in 0..MaxCounter /\ snap[p] \in [Indices -> 0..MaxCounter]
        BY DEF TypeOK
      <4>2. [snap[p] EXCEPT ![e] = data[o][e]] \in [Indices -> 0..MaxCounter]
        BY <4>1
      <4> QED BY <3>2, <4>2, <1>4 DEF TypeOK
    <3> QED BY <3>1, <3>2
  <2>2. pos' \in [Procs -> Nat]
    BY <1>2, <1>5 DEF MoreTypes
  <2> QED BY <1>2, <2>1, <2>2 DEF TypeOK, MoreTypes, Counts
<1>8. Opened'
  <2>1. pc'[p] \notin WithFile /\ pc'[p] # "use"
    BY <1>2 DEF WithFile
  <2>2. ctl'[p] \in 1..made[Control]
    BY <1>2, OpenedBy DEF Attached
  <2> QED BY <1>2, <1>6, <2>1, <2>2, OpenedBy, OpenedOthers
<1>9. AtElement'
  <2>1. pos'[p] \in 1..Turns(p) /\ (pc'[p] = "unlock" => pos'[p] = Turns(p))
    BY <1>1, <1>2, <1>5
  <2> QED BY <1>6, <2>1 DEF AtElement, Others
<1>10. LeftLocked'
  <2>1. \A q \in Procs : pc'[q] \in Inside => pc[q] \in Inside /\ ctl'[q] = ctl[q]
    BY <1>2, <1>6 DEF Others
  <2> QED BY <1>2, <2>1 DEF LeftLocked
<1>11. HalfMade'
  BY <1>2, <1>6, HalfMadeOthers
\* Of all others nobody is inside.
<1>12. faults = 0 /\ 1 \notin early => \A q \in Procs : pc'[q] \in Inside => q = p
  BY <1>2, <1>6, OneObject DEF Others
<1>13. HalfwayInv'
  <2> SUFFICES ASSUME faults = 0, 1 \notin early, NEW w \in Writers, Halfway(w)'
               PROVE  data'[1][0] = counter[w]
    BY <1>2 DEF HalfwayInv
  <2>1. w = p
    BY <1>12 DEF Halfway, Procs
  <2>2. pos'[p] = 2 /\ pc'[p] # "unlock"
    BY <2>1 DEF Halfway
  <2>3. pos[p] = 1
    BY <2>2, <1>2, <1>5
  <2>4. e = 0 /\ o = 1
    BY <1>1, <2>1, <2>3, ElementIsIndex
  <2> QED BY <2>1, <2>4, <1>3, ObjectsPositive DEF TypeOK
<1>14. Whole'
  <2> SUFFICES ASSUME faults = 0, 1 \notin orphaned \cup early
               PROVE  Agrees' \/ \E w \in Writers : Halfway(w)'
    BY <1>2 DEF Whole
  <2>1. CASE p \notin Writers
    <3>1. \A w \in Writers : Halfway(w)' <=> Halfway(w)
      BY <2>1, <1>6 DEF Halfway, Others, Procs
    <3> QED BY <2>1, <3>1, <1>4 DEF Whole, Agrees
  <2>2. CASE p \in Writers /\ pos[p] = 1
    <3>1. pos'[p] = 2 /\ pc'[p] = "access"
      BY <2>2, <1>2 DEF Turns
    <3> QED BY <2>2, <3>1 DEF Halfway, Inside
  <2>3. CASE p \in Writers /\ pos[p] # 1
    <3>1. pos[p] = 2
      BY <2>3, <1>1 DEF Turns
    <3>2. data[1][0] = counter[p]
      BY <2>3, <3>1, <1>2 DEF HalfwayInv, Halfway
    <3>3. o = 1 /\ e = counter[p] % Size
      BY <2>3, <3>1, <1>1, ElementIsIndex
    <3>4. data' = [data EXCEPT ![1] = [data[1] EXCEPT ![e] = counter[p]]]
      BY <2>3, <3>3, <1>3
    <3>5. data'[1] = [data[1] EXCEPT ![e] = counter[p]] /\ data[1] \in [Indices -> 0..MaxCounter]
      BY <3>4, ObjectsPositive DEF TypeOK
    <3>6. data'[1][0] = counter[p] /\ data'[1][e] = counter[p]
      BY <3>2, <3>5, TurnsPositive
    <3> QED BY <3>3, <3>6 DEF Agrees
  <2> QED BY <2>1, <2>2, <2>3
<1>15. Current'
  <2> SUFFICES ASSUME faults = 0, 1 \notin early, NEW r \in Readers, pc'[r] \in Inside,
                      NEW i \in Indices, i < Read(r)'
               PROVE  snap'[r][i] = data'[1][i]
    BY <1>2 DEF Current
  <2>1. r = p /\ p \notin Writers /\ o = 1
    BY <1>1, <1>12, ArrayAssumption DEF Procs
  <2>2. Read(r)' = pos[p]
    BY <2>1, <1>2, <1>5 DEF Read
  <2>3. Read(r) = pos[p] - 1
    BY <2>1, <1>2 DEF Read
  <2>4. e = pos[p] - 1
    BY <2>1, <1>1, ElementIsIndex
  <2>5. snap'[p] = [snap[p] EXCEPT ![e] = data[1][e]] /\ snap[p] \in [Indices -> 0..MaxCounter]
    BY <2>1, <1>4 DEF TypeOK
  <2>6. CASE i = e
    BY <2>1, <2>5, <2>6, <1>4
  <2>7. CASE i # e
    <3>1. i < pos[p] - 1
      BY <2>2, <2>4, <2>7, <1>5, ArrayAssumption DEF Indices
    <3>2. snap[p][i] = data[1][i]
      BY <3>1, <2>1, <2>3, <1>2 DEF Current
    <3> QED BY <3>2, <2>1, <2>5, <2>7, <1>4
  <2> QED BY <2>6, <2>7
<1> QED BY <1>7, <1>8, <1>9, <1>10, <1>11, <1>13, <1>14, <1>15

-----------------------------------------------------------------------------
\* A process ends, and takes a name with it when a call of a creator has failed.
LEMMA EndsKeepsAll ==
  ASSUME RoundedUp, MutexInv, ArrayInv, NEW p \in Procs, Ends(p),
         UNCHANGED <<made, sized, written, ready, locked, data>>,
         \/ UNCHANGED <<named, faults>>
         \/ \E n \in Names : Unlink(n) /\ faults < MaxFaults /\ faults' = faults + 1
  PROVE  ArrayInv'
<1> USE DEF ArrayInv
<1>1. /\ pc'[p] = "ended" /\ pc' = [pc EXCEPT ![p] = "ended"]
      /\ ctl' = [ctl EXCEPT ![p] = 0]
      /\ maps' = [maps EXCEPT ![p] = NoMaps]
      /\ fd' = [fd EXCEPT ![p] = 0]
      /\ counter' = [w \in Writers |-> IF w = p THEN 0 ELSE counter[w]]
      /\ pos' = [pos EXCEPT ![p] = 0]
      /\ snap' = [snap EXCEPT ![p] = NoSnap]
      /\ orphaned' = IF pc[p] \in Inside THEN orphaned \cup {ctl[p]} ELSE orphaned
      /\ early' = early
  BY DEF Ends, Goto, MutexInv, PlainTypes
<1>2. pc'[p] \notin Attached /\ pc'[p] \notin WithFile /\ pc'[p] # "use" /\ pc'[p] \notin Inside
  BY <1>1 DEF Attached, Constructing, WithFile, Inside
<1>3. Others(p)
  BY <1>1 DEF Others, MutexInv, PlainTypes, MoreTypes, TypeOK
<1>4. /\ faults' \in 0..MaxFaults
      /\ faults' = 0 => faults = 0 /\ named' = named
  BY ArrayAssumption DEF MoreTypes
<1>5. named' \in [Names -> Objects \cup {0}] /\ Counts'
  <2>1. CASE UNCHANGED <<named, faults>>
    BY <2>1 DEF TypeOK, Counts
  <2>2. CASE \E n \in Names : Unlink(n) /\ faults < MaxFaults /\ faults' = faults + 1
    <3>1. PICK n \in Names : named' = [named EXCEPT ![n] = 0]
      BY <2>2 DEF Unlink
    <3>2. faults \in Nat /\ \A m \in Names : made[m] \in Nat
      BY DEF MoreTypes, MutexInv, PlainTypes
    <3>3. named'[n] = 0 /\ \A m \in Names : m # n => named'[m] = named[m]
      BY <3>1 DEF TypeOK
    <3>4. faults' = faults + 1
      BY <2>2
    <3>5. named' \in [Names -> Objects \cup {0}]
      BY <3>1 DEF TypeOK
    <3>6. Counts'
      BY <3>2, <3>3, <3>4 DEF Counts
    <3> QED BY <3>5, <3>6
  <2> QED BY <2>1, <2>2
<1>6. TypeOK' /\ MoreTypes'
  <2>1. NoSnap \in [Indices -> 0..MaxCounter] /\ NoMaps \in [Chunks -> Objects \cup {0}]
    BY ArrayAssumption DEF NoSnap, NoMaps
  <2>2. /\ snap' \in [Procs -> [Indices -> 0..MaxCounter]]
        /\ maps' \in [Procs -> [Chunks -> Objects \cup {0}]]
    BY <1>1, <2>1 DEF TypeOK
  <2>3. counter' \in [Writers -> 0..MaxCounter]
    BY <1>1, ArrayAssumption DEF TypeOK
  <2> QED BY <1>1, <1>4, <1>5, <2>2, <2>3 DEF TypeOK, MoreTypes
<1>7. Opened'
  <2>1. maps'[p] = NoMaps
    BY <1>1 DEF TypeOK
  <2>2. \A c \in Chunks : maps'[p][c] <= made[c]
    BY <2>1, ChunksAreNames DEF NoMaps, MutexInv, PlainTypes
  <2> QED BY <1>2, <1>3, <2>2, OpenedOthers
<1>8. AtElement'
  BY <1>2, <1>3 DEF AtElement, Others, Inside
<1>9. \A q \in Procs : pc'[q] \in Inside => q # p /\ pc[q] \in Inside /\ ctl'[q] = ctl[q]
  BY <1>2, <1>3 DEF Others
<1>10. LeftLocked'
  <2>1. CASE pc[p] \in Inside /\ ctl[p] \notin early
    <3>1. ctl[p] \in ready \cap locked
      BY <2>1 DEF MutexInv, HeldInv
    <3>2. \A q \in Procs : pc'[q] \in Inside => ctl'[q] # ctl[p]
      BY <2>1, <1>9 DEF MutexInv, Exclusive
    <3> QED BY <1>1, <1>9, <3>1, <3>2 DEF LeftLocked
  <2>2. CASE ~(pc[p] \in Inside /\ ctl[p] \notin early)
    <3>1. orphaned' \ early' \subseteq orphaned \ early
      BY <1>1, <2>2
    <3> QED BY <1>9, <3>1 DEF LeftLocked
  <2> QED BY <2>1, <2>2
<1>11. /\ orphaned \subseteq orphaned'
       /\ faults = 0 /\ pc[p] \in Inside => 1 \in orphaned'
  BY <1>1, OneObject
<1>12. HalfMade'
  <2>1. CASE faults' # 0
    BY <2>1 DEF HalfMade
  <2>2. CASE faults' = 0
    BY <2>2, <1>3, <1>4, <1>11, HalfMadeOthers DEF Inside
  <2> QED BY <2>1, <2>2
<1>13. \A w \in Writers : Halfway(w)' <=> w # p /\ Halfway(w)
  BY <1>2, <1>3 DEF Halfway, Others, Procs
<1>14. Whole'
  <2> SUFFICES ASSUME faults' = 0, 1 \notin orphaned' \cup early'
               PROVE  Agrees' \/ \E w \in Writers : Halfway(w)'
    BY DEF Whole
  <2>1. faults = 0 /\ 1 \notin orphaned \cup early /\ pc[p] \notin Inside
    BY <1>1, <1>4, <1>11
  <2>2. Agrees \/ \E w \in Writers : Halfway(w)
    BY <2>1 DEF Whole
  <2>3. \A w \in Writers : Halfway(w) => w # p
    BY <2>1 DEF Halfway
  <2> QED BY <1>13, <2>2, <2>3 DEF Agrees
<1>15. HalfwayInv'
  BY <1>1, <1>4, <1>13 DEF HalfwayInv
<1>16. Current'
  <2> SUFFICES ASSUME faults' = 0, 1 \notin early', NEW r \in Readers, pc'[r] \in Inside,
                      NEW i \in Indices, i < Read(r)'
               PROVE  snap'[r][i] = data[1][i]
    BY DEF Current
  <2>1. r \in Procs /\ r # p /\ pc[r] \in Inside
    BY <1>9 DEF Procs
  <2>2. Read(r)' = Read(r) /\ snap'[r] = snap[r]
    BY <1>3, <2>1 DEF Others, Read
  <2> QED BY <1>1, <1>4, <2>1, <2>2 DEF Current
<1> QED BY <1>5, <1>6, <1>7, <1>8, <1>10, <1>12, <1>14, <1>15, <1>16

\* The steps in which a process ends.
LEMMA EndingKeeps ==
  ASSUME RoundedUp, MutexInv, ArrayInv, NEW p \in Procs,
         \/ CreatorFails(p) \/ ControlRefused(p) \/ AttachRefused(p)
         \/ WildAccess(p) \/ ChunkRefused(p) \/ ChunkFails(p) \/ Crash(p)
  PROVE  ArrayInv'
<1>1. CASE ControlRefused(p) \/ AttachRefused(p) \/ WildAccess(p) \/ ChunkRefused(p) \/ Crash(p)
  <2>1. Ends(p) /\ UNCHANGED <<named, faults, made, sized, written, ready, locked, data>>
    BY <1>1 DEF ControlRefused, AttachRefused, WildAccess, ChunkRefused, Crash, shm, bounds
  <2> QED BY <2>1, EndsKeepsAll
<1>2. CASE CreatorFails(p)
  BY <1>2, ControlIsAName, EndsKeepsAll DEF CreatorFails
<1>3. CASE ChunkFails(p)
  <2>1. ChunkOf(p) \in Names
    BY <1>3, InsideFacts DEF ChunkFails, Inside
  <2> QED BY <1>3, <2>1, EndsKeepsAll DEF ChunkFails
<1> QED BY <1>1, <1>2, <1>3

\* The objects, their names and sizes, what is mapped and what is in the array stay
\* consistent, whoever constructs, writes, reads, fails, ends and starts again, for
\* arrays whose bytes can be rounded up to chunks.  (shared_array.h:24-154)
THEOREM ArrayInvariant ==
  ASSUME RoundedUp
  PROVE  Spec => []ArrayInv
<1>1. Init => ArrayInv
  <2> SUFFICES ASSUME Init PROVE ArrayInv
    OBVIOUS
  <2> USE ArrayAssumption, ControlIsAName, ChunksAreNames
  <2>1. NoSnap \in [Indices -> 0..MaxCounter] /\ NoMaps \in [Chunks -> Objects \cup {0}]
    BY DEF NoSnap, NoMaps
  <2>2. \A p \in Procs : pc[p] = "start"
    BY DEF Init
  <2>3. TypeOK /\ MoreTypes
    <3>1. data = [o \in Objects |-> NoSnap] /\ maps = [p \in Procs |-> NoMaps]
          /\ snap = [p \in Procs |-> NoSnap]
      BY DEF Init
    <3>2. data \in [Objects -> [Indices -> 0..MaxCounter]] /\ maps \in [Procs -> [Chunks -> Objects \cup {0}]]
          /\ snap \in [Procs -> [Indices -> 0..MaxCounter]]
      BY <2>1, <3>1
    <3> QED BY <3>2 DEF Init, TypeOK, MoreTypes
  <2>4. Counts
    BY DEF Init, Counts
  <2>5. Opened
    <3>1. \A p \in Procs : pc[p] \notin Attached /\ pc[p] \notin WithFile /\ pc[p] # "use"
      BY <2>2 DEF Attached, Constructing, WithFile, Inside
    <3>2. \A p \in Procs : \A c \in Chunks : maps[p][c] <= made[c]
      BY DEF Init, NoMaps
    <3> QED BY <3>1, <3>2 DEF Opened
  <2>6. AtElement /\ LeftLocked
    BY <2>2 DEF Init, AtElement, LeftLocked, Inside
  <2>7. HalfMade
    BY DEF Init, HalfMade
  <2>8. data[1][0] = 0
    BY ObjectsPositive, TurnsPositive DEF Init, NoSnap
  <2>9. Whole /\ HalfwayInv /\ Current
    BY <2>2, <2>8 DEF Whole, Agrees, HalfwayInv, Halfway, Current, Inside, Procs
  <2> QED BY <2>3, <2>4, <2>5, <2>6, <2>7, <2>9 DEF ArrayInv
<1>2. MutexInv /\ ArrayInv /\ [Next]_vars => ArrayInv'
  <2> SUFFICES ASSUME MutexInv, ArrayInv, [Next]_vars PROVE ArrayInv'
    OBVIOUS
  <2>1. CASE UNCHANGED vars
    <3> USE <2>1 DEF vars, shm, locals, bounds, histories, ArrayInv
    <3>1. \A p \in Procs : ChunkOf(p)' = ChunkOf(p)
      BY SameElement
    <3>2. TypeOK' /\ MoreTypes' /\ Counts'
      BY DEF TypeOK, MoreTypes, Counts
    <3>3. Opened' /\ HalfMade'
      BY <3>1 DEF Opened, HalfMade
    <3>4. AtElement' /\ LeftLocked'
      BY DEF AtElement, LeftLocked
    <3>5. Whole' /\ HalfwayInv' /\ Current'
      BY DEF Whole, Agrees, Halfway, HalfwayInv, Current, Read
    <3> QED BY <3>2, <3>3, <3>4, <3>5
  <2>2. ASSUME NEW p \in Procs, Construct(p)
        PROVE  ArrayInv'
    BY <2>2, CreateControlKeepsAll, TruncateControlKeeps, InitMutexKeepsAll, EndingKeeps,
       ConstructingKeeps, ReopensKeeps, WriteFieldKeeps DEF Construct
  <2>3. ASSUME NEW p \in Procs, Loop(p)
        PROVE  ArrayInv'
    BY <2>3, LockKeepsAll, ChunkStepsKeep, EndingKeeps, CreateChunkKeeps, TruncateChunkKeeps,
       ReopenChunkKeeps, MapChunkKeeps, UseElementKeeps, UnlockKeepsAll DEF Loop
  <2>4. ASSUME NEW p \in Procs, Crash(p) \/ Restart(p)
        PROVE  ArrayInv'
    BY <2>4, EndingKeeps, RestartKeeps
  <2> QED BY <2>1, <2>2, <2>3, <2>4 DEF Next
<1> QED BY <1>1, <1>2, MutexInvariant, PTL DEF Spec

\* The state stays within its types.  (shared_array.h:156-166)
THEOREM ArrayTypeCorrect ==
  ASSUME RoundedUp
  PROVE  Spec => []TypeOK
<1>1. ArrayInv => TypeOK
  BY DEF ArrayInv
<1> QED BY <1>1, ArrayInvariant, PTL

\* Inside the critical section nobody finds a chunk half made by somebody else,
\* whoever fails, is killed and starts again.  (shared_array.h:133-154)
THEOREM ChunksComeWhole ==
  ASSUME RoundedUp
  PROVE  Spec => []ChunkWhole
<1>1. MutexInv /\ ArrayInv => ChunkWhole
  <2> SUFFICES ASSUME MutexInv, ArrayInv, NEW p \in Procs, pc[p] = "check",
                      ctl[p] \notin early, faults = 0
               PROVE  fd[p] \in sized[ChunkOf(p)]
    BY DEF ChunkWhole
  <2>1. pc[p] \in Inside /\ pc[p] \in WithFile
    BY DEF Inside, WithFile
  <2>2. ctl[p] = 1 /\ fd[p] = 1 /\ named[ChunkOf(p)] = 1 /\ ChunkOf(p) \in Chunks
    BY <2>1, OneObject, InsideFacts
  <2>3. 1 \notin orphaned
    BY <2>1, <2>2 DEF ArrayInv, LeftLocked
  <2>4. \A q \in Procs : pc[q] # "truncate"
    BY <2>1, <2>2, OneObject DEF Inside
  <2> QED BY <2>2, <2>3, <2>4 DEF ArrayInv, HalfMade
<1> QED BY <1>1, MutexInvariant, ArrayInvariant, PTL

\* A reader prints a consistent array, for every number of writers and readers and
\* every size, whoever is killed and starts again.  (first.cpp:19-21, second.cpp:19-20)
THEOREM ReadersSeeConsistent ==
  ASSUME RoundedUp
  PROVE  Spec => []Consistent
<1>1. MutexInv /\ ArrayInv => Consistent
  <2> SUFFICES ASSUME MutexInv, ArrayInv, NEW r \in Readers, pc[r] = "unlock",
                      early = {}, faults = 0, snap[r][0] > 0, snap[r][0] % Size < Printed
               PROVE  snap[r][snap[r][0] % Size] = snap[r][0]
    BY DEF Consistent
  <2>1. r \in Procs /\ pc[r] \in Inside /\ r \notin Writers
    BY ArrayAssumption DEF Procs, Inside
  <2>2. ctl[r] = 1 /\ \A q \in Procs : pc[q] \in Inside => q = r
    BY <2>1, OneObject
  <2>3. Read(r) = Printed
    BY <2>1 DEF Read, Turns, ArrayInv, AtElement
  <2>4. \A i \in Indices : i < Printed => snap[r][i] = data[1][i]
    BY <2>1, <2>3 DEF ArrayInv, Current
  <2>5. 0 \in Indices /\ 0 < Printed /\ Size \in Nat \ {0}
    BY TurnsPositive, ArrayAssumption DEF SizeAccepted
  <2>6. snap[r][0] \in Nat
    BY <2>1, <2>5, ArrayAssumption DEF ArrayInv, TypeOK
  <2>7. snap[r][0] % Size \in Indices
    BY <2>5, <2>6 DEF Indices
  <2>8. snap[r][0] = data[1][0] /\ snap[r][snap[r][0] % Size] = data[1][snap[r][0] % Size]
    BY <2>4, <2>5, <2>7
  <2>9. 1 \notin orphaned
    BY <2>1, <2>2 DEF ArrayInv, LeftLocked
  <2>10. \A w \in Writers : ~Halfway(w)
    BY <2>1, <2>2 DEF Halfway, Procs
  <2>11. Agrees
    BY <2>9, <2>10 DEF ArrayInv, Whole
  <2>12. data[1][0] # 0
    BY <2>6, <2>8
  <2> QED BY <2>8, <2>11, <2>12 DEF Agrees
<1> QED BY <1>1, MutexInvariant, ArrayInvariant, PTL

\* When chunks hold whole elements, every element that is used lies in the bytes that
\* are mapped for its chunk.  (shared_array.h:97-104, 126-131, 150)
THEOREM AccessesAreInside ==
  ASSUME TotalBytes(Size) + ChunkBytes < WordLimit,
         NEW q \in Nat \ {0}, ChunkBytes = q * ElementBytes
  PROVE  Spec => []AccessInside
<1>0. RoundedUp
  BY ArrayAssumption, WordAssumption DEF RoundedUp, TotalBytes, ElementBytes
<1>1. ArrayInv /\ MutexInv => AccessInside
  <2> SUFFICES ASSUME ArrayInv, MutexInv, NEW p \in Procs, pc[p] = "use"
               PROVE  /\ ChunkOf(p) \in Chunks
                      /\ Offset(Element(p), ChunkBytes) + ElementBytes
                           <= ChunkSize(ChunkOf(p), Size, ChunkBytes)
    BY DEF AccessInside
  <2>1. pos[p] \in 1..Turns(p) /\ ChunkOf(p) \in Chunks
    BY <1>0, InsideFacts DEF Inside
  <2>2. Element(p) \in 0..(Size - 1)
    BY <2>1, ElementIsIndex DEF ArrayInv, Indices
  <2>3. Size \in Nat /\ SizeAccepted(Size)
    BY ArrayAssumption
  <2> QED BY <2>1, <2>2, <2>3, WordAssumption, ElementIsMapped DEF ChunkOf
<1> QED BY <1>0, <1>1, MutexInvariant, ArrayInvariant, PTL
=============================================================================
