----------------------------- MODULE ComputeSum -----------------------------
(***************************************************************************)
(* th_1/computesum.c: main cuts an array into one chunk per thread, has    *)
(* threads fill it with random numbers, joins them, has new threads sum    *)
(* the chunks, joins those and prints the total.  When a thread cannot be  *)
(* created main calls the thread function itself; the function ends with   *)
(* pthread_exit, and main with it.  A count is a long, what is made of it  *)
(* for the chunks an int: ToInt cuts it to that width.                     *)
(***************************************************************************)
EXTENDS Integers, Functions

CONSTANTS
  MaxNumCount, MaxThreadCount,  \* bounds: the two arguments of the program
  IntLimit,                     \* one more than the largest int: 2^31 in the program
  Numbers,                      \* what rand() % 1000 may return
  Unset                         \* what malloc leaves in the array

ASSUME ArgumentsAssumption ==
  /\ MaxNumCount \in Nat \ {0}
  /\ IntLimit \in Nat
  /\ MaxThreadCount \in Nat \ {0} /\ MaxThreadCount < IntLimit
  /\ Numbers \subseteq Nat
  /\ Unset \in Int \ Numbers

VARIABLES
  numCount, threadCount,  \* the arguments
  array,
  work,    \* work[i]: what is being done to chunk i: "fill", "sum", "ended", or "none"
  at,      \* at[i]: the loop index of whoever does it
  sum,     \* sum[i]: the local variable of countSum
  result,  \* args[i].result
  pc, k,   \* where main is; its loop index
  total

args == <<numCount, threadCount>>
chunks == <<work, at, sum, result>>
vars == <<args, array, chunks, pc, k, total>>

Chunks == 0..(MaxThreadCount - 1)
Elements == 0..(MaxNumCount - 1)

Init ==
  /\ numCount \in 1..MaxNumCount
  /\ threadCount \in 1..MaxThreadCount
  /\ array = [e \in Elements |-> Unset]
  /\ work = [i \in Chunks |-> "none"]
  /\ at = [i \in Chunks |-> 0]
  /\ sum = [i \in Chunks |-> 0]
  /\ result = [i \in Chunks |-> 0]
  /\ pc = "createFill" /\ k = 0 /\ total = 0

\* The int that x becomes: its low bits, in two's complement.  (Where int arithmetic
\* itself overflows this is one outcome of several; CountFitsInt leaves it out.)
ToInt(x) == ((x + IntLimit) % (2 * IntLimit)) - IntLimit

chunkSize == ToInt(numCount \div threadCount)
remainder == numCount % threadCount

\* args[i].chunk, as an index, and args[i].size
ChunkStart(i) == ToInt(i * chunkSize)

\* Mutants of ChunkLength: nobody gets the remainder, or everybody does.
LengthFloor(i) == chunkSize
LengthFull(i) == ToInt(chunkSize + remainder)

ChunkLength(i) == IF i = threadCount - 1 THEN ToInt(chunkSize + remainder) ELSE chunkSize

\* An int can count the elements.  What is stated of the program is stated of such
\* arrays: beyond them chunks may be empty, overlap or lie outside the array.
CountFitsInt == numCount < IntLimit

-----------------------------------------------------------------------------
\* fillWithChaos and countSum, one element per step.

\* Mutant of More: the loop test lets one element too many through.
MoreOrEqual(i, job) == work[i] = job /\ at[i] <= ChunkLength(i)

More(i, job) == work[i] = job /\ at[i] < ChunkLength(i)

FillElement(i) ==
  /\ More(i, "fill")
  /\ \E n \in Numbers : array' = [array EXCEPT ![ChunkStart(i) + at[i]] = n]
  /\ at' = [at EXCEPT ![i] = @ + 1]
  /\ UNCHANGED <<args, work, sum, result, pc, k, total>>

AddElement(i) ==
  /\ More(i, "sum")
  /\ sum' = [sum EXCEPT ![i] = @ + array[ChunkStart(i) + at[i]]]
  /\ at' = [at EXCEPT ![i] = @ + 1]
  /\ UNCHANGED <<args, array, work, result, pc, k, total>>

\* pthread_exit, of the thread or of main when it does the work of chunk k.
Exit(i) ==
  /\ work[i] \in {"fill", "sum"}
  /\ at[i] >= ChunkLength(i)
  /\ result' = IF work[i] = "sum" THEN [result EXCEPT ![i] = sum[i]] ELSE result
  /\ work' = [work EXCEPT ![i] = "ended"]
  /\ pc' = IF pc = "handles" /\ i = k THEN "gone" ELSE pc
  /\ UNCHANGED <<args, array, at, sum, k, total>>

-----------------------------------------------------------------------------
\* main

\* The loop index after this turn, and where main is then.
Turn(last) ==
  IF k + 1 < threadCount THEN k' = k + 1 /\ UNCHANGED pc
                         ELSE k' = 0 /\ pc' = last

Begin(job) ==
  /\ work' = [work EXCEPT ![k] = job]
  /\ at' = [at EXCEPT ![k] = 0]
  /\ sum' = [sum EXCEPT ![k] = 0]
  /\ UNCHANGED result

CreateFill ==
  /\ pc = "createFill"
  /\ Begin("fill")
  /\ Turn("joinFill")
  /\ UNCHANGED <<args, array, total>>

\* Mutant of CreateSum: the loop begins at 1.
CreateSumLate ==
  /\ pc = "createSum"
  /\ IF k = 0 THEN UNCHANGED chunks ELSE Begin("sum")
  /\ Turn("joinSum")
  /\ UNCHANGED <<args, array, total>>

CreateSum ==
  /\ pc = "createSum"
  /\ Begin("sum")
  /\ Turn("joinSum")
  /\ UNCHANGED <<args, array, total>>

\* pthread_create fails: "main thread will handle task"
CreateFails ==
  /\ \/ pc = "createFill" /\ Begin("fill")
     \/ pc = "createSum" /\ Begin("sum")
  /\ pc' = "handles"
  /\ UNCHANGED <<args, array, k, total>>

\* Mutant of JoinFill: the sum threads are created without waiting.
JoinNone ==
  /\ pc = "joinFill"
  /\ Turn("createSum")
  /\ UNCHANGED <<args, array, chunks, total>>

JoinFill ==
  /\ pc = "joinFill"
  /\ work[k] = "ended"
  /\ work' = [work EXCEPT ![k] = "none"]
  /\ Turn("createSum")
  /\ UNCHANGED <<args, array, at, sum, result, total>>

JoinSum ==
  /\ pc = "joinSum"
  /\ work[k] = "ended"
  /\ work' = [work EXCEPT ![k] = "none"]
  /\ total' = total + result[k]
  /\ Turn("printed")
  /\ UNCHANGED <<args, array, at, sum, result>>

MainStep == CreateFill \/ CreateSum \/ CreateFails \/ JoinFill \/ JoinSum
ThreadStep(i) == FillElement(i) \/ AddElement(i) \/ Exit(i)

Next == MainStep \/ \E i \in Chunks : ThreadStep(i)

Spec == Init /\ [][Next]_vars

\* The scheduler runs every thread, main included.
FairSpec == Spec /\ WF_vars(MainStep) /\ \A i \in Chunks : WF_vars(ThreadStep(i))
-----------------------------------------------------------------------------
Places == {"createFill", "joinFill", "createSum", "joinSum", "handles", "printed", "gone"}

\* Every variable has its type; no loop index leaves its chunk.
\* (computesum.c:21, 30, 77)
TypeOK ==
  CountFitsInt =>
    /\ numCount \in 1..MaxNumCount /\ threadCount \in 1..MaxThreadCount
    /\ array \in [Elements -> Numbers \cup {Unset}]
    /\ work \in [Chunks -> {"none", "fill", "sum", "ended"}]
    /\ \A i \in Chunks : work[i] # "none" => at[i] \in 0..ChunkLength(i)
    /\ sum \in [Chunks -> Int] /\ result \in [Chunks -> Int] /\ total \in Int
    /\ pc \in Places /\ k \in 0..(threadCount - 1)

\* The total that is printed is the sum of the array, for every number of threads,
\* also when it does not divide the number of elements or is larger than it, as long
\* as an int can count the elements.
\* (computesum.c:63-64, 77, 123, 130)
TotalIsSum ==
  pc = "printed" /\ CountFitsInt => total = SumFunctionOnSet(array, 0..(numCount - 1))

Running(i) == More(i, "fill") \/ More(i, "sum")

\* Two chunks in work never share an element: the threads need no lock.  (Beyond
\* CountFitsInt they may: with 5 * 2^30 elements for 5 threads, i * chunkSize wraps.)
\* (computesum.c:76-77)
ChunksApart ==
  \A i, j \in Chunks :
    CountFitsInt /\ Running(i) /\ Running(j) /\ i # j
      => ChunkStart(i) + at[i] # ChunkStart(j) + at[j]

\* No element is read before it was filled, by any thread.  (computesum.c:86-96)
ReadsFilled ==
  \A i \in Chunks :
    CountFitsInt /\ More(i, "sum") => array[ChunkStart(i) + at[i]] \in Numbers

\* The program ends, and unless main had to do the work of a thread it prints its
\* total.  (computesum.c:86-96, 113-124)
Finishes == <>[](pc \in {"printed", "gone"} /\ \A i \in Chunks : work[i] \in {"none", "ended"})
=============================================================================
