---------------------------- MODULE ProgramsProofs ----------------------------
(***************************************************************************)
(* Proofs about the exercises that stand alone, one part for each: the     *)
(* threads of ComputeSum keep apart and their total is the sum of the      *)
(* array; CopyWithHoles copies exactly a source that nobody changes;       *)
(* HttpForever saves what the server sends; and PrimeService prints the    *)
(* prime that was asked for.  What is proved of ExternalSort is in a       *)
(* module of its own; the last part puts the types of all five together.   *)
(***************************************************************************)
EXTENDS MCPrograms, ExternalSortProofs

-----------------------------------------------------------------------------
(* ComputeSum: for every number of threads and every array whose elements *)
(* an int can count (CountFitsInt); beyond it the chunks may overlap.      *)

\* Products grow with their factors.
LEMMA TimesGrows ==
  ASSUME NEW a \in Nat, NEW b \in Nat, NEW c \in Nat, a <= b
  PROVE  a * c <= b * c
<1>1. PICK d \in Nat : b = a + d
  <2>1. b - a \in Nat /\ b = a + (b - a) OBVIOUS
  <2>. QED BY <2>1
<1>2. b * c = a * c + d * c
  BY <1>1
<1>3. d * c \in Nat
  OBVIOUS
<1>. QED
  BY <1>2, <1>3

ArgsOK == numCount \in Nat \ {0} /\ numCount <= MaxNumCount
          /\ threadCount \in Nat \ {0} /\ threadCount <= MaxThreadCount
          /\ CountFitsInt

\* What an int can hold is not cut.
LEMMA ToIntKeeps ==
  ASSUME NEW x \in Nat, x < IntLimit
  PROVE  ToInt(x) = x
<1>1. IntLimit \in Nat \ {0}
  BY ArgumentsAssumption
<1>2. (x + IntLimit) % (2 * IntLimit) = x + IntLimit
  BY <1>1
<1>. QED
  BY <1>1, <1>2 DEF ToInt

\* As long as an int can count the elements, chunk sizes and offsets are what the
\* arithmetic of numbers makes them.  (computesum.c:63-64, 76-77)
LEMMA NothingCut ==
  ASSUME ArgsOK
  PROVE  /\ chunkSize \in Nat /\ remainder \in Nat
         /\ numCount = threadCount * chunkSize + remainder
         /\ \A i \in 0..(threadCount - 1) :
              /\ ChunkStart(i) = i * chunkSize
              /\ ChunkLength(i) = IF i = threadCount - 1 THEN chunkSize + remainder ELSE chunkSize
<1>. DEFINE q == numCount \div threadCount
            r == numCount % threadCount
<1>1. numCount \in Nat /\ threadCount \in Nat \ {0} /\ numCount < IntLimit /\ IntLimit \in Nat
  BY ArgumentsAssumption DEF ArgsOK, CountFitsInt
<1>2. q \in Nat /\ r \in Nat /\ numCount = threadCount * q + r
  BY <1>1
<1>. HIDE DEF q, r
<1>3. ASSUME NEW i \in 0..threadCount PROVE i * q \in Nat /\ i * q <= threadCount * q
  BY <1>1, <1>2, <1>3, TimesGrows
<1>4. threadCount * q \in Nat /\ 1 * q <= threadCount * q
  BY <1>1, <1>3
<1>5. q < IntLimit /\ q + r \in Nat /\ q + r < IntLimit
  BY <1>1, <1>2, <1>4
<1>6. chunkSize = q
  BY <1>2, <1>5, ToIntKeeps DEF chunkSize, q
<1>7. remainder = r
  BY DEF remainder, r
<1>8. ASSUME NEW i \in 0..(threadCount - 1) PROVE ChunkStart(i) = i * q
  <2>1. i * q \in Nat /\ i * q < IntLimit
    BY <1>1, <1>2, <1>3
  <2>. QED
    BY <2>1, <1>6, ToIntKeeps DEF ChunkStart
<1>9. ToInt(q + r) = q + r
  BY <1>5, ToIntKeeps
<1>. QED
  BY <1>2, <1>6, <1>7, <1>8, <1>9 DEF ChunkLength

\* The chunks lie in the array one after the other, for every number of threads.
\* (computesum.c:63-64, 76-77)
LEMMA ChunksFollow ==
  ASSUME ArgsOK, NEW i \in 0..(threadCount - 1)
  PROVE  /\ ChunkStart(i) \in Nat /\ ChunkLength(i) \in Nat
         /\ ChunkStart(i) + ChunkLength(i) <= numCount
         /\ \A j \in 0..(threadCount - 1) :
              i < j => ChunkStart(i) + ChunkLength(i) <= ChunkStart(j)
<1>1. chunkSize \in Nat /\ remainder \in Nat /\ numCount = threadCount * chunkSize + remainder
  BY NothingCut
<1>0. \A j \in 0..(threadCount - 1) :
        /\ ChunkStart(j) = j * chunkSize
        /\ ChunkLength(j) = IF j = threadCount - 1 THEN chunkSize + remainder ELSE chunkSize
  BY NothingCut
<1>2. i * chunkSize \in Nat /\ (i + 1) * chunkSize = i * chunkSize + chunkSize
  BY <1>1 DEF ArgsOK
<1>3. (i + 1) * chunkSize <= threadCount * chunkSize
  BY <1>1, TimesGrows DEF ArgsOK
<1>4. \A j \in 0..(threadCount - 1) : i < j => (i + 1) * chunkSize <= j * chunkSize
  BY <1>1, TimesGrows DEF ArgsOK
<1>5. CASE i = threadCount - 1
  BY <1>0, <1>1, <1>2, <1>5 DEF ArgsOK
<1>6. CASE i # threadCount - 1
  <2>1. ChunkStart(i) = i * chunkSize /\ ChunkLength(i) = chunkSize
    BY <1>0, <1>6
  <2>2. ChunkStart(i) + ChunkLength(i) = (i + 1) * chunkSize
    BY <1>2, <2>1
  <2>3. (i + 1) * chunkSize \in Nat
    BY <1>1, <1>2
  <2>4. threadCount * chunkSize \in Nat /\ threadCount * chunkSize <= numCount
    BY <1>1 DEF ArgsOK
  <2>5. (i + 1) * chunkSize <= numCount
    BY <1>3, <2>3, <2>4 DEF ArgsOK
  <2>6. \A j \in 0..(threadCount - 1) : i < j => (i + 1) * chunkSize <= ChunkStart(j)
    BY <1>0, <1>4
  <2>. QED
    BY <1>1, <1>2, <2>1, <2>2, <2>5, <2>6
<1>. QED
  BY <1>5, <1>6

-----------------------------------------------------------------------------
Used == 0..(threadCount - 1)
Part(i, n) == ChunkStart(i)..(ChunkStart(i) + n - 1)
FilledTo(i, n) == \A e \in Part(i, n) : array[e] \in Numbers
Filled(i) == FilledTo(i, ChunkLength(i))

TypesOK ==
  /\ ArgsOK
  /\ array \in [Elements -> Int] /\ work \in [Chunks -> {"none", "fill", "sum", "ended"}]
  /\ at \in [Chunks -> Nat] /\ sum \in [Chunks -> Int]
  /\ pc \in Places /\ k \in Used

\* Only chunks that exist are in work, and each index stays in its chunk.
InChunk ==
  \A i \in Chunks : work[i] # "none" => i \in Used /\ at[i] <= ChunkLength(i)

\* A fill thread leaves numbers behind it, and the whole chunk when it has ended.
FillsBehind ==
  \A i \in Chunks : /\ work[i] = "fill" => FilledTo(i, at[i])
                    /\ work[i] = "ended" => Filled(i)

\* Who is in work, or has been, at each place of main.
Phases ==
  /\ pc = "createFill" => \A i \in Used : i < k => work[i] \in {"fill", "ended"}
  /\ pc = "joinFill" =>
       \A i \in Used : IF i < k THEN Filled(i) ELSE work[i] \in {"fill", "ended"}
  /\ pc \in {"createSum", "joinSum"} => \A i \in Used : Filled(i)
  /\ \A i \in Chunks : work[i] = "sum" => \A j \in Used : Filled(j)

SumInv == TypesOK /\ InChunk /\ FillsBehind /\ Phases

\* Every element of a chunk in use is an element of the array.
LEMMA PartInside ==
  ASSUME ArgsOK, NEW i \in Used, NEW n \in Nat, n <= ChunkLength(i)
  PROVE  Part(i, n) \subseteq Elements
<1>1. ChunkStart(i) \in Nat /\ ChunkLength(i) \in Nat /\ ChunkStart(i) + ChunkLength(i) <= numCount
  BY ChunksFollow DEF Used
<1>. QED
  BY <1>1, ArgumentsAssumption DEF ArgsOK, Part, Elements

LEMMA SumInit == Init /\ CountFitsInt => SumInv
<1>. SUFFICES ASSUME Init, CountFitsInt PROVE SumInv
  OBVIOUS
<1>. USE ArgumentsAssumption
<1>1. TypesOK
  BY DEF Init, TypesOK, ArgsOK, Elements, Chunks, Places, Used
<1>2. InChunk /\ FillsBehind
  BY DEF Init, InChunk, FillsBehind
<1>3. Phases
  BY DEF Init, Phases, Used
<1>. QED
  BY <1>1, <1>2, <1>3 DEF SumInv

\* Unchanged arguments leave the chunks where they are.
LEMMA SameChunks ==
  ASSUME UNCHANGED args
  PROVE  /\ Used' = Used /\ (ArgsOK => ArgsOK')
         /\ \A i : ChunkStart(i)' = ChunkStart(i) /\ ChunkLength(i)' = ChunkLength(i)
         /\ \A i, n : Part(i, n)' = Part(i, n)
  BY DEF args, Used, ArgsOK, CountFitsInt, ChunkStart, ChunkLength, chunkSize, remainder, Part

\* When only numbers are written to the array, what was filled stays filled.
LEMMA StaysFilled ==
  ASSUME UNCHANGED args, array \in [Elements -> Int],
         \A e \in Elements : array'[e] = array[e] \/ array'[e] \in Numbers,
         ArgsOK
  PROVE  /\ \A i \in Used, n \in Nat : n <= ChunkLength(i) /\ FilledTo(i, n) => FilledTo(i, n)'
         /\ \A i \in Used : Filled(i) => Filled(i)'
<1>1. ASSUME NEW i \in Used, NEW n \in Nat, n <= ChunkLength(i), FilledTo(i, n)
      PROVE  FilledTo(i, n)'
  <2>1. Part(i, n) \subseteq Elements
    BY <1>1, PartInside
  <2>2. Part(i, n)' = Part(i, n)
    BY SameChunks
  <2>. QED
    BY <1>1, <2>1, <2>2 DEF FilledTo
<1>2. ASSUME NEW i \in Used, Filled(i)
      PROVE  Filled(i)'
  <2>1. ChunkLength(i) \in Nat /\ ChunkLength(i)' = ChunkLength(i)
    BY ChunksFollow, SameChunks DEF Used
  <2>2. Part(i, ChunkLength(i)) \subseteq Elements
    BY <2>1, PartInside
  <2>3. Part(i, ChunkLength(i))' = Part(i, ChunkLength(i))
    BY <2>1, SameChunks DEF Part
  <2>. QED
    BY <1>2, <2>2, <2>3 DEF FilledTo, Filled
<1>. QED
  BY <1>1, <1>2

\* A chunk that nobody touches keeps what was filled of it.
LEMMA Carried ==
  ASSUME SumInv, UNCHANGED args,
         \A e \in Elements : array'[e] = array[e] \/ array'[e] \in Numbers,
         NEW j \in Chunks, at'[j] = at[j], work'[j] = work[j]
  PROVE  /\ work'[j] = "fill" => FilledTo(j, at[j])'
         /\ work'[j] = "ended" => Filled(j)'
<1>1. ArgsOK /\ array \in [Elements -> Int] /\ at[j] \in Nat
  BY DEF SumInv, TypesOK
<1>2. ASSUME work[j] = "fill" PROVE FilledTo(j, at[j])'
  <2>1. j \in Used /\ at[j] <= ChunkLength(j) /\ FilledTo(j, at[j])
    BY <1>2 DEF SumInv, InChunk, FillsBehind
  <2>2. Part(j, at[j]) \subseteq Elements
    BY <1>1, <2>1, PartInside
  <2>3. \A e \in Part(j, at[j]) : array'[e] \in Numbers
    BY <2>1, <2>2 DEF FilledTo
  <2>4. Part(j, at[j])' = Part(j, at[j])
    BY DEF Part, ChunkStart, chunkSize, args
  <2>. QED
    BY <2>3, <2>4 DEF FilledTo
<1>3. ASSUME work[j] = "ended" PROVE Filled(j)'
  <2>1. j \in Used /\ Filled(j)
    BY <1>3 DEF SumInv, InChunk, FillsBehind
  <2>. QED
    BY <1>1, <2>1, StaysFilled
<1>. QED
  BY <1>2, <1>3

\* The element at which chunk i is, while it is in work, is its own.
LEMMA ElementAt ==
  ASSUME SumInv, NEW i \in Chunks, work[i] # "none", at[i] < ChunkLength(i)
  PROVE  /\ i \in Used /\ at[i] \in Nat
         /\ ChunkStart(i) + at[i] \in Part(i, ChunkLength(i))
         /\ ChunkStart(i) + at[i] \in Elements
<1>1. i \in Used /\ at[i] \in Nat /\ ArgsOK
  BY DEF SumInv, InChunk, TypesOK
<1>2. ChunkStart(i) \in Nat /\ ChunkLength(i) \in Nat
  BY <1>1, ChunksFollow DEF Used
<1>3. ChunkStart(i) + at[i] \in Part(i, ChunkLength(i))
  BY <1>1, <1>2 DEF Part
<1>. QED
  BY <1>1, <1>2, <1>3, PartInside

LEMMA FillKeeps ==
  ASSUME SumInv, NEW i \in Chunks, FillElement(i)
  PROVE  SumInv'
<1>. USE DEF FillElement, More
<1>1. PICK n \in Numbers : array' = [array EXCEPT ![ChunkStart(i) + at[i]] = n]
  OBVIOUS
<1>2. /\ i \in Used /\ at[i] \in Nat /\ ChunkStart(i) + at[i] \in Elements
      /\ ChunkStart(i) \in Nat /\ ChunkLength(i) \in Nat /\ at[i] < ChunkLength(i)
  <2>1. ChunkStart(i) \in Nat /\ ChunkLength(i) \in Nat
    BY ElementAt, ChunksFollow DEF SumInv, TypesOK, Used
  <2>. QED
    BY <2>1, ElementAt
<1>3. UNCHANGED args /\ ArgsOK /\ array \in [Elements -> Int]
  BY DEF SumInv, TypesOK
<1>4. \A e \in Elements : array'[e] = array[e] \/ array'[e] \in Numbers
  BY <1>1, <1>3
<1>5. TypesOK'
  <2>1. array' \in [Elements -> Int] /\ at' \in [Chunks -> Nat]
    BY <1>1, <1>2, ArgumentsAssumption DEF SumInv, TypesOK
  <2>. QED
    BY <2>1, <1>3, SameChunks DEF SumInv, TypesOK, args, Used
<1>6. InChunk'
  BY <1>2, <1>3, SameChunks DEF SumInv, InChunk, TypesOK
<1>7. FillsBehind'
  <2>. SUFFICES ASSUME NEW j \in Chunks
       PROVE  /\ work'[j] = "fill" => FilledTo(j, at[j])'
              /\ work'[j] = "ended" => Filled(j)'
    BY DEF FillsBehind
  <2>1. CASE j = i
    <3>1. FilledTo(i, at[i])
      BY DEF SumInv, FillsBehind
    <3>2. FilledTo(i, at[i])'
      <4>1. at[i] <= ChunkLength(i)
        BY <1>2
      <4>2. \A e \in Part(i, at[i]) : array'[e] \in Numbers
        BY <3>1, <1>2, <1>3, <1>4, <4>1, PartInside DEF FilledTo
      <4>. QED
        <5>1. ChunkStart(i)' = ChunkStart(i) /\ at'[i] = at[i] + 1
          BY <1>2, <1>3, SameChunks DEF SumInv, TypesOK
        <5>2. array'[ChunkStart(i) + at[i]] \in Numbers
          BY <1>1, <1>2, <1>3
        <5>3. \A e \in ChunkStart(i)..(ChunkStart(i) + at'[i] - 1) :
                e \in Part(i, at[i]) \/ e = ChunkStart(i) + at[i]
          BY <1>2, <5>1 DEF Part
        <5>. QED
          BY <4>2, <5>1, <5>2, <5>3 DEF FilledTo, Part
    <3>. QED
      BY <3>2, <2>1
  <2>2. CASE j # i
    <3>1. at'[j] = at[j] /\ work'[j] = work[j]
      BY <2>2 DEF SumInv, TypesOK
    <3>. QED
      BY <3>1, <1>3, <1>4, Carried
  <2>. QED BY <2>1, <2>2
<1>8. Phases'
  BY <1>2, <1>3, <1>4, StaysFilled, SameChunks DEF SumInv, Phases
<1>. QED
  BY <1>5, <1>6, <1>7, <1>8 DEF SumInv

LEMMA AddKeeps ==
  ASSUME SumInv, NEW i \in Chunks, AddElement(i)
  PROVE  SumInv'
<1>. USE DEF AddElement, More
<1>1. /\ i \in Used /\ at[i] \in Nat /\ ChunkStart(i) + at[i] \in Elements
      /\ ChunkLength(i) \in Nat /\ at[i] < ChunkLength(i)
  <2>1. ChunkLength(i) \in Nat
    BY ElementAt, ChunksFollow DEF SumInv, TypesOK, Used
  <2>. QED
    BY <2>1, ElementAt
<1>2. UNCHANGED args /\ ArgsOK /\ array' = array /\ work' = work /\ pc' = pc /\ k' = k
  BY DEF SumInv, TypesOK
<1>3. TypesOK'
  <2>1. sum' \in [Chunks -> Int] /\ at' \in [Chunks -> Nat]
    BY <1>1 DEF SumInv, TypesOK
  <2>. QED
    BY <2>1, <1>2, SameChunks DEF SumInv, TypesOK
<1>4. InChunk'
  BY <1>1, <1>2, SameChunks DEF SumInv, InChunk, TypesOK
<1>5. FillsBehind'
  <2>. SUFFICES ASSUME NEW j \in Chunks
       PROVE  /\ work'[j] = "fill" => FilledTo(j, at[j])'
              /\ work'[j] = "ended" => Filled(j)'
    BY DEF FillsBehind
  <2>1. CASE j = i
    BY <2>1, <1>2
  <2>2. CASE j # i
    <3>1. at'[j] = at[j] /\ work'[j] = work[j]
      BY <2>2, <1>2 DEF SumInv, TypesOK
    <3>. QED
      BY <3>1, <1>2, Carried
  <2>. QED BY <2>1, <2>2
<1>6. Phases'
  BY <1>2, StaysFilled, SameChunks DEF SumInv, TypesOK, Phases
<1>. QED
  BY <1>3, <1>4, <1>5, <1>6 DEF SumInv

LEMMA ExitKeeps ==
  ASSUME SumInv, NEW i \in Chunks, Exit(i)
  PROVE  SumInv'
<1>. USE DEF Exit
<1>1. UNCHANGED args /\ ArgsOK /\ array' = array /\ at' = at /\ k' = k /\ sum' = sum
  BY DEF SumInv, TypesOK
<1>2. i \in Used /\ at[i] = ChunkLength(i) /\ Filled(i)
  <2>1. i \in Used /\ at[i] <= ChunkLength(i) /\ at[i] \in Nat /\ ChunkLength(i) \in Nat
    BY <1>1, ChunksFollow DEF SumInv, TypesOK, InChunk, Used
  <2>2. at[i] = ChunkLength(i)
    BY <2>1
  <2>. QED
    BY <2>1, <2>2 DEF SumInv, FillsBehind, Phases, Filled
<1>3. /\ work' = [work EXCEPT ![i] = "ended"]
      /\ pc' = pc \/ (pc = "handles" /\ pc' = "gone")
  OBVIOUS
<1>4. TypesOK'
  BY <1>1, <1>3, SameChunks DEF SumInv, TypesOK, Places
<1>5. InChunk'
  BY <1>1, <1>2, <1>3, SameChunks DEF SumInv, InChunk, TypesOK
<1>6. FillsBehind'
  <2>. SUFFICES ASSUME NEW j \in Chunks
       PROVE  /\ work'[j] = "fill" => FilledTo(j, at[j])'
              /\ work'[j] = "ended" => Filled(j)'
    BY DEF FillsBehind
  <2>1. CASE j = i
    <3>1. Filled(i)'
      BY <1>1, <1>2, StaysFilled DEF SumInv, TypesOK
    <3>. QED
      BY <3>1, <2>1, <1>3 DEF SumInv, TypesOK
  <2>2. CASE j # i
    <3>1. at'[j] = at[j] /\ work'[j] = work[j]
      BY <2>2, <1>1, <1>3 DEF SumInv, TypesOK
    <3>. QED
      BY <3>1, <1>1, Carried
  <2>. QED BY <2>1, <2>2
<1>7. Phases'
  <2>1. \A j \in Used : Filled(j) => Filled(j)'
    BY <1>1, StaysFilled DEF SumInv, TypesOK
  <2>2. Used' = Used /\ Used \subseteq Chunks
    BY <1>1, SameChunks, ArgumentsAssumption DEF Used, Chunks, ArgsOK, SumInv, TypesOK
  <2>3. pc' \in {"createFill", "joinFill", "createSum", "joinSum"} => pc = pc'
    BY <1>3
  <2>. QED
    BY <1>1, <1>3, <2>1, <2>2, <2>3 DEF SumInv, Phases, TypesOK
<1>. QED
  BY <1>4, <1>5, <1>6, <1>7 DEF SumInv

\* What all the steps of main have in common: it touches chunk k only.
LEMMA MainKeeps ==
  ASSUME SumInv, UNCHANGED <<args, array>>,
         work' \in [Chunks -> {"none", "fill", "sum", "ended"}],
         at' \in [Chunks -> Nat], sum' \in [Chunks -> Int],
         pc' \in Places, k' \in Used,
         \A j \in Chunks : j # k => work'[j] = work[j] /\ at'[j] = at[j],
         work'[k] # "none" => at'[k] = 0,
         work'[k] # "ended"
  PROVE  TypesOK' /\ InChunk' /\ FillsBehind' /\ Used' = Used /\ k \in Chunks
         /\ Used \subseteq Chunks /\ \A j \in Used : Filled(j)' <=> Filled(j)
<1>1. UNCHANGED args /\ ArgsOK /\ array \in [Elements -> Int] /\ array' = array /\ k \in Used
  BY DEF SumInv, TypesOK
<1>2. Used' = Used /\ Used \subseteq Chunks /\ k \in Chunks
  <2>1. Used' = Used
    BY <1>1, SameChunks
  <2>2. Used \subseteq Chunks
    BY <1>1, ArgumentsAssumption DEF Used, Chunks, ArgsOK
  <2>. QED
    BY <1>1, <2>1, <2>2
<1>3. TypesOK'
  BY <1>1, <1>2, SameChunks DEF SumInv, TypesOK
<1>4. ChunkLength(k) \in Nat
  BY <1>1, ChunksFollow DEF Used
<1>5. InChunk'
  BY <1>1, <1>2, <1>4, SameChunks DEF SumInv, InChunk
<1>6. FillsBehind'
  <2>. SUFFICES ASSUME NEW j \in Chunks
       PROVE  /\ work'[j] = "fill" => FilledTo(j, at[j])'
              /\ work'[j] = "ended" => Filled(j)'
    BY DEF FillsBehind
  <2>1. CASE j = k
    <3>1. ASSUME work'[j] = "fill" PROVE FilledTo(j, at[j])'
      <4>1. at'[j] = 0 /\ ChunkStart(j)' \in Nat
        BY <3>1, <2>1, <1>1, <1>2, ChunksFollow, SameChunks DEF Used
      <4>. QED
        BY <4>1 DEF FilledTo, Part
    <3>. QED
      BY <3>1, <2>1
  <2>2. CASE j # k
    BY <2>2, <1>1, Carried
  <2>. QED BY <2>1, <2>2
<1>7. \A j \in Used : Filled(j)' <=> Filled(j)
  BY <1>1, SameChunks DEF Filled, FilledTo
<1>. QED
  BY <1>2, <1>3, <1>5, <1>6, <1>7

LEMMA MainStepKeeps ==
  ASSUME SumInv, MainStep
  PROVE  SumInv'
<1>1. k \in Used /\ k \in Chunks /\ Used \subseteq Chunks /\ threadCount \in Nat \ {0}
      /\ work \in [Chunks -> {"none", "fill", "sum", "ended"}]
      /\ at \in [Chunks -> Nat] /\ sum \in [Chunks -> Int]
  BY ArgumentsAssumption DEF SumInv, TypesOK, Used, Chunks, ArgsOK
<1>2. CASE CreateFill
  <2>. USE <1>2 DEF CreateFill, Begin, Turn
  <2>1. pc' \in Places /\ k' \in Used
    BY <1>1 DEF Used, Places
  <2>2. /\ TypesOK' /\ InChunk' /\ FillsBehind' /\ Used' = Used
        /\ \A j \in Used : Filled(j)' <=> Filled(j)
    BY <1>1, <2>1, MainKeeps
  <2>3. \A j \in Used : j <= k => work'[j] \in {"fill", "ended"}
    BY <1>1 DEF SumInv, Phases, Used
  <2>4. \A j \in Chunks : work'[j] # "sum" \/ work[j] = "sum"
    BY <1>1
  <2>5. CASE k + 1 < threadCount
    <3>1. k' = k + 1 /\ pc' = "createFill" /\ \A j \in Used : j < k' => j <= k
      BY <1>1, <2>5 DEF Used
    <3>2. Phases'
      BY <1>1, <2>2, <2>3, <2>4, <3>1 DEF SumInv, Phases
    <3>. QED BY <2>2, <3>2 DEF SumInv
  <2>6. CASE ~(k + 1 < threadCount)
    <3>1. \A j \in Used : j <= k /\ ~(j < 0)
      BY <1>1, <2>6 DEF Used
    <3>2. k' = 0 /\ pc' = "joinFill"
      BY <2>6
    <3>3. Phases'
      BY <1>1, <2>2, <2>3, <2>4, <3>1, <3>2 DEF SumInv, Phases
    <3>. QED BY <2>2, <3>3 DEF SumInv
  <2>. QED BY <2>2, <2>5, <2>6 DEF SumInv
<1>3. CASE CreateSum
  <2>. USE <1>3 DEF CreateSum, Begin, Turn
  <2>1. pc' \in Places /\ k' \in Used
    BY <1>1 DEF Used, Places
  <2>2. /\ TypesOK' /\ InChunk' /\ FillsBehind' /\ Used' = Used
        /\ \A j \in Used : Filled(j)' <=> Filled(j)
    BY <1>1, <2>1, MainKeeps
  <2>3. Phases'
    BY <1>1, <2>2 DEF SumInv, Phases
  <2>. QED BY <2>2, <2>3 DEF SumInv
<1>4. CASE CreateFails
  <2>. USE <1>4 DEF CreateFails, Begin
  <2>1. pc' \in Places /\ k' \in Used
    BY <1>1 DEF Places
  <2>2. /\ TypesOK' /\ InChunk' /\ FillsBehind' /\ Used' = Used
        /\ \A j \in Used : Filled(j)' <=> Filled(j)
    BY <1>1, <2>1, MainKeeps
  <2>3. Phases'
    BY <1>1, <2>2 DEF SumInv, Phases
  <2>. QED BY <2>2, <2>3 DEF SumInv
<1>5. CASE JoinFill
  <2>. USE <1>5 DEF JoinFill, Turn
  <2>1. pc' \in Places /\ k' \in Used
    BY <1>1 DEF Used, Places
  <2>2. /\ TypesOK' /\ InChunk' /\ FillsBehind' /\ Used' = Used
        /\ \A j \in Used : Filled(j)' <=> Filled(j)
    BY <1>1, <2>1, MainKeeps
  <2>3. Filled(k)
    BY <1>1 DEF SumInv, FillsBehind
  <2>4. \A j \in Used : j <= k => Filled(j)
    BY <1>1, <2>3 DEF SumInv, Phases, Used
  <2>5. \A j \in Chunks : j # k => work'[j] = work[j]
    BY <1>1
  <2>6. \A j \in Chunks : work'[j] = "sum" => work[j] = "sum"
    BY <1>1
  <2>7. CASE k + 1 < threadCount
    <3>1. k' = k + 1 /\ pc' = "joinFill"
      BY <1>1, <2>7
    <3>2. \A j \in Used : IF j < k' THEN j <= k ELSE j # k /\ ~(j < k)
      BY <1>1, <3>1 DEF Used
    <3>3. Phases'
      BY <1>1, <2>2, <2>4, <2>5, <2>6, <3>1, <3>2 DEF SumInv, Phases
    <3>. QED BY <2>2, <3>3 DEF SumInv
  <2>8. CASE ~(k + 1 < threadCount)
    <3>1. \A j \in Used : Filled(j)
      BY <1>1, <2>4, <2>8 DEF Used
    <3>2. pc' = "createSum"
      BY <2>8
    <3>3. Phases'
      BY <2>2, <3>1, <3>2 DEF Phases
    <3>. QED BY <2>2, <3>3 DEF SumInv
  <2>. QED BY <2>2, <2>7, <2>8 DEF SumInv
<1>6. CASE JoinSum
  <2>. USE <1>6 DEF JoinSum, Turn
  <2>1. pc' \in Places /\ k' \in Used
    BY <1>1 DEF Used, Places
  <2>2. /\ TypesOK' /\ InChunk' /\ FillsBehind' /\ Used' = Used
        /\ \A j \in Used : Filled(j)' <=> Filled(j)
    BY <1>1, <2>1, MainKeeps
  <2>3. Phases'
    BY <1>1, <2>2 DEF SumInv, Phases
  <2>. QED BY <2>2, <2>3 DEF SumInv
<1>. QED
  BY <1>2, <1>3, <1>4, <1>5, <1>6 DEF MainStep

\* The arguments of the program are constants.
LEMMA SameCount == [Next]_vars => CountFitsInt' = CountFitsInt
<1>1. [Next]_vars => UNCHANGED args
  BY DEF Next, MainStep, ThreadStep, vars, FillElement, AddElement, Exit, CreateFill,
         CreateSum, CreateFails, JoinFill, JoinSum
<1>. QED
  BY <1>1 DEF args, CountFitsInt

LEMMA SumStep == SumInv /\ [Next]_vars => SumInv'
<1>. SUFFICES ASSUME SumInv, [Next]_vars PROVE SumInv'
  OBVIOUS
<1>1. CASE MainStep
  BY <1>1, MainStepKeeps
<1>2. CASE \E i \in Chunks : ThreadStep(i)
  BY <1>2, FillKeeps, AddKeeps, ExitKeeps DEF ThreadStep
<1>3. CASE UNCHANGED vars
  <2>1. UNCHANGED <<args, array, work, at, sum, pc, k>>
    BY <1>3 DEF vars, chunks
  <2>2. TypesOK'
    BY <2>1, SameChunks DEF SumInv, TypesOK
  <2>3. InChunk'
    BY <2>1, SameChunks DEF SumInv, InChunk
  <2>4. FillsBehind'
    BY <2>1, SameChunks DEF SumInv, FillsBehind, Filled, FilledTo
  <2>5. Phases'
    BY <2>1, SameChunks DEF SumInv, Phases, Filled, FilledTo
  <2>. QED
    BY <2>2, <2>3, <2>4, <2>5 DEF SumInv
<1>. QED
  BY <1>1, <1>2, <1>3 DEF Next

\* The inductive invariant, of arrays that an int can count: which chunks are in work in
\* each phase of main, how far each is, and what of the array has been filled.
THEOREM SumInvariant == Spec => [](CountFitsInt => SumInv)
<1>1. Init => (CountFitsInt => SumInv)
  BY SumInit
<1>2. (CountFitsInt => SumInv) /\ [Next]_vars => (CountFitsInt => SumInv)'
  BY SumStep, SameCount
<1>. QED
  BY <1>1, <1>2, PTL DEF Spec

\* For any number of threads and any array whose elements an int can count, two chunks
\* in work never share an element: the threads need no lock.  (computesum.c:76-77)
THEOREM ThreadsNeverMeet == Spec => []ChunksApart
<1>1. ASSUME CountFitsInt => SumInv PROVE ChunksApart
  <2>. SUFFICES ASSUME SumInv,
                       NEW i \in Chunks, NEW j \in Chunks, i < j, Running(i), Running(j)
       PROVE  ChunkStart(i) + at[i] < ChunkStart(j) + at[j]
    <3>0. SUFFICES ASSUME CountFitsInt PROVE ChunksApart
      BY DEF ChunksApart
    <3>1. \A m \in Chunks : Running(m) => ChunkStart(m) + at[m] \in Int
      BY <1>1, <3>0, ElementAt DEF Running, More, Elements
    <3>2. \A m, n \in Chunks : m # n => m < n \/ n < m
      BY ArgumentsAssumption DEF Chunks
    <3>. QED
      BY <1>1, <3>0, <3>1, <3>2 DEF ChunksApart
  <2>1. /\ i \in Used /\ at[i] \in Nat /\ at[i] < ChunkLength(i)
        /\ j \in Used /\ at[j] \in Nat /\ ArgsOK
    <3>1. ArgsOK
      BY DEF SumInv, TypesOK
    <3>. QED
      BY <3>1, ElementAt DEF Running, More
  <2>2. ChunkStart(i) + ChunkLength(i) <= ChunkStart(j) /\ ChunkStart(i) \in Nat
        /\ ChunkStart(j) \in Nat /\ ChunkLength(i) \in Nat
    BY <2>1, ChunksFollow DEF Used
  <2>. QED
    BY <2>1, <2>2
<1>. QED
  BY <1>1, SumInvariant, PTL

\* No thread reads an element before it was filled, however the threads that fill and
\* the threads that sum are scheduled.  (computesum.c:86-96)
THEOREM SumsReadNumbers == Spec => []ReadsFilled
<1>1. (CountFitsInt => SumInv) => ReadsFilled
  <2>. SUFFICES ASSUME SumInv, NEW i \in Chunks, More(i, "sum")
       PROVE  array[ChunkStart(i) + at[i]] \in Numbers
    BY DEF ReadsFilled
  <2>1. i \in Used /\ ChunkStart(i) + at[i] \in Part(i, ChunkLength(i))
    BY ElementAt DEF More
  <2>2. Filled(i)
    BY <2>1 DEF SumInv, Phases, More
  <2>. QED
    BY <2>1, <2>2 DEF Filled, FilledTo
<1>. QED
  BY <1>1, SumInvariant, PTL

-----------------------------------------------------------------------------
\* The sums: how far each thread's has come, and main's.
Total(S) == SumFunctionOnSet(array, S)

SumsSoFar ==
  /\ \A i \in Chunks : work[i] = "sum" => sum[i] = Total(Part(i, at[i]))
  /\ pc \in {"createSum", "joinSum"} =>
       \A i \in Chunks : work[i] = "ended" => result[i] = Total(Part(i, ChunkLength(i)))

\* Nobody fills while somebody sums.
OneJob ==
  /\ \A i, j \in Chunks : work[i] = "sum" => work[j] # "fill"
  /\ pc \in {"createSum", "joinSum", "printed"} => \A i \in Chunks : work[i] # "fill"
  /\ pc \in {"createFill", "joinFill"} => \A i \in Chunks : work[i] # "sum"
  /\ pc \in {"createFill", "createSum"} => \A i \in Used : i >= k => work[i] = "none"
  /\ pc = "joinFill" => \A i \in Used : i < k => work[i] = "none"

TotalSoFar ==
  /\ pc \in {"createFill", "joinFill", "createSum"} => total = 0
  /\ pc = "joinSum" => total = Total(0..(ChunkStart(k) - 1))
  /\ pc = "printed" => total = Total(0..(numCount - 1))

TotalInv == SumsSoFar /\ OneJob /\ TotalSoFar /\ result \in [Chunks -> Int] /\ total \in Int

\* A part of a chunk, and what lies before it, can be summed.
LEMMA PartTotals ==
  ASSUME ArgsOK, array \in [Elements -> Int], NEW i \in Used, NEW n \in Nat, n <= ChunkLength(i)
  PROVE  /\ IsFiniteSet(Part(i, n)) /\ Weights(array, Part(i, n)) /\ Total(Part(i, n)) \in Int
         /\ IsFiniteSet(0..(ChunkStart(i) - 1)) /\ Weights(array, 0..(ChunkStart(i) - 1))
         /\ Total(Part(i, 0)) = 0
<1>1. ChunkStart(i) \in Nat /\ ChunkLength(i) \in Nat /\ ChunkStart(i) + ChunkLength(i) <= numCount
  BY ChunksFollow DEF Used
<1>2. IsFiniteSet(Part(i, n)) /\ IsFiniteSet(0..(ChunkStart(i) - 1))
  <2>1. \A a, b \in Int : IsFiniteSet(a..b)
    BY FS_Interval
  <2>2. ChunkStart(i) + n - 1 \in Int /\ ChunkStart(i) - 1 \in Int /\ ChunkStart(i) \in Int
    BY <1>1
  <2>. QED
    BY <2>1, <2>2 DEF Part
<1>3. Weights(array, Part(i, n)) /\ Weights(array, 0..(ChunkStart(i) - 1))
  <2>1. Part(i, n) \subseteq Elements
    BY PartInside
  <2>2. 0..(ChunkStart(i) - 1) \subseteq Elements
    BY <1>1, ArgumentsAssumption DEF ArgsOK, Elements
  <2>. QED
    BY <2>1, <2>2 DEF Weights
<1>4. Part(i, 0) = {}
  BY <1>1 DEF Part
<1>. QED
  BY <1>2, <1>3, <1>4, SumType DEF Total

\* The next element is added to the part that was summed.
LEMMA PartGrows ==
  ASSUME ArgsOK, array \in [Elements -> Int], NEW i \in Used, NEW n \in Nat, n < ChunkLength(i)
  PROVE  Total(Part(i, n + 1)) = Total(Part(i, n)) + array[ChunkStart(i) + n]
<1>. DEFINE e == ChunkStart(i) + n
<1>1. ChunkStart(i) \in Nat /\ ChunkLength(i) \in Nat
  BY ChunksFollow DEF Used
<1>2. Part(i, n + 1) = Part(i, n) \cup {e} /\ e \notin Part(i, n)
  BY <1>1 DEF Part
<1>3. /\ IsFiniteSet(Part(i, n)) /\ Weights(array, Part(i, n + 1))
      /\ Total(Part(i, n)) \in Int
  BY <1>1, PartTotals
<1>4. array[e] \in Int
  BY <1>2, <1>3 DEF Weights
<1>. HIDE DEF e
<1>5. Total(Part(i, n) \cup {e}) = array[e] + Total(Part(i, n))
  BY <1>2, <1>3, SumAdds DEF Total
<1>6. array[e] + Total(Part(i, n)) = Total(Part(i, n)) + array[e]
  BY <1>3, <1>4
<1>. QED
  BY <1>2, <1>5, <1>6 DEF e

\* A whole chunk is added to what lies before it.
LEMMA ChunkAdds ==
  ASSUME ArgsOK, array \in [Elements -> Int], NEW i \in Used
  PROVE  /\ Total(0..(ChunkStart(i) - 1)) + Total(Part(i, ChunkLength(i)))
              = Total(0..((ChunkStart(i) + ChunkLength(i)) - 1))
         /\ i + 1 < threadCount => ChunkStart(i) + ChunkLength(i) = ChunkStart(i + 1)
         /\ i + 1 = threadCount => ChunkStart(i) + ChunkLength(i) = numCount
<1>1. ChunkStart(i) \in Nat /\ ChunkLength(i) \in Nat
  BY ChunksFollow DEF Used
<1>. DEFINE before == 0..(ChunkStart(i) - 1)
            chunk == Part(i, ChunkLength(i))
<1>2. before \cup chunk = 0..((ChunkStart(i) + ChunkLength(i)) - 1) /\ before \cap chunk = {}
  BY <1>1 DEF Part
<1>3. /\ IsFiniteSet(before) /\ IsFiniteSet(chunk)
      /\ Weights(array, before) /\ Weights(array, chunk)
  BY <1>1, PartTotals
<1>4. Weights(array, before \cup chunk)
  BY <1>3 DEF Weights
<1>5. Total(before \cup chunk) = Total(before) + Total(chunk)
  <2>. HIDE DEF before, chunk
  <2>. QED
    BY <1>2, <1>3, <1>4, SumDisjoint DEF Total
<1>6. /\ chunkSize \in Nat /\ remainder \in Nat /\ numCount = threadCount * chunkSize + remainder
      /\ \A j \in Used :
           /\ ChunkStart(j) = j * chunkSize
           /\ ChunkLength(j) = IF j = threadCount - 1 THEN chunkSize + remainder ELSE chunkSize
  BY NothingCut DEF Used
<1>7. i \in Nat /\ (i + 1) * chunkSize = i * chunkSize + chunkSize
  BY <1>6 DEF Used
<1>8. ASSUME i + 1 < threadCount PROVE ChunkStart(i) + ChunkLength(i) = ChunkStart(i + 1)
  BY <1>6, <1>7, <1>8 DEF ArgsOK, Used
<1>9. ASSUME i + 1 = threadCount PROVE ChunkStart(i) + ChunkLength(i) = numCount
  <2>1. i = threadCount - 1 /\ (i + 1) * chunkSize = threadCount * chunkSize
    BY <1>7, <1>9 DEF ArgsOK
  <2>2. threadCount * chunkSize = i * chunkSize + chunkSize
    BY <1>7, <2>1
  <2>3. i * chunkSize \in Nat
    BY <1>6, <1>7
  <2>. QED
    BY <1>6, <2>1, <2>2, <2>3 DEF ArgsOK
<1>. QED
  BY <1>2, <1>5, <1>8, <1>9

LEMMA TotalInit == Init => TotalInv
<1>. SUFFICES ASSUME Init PROVE TotalInv
  OBVIOUS
<1>1. SumsSoFar /\ TotalSoFar
  BY DEF Init, SumsSoFar, TotalSoFar
<1>3. OneJob
  <2>1. Used \subseteq Chunks
    BY ArgumentsAssumption DEF Init, Used, Chunks
  <2>2. \A i \in Chunks : work[i] = "none"
    BY DEF Init
  <2>. QED
    BY <2>1, <2>2 DEF Init, OneJob
<1>2. result \in [Chunks -> Int] /\ total \in Int
  BY DEF Init
<1>. QED
  BY <1>1, <1>2, <1>3 DEF TotalInv

\* While the array is as it is, so are the totals.
LEMMA SameTotals ==
  ASSUME UNCHANGED <<args, array>>
  PROVE  /\ \A i, n : Total(Part(i, n))' = Total(Part(i, n))
         /\ \A i : ChunkStart(i)' = ChunkStart(i) /\ ChunkLength(i)' = ChunkLength(i)
         /\ Used' = Used
  BY SameChunks DEF args, Total, Part

\* When main goes to the next chunk, the offsets of the chunks stay as they are.
LEMMA SameAt ==
  ASSUME UNCHANGED args, k' = k + 1
  PROVE  ChunkStart(k)' = ChunkStart(k + 1)
  BY DEF args, ChunkStart, chunkSize, ToInt

\* A step that leaves main's total where it is.
LEMMA SameSoFar ==
  ASSUME TotalSoFar, UNCHANGED <<args, array, total>>,
         (pc' = pc /\ k' = k) \/ pc' \notin {"createFill", "joinFill", "createSum", "joinSum", "printed"}
  PROVE  TotalSoFar'
  BY SameChunks DEF TotalSoFar, args, Total

LEMMA FillKeepsTotal ==
  ASSUME SumInv, TotalInv, NEW i \in Chunks, FillElement(i)
  PROVE  TotalInv'
<1>. USE DEF FillElement, More
<1>1. \A j \in Chunks : work'[j] # "sum" /\ work'[j] = work[j]
  BY DEF TotalInv, OneJob
<1>2. pc \notin {"createSum", "joinSum", "printed"} /\ pc' = pc /\ k' = k /\ Used' = Used
  BY SameChunks DEF TotalInv, OneJob
<1>3. SumsSoFar'
  BY <1>1, <1>2 DEF SumsSoFar
<1>4. OneJob'
  BY <1>1, <1>2 DEF TotalInv, OneJob
<1>5. TotalSoFar'
  BY <1>2 DEF TotalInv, TotalSoFar
<1>. QED
  BY <1>3, <1>4, <1>5 DEF TotalInv

LEMMA AddKeepsTotal ==
  ASSUME SumInv, TotalInv, NEW i \in Chunks, AddElement(i)
  PROVE  TotalInv'
<1>. USE DEF AddElement, More
<1>1. /\ i \in Used /\ at[i] \in Nat /\ at[i] < ChunkLength(i)
      /\ ArgsOK /\ array \in [Elements -> Int] /\ work' = work
  BY ElementAt DEF SumInv, TypesOK
<1>2. UNCHANGED <<args, array>>
  OBVIOUS
<1>3. SumsSoFar'
  <2>1. sum[i] = Total(Part(i, at[i]))
    BY DEF TotalInv, SumsSoFar
  <2>2. sum'[i] = Total(Part(i, at[i] + 1)) /\ at'[i] = at[i] + 1
    BY <1>1, <2>1, PartGrows DEF SumInv, TypesOK
  <2>3. \A j \in Chunks : j # i => sum'[j] = sum[j] /\ at'[j] = at[j]
    BY DEF SumInv, TypesOK
  <2>. QED
    BY <1>1, <1>2, <2>2, <2>3, SameTotals DEF TotalInv, SumsSoFar
<1>4. OneJob'
  BY <1>1, <1>2, SameTotals DEF TotalInv, OneJob
<1>5. TotalSoFar'
  BY SameSoFar DEF TotalInv
<1>. QED
  BY <1>3, <1>4, <1>5 DEF TotalInv

LEMMA ExitKeepsTotal ==
  ASSUME SumInv, TotalInv, NEW i \in Chunks, Exit(i)
  PROVE  TotalInv'
<1>. USE DEF Exit
<1>1. UNCHANGED <<args, array>> /\ at' = at /\ sum' = sum /\ k' = k /\ total' = total
  OBVIOUS
<1>2. /\ \A j \in Chunks : j # i => work'[j] = work[j] /\ result'[j] = result[j]
      /\ work'[i] = "ended" /\ work[i] \in {"fill", "sum"}
      /\ pc' = pc \/ (pc = "handles" /\ pc' = "gone")
      /\ result' \in [Chunks -> Int]
  BY DEF SumInv, TypesOK, TotalInv
<1>3. SumsSoFar'
  <2>1. ASSUME pc' \in {"createSum", "joinSum"}
        PROVE  result'[i] = Total(Part(i, ChunkLength(i)))
    <3>1. work[i] = "sum"
      BY <1>2, <2>1 DEF TotalInv, OneJob
    <3>2. at[i] = ChunkLength(i)
      <4>1. i \in Used /\ at[i] <= ChunkLength(i) /\ at[i] \in Nat /\ ArgsOK
        BY <1>2 DEF SumInv, TypesOK, InChunk
      <4>2. ChunkLength(i) \in Nat /\ at[i] >= ChunkLength(i)
        BY <4>1, ChunksFollow DEF Used
      <4>. QED
        BY <4>1, <4>2
    <3>. QED
      BY <3>1, <3>2 DEF TotalInv, SumsSoFar
  <2>. QED
    BY <1>1, <1>2, <2>1, SameTotals DEF TotalInv, SumsSoFar
<1>4. OneJob'
  <2>1. Used' = Used /\ Used \subseteq Chunks
    BY <1>1, SameTotals, ArgumentsAssumption DEF SumInv, TypesOK, ArgsOK, Used, Chunks
  <2>2. \A j \in Chunks : /\ work[j] = "none" <=> work'[j] = "none"
                          /\ work'[j] = "fill" => work[j] = "fill"
                          /\ work'[j] = "sum" => work[j] = "sum"
    BY <1>2
  <2>. QED
    BY <1>1, <1>2, <2>1, <2>2 DEF TotalInv, OneJob
<1>5. TotalSoFar'
  BY <1>1, <1>2, SameSoFar DEF TotalInv
<1>. QED
  BY <1>1, <1>2, <1>3, <1>4, <1>5 DEF TotalInv

LEMMA CreateKeepsTotal ==
  ASSUME SumInv, TotalInv, CreateFill \/ CreateSum \/ CreateFails
  PROVE  TotalInv'
<1>. USE DEF CreateFill, CreateSum, CreateFails, Begin, Turn
<1>1. /\ ArgsOK /\ array \in [Elements -> Int] /\ UNCHANGED <<args, array>>
      /\ k \in Used /\ k \in Chunks /\ Used \subseteq Chunks /\ Used' = Used
      /\ total' = total /\ result' = result
  <2>1. UNCHANGED <<args, array, total, result>>
    OBVIOUS
  <2>2. Used' = Used
    BY <2>1, SameChunks
  <2>3. /\ ArgsOK /\ array \in [Elements -> Int]
        /\ k \in Used /\ k \in Chunks /\ Used \subseteq Chunks
    BY ArgumentsAssumption DEF SumInv, TypesOK, ArgsOK, Used, Chunks
  <2>. QED
    BY <2>1, <2>2, <2>3
<1>2. /\ \A j \in Chunks : j # k => work'[j] = work[j] /\ at'[j] = at[j] /\ sum'[j] = sum[j]
      /\ at'[k] = 0 /\ sum'[k] = 0
      /\ \/ pc = "createFill" /\ work'[k] = "fill"
         \/ pc = "createSum" /\ work'[k] = "sum"
      /\ \/ pc' = pc
         \/ pc' = "handles"
         \/ pc = "createFill" /\ pc' = "joinFill" /\ k' = 0
         \/ pc = "createSum" /\ pc' = "joinSum" /\ k' = 0
  BY <1>1 DEF SumInv, TypesOK
<1>3. SumsSoFar'
  <2>1. Total(Part(k, 0)) = 0
    <3>1. 0 \in Nat /\ 0 <= ChunkLength(k)
      BY <1>1, ChunksFollow DEF Used
    <3>. QED
      BY <1>1, <3>1, PartTotals
  <2>2. \A j \in Chunks : work'[j] = "sum" => sum'[j] = Total(Part(j, at'[j]))
    BY <1>2, <2>1 DEF TotalInv, SumsSoFar
  <2>3. pc' \in {"createSum", "joinSum"} => pc = "createSum"
    BY <1>2
  <2>4. \A j \in Chunks : work'[j] = "ended" => work[j] = "ended"
    BY <1>2
  <2>. QED
    BY <1>1, <2>2, <2>3, <2>4, SameTotals DEF TotalInv, SumsSoFar
<1>4. OneJob'
  <2>1. k' # k => (pc' = pc /\ k' = k + 1) \/ k' = 0
    OBVIOUS
  <2>2. CASE pc = "createFill"
    <3>1. \A j \in Chunks : work'[j] # "sum"
      BY <1>2, <2>2 DEF TotalInv, OneJob
    <3>2. pc' \in {"createFill", "joinFill", "handles"}
      BY <1>2, <2>2
    <3>3. pc' = "createFill" => \A j \in Used : j >= k' => work'[j] = "none"
      <4>1. pc' = "createFill" => k' = k + 1
        BY <2>2
      <4>2. \A j \in Used : j >= k + 1 => j >= k /\ j # k
        BY <1>1 DEF Used
      <4>. QED
        BY <1>1, <1>2, <2>2, <4>1, <4>2 DEF TotalInv, OneJob
    <3>4. pc' = "joinFill" => \A j \in Used : ~(j < k')
      BY <1>2, <2>2 DEF Used
    <3>. QED
      BY <1>1, <3>1, <3>2, <3>3, <3>4 DEF OneJob
  <2>3. CASE pc = "createSum"
    <3>1. \A j \in Chunks : work'[j] # "fill"
      BY <1>2, <2>3 DEF TotalInv, OneJob
    <3>2. pc' \in {"createSum", "joinSum", "handles"}
      BY <1>2, <2>3
    <3>3. pc' = "createSum" => \A j \in Used : j >= k' => work'[j] = "none"
      <4>1. pc' = "createSum" => k' = k + 1
        BY <2>3
      <4>2. \A j \in Used : j >= k + 1 => j >= k /\ j # k
        BY <1>1 DEF Used
      <4>. QED
        BY <1>1, <1>2, <2>3, <4>1, <4>2 DEF TotalInv, OneJob
    <3>. QED
      BY <1>1, <3>1, <3>2, <3>3 DEF OneJob
  <2>. QED
    BY <1>2, <2>2, <2>3
<1>5. TotalSoFar'
  <2>1. pc' \in {"createFill", "joinFill", "createSum", "handles"} \/ (pc' = "joinSum" /\ k' = 0)
    BY <1>2
  <2>2. pc' = "handles" \/ total = 0
    BY <1>2 DEF TotalInv, TotalSoFar
  <2>3. Total(0..(ChunkStart(0) - 1))' = 0
    <3>1. ChunkStart(0)' = 0
      <4>1. 0 \in 0..(threadCount - 1) /\ 0 * chunkSize = 0
        BY <1>1, NothingCut DEF ArgsOK
      <4>. QED
        BY <1>1, <4>1, NothingCut, SameChunks
    <3>2. 0..(0 - 1) = {} /\ Weights(array, {}) /\ IsFiniteSet({})
      BY FS_EmptySet DEF Weights
    <3>3. Total({}) = 0
      BY <3>2, SumType DEF Total
    <3>. QED
      BY <1>1, <3>1, <3>2, <3>3 DEF Total
  <2>. QED
    BY <1>1, <2>1, <2>2, <2>3 DEF TotalSoFar
<1>. QED
  BY <1>1, <1>3, <1>4, <1>5 DEF TotalInv

LEMMA JoinFillKeepsTotal ==
  ASSUME SumInv, TotalInv, JoinFill
  PROVE  TotalInv'
<1>. USE DEF JoinFill, Turn
<1>1. /\ ArgsOK /\ UNCHANGED <<args, array, at, sum, result, total>>
      /\ k \in Used /\ k \in Chunks /\ Used \subseteq Chunks /\ Used' = Used
  BY ArgumentsAssumption, SameChunks DEF SumInv, TypesOK, ArgsOK, Used, Chunks
<1>2. /\ \A j \in Chunks : j # k => work'[j] = work[j]
      /\ work'[k] = "none"
      /\ \/ pc' = "joinFill" /\ k' = k + 1
         \/ pc' = "createSum" /\ k' = 0 /\ k + 1 = threadCount
  BY <1>1 DEF SumInv, TypesOK, Used, ArgsOK
<1>3. \A j \in Used : j <= k => work'[j] = "none"
  <2>1. \A j \in Used : j <= k => j = k \/ j < k
    BY <1>1 DEF Used
  <2>. QED
    BY <1>1, <1>2, <2>1 DEF TotalInv, OneJob
<1>4. CASE pc' = "joinFill" /\ k' = k + 1
  <2>1. \A j \in Used : j < k + 1 => j <= k
    BY <1>1 DEF Used
  <2>2. SumsSoFar' /\ TotalSoFar'
    BY <1>1, <1>2, <1>4 DEF TotalInv, OneJob, SumsSoFar, TotalSoFar
  <2>3. OneJob'
    BY <1>1, <1>2, <1>3, <1>4, <2>1 DEF TotalInv, OneJob
  <2>. QED
    BY <1>1, <2>2, <2>3 DEF TotalInv
<1>5. CASE pc' = "createSum" /\ k' = 0 /\ k + 1 = threadCount
  <2>1. \A j \in Used : work'[j] = "none"
    BY <1>1, <1>3, <1>5 DEF Used, ArgsOK
  <2>2. \A j \in Chunks : work'[j] = "none"
    BY <1>1, <1>2, <2>1 DEF SumInv, InChunk
  <2>3. SumsSoFar' /\ TotalSoFar'
    BY <1>1, <1>5, <2>2 DEF TotalInv, SumsSoFar, TotalSoFar
  <2>4. OneJob'
    BY <1>1, <1>5, <2>2 DEF OneJob
  <2>. QED
    BY <1>1, <2>3, <2>4 DEF TotalInv
<1>. QED
  BY <1>2, <1>4, <1>5

LEMMA JoinSumKeepsTotal ==
  ASSUME SumInv, TotalInv, JoinSum
  PROVE  TotalInv'
<1>. USE DEF JoinSum, Turn
<1>1. /\ ArgsOK /\ array \in [Elements -> Int] /\ UNCHANGED <<args, array, at, sum, result>>
      /\ k \in Used /\ k \in Chunks /\ Used' = Used
  BY ArgumentsAssumption, SameChunks DEF SumInv, TypesOK, ArgsOK, Used, Chunks
<1>2. /\ \A j \in Chunks : j # k => work'[j] = work[j]
      /\ work'[k] = "none"
      /\ \/ pc' = "joinSum" /\ k' = k + 1 /\ k + 1 < threadCount
         \/ pc' = "printed" /\ k + 1 = threadCount
  BY <1>1 DEF SumInv, TypesOK, Used, ArgsOK
<1>3. SumsSoFar'
  BY <1>1, <1>2, SameTotals DEF TotalInv, SumsSoFar
<1>4. OneJob'
  <2>1. \A j \in Chunks : work'[j] # "fill"
    BY <1>2 DEF TotalInv, OneJob
  <2>. QED
    BY <1>2, <2>1 DEF OneJob
<1>5. TotalSoFar'
  <2>1. total' = Total(0..(ChunkStart(k) - 1)) + Total(Part(k, ChunkLength(k)))
    BY <1>1 DEF TotalInv, SumsSoFar, TotalSoFar
  <2>2. total' = Total(0..((ChunkStart(k) + ChunkLength(k)) - 1))
    BY <1>1, <2>1, ChunkAdds
  <2>3. CASE pc' = "joinSum" /\ k' = k + 1 /\ k + 1 < threadCount
    <3>1. total' = Total(0..(ChunkStart(k + 1) - 1))
      <4>1. ChunkStart(k) + ChunkLength(k) = ChunkStart(k + 1)
        BY <1>1, <2>3, ChunkAdds
      <4>. HIDE DEF JoinSum, Turn
      <4>. QED
        BY <2>2, <4>1, Zenon
    <3>2. ChunkStart(k)' = ChunkStart(k + 1)
      BY <1>1, <2>3, SameAt
    <3>3. total' = Total(0..(ChunkStart(k) - 1))'
      BY <1>1, <3>1, <3>2 DEF Total
    <3>. QED
      BY <2>3, <3>3 DEF TotalSoFar
  <2>4. CASE pc' = "printed" /\ k + 1 = threadCount
    <3>1. ChunkStart(k) + ChunkLength(k) = numCount
      BY <1>1, <2>4, ChunkAdds
    <3>. HIDE DEF JoinSum, Turn
    <3>2. total' = Total(0..(numCount - 1))
      BY <2>2, <3>1, Zenon
    <3>. QED
      BY <1>1, <2>4, <3>2 DEF TotalSoFar, Total, args
  <2>. QED
    BY <1>2, <2>3, <2>4
<1>6. total' \in Int
  BY <1>1 DEF TotalInv
<1>. QED
  BY <1>1, <1>3, <1>4, <1>5, <1>6 DEF TotalInv

LEMMA TotalStep == SumInv /\ TotalInv /\ [Next]_vars => TotalInv'
<1>. SUFFICES ASSUME SumInv, TotalInv, [Next]_vars PROVE TotalInv'
  OBVIOUS
<1>1. CASE MainStep
  BY <1>1, CreateKeepsTotal, JoinFillKeepsTotal, JoinSumKeepsTotal DEF MainStep
<1>2. CASE \E i \in Chunks : ThreadStep(i)
  BY <1>2, FillKeepsTotal, AddKeepsTotal, ExitKeepsTotal DEF ThreadStep
<1>3. CASE UNCHANGED vars
  <2>1. UNCHANGED <<args, array>> /\ UNCHANGED <<chunks, pc, k, total>>
    BY <1>3 DEF vars
  <2>2. SumsSoFar'
    BY <2>1, SameTotals DEF TotalInv, SumsSoFar, chunks
  <2>3. OneJob'
    BY <2>1, SameTotals DEF TotalInv, OneJob, chunks
  <2>4. TotalSoFar'
    BY <2>1, SameSoFar DEF TotalInv
  <2>. QED
    BY <2>1, <2>2, <2>3, <2>4 DEF TotalInv, chunks
<1>. QED
  BY <1>1, <1>2, <1>3 DEF Next

\* The two invariants together.
LEMMA BothStep == SumInv /\ TotalInv /\ [Next]_vars => SumInv' /\ TotalInv'
  BY SumStep, TotalStep

\* For any number of threads and any array whose elements an int can count, also when
\* the first does not divide the second or is larger, and however the threads are
\* scheduled, the total that is printed is the sum of the array.
\* (computesum.c:63-64, 77, 123, 130)
THEOREM PrintsTheSum == Spec => []TotalIsSum
<1>1. Init => (CountFitsInt => SumInv /\ TotalInv)
  BY SumInit, TotalInit
<1>2. (CountFitsInt => SumInv /\ TotalInv) /\ [Next]_vars
        => (CountFitsInt => SumInv /\ TotalInv)'
  BY BothStep, SameCount
<1>3. (CountFitsInt => SumInv /\ TotalInv) => TotalIsSum
  BY DEF TotalInv, TotalSoFar, TotalIsSum, Total
<1>. QED
  BY <1>1, <1>2, <1>3, PTL DEF Spec

-----------------------------------------------------------------------------
(* CopyWithHoles: for every source, its holes and its size and the size of *)
(* the buffer.                                                             *)

\* A function on 1..n is a sequence.
LEMMA FunctionIsSequence ==
  ASSUME NEW n \in Nat, NEW S, NEW f \in [1..n -> S]
  PROVE  f \in Seq(S) /\ Len(f) = n
  OBVIOUS

\* A set of numbers that is not empty has a least one, and Least picks it.
LEMMA LeastIsLeast ==
  ASSUME NEW S \in SUBSET Nat, S # {}
  PROVE  Least(S) \in S /\ \A y \in S : Least(S) <= y
<1>1. PICK x \in S : \A y \in S : <<y, x>> \notin OpToRel(<, Nat)
  BY WFMin, NatLessThanWellFounded, Zenon
<1>2. \A y \in S : ~(y < x)
  BY <1>1, Zenon DEF OpToRel
<1>3. \A y \in S : x <= y
  BY <1>2
<1>. QED
  BY <1>3 DEF Least

-----------------------------------------------------------------------------
CopyTypes ==
  /\ source \in Seq(Cells) /\ source \in versions
  /\ dest \in Seq(Cells)
  /\ fileSize \in Nat /\ offset \in Nat /\ chunkEnd \in Nat /\ dstPos \in Nat
  /\ unreadable \subseteq Nat

\* What was copied so far: the cells up to offset, with the holes at the end left out.
Matches ==
  /\ offset <= fileSize /\ Len(dest) <= offset
  /\ \A i \in 1..offset : IF i <= Len(dest) THEN dest[i] = source[i] ELSE source[i] = Hole

\* Where the copy of a source that nobody changes stands.
Exact ==
  /\ place = "stat" => dest = << >> /\ offset = 0
  /\ place \in {"open", "seek", "chunk", "copy", "truncate"} =>
       fileSize = Len(source) /\ Matches
  /\ place = "chunk" => offset < fileSize
  /\ place = "copy" => /\ offset <= chunkEnd /\ chunkEnd <= fileSize
                       /\ \A i \in (offset + 1)..chunkEnd : source[i] # Hole
  /\ place = "truncate" => offset = fileSize
  /\ place = "done" => dest = source

CopyInv ==
  /\ CopyTypes
  /\ place = "copy" => dstPos = offset
  /\ versions = {source} => Exact
  /\ OnlyWhatWasThere

\* read returns bytes of the source, and not more than were asked for.
\* (copyWithHoles.cpp:81-83)
LEMMA ReadReturns ==
  ASSUME CopyTypes, CopyAssumption, offset < chunkEnd
  PROVE  /\ BytesRead \in Nat /\ offset + BytesRead <= chunkEnd
         /\ offset + BytesRead <= Len(source) \/ BytesRead = 0
<1>. DEFINE end == Smaller(offset + CopyBuffer, chunkEnd)
           S == {o \in offset..end : o = end \/ ~Readable(o)}
<1>1. end \in Nat /\ offset < end /\ end <= chunkEnd
  BY DEF CopyTypes, CopyAssumption, Smaller
<1>2. S \in SUBSET Nat /\ end \in S
  BY <1>1 DEF CopyTypes
<1>. DEFINE l == Least(S)
<1>3. l \in S /\ \A y \in S : l <= y
  BY <1>2, LeastIsLeast
<1>4. BytesRead = l - offset
  BY DEF BytesRead
<1>. HIDE DEF l
<1>5. l \in Nat /\ offset <= l /\ l <= end
  BY <1>1, <1>3 DEF CopyTypes
<1>6. l = offset \/ Readable(l - 1)
  BY <1>1, <1>3, <1>5 DEF CopyTypes
<1>. QED
  BY <1>1, <1>4, <1>5, <1>6 DEF Readable, CopyTypes

\* What the destination is after a write of n bytes that begins behind its end or
\* inside it.  (copyWithHoles.cpp:85)
LEMMA WriteLeaves ==
  ASSUME CopyTypes, CopyAssumption, dstPos = offset,
         NEW n \in Nat \ {0}, offset + n <= Len(source)
  PROVE  /\ Overwritten(n) \in Seq(Cells)
         /\ Len(Overwritten(n)) = IF offset + n > Len(dest) THEN offset + n ELSE Len(dest)
         /\ \A i \in 1..Len(Overwritten(n)) :
              Overwritten(n)[i] = IF i \in (offset + 1)..(offset + n) THEN Byte(source[i])
                                  ELSE IF i <= Len(dest) THEN dest[i] ELSE Hole
<1>. DEFINE size == IF offset + n > Len(dest) THEN offset + n ELSE Len(dest)
           f == [i \in 1..size |-> IF i \in (offset + 1)..(offset + n) THEN Byte(source[i])
                                   ELSE IF i <= Len(dest) THEN dest[i] ELSE Hole]
<1>1. size \in Nat
  BY DEF CopyTypes
<1>2. \A i \in 1..size : i \in (offset + 1)..(offset + n) =>
         offset + i - dstPos = i /\ source[i] \in Cells
  BY <1>1 DEF CopyTypes
<1>3. Overwritten(n) = f
  BY <1>1, <1>2 DEF Overwritten, Resized, CopyTypes
<1>4. \A i \in 1..size : f[i] \in Cells
  BY <1>1, <1>2 DEF CopyTypes, CopyAssumption, Cells, Byte
<1>5. f \in Seq(Cells) /\ Len(f) = size
  <2>. HIDE DEF size
  <2>1. f \in [1..size -> Cells]
    BY <1>4
  <2>. HIDE DEF f
  <2>. QED
    BY <1>1, <2>1, FunctionIsSequence
<1>. QED
  BY <1>3, <1>5

\* truncate makes the file n cells long.  (copyWithHoles.cpp:98)
LEMMA ResizeLeaves ==
  ASSUME CopyAssumption, NEW file \in Seq(Cells), NEW n \in Nat
  PROVE  /\ Resized(file, n) \in Seq(Cells) /\ Len(Resized(file, n)) = n
         /\ \A i \in 1..n : Resized(file, n)[i] = IF i <= Len(file) THEN file[i] ELSE Hole
<1>. DEFINE f == [i \in 1..n |-> IF i <= Len(file) THEN file[i] ELSE Hole]
<1>1. f \in [1..n -> Cells]
  BY DEF Cells
<1>2. f \in Seq(Cells) /\ Len(f) = n
  <2>. HIDE DEF f
  <2>. QED
    BY <1>1, FunctionIsSequence
<1>. QED
  BY <1>2 DEF Resized

\* A step that leaves source and destination alone, while both stay what they were.
LEMMA NothingWritten ==
  ASSUME OnlyWhatWasThere, UNCHANGED dest, versions \subseteq versions'
  PROVE  OnlyWhatWasThere'
  BY DEF OnlyWhatWasThere, Byte

LEMMA CopyInitInv == CopyAssumption /\ CopyInit => CopyInv
<1>. SUFFICES ASSUME CopyAssumption, CopyInit PROVE CopyInv
  OBVIOUS
<1>1. CopyTypes
  BY DEF CopyInit, CopyTypes, CopyAssumption
<1>2. OnlyWhatWasThere
  BY DEF CopyInit, OnlyWhatWasThere
<1>. QED
  BY <1>1, <1>2 DEF CopyInit, CopyInv, Exact

LEMMA StatKeeps == CopyAssumption /\ CopyInv /\ StatSource => CopyInv'
<1>. SUFFICES ASSUME CopyAssumption, CopyInv, StatSource PROVE CopyInv'
  OBVIOUS
<1>. USE DEF StatSource, world
<1>1. CopyTypes'
  BY DEF CopyInv, CopyTypes
<1>2. versions = {source} => Exact'
  BY DEF CopyInv, CopyTypes, Exact, Matches
<1>. QED
  BY <1>1, <1>2, NothingWritten DEF CopyInv

LEMMA OpenKeeps == CopyAssumption /\ CopyInv /\ OpenDestination => CopyInv'
<1>. SUFFICES ASSUME CopyAssumption, CopyInv, OpenDestination PROVE CopyInv'
  OBVIOUS
<1>. USE DEF OpenDestination, locals
<1>1. CopyTypes'
  BY DEF CopyInv, CopyTypes
<1>2. versions' = {source'} => versions = {source} /\ source' = source
  BY DEF CopyInv, CopyTypes
<1>3. versions = {source} /\ source' = source => Exact'
  BY DEF CopyInv, CopyTypes, Exact, Matches
<1>. QED
  BY <1>1, <1>2, <1>3, NothingWritten DEF CopyInv

LEMMA SkipKeeps == CopyAssumption /\ CopyInv /\ SkipHole => CopyInv'
<1>. SUFFICES ASSUME CopyAssumption, CopyInv, SkipHole PROVE CopyInv'
  OBVIOUS
<1>. DEFINE data == {i \in offset..(Len(source) - 1) : source[i + 1] # Hole}
<1>. USE DEF SkipHole, world
<1>1. SeekData = (IF data = {} THEN fileSize ELSE Least(data)) /\ data \in SUBSET Nat
  BY DEF SeekData, CopyInv, CopyTypes
<1>2. data # {} => Least(data) \in data /\ \A y \in data : Least(data) <= y
  BY <1>1, LeastIsLeast
<1>3. SeekData \in Nat /\ SeekData >= offset
  <2>1. CASE data = {}
    BY <1>1, <2>1 DEF CopyInv, CopyTypes
  <2>2. CASE data # {}
    BY <1>1, <1>2, <2>2 DEF CopyInv, CopyTypes
  <2>. QED BY <2>1, <2>2
<1>4. CopyTypes'
  BY <1>3 DEF CopyInv, CopyTypes
<1>5. ASSUME versions = {source} PROVE Exact'
  <2>1. fileSize = Len(source) /\ Matches /\ offset < fileSize
    BY <1>5 DEF CopyInv, Exact
  <2>2. SeekData <= fileSize /\ \A i \in (offset + 1)..SeekData : source[i] = Hole
    <3>1. ASSUME NEW i \in (offset + 1)..SeekData PROVE i \in Nat /\ i - 1 \notin data
      <4>1. i \in Nat /\ ~(SeekData <= i - 1)
        BY <1>3 DEF CopyInv, CopyTypes
      <4>. HIDE DEF data
      <4>. QED
        BY <4>1, <1>1, <1>2
    <3>2. SeekData <= fileSize
      <4>1. CASE data = {}
        BY <1>1, <4>1 DEF CopyInv, CopyTypes
      <4>2. CASE data # {}
        BY <1>1, <1>2, <2>1, <4>2 DEF CopyInv, CopyTypes
      <4>. QED BY <4>1, <4>2
    <3>3. \A i \in (offset + 1)..SeekData : i - 1 \in offset..(Len(source) - 1) /\ i - 1 + 1 = i
      BY <1>3, <2>1, <3>2 DEF CopyInv, CopyTypes
    <3>. QED
      BY <3>1, <3>2, <3>3
  <2>3. Matches'
    BY <1>3, <2>1, <2>2 DEF Matches, CopyInv, CopyTypes
  <2>. QED
    BY <1>3, <2>1, <2>2, <2>3 DEF Exact, CopyInv, CopyTypes
<1>. QED
  BY <1>4, <1>5, NothingWritten DEF CopyInv

LEMMA FindKeeps == CopyAssumption /\ CopyInv /\ FindChunk => CopyInv'
<1>. SUFFICES ASSUME CopyAssumption, CopyInv, FindChunk PROVE CopyInv'
  OBVIOUS
<1>. DEFINE holes == {i \in offset..(Len(source) - 1) : source[i + 1] = Hole} \cup {Len(source)}
<1>. USE DEF FindChunk, world
<1>1. SeekHole = (IF offset >= Len(source) THEN fileSize ELSE Least(holes))
      /\ holes \in SUBSET Nat
  BY DEF SeekHole, CopyInv, CopyTypes
<1>2. Least(holes) \in holes /\ \A y \in holes : Least(holes) <= y
  BY <1>1, LeastIsLeast
<1>3. SeekHole \in Nat
  BY <1>1, <1>2 DEF CopyInv, CopyTypes
<1>4. CopyTypes'
  BY <1>3 DEF CopyInv, CopyTypes, Smaller
<1>5. ASSUME versions = {source} PROVE Exact'
  <2>1. fileSize = Len(source) /\ Matches /\ offset < fileSize
    BY <1>5 DEF CopyInv, Exact
  <2>2. SeekHole = Least(holes)
    BY <1>1, <2>1 DEF CopyInv, CopyTypes
  <2>3. offset <= SeekHole /\ SeekHole <= fileSize
    BY <1>2, <2>1, <2>2 DEF CopyInv, CopyTypes
  <2>4. chunkEnd' = SeekHole
    BY <1>3, <2>3 DEF Smaller, CopyInv, CopyTypes
  <2>5. \A i \in (offset + 1)..SeekHole : source[i] # Hole
    <3>1. ASSUME NEW i \in (offset + 1)..SeekHole PROVE i - 1 \notin holes
      <4>1. ~(SeekHole <= i - 1)
        BY <1>3 DEF CopyInv, CopyTypes
      <4>. HIDE DEF holes
      <4>. QED
        BY <4>1, <1>2, <2>2
    <3>2. \A i \in (offset + 1)..SeekHole : i - 1 \in offset..(Len(source) - 1) /\ i - 1 + 1 = i
      BY <1>3, <2>1, <2>3 DEF CopyInv, CopyTypes
    <3>. QED
      BY <3>1, <3>2
  <2>6. Matches'
    BY <2>1 DEF Matches
  <2>. QED
    BY <2>1, <2>3, <2>4, <2>5, <2>6 DEF Exact
<1>. QED
  BY <1>4, <1>5, NothingWritten DEF CopyInv

LEMMA CopyKeeps == CopyAssumption /\ CopyInv /\ CopyBytes => CopyInv'
<1>. SUFFICES ASSUME CopyAssumption, CopyInv, CopyBytes PROVE CopyInv'
  OBVIOUS
<1>. DEFINE n == BytesRead
<1>. USE DEF world
<1>1. /\ CopyTypes /\ dstPos = offset /\ place = "copy" /\ place' = "copy"
      /\ UNCHANGED <<world, fileSize, chunkEnd>>
      /\ dest' = Overwritten(n) /\ offset' = offset + n /\ dstPos' = dstPos + n
      /\ offset < chunkEnd /\ n > 0
  BY DEF CopyInv, CopyBytes
<1>2. n \in Nat \ {0} /\ offset + n <= chunkEnd /\ offset + n <= Len(source)
  BY <1>1, ReadReturns
<1>. HIDE DEF n
<1>3. /\ Overwritten(n) \in Seq(Cells)
      /\ Len(Overwritten(n)) = IF offset + n > Len(dest) THEN offset + n ELSE Len(dest)
      /\ \A i \in 1..Len(Overwritten(n)) :
           Overwritten(n)[i] = IF i \in (offset + 1)..(offset + n) THEN Byte(source[i])
                               ELSE IF i <= Len(dest) THEN dest[i] ELSE Hole
  BY <1>1, <1>2, WriteLeaves
<1>4. CopyTypes'
  BY <1>1, <1>2, <1>3 DEF CopyTypes
<1>5. ASSUME versions = {source} PROVE Exact'
  <2>1. /\ fileSize = Len(source) /\ Matches /\ chunkEnd <= fileSize
        /\ \A i \in (offset + 1)..chunkEnd : source[i] # Hole
    BY <1>1, <1>5 DEF CopyInv, Exact
  <2>2. Len(dest') = offset + n
    BY <1>1, <1>2, <1>3, <2>1 DEF Matches, CopyTypes
  <2>3. \A i \in 1..(offset + n) : dest'[i] = source[i]
    <3>. SUFFICES ASSUME NEW i \in 1..(offset + n) PROVE dest'[i] = source[i]
      OBVIOUS
    <3>1. CASE i \in (offset + 1)..(offset + n)
      <4>1. source[i] # Hole
        BY <1>1, <1>2, <2>1, <3>1 DEF CopyTypes
      <4>. QED
        BY <1>1, <1>2, <1>3, <2>2, <3>1, <4>1 DEF Byte
    <3>2. CASE i \notin (offset + 1)..(offset + n)
      <4>1. i \in 1..offset
        BY <1>1, <1>2, <3>2 DEF CopyTypes
      <4>2. dest'[i] = IF i <= Len(dest) THEN dest[i] ELSE Hole
        BY <1>1, <1>2, <1>3, <2>2, <3>2 DEF CopyTypes
      <4>. QED
        BY <4>1, <4>2, <2>1 DEF Matches
    <3>. QED BY <3>1, <3>2
  <2>4. Matches'
    BY <1>1, <1>2, <2>1, <2>2, <2>3 DEF Matches, CopyTypes
  <2>. QED
    BY <1>1, <1>2, <2>1, <2>4 DEF Exact, CopyTypes
<1>6. OnlyWhatWasThere'
  <2>. SUFFICES ASSUME NEW i \in 1..Len(dest'), dest'[i] # Hole
       PROVE \E v \in versions : i <= Len(v) /\ dest'[i] = Byte(v[i])
    <3>1. dest' \in Seq(Cells) /\ DOMAIN dest' = 1..Len(dest') /\ versions' = versions
      BY <1>1, <1>3
    <3>. QED
      BY <3>1 DEF OnlyWhatWasThere, Byte
  <2>1. CASE i \in (offset + 1)..(offset + n)
    BY <1>1, <1>2, <1>3, <2>1 DEF CopyTypes
  <2>2. CASE i \notin (offset + 1)..(offset + n)
    BY <1>1, <1>2, <1>3, <2>2 DEF CopyTypes, CopyInv, OnlyWhatWasThere
  <2>. QED BY <2>1, <2>2
<1>. QED
  BY <1>1, <1>4, <1>5, <1>6 DEF CopyInv

LEMMA TruncateKeeps == CopyAssumption /\ CopyInv /\ Truncate => CopyInv'
<1>. SUFFICES ASSUME CopyAssumption, CopyInv, Truncate PROVE CopyInv'
  OBVIOUS
<1>. USE DEF world, locals
<1>1. /\ CopyTypes /\ place = "truncate" /\ place' = "done"
      /\ UNCHANGED <<world, dstPos, locals>> /\ dest' = Resized(dest, fileSize)
  BY DEF CopyInv, Truncate
<1>2. /\ dest' \in Seq(Cells) /\ Len(dest') = fileSize
      /\ \A i \in 1..fileSize : dest'[i] = IF i <= Len(dest) THEN dest[i] ELSE Hole
  BY <1>1, ResizeLeaves DEF CopyTypes
<1>3. CopyTypes'
  BY <1>1, <1>2 DEF CopyTypes
<1>4. ASSUME versions = {source} PROVE Exact'
  <2>1. fileSize = Len(source) /\ offset = fileSize /\ Matches
    BY <1>1, <1>4 DEF CopyInv, Exact
  <2>2. \A i \in 1..Len(dest') : dest'[i] = source[i]
    BY <1>2, <2>1 DEF Matches
  <2>3. dest' = source
    BY <1>1, <1>2, <2>1, <2>2, SeqEqual DEF CopyTypes
  <2>. QED
    BY <1>1, <2>3 DEF Exact
<1>5. OnlyWhatWasThere'
  BY <1>1, <1>2 DEF CopyTypes, CopyInv, OnlyWhatWasThere, Byte
<1>. QED
  BY <1>1, <1>3, <1>4, <1>5 DEF CopyInv

LEMMA CopyStepInv == CopyAssumption /\ CopyInv /\ [CopyNext]_copyVars => CopyInv'
<1>. SUFFICES ASSUME CopyAssumption, CopyInv, [CopyNext]_copyVars PROVE CopyInv'
  OBVIOUS
<1>1. CASE ChunkEnds
  <2>1. CopyTypes' /\ (versions = {source} => Exact')
    BY <1>1 DEF ChunkEnds, world, locals, CopyInv, CopyTypes, Exact, Matches
  <2>. QED
    BY <1>1, <2>1, NothingWritten DEF ChunkEnds, world, locals, CopyInv
<1>2. CASE NothingToCopy
  <2>1. CopyTypes' /\ (versions = {source} => Exact')
    BY <1>2 DEF NothingToCopy, world, locals, CopyInv, CopyTypes, Exact, Matches
  <2>. QED
    BY <1>2, <2>1, NothingWritten DEF NothingToCopy, world, locals, CopyInv
<1>3. CASE CopyFails
  <2>1. CopyTypes' /\ Exact'
    BY <1>3 DEF CopyFails, world, locals, CopyInv, CopyTypes, Exact
  <2>. QED
    BY <1>3, <2>1, NothingWritten DEF CopyFails, world, locals, CopyInv
<1>4. CASE ChangeSource
  <2>1. CopyTypes'
    BY <1>4 DEF ChangeSource, locals, CopyInv, CopyTypes, CopyAssumption
  <2>2. versions' = {source'} => versions = {source} /\ source' = source
    BY <1>4 DEF ChangeSource, CopyInv, CopyTypes
  <2>3. versions = {source} /\ source' = source => Exact'
    BY <1>4 DEF ChangeSource, locals, CopyInv, Exact, Matches
  <2>. QED
    BY <1>4, <2>1, <2>2, <2>3, NothingWritten DEF ChangeSource, locals, CopyInv
<1>5. CASE UNCHANGED copyVars
  <2>1. CopyTypes' /\ (versions = {source} => Exact')
    BY <1>5 DEF copyVars, world, locals, CopyInv, CopyTypes, Exact, Matches
  <2>. QED
    BY <1>5, <2>1, NothingWritten DEF copyVars, world, locals, CopyInv
<1>. QED
  BY <1>1, <1>2, <1>3, <1>4, <1>5, StatKeeps, OpenKeeps, SkipKeeps, FindKeeps, CopyKeeps,
     TruncateKeeps DEF CopyNext, CopyStep

\* The inductive invariant: how far the copy of an unchanged source agrees with it.
THEOREM CopyInvariant == CopySpec => []CopyInv
<1>. USE CopyAssumption
<1>. QED
  BY CopyInitInv, CopyStepInv, PTL DEF CopySpec

\* For every source, buffer size and pattern of holes, and wherever reads fall short: a
\* copy that ends without an error is the source, hole by hole, if nobody has changed
\* it meanwhile.  (copyWithHoles.cpp:45-98)
THEOREM CopiesAreExact == CopySpec => []CopyIsExact
<1>1. CopyInv => CopyIsExact
  BY DEF CopyInv, Exact, CopyIsExact
<1>. QED
  BY <1>1, CopyInvariant, PTL

\* However the source changes, is truncated or is the destination itself, every byte
\* of the copy was in the source at its offset.  (copyWithHoles.cpp:72-86)
THEOREM NothingInvented == CopySpec => []OnlyWhatWasThere
<1>1. CopyInv => OnlyWhatWasThere
  BY DEF CopyInv
<1>. QED
  BY <1>1, CopyInvariant, PTL

-----------------------------------------------------------------------------
\* The report: what is counted is what is in the copy.

Data(file) == {i \in DOMAIN file : file[i] # Hole}

ReportInv ==
  /\ CopyInv
  /\ totalPhysical = Cardinality(Data(dest))
  /\ Len(dest) <= fileSize
  /\ place \notin {"done", "failed"} => Len(dest) <= offset
  /\ place = "copy" => chunkEnd <= fileSize
  /\ place = "done" => Len(dest) = fileSize
  /\ place = "stat" => dest = << >>

\* SEEK_DATA never goes back.  (copyWithHoles.cpp:46-49)
LEMMA SeekGoesOn ==
  ASSUME CopyTypes, offset < fileSize
  PROVE  SeekData \in Nat /\ SeekData >= offset
<1>. DEFINE data == {i \in offset..(Len(source) - 1) : source[i + 1] # Hole}
<1>1. SeekData = (IF data = {} THEN fileSize ELSE Least(data)) /\ data \in SUBSET Nat
  BY DEF SeekData, CopyTypes
<1>2. data # {} => Least(data) \in data
  BY <1>1, LeastIsLeast
<1>3. CASE data = {}
  BY <1>1, <1>3 DEF CopyTypes
<1>4. CASE data # {}
  BY <1>1, <1>2, <1>4 DEF CopyTypes
<1>. QED BY <1>3, <1>4

\* The data of a file is a finite set of its cells.
LEMMA DataFinite ==
  ASSUME NEW file \in Seq(Cells)
  PROVE  IsFiniteSet(Data(file))
<1>1. IsFiniteSet(1..Len(file)) /\ Data(file) \in SUBSET (1..Len(file))
  BY FS_Interval DEF Data
<1>. QED
  BY <1>1, FS_Subset

\* A write behind the data adds as many cells of data as it has bytes.
LEMMA WriteCounts ==
  ASSUME CopyAssumption, CopyTypes, dstPos = offset, Len(dest) <= offset,
         NEW n \in Nat \ {0}, offset + n <= Len(source)
  PROVE  Cardinality(Data(Overwritten(n))) = Cardinality(Data(dest)) + n
<1>. DEFINE new == (offset + 1)..(offset + n)
<1>1. /\ Overwritten(n) \in Seq(Cells) /\ Len(Overwritten(n)) = offset + n
      /\ \A i \in 1..(offset + n) :
           Overwritten(n)[i] = IF i \in new THEN Byte(source[i])
                               ELSE IF i <= Len(dest) THEN dest[i] ELSE Hole
  BY WriteLeaves DEF CopyTypes
<1>2. \A i \in new : i \in 1..(offset + n) /\ i \notin 1..Len(dest) /\ Byte(source[i]) # Hole
  BY DEF CopyTypes, Byte, CopyAssumption
<1>3. \A i \in Nat : i \in 1..Len(dest) => i \in 1..(offset + n) /\ i \notin new
  BY DEF CopyTypes
<1>4. Data(Overwritten(n)) = Data(dest) \cup new
  BY <1>1, <1>2, <1>3 DEF Data, CopyTypes
<1>5. Data(dest) \cap new = {}
  BY <1>2 DEF Data, CopyTypes
<1>6. IsFiniteSet(new) /\ Cardinality(new) = n
  BY FS_Interval DEF CopyTypes
<1>7. IsFiniteSet(Data(dest))
  BY DataFinite DEF CopyTypes
<1>. HIDE DEF new
<1>8. Cardinality(Data(dest) \cup new) = Cardinality(Data(dest)) + Cardinality(new)
  <2>1. Cardinality(Data(dest) \cap new) = 0
    BY <1>5, FS_EmptySet
  <2>2. Cardinality(Data(dest) \cup new)
          = Cardinality(Data(dest)) + Cardinality(new) - Cardinality(Data(dest) \cap new)
    BY <1>6, <1>7, FS_Union
  <2>3. Cardinality(Data(dest)) \in Nat
    BY <1>7, FS_CardinalityType
  <2>. QED
    BY <1>6, <2>1, <2>2, <2>3
<1>. QED
  BY <1>4, <1>6, <1>8

LEMMA ReportStepInv == CopyAssumption /\ ReportInv /\ [CopyNext]_copyVars => ReportInv'
<1>. SUFFICES ASSUME CopyAssumption, ReportInv, [CopyNext]_copyVars PROVE ReportInv'
  OBVIOUS
<1>1. CopyInv /\ CopyInv' /\ CopyTypes
  BY CopyStepInv DEF ReportInv, CopyInv
<1>. DEFINE Report == /\ totalPhysical = Cardinality(Data(dest))
                      /\ Len(dest) <= fileSize
                      /\ place \notin {"done", "failed"} => Len(dest) <= offset
                      /\ place = "copy" => chunkEnd <= fileSize
                      /\ place = "done" => Len(dest) = fileSize
                      /\ place = "stat" => dest = << >>
<1>. SUFFICES Report'
  BY <1>1 DEF ReportInv
<1>2. Report
  BY DEF ReportInv
<1>3. Data(dest)' = Data(dest')
  BY DEF Data
<1>. USE DEF world, locals
<1>4. CASE StatSource
  BY <1>1, <1>2, <1>4 DEF StatSource, CopyTypes
<1>5. CASE OpenDestination
  BY <1>1, <1>2, <1>5 DEF OpenDestination, CopyTypes
<1>6. CASE SkipHole
  BY <1>1, <1>2, <1>6, SeekGoesOn DEF SkipHole, CopyTypes
<1>7. CASE FindChunk
  <2>1. chunkEnd' \in Nat /\ chunkEnd' <= fileSize
    BY <1>1, <1>7 DEF FindChunk, CopyInv, CopyTypes, Smaller
  <2>. QED
    BY <1>2, <1>7, <2>1 DEF FindChunk
<1>8. CASE CopyBytes
  <2>. DEFINE n == BytesRead
  <2>1. /\ n \in Nat \ {0} /\ offset + n <= chunkEnd /\ offset + n <= Len(source)
        /\ dstPos = offset /\ Len(dest) <= offset /\ chunkEnd <= fileSize
    BY <1>1, <1>2, <1>8, ReadReturns DEF CopyBytes, CopyInv
  <2>2. /\ dest' = Overwritten(n) /\ offset' = offset + n /\ fileSize' = fileSize
        /\ totalPhysical' = totalPhysical + n /\ place' = "copy" /\ chunkEnd' = chunkEnd
    BY <1>8 DEF CopyBytes
  <2>. HIDE DEF n
  <2>3. Len(dest') = offset + n
    BY <1>1, <2>1, <2>2, WriteLeaves DEF CopyTypes
  <2>4. Cardinality(Data(dest')) = Cardinality(Data(dest)) + n
    BY <1>1, <2>1, <2>2, WriteCounts
  <2>. QED
    BY <1>1, <1>2, <1>3, <2>1, <2>2, <2>3, <2>4 DEF CopyTypes
<1>9. CASE Truncate
  <2>1. /\ dest' = Resized(dest, fileSize) /\ Len(dest') = fileSize /\ dest' \in Seq(Cells)
        /\ \A i \in 1..fileSize : dest'[i] = IF i <= Len(dest) THEN dest[i] ELSE Hole
    BY <1>1, <1>9, ResizeLeaves DEF Truncate, CopyTypes
  <2>2. Data(dest') = Data(dest)
    BY <1>1, <1>2, <2>1 DEF Data, CopyTypes
  <2>. QED
    BY <1>1, <1>2, <1>3, <1>9, <2>1, <2>2 DEF Truncate, CopyTypes
<1>10. CASE ChunkEnds \/ NothingToCopy \/ CopyFails \/ ChangeSource \/ UNCHANGED copyVars
  BY <1>2, <1>3, <1>10 DEF ChunkEnds, NothingToCopy, CopyFails, ChangeSource, Copying, copyVars
<1>. QED
  BY <1>4, <1>5, <1>6, <1>7, <1>8, <1>9, <1>10 DEF CopyNext, CopyStep

\* For every source, also one that changes while it is copied: the size of the copy is
\* the size that is reported, and it holds as much data as is reported.
\* (copyWithHoles.cpp:94, 98, 108-110)
THEOREM ReportsAreTrue == CopySpec => []ReportIsTrue
<1>. USE CopyAssumption
<1>1. CopyInit => ReportInv
  <2>. SUFFICES ASSUME CopyInit PROVE ReportInv
    OBVIOUS
  <2>1. CopyInv /\ dest = << >> /\ Len(dest) = 0 /\ Data(dest) = {}
    BY CopyInitInv DEF CopyInit, Data
  <2>2. Cardinality(Data(dest)) = 0
    BY <2>1, FS_EmptySet
  <2>3. place = "stat" /\ fileSize = 0 /\ offset = 0 /\ totalPhysical = 0
    BY DEF CopyInit
  <2>. QED
    BY <2>1, <2>2, <2>3 DEF ReportInv
<1>2. ReportInv => ReportIsTrue
  BY DEF ReportInv, ReportIsTrue, Data
<1>. QED
  BY <1>1, <1>2, ReportStepInv, PTL DEF CopySpec

-----------------------------------------------------------------------------
(* HttpForever: for every request, answer and size of the buffer, however  *)
(* the calls cut what they move, and whichever of them fails.              *)

\* s is what t begins with.
Begins(s, t) ==
  /\ s \in Seq(HttpBytes) /\ t \in Seq(HttpBytes)
  /\ Len(s) <= Len(t)
  /\ \A j \in 1..Len(s) : s[j] = t[j]

Piece(t, from, n) == SubSeq(t, from + 1, from + n)

LEMMA PieceOf ==
  ASSUME NEW t \in Seq(HttpBytes), NEW from \in Nat, NEW n \in Nat, from + n <= Len(t)
  PROVE  /\ Piece(t, from, n) \in Seq(HttpBytes)
         /\ Len(Piece(t, from, n)) = n
         /\ \A j \in 1..n : Piece(t, from, n)[j] = t[from + j]
<1> DEFINE p == SubSeq(t, from + 1, from + n)
<1>1. \A j \in (from + 1)..(from + n) : t[j] \in HttpBytes
  OBVIOUS
<1>2. /\ p \in Seq(HttpBytes)
      /\ Len(p) = IF from + 1 <= from + n THEN (from + n) - (from + 1) + 1 ELSE 0
      /\ \A j \in 1..((from + n) - (from + 1) + 1) : p[j] = t[(from + 1) + j - 1]
  <2> HIDE DEF p
  <2>1. from + 1 \in Int /\ from + n \in Int
    OBVIOUS
  <2> QED BY <1>1, <2>1, SubSeqProperties DEF p
<1> HIDE DEF p
<1>3. Len(p) = n
  BY <1>2
<1>4. \A j \in 1..n : p[j] = t[from + j]
  <2> SUFFICES ASSUME NEW j \in 1..n PROVE p[j] = t[from + j]
    OBVIOUS
  <2>1. j \in 1..((from + n) - (from + 1) + 1) /\ (from + 1) + j - 1 = from + j
    OBVIOUS
  <2> QED BY <1>2, <2>1
<1> QED BY <1>2, <1>3, <1>4 DEF p, Piece

\* The next piece of t makes a longer beginning of it.
LEMMA BeginsMore ==
  ASSUME NEW s, NEW t, Begins(s, t), NEW n \in Nat, Len(s) + n <= Len(t)
  PROVE  LET m == s \o Piece(t, Len(s), n) IN Begins(m, t) /\ Len(m) = Len(s) + n
<1> DEFINE p == Piece(t, Len(s), n)
           m == s \o p
<1>1. s \in Seq(HttpBytes) /\ t \in Seq(HttpBytes) /\ Len(s) \in Nat /\ Len(t) \in Nat
  BY DEF Begins
<1>2. p \in Seq(HttpBytes) /\ Len(p) = n /\ \A j \in 1..n : p[j] = t[Len(s) + j]
  BY <1>1, PieceOf
<1> HIDE DEF p
<1>3. /\ m \in Seq(HttpBytes) /\ Len(m) = Len(s) + n
      /\ \A j \in 1..(Len(s) + n) : m[j] = IF j <= Len(s) THEN s[j] ELSE p[j - Len(s)]
  BY <1>1, <1>2, ConcatProperties
<1> HIDE DEF m
<1>4. \A j \in 1..Len(m) : m[j] = t[j]
  <2> SUFFICES ASSUME NEW j \in 1..(Len(s) + n) PROVE m[j] = t[j]
    BY <1>3
  <2>1. CASE j <= Len(s)
    <3>1. j \in 1..Len(s)
      BY <2>1, <1>1
    <3> QED BY <3>1, <2>1, <1>3 DEF Begins
  <2>2. CASE ~(j <= Len(s))
    <3>1. j - Len(s) \in 1..n /\ Len(s) + (j - Len(s)) = j
      BY <2>2, <1>1
    <3> QED BY <3>1, <2>2, <1>2, <1>3
  <2> QED BY <2>1, <2>2
<1> QED BY <1>1, <1>3, <1>4 DEF Begins, m, p

\* A piece of a piece.
LEMMA PieceOfPiece ==
  ASSUME NEW t \in Seq(HttpBytes), NEW a \in Nat, NEW n \in Nat, a + n <= Len(t),
         NEW b \in Nat, NEW w \in Nat, b + w <= n
  PROVE  Piece(Piece(t, a, n), b, w) = Piece(t, a + b, w)
<1> DEFINE p == Piece(t, a, n)
<1>1. p \in Seq(HttpBytes) /\ Len(p) = n /\ \A j \in 1..n : p[j] = t[a + j]
  BY PieceOf
<1> HIDE DEF p
<1>2. /\ Piece(p, b, w) \in Seq(HttpBytes) /\ Len(Piece(p, b, w)) = w
      /\ \A j \in 1..w : Piece(p, b, w)[j] = p[b + j]
  BY <1>1, PieceOf
<1>3. /\ Piece(t, a + b, w) \in Seq(HttpBytes) /\ Len(Piece(t, a + b, w)) = w
      /\ \A j \in 1..w : Piece(t, a + b, w)[j] = t[(a + b) + j]
  <2>1. a + b \in Nat /\ (a + b) + w <= Len(t) /\ Len(t) \in Nat
    OBVIOUS
  <2> QED BY <2>1, PieceOf
<1>4. \A j \in 1..w : Piece(p, b, w)[j] = Piece(t, a + b, w)[j]
  <2> SUFFICES ASSUME NEW j \in 1..w PROVE Piece(p, b, w)[j] = Piece(t, a + b, w)[j]
    OBVIOUS
  <2>1. b + j \in 1..n /\ a + (b + j) = (a + b) + j
    OBVIOUS
  <2> QED BY <2>1, <1>1, <1>2, <1>3
<1>5. Piece(p, b, w) = Piece(t, a + b, w)
  BY <1>2, <1>3, <1>4, SeqEqual
<1> QED BY <1>5 DEF p

\* The whole is the only beginning that is as long.
LEMMA BeginsWhole ==
  ASSUME NEW s, NEW t, Begins(s, t), Len(s) = Len(t)
  PROVE  s = t
  BY SeqEqual DEF Begins

LEMMA BeginsIsPrefix ==
  ASSUME NEW s, NEW t, Begins(s, t)
  PROVE  IsPrefix(s, t)
<1>1. /\ s \in Seq(HttpBytes) /\ t \in Seq(HttpBytes) /\ Len(s) \in Nat /\ Len(s) <= Len(t)
      /\ 0 + Len(s) <= Len(s) /\ 0 + Len(s) <= Len(t)
  BY DEF Begins
<1>2. PICK z \in Nat : z = 0
  OBVIOUS
<1>3. /\ Piece(s, z, Len(s)) \in Seq(HttpBytes) /\ Len(Piece(s, z, Len(s))) = Len(s)
      /\ \A j \in 1..Len(s) : Piece(s, z, Len(s))[j] = s[z + j]
  BY <1>1, <1>2, PieceOf
<1>4. /\ Piece(t, z, Len(s)) \in Seq(HttpBytes) /\ Len(Piece(t, z, Len(s))) = Len(s)
      /\ \A j \in 1..Len(s) : Piece(t, z, Len(s))[j] = t[z + j]
  BY <1>1, <1>2, PieceOf
<1>5. Piece(s, z, Len(s)) = Piece(t, z, Len(s))
  <2>1. \A j \in 1..Len(s) : s[z + j] = t[z + j]
    BY <1>2 DEF Begins
  <2>2. \A j \in 1..Len(s) : Piece(s, z, Len(s))[j] = Piece(t, z, Len(s))[j]
    BY <1>3, <1>4, <2>1
  <2> QED BY <1>3, <1>4, <2>2, SeqEqual
<1>6. SubSeq(s, 1, Len(s)) = SubSeq(t, 1, Len(s))
  <2>1. z + 1 = 1 /\ z + Len(s) = Len(s)
    BY <1>1, <1>2
  <2> QED BY <1>5, <2>1 DEF Piece
<1> QED BY <1>1, <1>6 DEF IsPrefix

\* What was sent, received and saved, at each place of the program.
HttpInv ==
  /\ exitCode \in {-1} \cup Nat /\ (phase # "ended" => exitCode = -1)
  /\ Begins(delivered, RequestBytes) /\ Len(delivered) = sent
  /\ phase \in {"recv", "write"} => sent = Len(RequestBytes)
  /\ Begins(accumulated, response) /\ Begins(saved, response)
  /\ phase \notin {"write", "ended"} => Len(saved) = Len(accumulated)
  /\ phase = "write" =>
       /\ Len(accumulated) + Len(recvbuf) <= Len(response)
       /\ Len(recvbuf) \in Nat
       /\ recvbuf = Piece(response, Len(accumulated), Len(recvbuf))
       /\ wrote \in 0..Len(recvbuf)
       /\ Len(saved) = Len(accumulated) + wrote
  /\ exitCode = 0 => saved = response /\ Contains(saved, StatusLine)

LEMMA HttpStarts == HttpInit => HttpInv
<1> SUFFICES ASSUME HttpInit PROVE HttpInv
  OBVIOUS
<1>1. /\ exitCode = -1 /\ phase = "resolve" /\ sent = 0
      /\ delivered = << >> /\ accumulated = << >> /\ saved = << >>
      /\ response \in Seq(HttpBytes) /\ RequestBytes \in Seq(HttpBytes)
  BY HttpAssumption DEF HttpInit
<1>2. << >> \in Seq(HttpBytes) /\ Len(<< >>) = 0
  OBVIOUS
<1>3. Len(response) \in Nat /\ Len(RequestBytes) \in Nat
  BY <1>1
<1>4. \A t \in Seq(HttpBytes) : Len(t) \in Nat => Begins(<< >>, t)
  BY <1>2 DEF Begins
<1> QED BY <1>1, <1>2, <1>3, <1>4 DEF HttpInv

\* Steps that move no bytes into the files and streams, or out of them.
LEMMA PlainStepsKeep ==
  ASSUME HttpInv,
         Resolve \/ Connect \/ NotConnected \/ SendFails \/ OpenFile \/ RecvFails \/ WriteFails
  PROVE  HttpInv'
<1>1. UNCHANGED <<sent, delivered, response, accumulated, recvbuf, wrote, saved>>
  BY DEF Resolve, Connect, NotConnected, SendFails, OpenFile, RecvFails, WriteFails,
     sending, receiving
<1>2. \/ phase' = "ended" /\ exitCode' \in Nat \ {0}
      \/ /\ exitCode' = exitCode /\ phase \in {"resolve", "connect"}
         /\ phase' \in {"connect", "send"}
      \/ /\ exitCode' = exitCode /\ phase = "send" /\ phase' = "recv" /\ sent = Len(RequestBytes)
  BY DEF Resolve, Connect, NotConnected, SendFails, OpenFile, RecvFails, WriteFails,
     Proceeds, Returns
<1>3. CASE phase' = "ended" /\ exitCode' \in Nat \ {0}
  BY <1>1, <1>3 DEF HttpInv, Begins
<1>4. CASE /\ exitCode' = exitCode /\ phase \in {"resolve", "connect"}
           /\ phase' \in {"connect", "send"}
  BY <1>1, <1>4 DEF HttpInv, Begins
<1>5. CASE exitCode' = exitCode /\ phase = "send" /\ phase' = "recv" /\ sent = Len(RequestBytes)
  BY <1>1, <1>5 DEF HttpInv, Begins
<1> QED BY <1>2, <1>3, <1>4, <1>5

LEMMA SendKeeps == HttpInv /\ Send => HttpInv'
<1> SUFFICES ASSUME HttpInv, Send PROVE HttpInv'
  OBVIOUS
<1>1. /\ UNCHANGED <<exitCode, response, accumulated, recvbuf, wrote, saved>>
      /\ phase = "send" /\ phase' = "send"
  BY DEF Send, Proceeds, receiving
<1>2. PICK j \in 1..(Len(RequestBytes) - sent) :
        /\ delivered' = delivered \o SubSeq(RequestBytes, sent + 1, sent + j)
        /\ sent' = sent + j
  BY DEF Send
<1>3. Begins(delivered, RequestBytes) /\ Len(delivered) = sent
  BY DEF HttpInv
<1>4. j \in Nat /\ Len(delivered) + j <= Len(RequestBytes)
  BY <1>3, HttpAssumption DEF Begins
<1>5. delivered' = delivered \o Piece(RequestBytes, Len(delivered), j)
  BY <1>2, <1>3 DEF Piece
<1>6. Begins(delivered', RequestBytes) /\ Len(delivered') = sent'
  BY <1>2, <1>3, <1>4, <1>5, BeginsMore
<1> QED BY <1>1, <1>6 DEF HttpInv, Begins

LEMMA RecvKeeps == HttpInv /\ Recv => HttpInv'
<1> SUFFICES ASSUME HttpInv, Recv PROVE HttpInv'
  OBVIOUS
<1>1. /\ UNCHANGED <<exitCode, sent, delivered, response, accumulated, saved>>
      /\ phase = "recv" /\ phase' = "write" /\ wrote' = 0
  BY DEF Recv, Proceeds, sending
<1>2. PICK j \in 1..RecvBuffer :
        /\ Len(accumulated) + j <= Len(response)
        /\ recvbuf' = SubSeq(response, Len(accumulated) + 1, Len(accumulated) + j)
  BY DEF Recv
<1>3. /\ response \in Seq(HttpBytes) /\ Len(accumulated) \in Nat /\ j \in Nat
      /\ Len(saved) = Len(accumulated)
  BY <1>1, HttpAssumption DEF HttpInv, Begins
<1>4. Len(recvbuf') = j /\ recvbuf' = Piece(response, Len(accumulated), j)
  BY <1>2, <1>3, PieceOf DEF Piece
<1>5. /\ Len(accumulated') + Len(recvbuf') <= Len(response')
      /\ Len(recvbuf') \in Nat
      /\ recvbuf' = Piece(response', Len(accumulated'), Len(recvbuf'))
      /\ wrote' \in 0..Len(recvbuf')
      /\ Len(saved') = Len(accumulated') + wrote'
  BY <1>1, <1>2, <1>3, <1>4
<1>6. Begins(delivered, RequestBytes)' /\ Begins(accumulated, response)' /\ Begins(saved, response)'
  BY <1>1 DEF HttpInv, Begins
<1> QED BY <1>1, <1>5, <1>6 DEF HttpInv, Piece

LEMMA WriteKeeps == HttpInv /\ Write => HttpInv'
<1> SUFFICES ASSUME HttpInv, Write PROVE HttpInv'
  OBVIOUS
<1>1. /\ UNCHANGED <<exitCode, sent, delivered, response, accumulated, recvbuf>>
      /\ phase = "write" /\ phase' = "write"
  BY DEF Write, Proceeds, sending
<1>2. PICK w \in 1..(Len(recvbuf) - wrote) :
        /\ saved' = saved \o SubSeq(recvbuf, wrote + 1, wrote + w)
        /\ wrote' = wrote + w
  BY DEF Write
<1> DEFINE a == Len(accumulated)
           b == Len(recvbuf)
<1>3. /\ response \in Seq(HttpBytes) /\ a \in Nat /\ b \in Nat /\ a + b <= Len(response)
      /\ recvbuf = Piece(response, a, b) /\ wrote \in 0..b /\ Len(saved) = a + wrote
      /\ Begins(saved, response) /\ Len(response) \in Nat
  BY <1>1 DEF HttpInv, Begins
<1>4. w \in Nat /\ wrote \in Nat /\ wrote + w <= b
  BY <1>2, <1>3
<1> HIDE DEF a, b
<1>5. SubSeq(recvbuf, wrote + 1, wrote + w) = Piece(response, a + wrote, w)
  BY <1>3, <1>4, PieceOfPiece DEF Piece
<1>6. saved' = saved \o Piece(response, Len(saved), w) /\ Len(saved) + w <= Len(response)
  <2>1. Len(saved) + w <= Len(response)
    BY <1>3, <1>4
  <2>2. SubSeq(recvbuf, wrote + 1, wrote + w) = Piece(response, Len(saved), w)
    BY <1>3, <1>5
  <2> QED BY <1>2, <2>1, <2>2
<1>7. Begins(saved', response) /\ Len(saved') = Len(saved) + w
  BY <1>3, <1>4, <1>6, BeginsMore
<1>8. /\ Len(accumulated') + Len(recvbuf') <= Len(response')
      /\ Len(recvbuf') \in Nat
      /\ recvbuf' = Piece(response', Len(accumulated'), Len(recvbuf'))
      /\ wrote' \in 0..Len(recvbuf')
      /\ Len(saved') = Len(accumulated') + wrote'
  BY <1>1, <1>2, <1>3, <1>4, <1>7 DEF a, b
<1>9. Begins(delivered, RequestBytes)' /\ Begins(accumulated, response)' /\ Begins(saved, response)'
  BY <1>1, <1>7 DEF HttpInv, Begins
<1> QED BY <1>1, <1>8, <1>9 DEF HttpInv, Piece

LEMMA AccumulateKeeps == HttpInv /\ Accumulate => HttpInv'
<1> SUFFICES ASSUME HttpInv, Accumulate PROVE HttpInv'
  OBVIOUS
<1>1. /\ UNCHANGED <<exitCode, sent, delivered, response, recvbuf, wrote, saved>>
      /\ phase = "write" /\ phase' = "recv" /\ wrote = Len(recvbuf)
      /\ accumulated' = accumulated \o recvbuf
  BY DEF Accumulate, Proceeds, sending
<1>2. /\ recvbuf = Piece(response, Len(accumulated), Len(recvbuf))
      /\ Len(recvbuf) \in Nat /\ Len(accumulated) + Len(recvbuf) <= Len(response)
      /\ Begins(accumulated, response) /\ Len(saved) = Len(accumulated) + Len(recvbuf)
  BY <1>1 DEF HttpInv
<1>3. Begins(accumulated', response) /\ Len(accumulated') = Len(accumulated) + Len(recvbuf)
  BY <1>1, <1>2, BeginsMore
<1>4. Begins(delivered, RequestBytes)' /\ Begins(accumulated, response)' /\ Begins(saved, response)'
  BY <1>1, <1>3 DEF HttpInv, Begins
<1> QED BY <1>1, <1>2, <1>3, <1>4 DEF HttpInv

LEMMA AnswerEndsKeeps == HttpInv /\ AnswerEnds => HttpInv'
<1> SUFFICES ASSUME HttpInv, AnswerEnds PROVE HttpInv'
  OBVIOUS
<1>1. /\ UNCHANGED <<sent, delivered, response, accumulated, recvbuf, wrote, saved>>
      /\ phase = "recv" /\ phase' = "ended" /\ Len(accumulated) = Len(response)
      /\ exitCode' = IF Contains(accumulated, StatusLine) THEN 0 ELSE 6
  BY DEF AnswerEnds, Returns, sending, receiving
<1>2. accumulated = response /\ saved = response
  BY <1>1, BeginsWhole DEF HttpInv
<1>3. exitCode' \in Nat /\ (exitCode' = 0 => Contains(saved', StatusLine))
  BY <1>1, <1>2
<1>4. Begins(delivered, RequestBytes)' /\ Begins(accumulated, response)' /\ Begins(saved, response)'
  BY <1>1 DEF HttpInv, Begins
<1> QED BY <1>1, <1>2, <1>3, <1>4 DEF HttpInv

LEMMA HttpStep == HttpInv /\ [HttpNext]_httpVars => HttpInv'
<1> SUFFICES ASSUME HttpInv, [HttpNext]_httpVars PROVE HttpInv'
  OBVIOUS
<1>1. CASE UNCHANGED httpVars
  <2>1. Begins(delivered, RequestBytes)' /\ Begins(accumulated, response)' /\ Begins(saved, response)'
    BY <1>1 DEF httpVars, sending, receiving, HttpInv, Begins
  <2> QED BY <1>1, <2>1 DEF httpVars, sending, receiving, HttpInv
<1>2. CASE HttpNext
  BY <1>2, PlainStepsKeep, SendKeeps, RecvKeeps, WriteKeeps, AccumulateKeeps, AnswerEndsKeeps
  DEF HttpNext
<1> QED BY <1>1, <1>2

\* The inductive invariant of the client holds, for every request and answer, however
\* the calls cut them, and whatever fails.  (httpforever.cpp:56-65, 76-100)
THEOREM HttpInvariant == HttpSpec => []HttpInv
<1>. QED
  BY HttpStarts, HttpStep, PTL DEF HttpSpec

\* The server gets the request once, whole and in order, before its answer is read; the
\* file is always a beginning of the answer, and all of it when the program says so.
\* (httpforever.cpp:56-65, 76-100, 105-106)
THEOREM SavesWhatWasSent == HttpSpec => []SavedAsSent
<1>1. HttpInv => SavedAsSent
  <2> SUFFICES ASSUME HttpInv PROVE SavedAsSent
    OBVIOUS
  <2>1. IsPrefix(delivered, RequestBytes) /\ IsPrefix(saved, response)
    BY BeginsIsPrefix DEF HttpInv
  <2>2. phase \in {"recv", "write"} => delivered = RequestBytes
    BY BeginsWhole DEF HttpInv
  <2> QED BY <2>1, <2>2 DEF HttpInv, SavedAsSent
<1> QED BY <1>1, HttpInvariant, PTL

-----------------------------------------------------------------------------
(* PrimeService: for every sieve, whatever is typed and whoever is killed. *)

Talking == {"prompt", "send", "receive", "print", "read", "reply", "finish"}

\* Which ends a process holds follows from where it is.  (main.cpp:41-48, 64-66, 98-100)
Holds ==
  \A p \in Processes :
    open[p] = IF doing[p] = "close" THEN Ends ELSE IF doing[p] \in Talking THEN Own(p) ELSE {}

Types ==
  /\ doing \in [Processes -> Doings]
  /\ causeOf \in [Processes -> {"none", "exit", "signal", "sigpipe"}]
  /\ open \in [Processes -> SUBSET Ends]
  /\ \E S : pipe \in [{"request", "reply"} -> Seq(S)]
  /\ doing["parent"] \in {"start", "close", "prompt", "send", "receive", "print", "finish",
                          "wait", "dead"}
  /\ doing["child"] \in {"unborn", "close", "read", "reply", "finish", "exit", "dead", "reaped"}
  /\ doing["parent"] = "start" => doing["child"] = "unborn"
  /\ doing["child"] = "unborn" => doing["parent"] \in {"start", "dead"}
  /\ \A p \in Processes : causeOf[p] = "none" <=> doing[p] \notin {"dead", "reaped"}

\* Between two requests of the parent nothing is on its way; after a request there is
\* either the request, or the child at work on it, or its answer.  (main.cpp:52-62, 76-96)
Alternate ==
  /\ doing["parent"] \in {"start", "close", "prompt", "send", "print"} =>
       pipe["request"] = << >> /\ pipe["reply"] = << >> /\ doing["child"] # "reply"
  /\ doing["parent"] = "receive" =>
       /\ Len(pipe["request"]) <= 1 /\ Len(pipe["reply"]) <= 1
       /\ pipe["request"] # << >> => doing["child"] # "reply"
       /\ pipe["reply"] # << >> => pipe["request"] = << >> /\ doing["child"] # "reply"

\* The parent has left the conversation, other than by a signal.
ParentLeft == doing["parent"] \in {"finish", "wait"} \/ causeOf["parent"] \in {"exit", "sigpipe"}

\* The parent leaves no request behind that the child could still answer, and the child
\* leaves only after the parent.
Farewell ==
  /\ ParentLeft => /\ doing["child"] # "reply"
                   /\ doing["child"] \in {"close", "read"} => pipe["request"] = << >>
  /\ doing["child"] \in {"finish", "exit"} \/ causeOf["child"] = "exit" =>
       doing["parent"] \in {"wait", "dead"}

ServiceInv == Types /\ Holds /\ Alternate /\ Farewell /\ BrokenBySignalOnly
-----------------------------------------------------------------------------
LEMMA ServiceInitInv == ServiceInit => ServiceInv
<1>. SUFFICES ASSUME ServiceInit PROVE ServiceInv
  OBVIOUS
<1>. USE DEF ServiceInit, Processes
<1>1. Types
  BY DEF Types, Doings
<1>2. Holds
  BY DEF Holds, Talking
<1>3. Alternate /\ Farewell /\ BrokenBySignalOnly
  BY DEF Alternate, Farewell, ParentLeft, BrokenBySignalOnly
<1>. QED
  BY <1>1, <1>2, <1>3 DEF ServiceInv

\* A process that ends holds no pipe and waits for nothing.
LEMMA DeathKeeps ==
  ASSUME ServiceInv, NEW p \in Processes, NEW why \in {"exit", "signal", "sigpipe"},
         Lives(p), Dies(p, why), UNCHANGED pipe,
         why = "exit" => p = "child" /\ doing["child"] = "exit",
         why = "sigpipe" => \A q \in Processes : q # p => causeOf[q] = "signal"
  PROVE  ServiceInv'
<1>. USE DEF Processes, Types
<1>1. /\ doing' = [doing EXCEPT ![p] = "dead"] /\ causeOf' = [causeOf EXCEPT ![p] = why]
      /\ open' = [open EXCEPT ![p] = {}]
      /\ doing[p] \notin {"unborn", "dead", "reaped"} /\ causeOf[p] = "none"
  BY DEF Dies, Lives, ServiceInv
<1>2. Types'
  BY <1>1 DEF ServiceInv, Doings
<1>3. Holds'
  BY <1>1 DEF ServiceInv, Holds, Talking
<1>4. Alternate'
  BY <1>1 DEF ServiceInv, Alternate
<1>5. Farewell'
  <2>1. CASE p = "parent"
    BY <1>1, <2>1 DEF ServiceInv, Farewell, ParentLeft, Alternate, BrokenBySignalOnly
  <2>2. CASE p = "child"
    BY <1>1, <2>2 DEF ServiceInv, Farewell, ParentLeft
  <2>. QED
    BY <2>1, <2>2
<1>6. BrokenBySignalOnly'
  BY <1>1 DEF ServiceInv, BrokenBySignalOnly
<1>. QED
  BY <1>2, <1>3, <1>4, <1>5, <1>6 DEF ServiceInv

-----------------------------------------------------------------------------
\* Both processes close the ends that are not theirs, and their own at the end.
LEMMA CloseKeeps ==
  ASSUME ServiceInv, NEW p \in Processes, CloseOthers(p) \/ CloseOwn(p)
  PROVE  ServiceInv'
<1>. USE DEF Processes, Types, CloseOthers, CloseOwn, Goes
<1>1. Own(p) \subseteq Ends
  BY DEF Own, Ends
<1>2. Types' /\ Holds'
  <2>1. CASE CloseOthers(p)
    BY <1>1, <2>1 DEF ServiceInv, Holds, Talking, Doings
  <2>2. CASE CloseOwn(p)
    BY <2>2 DEF ServiceInv, Holds, Talking, Doings
  <2>. QED
    BY <2>1, <2>2
<1>3. Alternate'
  BY DEF ServiceInv, Alternate, conversation
<1>4. Farewell'
  BY DEF ServiceInv, Farewell, ParentLeft, Alternate
<1>5. BrokenBySignalOnly'
  BY DEF ServiceInv, BrokenBySignalOnly
<1>. QED
  BY <1>2, <1>3, <1>4, <1>5 DEF ServiceInv

\* A step in which a process goes on, without closing anything.
LEMMA GoesOn ==
  ASSUME ServiceInv, NEW p \in Processes, NEW to \in Talking,
         doing' = [doing EXCEPT ![p] = to], doing[p] \in Talking,
         UNCHANGED <<causeOf, open>>,
         NEW S, pipe' \in [{"request", "reply"} -> Seq(S)],
         p = "parent" => to \in {"prompt", "send", "receive", "print", "finish"},
         p = "child" => to \in {"read", "reply", "finish"}
  PROVE  Types' /\ Holds' /\ BrokenBySignalOnly'
<1>. USE DEF Processes, Types, Talking, Doings
<1>1. Types' /\ Holds'
  BY DEF ServiceInv, Holds
<1>2. BrokenBySignalOnly'
  BY DEF ServiceInv, BrokenBySignalOnly
<1>. QED
  BY <1>1, <1>2

\* What a read leaves in a pipe.
LEMMA TailOf ==
  ASSUME NEW S, NEW s \in Seq(S), s # << >>
  PROVE  Tail(s) \in Seq(S) /\ Len(Tail(s)) = Len(s) - 1
         /\ (Len(s) <= 1 => Tail(s) = << >>)
  BY EmptySeq, HeadTailProperties

\* What a write leaves in a pipe.
LEMMA PipeWritten ==
  ASSUME NEW S, pipe \in [{"request", "reply"} -> Seq(S)], NEW q \in {"request", "reply"},
         NEW r, pipe' = [pipe EXCEPT ![q] = Append(@, r)]
  PROVE  /\ pipe' \in [{"request", "reply"} -> Seq(S \cup {r})]
         /\ Len(pipe'[q]) = Len(pipe[q]) + 1
         /\ \A o \in {"request", "reply"} : o # q => pipe'[o] = pipe[o]
<1>1. pipe \in [{"request", "reply"} -> Seq(S \cup {r})]
  BY SeqMonotonic
<1>. QED
  BY <1>1, AppendProperties

LEMMA ReadRequestKeeps == ASSUME ServiceInv, ReadRequest PROVE ServiceInv'
<1>. USE DEF Processes
<1>1. doing["child"] = "read" /\ UNCHANGED <<causeOf, open>> /\ Types
  BY DEF ReadRequest, Reads, Goes, ServiceInv
<1>. PICK S : pipe \in [{"request", "reply"} -> Seq(S)]
  BY <1>1 DEF Types
<1>2. CASE /\ doing' = [doing EXCEPT !["child"] = "reply"] /\ pipe["request"] # << >>
           /\ pipe' = [pipe EXCEPT !["request"] = Tail(@)]
  <2>1. pipe' \in [{"request", "reply"} -> Seq(S)]
    BY <1>2, TailOf
  <2>2. Types' /\ Holds' /\ BrokenBySignalOnly'
    BY <1>1, <1>2, <2>1, GoesOn DEF Talking, Types
  <2>3. ~ParentLeft /\ doing["parent"] \notin {"start", "close", "prompt", "send", "print"}
    BY <1>1, <1>2 DEF ServiceInv, Farewell, Alternate
  <2>4. Alternate'
    BY <1>1, <1>2, <2>3, TailOf DEF ServiceInv, Types, Alternate
  <2>5. Farewell'
    BY <1>1, <1>2, <2>3 DEF ServiceInv, Types, Farewell, ParentLeft
  <2>. QED
    BY <2>2, <2>4, <2>5 DEF ServiceInv
<1>3. CASE /\ doing' = [doing EXCEPT !["child"] = "finish"] /\ pipe["request"] = << >>
           /\ ~Held(<<"request", "write">>) /\ UNCHANGED pipe
  <2>1. Types' /\ Holds' /\ BrokenBySignalOnly'
    BY <1>1, <1>3, GoesOn DEF Talking, Types
  <2>2. doing["parent"] \in {"wait", "dead"}
    <3>1. <<"request", "write">> \notin open["parent"]
      BY <1>3 DEF Held
    <3>2. doing["parent"] # "close" /\ doing["parent"] \notin Talking
      BY <3>1 DEF ServiceInv, Holds, Own, Ends
    <3>. QED
      BY <1>1, <3>2 DEF ServiceInv, Types, Talking, Alternate
  <2>3. Alternate' /\ Farewell'
    BY <1>1, <1>3, <2>2 DEF ServiceInv, Types, Alternate, Farewell, ParentLeft
  <2>. QED
    BY <2>1, <2>3 DEF ServiceInv
<1>. QED
  BY <1>2, <1>3 DEF ReadRequest, Reads, Goes

LEMMA ReplyKeeps == ASSUME ServiceInv, Reply PROVE ServiceInv'
<1>. USE DEF Processes
<1>. DEFINE r == Result(number["child"])
<1>1. doing["child"] = "reply" /\ Types
  BY DEF Reply, Writes, Goes, ServiceInv
<1>. PICK S : pipe \in [{"request", "reply"} -> Seq(S)]
  BY <1>1 DEF Types
<1>2. CASE /\ doing' = [doing EXCEPT !["child"] = "read"] /\ UNCHANGED <<causeOf, open>>
           /\ pipe' = [pipe EXCEPT !["reply"] = Append(@, r)]
  <2>1. /\ pipe' \in [{"request", "reply"} -> Seq(S \cup {r})]
        /\ Len(pipe'["reply"]) = Len(pipe["reply"]) + 1 /\ pipe'["request"] = pipe["request"]
    <3>. HIDE DEF r
    <3>. QED
      BY <1>2, PipeWritten
  <2>2. Types' /\ Holds' /\ BrokenBySignalOnly'
    BY <1>1, <1>2, <2>1, GoesOn DEF Talking, Types
  <2>3. ~ParentLeft /\ doing["parent"] \notin {"start", "close", "prompt", "send", "print"}
    BY <1>1 DEF ServiceInv, Farewell, Alternate
  <2>4. pipe["request"] = << >> \/ doing["parent"] # "receive"
    BY <1>1 DEF ServiceInv, Alternate
  <2>5. pipe["reply"] = << >> \/ doing["parent"] # "receive"
    BY <1>1 DEF ServiceInv, Alternate
  <2>6. Alternate'
    BY <1>1, <1>2, <2>1, <2>3, <2>4, <2>5 DEF Types, Alternate
  <2>7. Farewell'
    BY <1>1, <1>2, <2>3 DEF ServiceInv, Types, Farewell, ParentLeft
  <2>. QED
    BY <2>2, <2>6, <2>7 DEF ServiceInv
<1>3. CASE ~Held(<<"reply", "read">>) /\ Dies("child", "sigpipe") /\ UNCHANGED pipe
  <2>1. <<"reply", "read">> \notin open["parent"]
    BY <1>3 DEF Held
  <2>2. doing["parent"] # "close" /\ doing["parent"] \notin Talking
    BY <2>1 DEF ServiceInv, Holds, Own, Ends
  <2>3. doing["parent"] = "dead" /\ causeOf["parent"] = "signal"
    BY <1>1, <2>2 DEF ServiceInv, Types, Talking, Alternate, Farewell, ParentLeft
  <2>4. \A q \in Processes : q # "child" => causeOf[q] = "signal"
    BY <2>3
  <2>. QED
    BY <1>1, <1>3, <2>4, DeathKeeps DEF Lives
<1>. QED
  BY <1>2, <1>3 DEF Reply, Writes, Goes

-----------------------------------------------------------------------------
LEMMA ForkKeeps == ASSUME ServiceInv, Fork PROVE ServiceInv'
<1>. USE DEF Processes, Types, Fork
<1>1. Types' /\ Holds'
  BY DEF ServiceInv, Holds, Talking, Doings, conversation
<1>2. Alternate'
  BY DEF ServiceInv, Alternate, conversation
<1>3. Farewell' /\ BrokenBySignalOnly'
  BY DEF ServiceInv, Farewell, ParentLeft, BrokenBySignalOnly
<1>. QED
  BY <1>1, <1>2, <1>3 DEF ServiceInv

LEMMA AskKeeps == ASSUME ServiceInv, TypeNumber \/ PrintAnswer PROVE ServiceInv'
<1>. USE DEF Processes
<1>1. PICK from \in {"prompt", "print"}, to \in {"prompt", "send", "finish"} :
        /\ doing["parent"] = from /\ doing' = [doing EXCEPT !["parent"] = to]
        /\ UNCHANGED <<causeOf, open, pipe>>
  BY DEF TypeNumber, PrintAnswer, Goes, conversation
<1>. PICK S : pipe \in [{"request", "reply"} -> Seq(S)]
  BY DEF ServiceInv, Types
<1>2. Types' /\ Holds' /\ BrokenBySignalOnly'
  BY <1>1, GoesOn DEF Talking
<1>3. Alternate'
  BY <1>1 DEF ServiceInv, Types, Alternate
<1>4. Farewell'
  BY <1>1 DEF ServiceInv, Types, Alternate, Farewell, ParentLeft
<1>. QED
  BY <1>2, <1>3, <1>4 DEF ServiceInv

LEMMA SendRequestKeeps == ASSUME ServiceInv, SendRequest PROVE ServiceInv'
<1>. USE DEF Processes
<1>. DEFINE n == number["parent"]
<1>1. doing["parent"] = "send" /\ Types
  BY DEF SendRequest, Writes, Goes, ServiceInv
<1>. PICK S : pipe \in [{"request", "reply"} -> Seq(S)]
  BY <1>1 DEF Types
<1>2. CASE /\ doing' = [doing EXCEPT !["parent"] = "receive"] /\ UNCHANGED <<causeOf, open>>
           /\ pipe' = [pipe EXCEPT !["request"] = Append(@, n)]
  <2>1. /\ pipe' \in [{"request", "reply"} -> Seq(S \cup {n})]
        /\ Len(pipe'["request"]) = Len(pipe["request"]) + 1 /\ pipe'["reply"] = pipe["reply"]
    <3>. HIDE DEF n
    <3>. QED
      BY <1>2, PipeWritten
  <2>2. Types' /\ Holds' /\ BrokenBySignalOnly'
    BY <1>1, <1>2, <2>1, GoesOn DEF Talking
  <2>3. pipe["request"] = << >> /\ pipe["reply"] = << >> /\ doing["child"] # "reply"
    BY <1>1 DEF ServiceInv, Alternate
  <2>4. Alternate'
    BY <1>1, <1>2, <2>1, <2>3 DEF Types, Alternate
  <2>5. Farewell'
    BY <1>1, <1>2 DEF ServiceInv, Types, Farewell, ParentLeft
  <2>. QED
    BY <2>2, <2>4, <2>5 DEF ServiceInv
<1>3. CASE ~Held(<<"request", "read">>) /\ Dies("parent", "sigpipe") /\ UNCHANGED pipe
  <2>1. <<"request", "read">> \notin open["child"]
    BY <1>3 DEF Held
  <2>2. doing["child"] # "close" /\ doing["child"] \notin Talking
    BY <2>1 DEF ServiceInv, Holds, Own, Ends
  <2>3. doing["child"] \in {"unborn", "dead", "reaped"}
    BY <1>1, <2>2 DEF ServiceInv, Types, Talking, Farewell
  <2>4. doing["child"] # "unborn"
    BY <1>1 DEF ServiceInv, Types
  <2>5. causeOf["child"] = "signal"
    BY <1>1, <2>3, <2>4 DEF ServiceInv, Types, Farewell, BrokenBySignalOnly
  <2>. QED
    BY <1>1, <1>3, <2>5, DeathKeeps DEF Lives
<1>. QED
  BY <1>2, <1>3 DEF SendRequest, Writes, Goes

LEMMA ReceiveKeeps == ASSUME ServiceInv, Receive PROVE ServiceInv'
<1>. USE DEF Processes
<1>1. doing["parent"] = "receive" /\ UNCHANGED <<causeOf, open>> /\ Types
  BY DEF Receive, Reads, Goes, ServiceInv
<1>. PICK S : pipe \in [{"request", "reply"} -> Seq(S)]
  BY <1>1 DEF Types
<1>2. CASE /\ doing' = [doing EXCEPT !["parent"] = "print"] /\ pipe["reply"] # << >>
           /\ pipe' = [pipe EXCEPT !["reply"] = Tail(@)]
  <2>1. Len(pipe["reply"]) <= 1 /\ pipe["request"] = << >> /\ doing["child"] # "reply"
    BY <1>1, <1>2 DEF ServiceInv, Alternate
  <2>2. pipe' \in [{"request", "reply"} -> Seq(S)] /\ pipe'["reply"] = << >>
    BY <1>2, <2>1, TailOf
  <2>3. Types' /\ Holds' /\ BrokenBySignalOnly'
    BY <1>1, <1>2, <2>2, GoesOn DEF Talking
  <2>4. Alternate'
    BY <1>1, <1>2, <2>1, <2>2 DEF Types, Alternate
  <2>5. Farewell'
    BY <1>1, <1>2 DEF ServiceInv, Types, Farewell, ParentLeft
  <2>. QED
    BY <2>3, <2>4, <2>5 DEF ServiceInv
<1>3. CASE /\ doing' = [doing EXCEPT !["parent"] = "finish"] /\ UNCHANGED pipe
           /\ ~Held(<<"reply", "write">>)
  <2>1. Types' /\ Holds' /\ BrokenBySignalOnly'
    BY <1>1, <1>3, GoesOn DEF Talking
  <2>2. doing["child"] # "close" /\ doing["child"] \notin Talking
    <3>1. <<"reply", "write">> \notin open["child"]
      BY <1>3 DEF Held
    <3>. QED
      BY <3>1 DEF ServiceInv, Holds, Own, Ends
  <2>3. Alternate' /\ Farewell'
    BY <1>1, <1>3, <2>2 DEF ServiceInv, Types, Talking, Alternate, Farewell, ParentLeft
  <2>. QED
    BY <2>1, <2>3 DEF ServiceInv
<1>. QED
  BY <1>2, <1>3 DEF Receive, Reads, Goes

LEMMA WaitKeeps == ASSUME ServiceInv, Wait PROVE ServiceInv'
<1>. USE DEF Processes, Types, Wait
<1>1. Types' /\ Holds'
  BY DEF ServiceInv, Holds, Talking, Doings
<1>2. Alternate' /\ Farewell'
  BY DEF ServiceInv, Alternate, Farewell, ParentLeft
<1>3. BrokenBySignalOnly'
  BY DEF ServiceInv, BrokenBySignalOnly
<1>. QED
  BY <1>1, <1>2, <1>3 DEF ServiceInv

-----------------------------------------------------------------------------
LEMMA ServiceStep == ServiceInv /\ [ServiceNext]_serviceVars => ServiceInv'
<1>. SUFFICES ASSUME ServiceInv, [ServiceNext]_serviceVars PROVE ServiceInv'
  OBVIOUS
<1>1. CASE \E p \in Processes : CloseOthers(p) \/ CloseOwn(p)
  BY <1>1, CloseKeeps
<1>2. CASE ReadRequest
  BY <1>2, ReadRequestKeeps
<1>3. CASE Reply
  BY <1>3, ReplyKeeps
<1>4. CASE ChildExits
  BY <1>4, DeathKeeps DEF ChildExits, Lives, Processes, conversation
<1>5. CASE Fork
  BY <1>5, ForkKeeps
<1>6. CASE SendRequest
  BY <1>6, SendRequestKeeps
<1>7. CASE Receive
  BY <1>7, ReceiveKeeps
<1>8. CASE TypeNumber \/ PrintAnswer
  BY <1>8, AskKeeps
<1>9. CASE Wait
  BY <1>9, WaitKeeps
<1>10. CASE \E p \in Processes : Signalled(p)
  <2>. PICK p \in Processes : Signalled(p)
    BY <1>10
  <2>. QED
    BY DeathKeeps DEF Signalled
<1>11. CASE UNCHANGED serviceVars
  BY <1>11 DEF serviceVars, ServiceInv, Types, Holds, Alternate, Farewell, ParentLeft,
               BrokenBySignalOnly
<1>. QED
  BY <1>1, <1>2, <1>3, <1>4, <1>5, <1>6, <1>7, <1>8, <1>9, <1>10, <1>11
     DEF ServiceNext, ChildStep, ParentStep, Processes

\* For any sieve, whatever the user types and whatever signals come: which process holds
\* which ends, what is in the pipes, and who has left before whom.  (main.cpp:41-102)
THEOREM ServiceInvariant == ServiceSpec => []ServiceInv
<1>. QED
  BY ServiceInitInv, ServiceStep, PTL DEF ServiceSpec

\* A process is ended by SIGPIPE only if a signal has ended the other one.
\* (main.cpp:60, 82)
THEOREM NobodyWritesToNobody == ServiceSpec => []BrokenBySignalOnly
<1>1. ServiceInv => BrokenBySignalOnly
  BY DEF ServiceInv
<1>. QED
  BY <1>1, ServiceInvariant, PTL

-----------------------------------------------------------------------------
\* The sieve.
Marks == [0..SieveSize -> BOOLEAN]
AllMarked == [j \in 0..SieveSize |-> j >= 2]
Candidate(isPrime, i) == IF MustCross(isPrime, i) THEN CrossOut(isPrime, i) ELSE isPrime
candidates == [i \in 1..SieveSize |-> i + 1]

SieveEquation(h) ==
  h = [T \in SUBSET DOMAIN candidates |->
         IF T = {} THEN AllMarked ELSE Candidate(h[T \ {Max(T)}], candidates[Max(T)])]

LEMMA SieveUnfolds == Sieve = (CHOOSE h : SieveEquation(h))[DOMAIN candidates]
  BY DEF Sieve, FoldLeft, MapThenFoldSet, SieveEquation, Candidate, AllMarked, candidates

CrossStep == [p \in (1..SieveSize) \X Marks |-> Candidate(p[2], p[1] + 1)]

LEMMA CrossStepType == AllMarked \in Marks /\ CrossStep \in [(1..SieveSize) \X Marks -> Marks]
  BY DEF AllMarked, CrossStep, Marks, Candidate, CrossOut

LEMMA SieveIsFold ==
  \E g : g[SieveSize] = Sieve /\ Advances(g, SieveSize, Marks, AllMarked, CrossStep)
<1>. DEFINE S == 1..SieveSize
            Follow(h) == Follows(h, S, Marks, AllMarked, CrossStep, Lasts(SieveSize))
<1>. USE ServiceAssumption
<1>1. PICK all \in [SUBSET S -> Marks] :
        Follow(all) /\ \E g : g[SieveSize] = all[S]
                              /\ Advances(g, SieveSize, Marks, AllMarked, CrossStep)
  BY CrossStepType, FoldsInOrder
<1>2. /\ DOMAIN candidates = S /\ \A i \in S : candidates[i] = i + 1
      /\ \A T \in SUBSET S : Lasts(SieveSize)[T] = Max(T) /\ (T # {} => Max(T) \in T)
  BY LargestExists DEF candidates, Lasts, Picks
<1>3. ASSUME NEW h, NEW T \in SUBSET S, T # {}, h[T \ {Max(T)}] \in Marks
      PROVE  CrossStep[<<Max(T), h[T \ {Max(T)}]>>]
               = Candidate(h[T \ {Max(T)}], candidates[Max(T)])
  BY <1>2, <1>3 DEF CrossStep
<1>4. SieveEquation(all)
  <2>1. \A T \in SUBSET S : T # {} => all[T] = Candidate(all[T \ {Max(T)}], candidates[Max(T)])
    <3>. SUFFICES ASSUME NEW T \in SUBSET S, T # {}
         PROVE  all[T] = Candidate(all[T \ {Max(T)}], candidates[Max(T)])
      OBVIOUS
    <3>1. all[T \ {Max(T)}] \in Marks
      BY <1>1
    <3>2. all[T] = CrossStep[<<Max(T), all[T \ {Max(T)}]>>]
      BY <1>1, <1>2, <3>1 DEF Follows
    <3>. QED
      BY <1>3, <3>1, <3>2
  <2>2. all[{}] = AllMarked
    BY <1>1 DEF Follows
  <2>. QED
    BY <1>1, <1>2, <2>1, <2>2 DEF SieveEquation
<1>. DEFINE h == CHOOSE h : SieveEquation(h)
<1>5. SieveEquation(h)
  BY <1>4
<1>. HIDE DEF h
<1>6. Follow(h)
  <2>1. h[{}] = AllMarked
    BY <1>2, <1>5 DEF SieveEquation
  <2>2. ASSUME NEW T \in SUBSET S, T # {}, h[T \ {Max(T)}] \in Marks
        PROVE  h[T] = CrossStep[<<Max(T), h[T \ {Max(T)}]>>]
    <3>1. h[T] = Candidate(h[T \ {Max(T)}], candidates[Max(T)])
      BY <1>2, <1>5, <2>2 DEF SieveEquation
    <3>. QED
      BY <1>3, <2>2, <3>1
  <2>. QED
    BY <1>2, <2>1, <2>2 DEF Follows
<1>7. Sieve = h[S]
  BY <1>2, SieveUnfolds DEF h
<1>8. h[S] = all[S]
  BY <1>1, <1>6, FoldsInOrderAgree DEF Folded
<1>. QED
  BY <1>1, <1>7, <1>8

-----------------------------------------------------------------------------
\* Divisors.
LEMMA Divides ==
  ASSUME NEW a \in Nat, NEW d \in Nat \ {0}
  PROVE  a % d = 0 <=> \E q \in Nat : a = q * d
<1>1. a = (a \div d) * d + (a % d) /\ a \div d \in Nat
  OBVIOUS
<1>2. ASSUME a % d = 0 PROVE \E q \in Nat : a = q * d
  BY <1>1, <1>2
<1>3. ASSUME NEW q \in Nat, a = q * d PROVE a % d = 0
  <2>. DEFINE p == a \div d
              r == a % d
  <2>1. p \in Nat /\ r \in 0..(d - 1) /\ a = p * d + r
    BY <1>1
  <2>. HIDE DEF p, r
  <2>2. CASE p = q
    <3>1. q * d \in Nat /\ p * d = q * d
      BY <2>2
    <3>2. r = 0
      BY <1>3, <2>1, <3>1
    <3>. QED
      BY <3>2 DEF r
  <2>3. CASE p > q
    <3>1. PICK s \in Nat : p = q + 1 + s
      <4>1. p - q - 1 \in Nat /\ p = q + 1 + (p - q - 1)
        BY <2>1, <2>3
      <4>. QED
        BY <4>1
    <3>2. p * d = q * d + d + s * d /\ s * d \in Nat
      BY <3>1
    <3>. QED
      BY <1>3, <2>1, <3>2
  <2>4. CASE p < q
    <3>1. PICK s \in Nat : q = p + 1 + s
      <4>1. q - p - 1 \in Nat /\ q = p + 1 + (q - p - 1)
        BY <2>1, <2>4
      <4>. QED
        BY <4>1
    <3>2. q * d = p * d + d + s * d /\ s * d \in Nat
      BY <2>1, <3>1
    <3>3. p * d \in Nat
      BY <2>1
    <3>. QED
      BY <1>3, <2>1, <3>2, <3>3
  <2>. QED
    BY <2>1, <2>2, <2>3, <2>4 DEF r
<1>. QED
  BY <1>2, <1>3

LEMMA DividesOn ==
  ASSUME NEW d \in Nat \ {0}, NEW i \in Nat \ {0}, NEW j \in Nat, i % d = 0, j % i = 0
  PROVE  j % d = 0
<1>1. PICK p \in Nat : i = p * d
  BY Divides
<1>2. PICK q \in Nat : j = q * i
  BY Divides
<1>3. j = (q * p) * d /\ q * p \in Nat
  BY <1>1, <1>2
<1>. QED
  BY <1>3, Divides

\* A number that is not prime has a divisor that is not above its root.
LEMMA SmallDivisor ==
  ASSUME NEW j \in Nat, NEW d \in 2..(j - 1), j % d = 0
  PROVE  \E e \in 2..(j - 1) : e * e <= j /\ j % e = 0
<1>1. PICK q \in Nat : j = q * d
  BY Divides
<1>2. q >= 2
  <2>1. q # 0
    <3>1. 0 * d = 0
      OBVIOUS
    <3>. QED
      BY <1>1, <3>1
  <2>2. q # 1
    <3>1. 1 * d = d
      OBVIOUS
    <3>. QED
      BY <1>1, <3>1
  <2>. QED
    BY <2>1, <2>2
<1>3. j = d * q /\ j % q = 0
  <2>1. j = d * q
    BY <1>1
  <2>. QED
    BY <1>2, <2>1, Divides
<1>4. q <= j - 1
  <2>1. PICK s \in Nat : d = 2 + s
    <3>1. d - 2 \in Nat /\ d = 2 + (d - 2)
      OBVIOUS
    <3>. QED
      BY <3>1
  <2>2. q * d = 2 * q + q * s /\ q * s \in Nat
    BY <2>1
  <2>. QED
    BY <1>1, <1>2, <2>2
<1>5. CASE d <= q
  <2>1. PICK s \in Nat : q = d + s
    <3>1. q - d \in Nat /\ q = d + (q - d)
      BY <1>5
    <3>. QED
      BY <3>1
  <2>2. d * q = d * d + d * s /\ d * s \in Nat
    BY <2>1
  <2>. QED
    BY <1>3, <2>2
<1>6. CASE q < d
  <2>1. PICK s \in Nat : d = q + s
    <3>1. d - q \in Nat /\ d = q + (d - q)
      BY <1>6
    <3>. QED
      BY <3>1
  <2>2. q * d = q * q + q * s /\ q * s \in Nat
    BY <2>1
  <2>3. q * q <= j
    BY <1>1, <2>2
  <2>. QED
    BY <1>2, <1>3, <1>4, <2>3
<1>. QED
  BY <1>5, <1>6

\* The sieve marks the primes, whatever its size.  (Eratosthenes.cpp:3-12)
LEMMA SieveMarks == Sieve \in Marks /\ \A j \in 0..SieveSize : Sieve[j] <=> IsPrime(j)
<1>. USE ServiceAssumption
<1>1. PICK g : g[SieveSize] = Sieve /\ Advances(g, SieveSize, Marks, AllMarked, CrossStep)
  BY SieveIsFold
<1>. DEFINE Unmarked(n, j) == \E d \in 2..(n + 1) : d * d <= j /\ j % d = 0
            Marked(n) == \A j \in 0..SieveSize : g[n][j] <=> j >= 2 /\ ~Unmarked(n, j)
            Right == {n \in Nat : n <= SieveSize => Marked(n)}
<1>2. \A n \in 0..SieveSize : g[n] \in Marks
  BY <1>1 DEF Advances
<1>3. 0 \in Right
  <2>1. 2..(0 + 1) = {}
    OBVIOUS
  <2>. QED
    BY <1>1, <2>1 DEF Advances, AllMarked
<1>4. ASSUME NEW n \in Nat, n \in Right PROVE n + 1 \in Right
  <2>. SUFFICES ASSUME n + 1 <= SieveSize PROVE Marked(n + 1)
    <3>1. n + 1 \in Nat
      OBVIOUS
    <3>. HIDE DEF Marked
    <3>. QED
      BY <3>1, Zenon
  <2>. DEFINE i == n + 2
  <2>1. Marked(n) /\ g[n] \in Marks /\ n \in 0..(SieveSize - 1) /\ i \in Nat \ {0} /\ i >= 2
    <3>1. n \in 0..SieveSize /\ n <= SieveSize
      OBVIOUS
    <3>2. n \in 0..(SieveSize - 1) /\ i \in Nat \ {0} /\ i >= 2
      OBVIOUS
    <3>3. Marked(n)
      <4>. HIDE DEF Marked
      <4>. QED
        BY <1>4, <3>1
    <3>. QED
      BY <1>2, <3>1, <3>2, <3>3
  <2>2. g[n + 1] = Candidate(g[n], i)
    <3>1. g[n + 1] = CrossStep[<<n + 1, g[n]>>]
      BY <1>1, <2>1 DEF Advances
    <3>2. <<n + 1, g[n]>> \in (1..SieveSize) \X Marks /\ (n + 1) + 1 = i
      BY <2>1
    <3>. HIDE DEF i
    <3>. QED
      BY <3>1, <3>2 DEF CrossStep
  <2>. SUFFICES ASSUME NEW j \in 0..SieveSize
                PROVE  g[n + 1][j] <=> j >= 2 /\ ~Unmarked(n + 1, j)
    OBVIOUS
  <2>3. Unmarked(n + 1, j) <=> Unmarked(n, j) \/ (i * i <= j /\ j % i = 0)
    <3>1. 2..((n + 1) + 1) = 2..(n + 1) \cup {i}
      OBVIOUS
    <3>. HIDE DEF i
    <3>. QED
      BY <3>1
  <2>4. g[n][j] <=> j >= 2 /\ ~Unmarked(n, j)
    BY <2>1
  <2>5. i * i \in Nat /\ i <= i * i
    <3>1. i * i = i + i * (n + 1) /\ i * (n + 1) \in Nat
      OBVIOUS
    <3>. QED
      BY <3>1
  <2>. HIDE DEF i, Unmarked
  <2>6. CASE MustCross(g[n], i)
    <3>1. g[n + 1][j] <=> g[n][j] /\ ~(j >= i * i /\ j % i = 0)
      BY <2>1, <2>2, <2>6 DEF Candidate, CrossOut, Marks
    <3>2. j >= i * i <=> i * i <= j
      BY <2>5
    <3>. QED
      BY <2>3, <2>4, <3>1, <3>2
  <2>7. CASE ~MustCross(g[n], i)
    <3>1. g[n + 1] = g[n]
      BY <2>2, <2>7 DEF Candidate
    <3>2. ASSUME i * i <= j, j % i = 0 PROVE Unmarked(n, j)
      <4>1. i * i <= SieveSize /\ i \in 0..SieveSize
        BY <2>1, <2>5, <3>2
      <4>2. ~g[n][i]
        BY <2>7, <4>1 DEF MustCross
      <4>3. Unmarked(n, i)
        BY <2>1, <4>1, <4>2
      <4>4. PICK d \in 2..(n + 1) : d * d <= i /\ i % d = 0
        BY <4>3 DEF Unmarked
      <4>5. j % d = 0
        <5>1. d \in Nat \ {0} /\ j \in Nat
          OBVIOUS
        <5>. QED
          BY <2>1, <3>2, <4>4, <5>1, DividesOn
      <4>6. d * d <= j
        <5>1. d * d \in Nat /\ j \in Nat
          OBVIOUS
        <5>. QED
          BY <2>1, <2>5, <3>2, <4>4, <5>1
      <4>. QED
        BY <4>5, <4>6 DEF Unmarked
    <3>. QED
      BY <2>3, <2>4, <3>1, <3>2
  <2>. QED
    BY <2>6, <2>7
<1>5. SieveSize \in Right
  <2>. HIDE DEF Right
  <2>. QED
    BY <1>3, <1>4, Induction
<1>6. ASSUME NEW j \in 0..SieveSize, j >= 2 PROVE IsPrime(j) <=> ~Unmarked(SieveSize, j)
  <2>1. ASSUME NEW d \in 2..(SieveSize + 1), d * d <= j, j % d = 0 PROVE ~IsPrime(j)
    <3>1. d * d = d + d * (d - 1) /\ d * (d - 1) = (d - 1) + (d - 1) * (d - 1)
          /\ (d - 1) * (d - 1) \in Nat
      OBVIOUS
    <3>2. d \in 2..(j - 1)
      BY <2>1, <3>1
    <3>. QED
      BY <2>1, <3>2 DEF IsPrime
  <2>2. ASSUME ~IsPrime(j) PROVE Unmarked(SieveSize, j)
    <3>1. PICK d \in 2..(j - 1) : j % d = 0
      BY <1>6, <2>2 DEF IsPrime
    <3>2. PICK e \in 2..(j - 1) : e * e <= j /\ j % e = 0
      <4>. j \in Nat
        OBVIOUS
      <4>. QED
        BY <3>1, SmallDivisor, Zenon
    <3>. QED
      BY <3>2
  <2>. QED
    BY <2>1, <2>2
<1>7. Marked(SieveSize)
  <2>. HIDE DEF Marked
  <2>. QED
    BY <1>5
<1>8. ASSUME NEW j \in 0..SieveSize PROVE Sieve[j] <=> IsPrime(j)
  <2>1. Sieve[j] <=> j >= 2 /\ ~Unmarked(SieveSize, j)
    BY <1>1, <1>7
  <2>. HIDE DEF Unmarked
  <2>. QED
    BY <1>6, <2>1 DEF IsPrime
<1>. QED
  BY <1>1, <1>2, <1>8

-----------------------------------------------------------------------------
\* The list of the primes that the sieve has marked.
numbers == [i \in 1..(SieveSize - 1) |-> i + 1]
Listed(list, i) == IF Sieve[i] THEN Append(list, i) ELSE list

ListEquation(h) ==
  h = [T \in SUBSET DOMAIN numbers |->
         IF T = {} THEN << >> ELSE Listed(h[T \ {Max(T)}], numbers[Max(T)])]

LEMMA ListUnfolds == primes = (CHOOSE h : ListEquation(h))[DOMAIN numbers]
  BY DEF primes, FoldLeft, MapThenFoldSet, ListEquation, Listed, numbers

ListStep == [p \in (1..(SieveSize - 1)) \X Seq(Nat) |-> Listed(p[2], p[1] + 1)]

LEMMA ListStepType ==
  << >> \in Seq(Nat) /\ ListStep \in [(1..(SieveSize - 1)) \X Seq(Nat) -> Seq(Nat)]
<1>1. ASSUME NEW p \in (1..(SieveSize - 1)) \X Seq(Nat)
      PROVE  Listed(p[2], p[1] + 1) \in Seq(Nat)
  <2>1. p[2] \in Seq(Nat) /\ p[1] + 1 \in Nat
    BY ServiceAssumption
  <2>. QED
    BY <2>1, AppendProperties DEF Listed
<1>. QED
  BY <1>1, EmptySeq DEF ListStep

LEMMA ListIsFold ==
  \E g : g[SieveSize - 1] = primes /\ Advances(g, SieveSize - 1, Seq(Nat), << >>, ListStep)
<1>. DEFINE N == SieveSize - 1
            S == 1..N
            V == Seq(Nat)
<1>0. N \in Nat
  BY ServiceAssumption
<1>1. PICK all \in [SUBSET S -> V] :
        /\ Follows(all, S, V, << >>, ListStep, Lasts(N))
        /\ \E g : g[N] = all[S] /\ Advances(g, N, V, << >>, ListStep)
  <2>1. << >> \in V /\ ListStep \in [(1..N) \X V -> V]
    BY ListStepType
  <2>. HIDE DEF N, V
  <2>. QED
    BY <1>0, <2>1, FoldsInOrder
<1>2. /\ DOMAIN numbers = S /\ \A i \in S : numbers[i] = i + 1
      /\ \A T \in SUBSET S : Lasts(N)[T] = Max(T) /\ (T # {} => Max(T) \in T)
  BY <1>0, LargestExists DEF numbers, Lasts, Picks
<1>3. ASSUME NEW h, NEW T \in SUBSET S, T # {}, h[T \ {Max(T)}] \in V
      PROVE  ListStep[<<Max(T), h[T \ {Max(T)}]>>] = Listed(h[T \ {Max(T)}], numbers[Max(T)])
  <2>1. <<Max(T), h[T \ {Max(T)}]>> \in S \X V
    BY <1>2, <1>3
  <2>. QED
    BY <1>2, <2>1 DEF ListStep
<1>. HIDE DEF V
<1>4. ListEquation(all)
  <2>1. ASSUME NEW T \in SUBSET S, T # {}
        PROVE  all[T] = Listed(all[T \ {Max(T)}], numbers[Max(T)])
    <3>1. all[T \ {Max(T)}] \in V
      BY <1>1
    <3>2. all[T] = ListStep[<<Max(T), all[T \ {Max(T)}]>>]
      BY <1>1, <1>2, <2>1, <3>1 DEF Follows
    <3>. QED
      BY <1>3, <2>1, <3>1, <3>2
  <2>2. all[{}] = << >>
    BY <1>1 DEF Follows
  <2>. QED
    BY <1>1, <1>2, <2>1, <2>2 DEF ListEquation
<1>. DEFINE h == CHOOSE h : ListEquation(h)
<1>5. ListEquation(h)
  BY <1>4
<1>. HIDE DEF h
<1>6. Follows(h, S, V, << >>, ListStep, Lasts(N))
  <2>1. h[{}] = << >>
    BY <1>2, <1>5 DEF ListEquation
  <2>2. ASSUME NEW T \in SUBSET S, T # {}, h[T \ {Max(T)}] \in V
        PROVE  h[T] = ListStep[<<Max(T), h[T \ {Max(T)}]>>]
    <3>1. h[T] = Listed(h[T \ {Max(T)}], numbers[Max(T)])
      BY <1>2, <1>5, <2>2 DEF ListEquation
    <3>. QED
      BY <1>3, <2>2, <3>1
  <2>. QED
    BY <1>2, <2>1, <2>2 DEF Follows
<1>7. primes = h[S]
  BY <1>2, ListUnfolds DEF h
<1>8. h[S] = all[S]
  <2>1. Folded(all, S, V, << >>, ListStep, Lasts(N))
    BY <1>1 DEF Folded
  <2>. HIDE DEF N
  <2>. QED
    BY <1>0, <1>6, <2>1, FoldsInOrderAgree
<1>. QED
  BY <1>1, <1>7, <1>8 DEF V

\* list has the elements of S from the least to the greatest.
Enumerates(list, S) ==
  /\ list \in Seq(Nat) /\ Len(list) = Cardinality(S)
  /\ \A n \in 1..Len(list) : list[n] \in S /\ Cardinality({j \in S : j <= list[n]}) = n

LEMMA EnumeratesMore ==
  ASSUME NEW S \in SUBSET Nat, IsFiniteSet(S), NEW i \in Nat, \A j \in S : j < i,
         NEW list, Enumerates(list, S)
  PROVE  Enumerates(Append(list, i), S \cup {i})
<1>. DEFINE more == Append(list, i)
            R == S \cup {i}
<1>1. list \in Seq(Nat) /\ Len(list) = Cardinality(S) /\ Len(list) \in Nat
  BY LenProperties DEF Enumerates
<1>2. /\ more \in Seq(Nat) /\ Len(more) = Len(list) + 1 /\ more[Len(list) + 1] = i
      /\ \A n \in 1..Len(list) : more[n] = list[n]
  BY <1>1, AppendProperties
<1>3. i \notin S
  OBVIOUS
<1>4. Cardinality(R) = Cardinality(S) + 1
  BY <1>3, FS_AddElement
<1>5. ASSUME NEW n \in 1..Len(list)
      PROVE  more[n] \in R /\ Cardinality({j \in R : j <= more[n]}) = n
  <2>1. list[n] \in S /\ Cardinality({j \in S : j <= list[n]}) = n
    BY DEF Enumerates
  <2>2. {j \in R : j <= list[n]} = {j \in S : j <= list[n]}
    <3>1. \A j \in S : ~(i <= j)
      OBVIOUS
    <3>2. ~(i <= list[n])
      BY <2>1, <3>1, Zenon
    <3>. QED
      BY <3>2, Zenon
  <2>. QED
    BY <1>2, <2>1, <2>2
<1>6. {j \in R : j <= i} = R
  <2>1. \A j \in R : j <= i
    OBVIOUS
  <2>. QED
    BY <2>1, Zenon
<1>7. ASSUME NEW n \in 1..Len(more)
      PROVE  more[n] \in R /\ Cardinality({j \in R : j <= more[n]}) = n
  <2>1. n \in 1..Len(list) \/ n = Len(list) + 1
    BY <1>1, <1>2
  <2>2. CASE n = Len(list) + 1
    <3>1. more[n] = i /\ i \in R
      BY <1>2, <2>2
    <3>2. Cardinality(R) = n
      BY <1>1, <1>4, <2>2
    <3>. HIDE DEF more, R
    <3>. QED
      BY <1>6, <3>1, <3>2
  <2>. QED
    BY <1>5, <2>1, <2>2
<1>. HIDE DEF more, R
<1>8. Len(more) = Cardinality(R)
  BY <1>1, <1>2, <1>4
<1>. QED
  BY <1>2, <1>7, <1>8 DEF Enumerates, more, R

\* The list has the primes up to the size of the sieve, in order.  (Eratosthenes.cpp:14-16)
LEMMA PrimesListed == Enumerates(primes, Below(SieveSize))
<1>. DEFINE N == SieveSize - 1
<1>0. N \in Nat /\ SieveSize = N + 1
  BY ServiceAssumption
<1>1. PICK g : g[N] = primes /\ Advances(g, N, Seq(Nat), << >>, ListStep)
  BY ListIsFold
<1>. HIDE DEF N
<1>. DEFINE Right == {n \in Nat : n <= N => Enumerates(g[n], Below(n + 1))}
<1>2. 0 \in Right
  <2>1. g[0] = << >>
    BY <1>1 DEF Advances
  <2>2. Below(0 + 1) = {}
    BY DEF Below
  <2>3. Len(<< >>) = 0 /\ Cardinality({}) = 0 /\ 1..0 = {} /\ << >> \in Seq(Nat)
    BY FS_EmptySet, EmptySeq
  <2>. QED
    BY <2>1, <2>2, <2>3 DEF Enumerates
<1>3. ASSUME NEW n \in Nat, n \in Right PROVE n + 1 \in Right
  <2>. SUFFICES ASSUME n + 1 <= N PROVE Enumerates(g[n + 1], Below((n + 1) + 1))
    OBVIOUS
  <2>. DEFINE i == n + 2
  <2>1. Enumerates(g[n], Below(n + 1)) /\ n \in 0..(N - 1) /\ i \in 2..SieveSize
    BY <1>0, <1>3
  <2>2. g[n] \in Seq(Nat)
    BY <2>1 DEF Enumerates
  <2>3. g[n + 1] = Listed(g[n], i)
    <3>1. g[n + 1] = ListStep[<<n + 1, g[n]>>]
      BY <1>1, <2>1 DEF Advances
    <3>2. <<n + 1, g[n]>> \in (1..(SieveSize - 1)) \X Seq(Nat) /\ (n + 1) + 1 = i
      BY <2>1, <2>2 DEF N
    <3>. HIDE DEF i
    <3>. QED
      BY <3>1, <3>2 DEF ListStep
  <2>4. Sieve[i] <=> IsPrime(i)
    BY <2>1, SieveMarks
  <2>5. Below((n + 1) + 1) = IF IsPrime(i) THEN Below(n + 1) \cup {i} ELSE Below(n + 1)
    <3>1. 2..((n + 1) + 1) = 2..(n + 1) \cup {i}
      OBVIOUS
    <3>. HIDE DEF i
    <3>. QED
      BY <3>1 DEF Below
  <2>6. Below(n + 1) \in SUBSET Nat /\ IsFiniteSet(Below(n + 1)) /\ i \in Nat
        /\ \A j \in Below(n + 1) : j < i
    <3>1. IsFiniteSet(2..(n + 1)) /\ Below(n + 1) \subseteq 2..(n + 1)
      BY FS_Interval DEF Below
    <3>. QED
      BY <3>1, FS_Subset
  <2>. HIDE DEF i
  <2>7. Enumerates(Append(g[n], i), Below(n + 1) \cup {i})
    BY <2>1, <2>6, EnumeratesMore
  <2>. QED
    BY <2>1, <2>3, <2>4, <2>5, <2>7 DEF Listed
<1>4. N \in Right
  <2>. HIDE DEF Right
  <2>. QED
    BY <1>0, <1>2, <1>3, Induction
<1>. QED
  BY <1>0, <1>1, <1>4

\* What has to be printed for n.
IsAnswer(n, a) ==
  IF n \in 1..Cardinality(Below(SieveSize))
    THEN a \in Below(SieveSize) /\ Cardinality(Below(a)) = n
    ELSE a = -1

\* What the child replies to n is the n-th prime, if there is one up to the size of the
\* sieve.  (main.cpp:57-58)
LEMMA ResultIsAnswer ==
  ASSUME NEW n \in Int
  PROVE  Result(n) \in Int /\ IsAnswer(n, Result(n))
<1>1. /\ primes \in Seq(Nat) /\ Len(primes) \in Nat /\ Len(primes) = Cardinality(Below(SieveSize))
      /\ \A m \in 1..Len(primes) :
           primes[m] \in Below(SieveSize)
           /\ Cardinality({j \in Below(SieveSize) : j <= primes[m]}) = m
  BY PrimesListed, LenProperties DEF Enumerates
<1>2. CASE n \in 1..Len(primes)
  <2>. DEFINE a == primes[n]
  <2>1. Result(n) = a /\ a \in Below(SieveSize)
        /\ Cardinality({j \in Below(SieveSize) : j <= a}) = n
    BY <1>1, <1>2 DEF Result
  <2>. HIDE DEF a
  <2>2. {j \in Below(SieveSize) : j <= a} = Below(a) /\ a \in Int
    <3>1. a \in 2..SieveSize
      BY <2>1 DEF Below
    <3>2. \A j : j \in 2..a <=> j \in 2..SieveSize /\ j <= a
      BY <3>1, ServiceAssumption
    <3>. QED
      BY <3>1, <3>2 DEF Below
  <2>. QED
    BY <1>1, <1>2, <2>1, <2>2 DEF IsAnswer
<1>3. CASE n \notin 1..Len(primes)
  BY <1>1, <1>3 DEF Result, IsAnswer
<1>. QED
  BY <1>2, <1>3

-----------------------------------------------------------------------------
\* The request, the child's variable and the reply belong to the number typed last.
Belongs ==
  /\ doing["parent"] = "receive" =>
       /\ pipe["request"] # << >> => Head(pipe["request"]) = number["parent"]
       /\ doing["child"] = "reply" => number["child"] = number["parent"]
       /\ pipe["reply"] # << >> => Head(pipe["reply"]) = Result(number["parent"])
  /\ doing["parent"] = "print" => answer = Result(number["parent"])

AnswersInv == ServiceTypeOK /\ Belongs

LEMMA AnswersInit == ServiceInit => AnswersInv
<1>1. << >> \in Seq(Int)
  BY EmptySeq
<1>. QED
  BY <1>1, ServiceAssumption
     DEF ServiceInit, AnswersInv, ServiceTypeOK, Belongs, Processes, Doings

LEMMA SingleAppended ==
  ASSUME NEW v \in Int
  PROVE  Append(<< >>, v) \in Seq(Int) /\ Head(Append(<< >>, v)) = v
  BY EmptySeq, AppendProperties

LEMMA AnswersStep == ServiceInv /\ ServiceInv' /\ AnswersInv /\ [ServiceNext]_serviceVars => AnswersInv'
<1>. SUFFICES ASSUME ServiceInv, ServiceInv', AnswersInv, [ServiceNext]_serviceVars
     PROVE  AnswersInv'
  OBVIOUS
<1>. USE DEF Processes
<1>0. /\ pipe \in [{"request", "reply"} -> Seq(Int)] /\ number \in [Processes -> Int]
      /\ answer \in Int /\ asked \in 0..MaxAsked /\ Alternate /\ Types /\ Types'
  BY DEF ServiceInv, AnswersInv, ServiceTypeOK
<1>1. ASSUME UNCHANGED <<pipe, conversation>>,
             doing'["parent"] = "receive" => doing["parent"] = "receive",
             doing'["child"] = "reply" => doing["child"] = "reply",
             doing'["parent"] = "print" => doing["parent"] = "print"
      PROVE  AnswersInv'
  BY <1>0, <1>1 DEF AnswersInv, ServiceTypeOK, Belongs, conversation, Types
<1>2. CASE \E p \in Processes : CloseOthers(p) \/ CloseOwn(p)
  BY <1>0, <1>1, <1>2 DEF CloseOthers, CloseOwn, Goes, Types
<1>3. CASE Fork \/ Wait \/ PrintAnswer
  BY <1>0, <1>1, <1>3 DEF Fork, Wait, PrintAnswer, Goes, Types
<1>4. CASE ChildExits \/ \E p \in Processes : Signalled(p)
  BY <1>0, <1>1, <1>4 DEF ChildExits, Signalled, Dies, Types
<1>5. CASE TypeNumber
  <2>. USE <1>5 DEF TypeNumber, Goes
  <2>1. UNCHANGED <<pipe, answer>> /\ doing["parent"] = "prompt"
        /\ doing'["parent"] \in {"send", "finish"}
    BY <1>0 DEF Types
  <2>2. number' \in [Processes -> Int]
    BY <1>0, ServiceAssumption
  <2>3. asked' \in 0..MaxAsked
    BY <1>0, ServiceAssumption
  <2>. QED
    BY <1>0, <2>1, <2>2, <2>3 DEF AnswersInv, ServiceTypeOK, Belongs, Types
<1>6. CASE SendRequest
  <2>. USE <1>6 DEF SendRequest, Writes, Goes
  <2>1. UNCHANGED conversation /\ doing["parent"] = "send"
        /\ pipe["request"] = << >> /\ pipe["reply"] = << >> /\ doing["child"] # "reply"
    BY <1>0 DEF Alternate
  <2>2. CASE UNCHANGED pipe /\ Dies("parent", "sigpipe")
    BY <1>0, <1>1, <2>1, <2>2 DEF Dies, Types
  <2>3. CASE /\ doing' = [doing EXCEPT !["parent"] = "receive"]
             /\ pipe' = [pipe EXCEPT !["request"] = Append(@, number["parent"])]
    <3>1. pipe' = [pipe EXCEPT !["request"] = Append(<< >>, number["parent"])]
      BY <2>1, <2>3
    <3>. DEFINE s == Append(<< >>, number["parent"])
    <3>2. s \in Seq(Int) /\ Head(s) = number["parent"]
      BY <1>0, SingleAppended
    <3>. HIDE DEF s
    <3>3. pipe' \in [{"request", "reply"} -> Seq(Int)] /\ pipe'["request"] = s
          /\ pipe'["reply"] = << >>
      BY <1>0, <2>1, <3>1, <3>2 DEF s
    <3>4. doing'["parent"] = "receive" /\ doing'["child"] # "reply"
      BY <1>0, <2>1, <2>3 DEF Types
    <3>. QED
      BY <1>0, <2>1, <3>2, <3>3, <3>4 DEF AnswersInv, ServiceTypeOK, Belongs, Types, conversation
  <2>. QED
    BY <2>2, <2>3
<1>7. CASE ReadRequest
  <2>. USE <1>7 DEF ReadRequest, Reads, Goes
  <2>1. UNCHANGED <<answer, asked>> /\ doing["child"] = "read"
    OBVIOUS
  <2>2. CASE /\ doing' = [doing EXCEPT !["child"] = "reply"] /\ pipe["request"] # << >>
             /\ pipe' = [pipe EXCEPT !["request"] = Tail(@)]
    <3>1. number' = [number EXCEPT !["child"] = Head(pipe["request"])]
      BY <1>0, <2>2 DEF Types
    <3>2. Head(pipe["request"]) \in Int /\ Tail(pipe["request"]) \in Seq(Int)
      BY <1>0, <2>2, HeadTailProperties
    <3>3. pipe' \in [{"request", "reply"} -> Seq(Int)] /\ number' \in [Processes -> Int]
      BY <1>0, <2>2, <3>1, <3>2
    <3>4. doing["parent"] = "receive" => pipe'["request"] = << >> /\ pipe'["reply"] = << >>
      <4>1. doing["parent"] = "receive" => Len(pipe["request"]) <= 1 /\ pipe["reply"] = << >>
        BY <1>0, <2>2 DEF Alternate
      <4>. QED
        BY <1>0, <2>2, <4>1, TailOf
    <3>5. Belongs'
      BY <1>0, <2>1, <2>2, <3>1, <3>4 DEF Types, AnswersInv, Belongs
    <3>. QED
      BY <1>0, <2>1, <3>3, <3>5 DEF AnswersInv, ServiceTypeOK, Types
  <2>3. CASE doing' = [doing EXCEPT !["child"] = "finish"] /\ UNCHANGED pipe
    <3>1. UNCHANGED conversation
      BY <1>0, <2>1, <2>3 DEF Types, conversation
    <3>. QED
      BY <1>0, <1>1, <2>3, <3>1 DEF Types
  <2>. QED
    BY <2>2, <2>3
<1>8. CASE Reply
  <2>. USE <1>8 DEF Reply, Writes, Goes
  <2>1. UNCHANGED conversation /\ doing["child"] = "reply"
    OBVIOUS
  <2>2. CASE UNCHANGED pipe /\ Dies("child", "sigpipe")
    BY <1>0, <1>1, <2>1, <2>2 DEF Dies, Types
  <2>3. CASE /\ doing' = [doing EXCEPT !["child"] = "read"]
             /\ pipe' = [pipe EXCEPT !["reply"] = Append(@, Result(number["child"]))]
    <3>. DEFINE r == Result(number["child"])
    <3>1. r \in Int
      BY <1>0, ResultIsAnswer
    <3>. HIDE DEF r
    <3>2. pipe' = [pipe EXCEPT !["reply"] = Append(@, r)]
      BY <2>3 DEF r
    <3>3. pipe' \in [{"request", "reply"} -> Seq(Int)] /\ pipe'["request"] = pipe["request"]
      BY <1>0, <3>1, <3>2, AppendProperties
    <3>4. ASSUME doing["parent"] = "receive"
          PROVE  pipe'["request"] = << >> /\ Head(pipe'["reply"]) = Result(number["parent"])
      <4>1. pipe["request"] = << >> /\ pipe["reply"] = << >> /\ number["child"] = number["parent"]
        BY <1>0, <2>1, <3>4 DEF Alternate, AnswersInv, Belongs
      <4>2. pipe'["reply"] = Append(<< >>, r)
        BY <1>0, <3>2, <4>1
      <4>. QED
        BY <3>1, <3>3, <4>1, <4>2, SingleAppended DEF r
    <3>5. Belongs'
      BY <1>0, <2>1, <2>3, <3>4 DEF Types, AnswersInv, Belongs, conversation
    <3>. QED
      BY <1>0, <2>1, <3>3, <3>5 DEF AnswersInv, ServiceTypeOK, Types, conversation
  <2>. QED
    BY <2>2, <2>3
<1>9. CASE Receive
  <2>. USE <1>9 DEF Receive, Reads, Goes
  <2>1. UNCHANGED <<number, asked>> /\ doing["parent"] = "receive"
    OBVIOUS
  <2>2. CASE /\ doing' = [doing EXCEPT !["parent"] = "print"] /\ pipe["reply"] # << >>
             /\ pipe' = [pipe EXCEPT !["reply"] = Tail(@)]
    <3>1. answer' = Head(pipe["reply"])
      BY <1>0, <2>2 DEF Types
    <3>2. Head(pipe["reply"]) \in Int /\ Tail(pipe["reply"]) \in Seq(Int)
      BY <1>0, <2>2, HeadTailProperties
    <3>3. pipe' \in [{"request", "reply"} -> Seq(Int)]
      BY <1>0, <2>2, <3>2
    <3>4. answer' = Result(number["parent"])
      BY <2>1, <2>2, <3>1 DEF AnswersInv, Belongs
    <3>5. Belongs'
      BY <1>0, <2>1, <2>2, <3>4 DEF Types, Belongs
    <3>. QED
      BY <1>0, <2>1, <3>1, <3>2, <3>3, <3>5 DEF AnswersInv, ServiceTypeOK, Types
  <2>3. CASE doing' = [doing EXCEPT !["parent"] = "finish"] /\ UNCHANGED pipe
    <3>1. UNCHANGED conversation
      BY <1>0, <2>1, <2>3 DEF Types, conversation
    <3>. QED
      BY <1>0, <1>1, <2>3, <3>1 DEF Types
  <2>. QED
    BY <2>2, <2>3
<1>10. CASE UNCHANGED serviceVars
  BY <1>1, <1>10 DEF serviceVars
<1>. QED
  BY <1>2, <1>3, <1>4, <1>5, <1>6, <1>7, <1>8, <1>9, <1>10
     DEF ServiceNext, ChildStep, ParentStep

\* What the parent prints is the prime that was asked for last, or -1 when there are not so
\* many up to the size of the sieve, whatever that size, the requests and the signals.
\* (main.cpp:54-60, 82-95, Eratosthenes.cpp:3-17)
THEOREM PrintsThePrime == ServiceSpec => []AnswersArePrimes
<1>1. ServiceInit => ServiceInv /\ AnswersInv
  BY ServiceInitInv, AnswersInit
<1>2. ServiceInv /\ AnswersInv /\ [ServiceNext]_serviceVars => ServiceInv' /\ AnswersInv'
  BY ServiceStep, AnswersStep
<1>3. AnswersInv => AnswersArePrimes
  <2>. SUFFICES ASSUME AnswersInv, doing["parent"] = "print"
       PROVE  IsAnswer(number["parent"], answer)
    BY DEF AnswersArePrimes, IsAnswer
  <2>1. number["parent"] \in Int /\ answer = Result(number["parent"])
    BY DEF AnswersInv, ServiceTypeOK, Belongs, Processes
  <2>. QED
    BY <2>1, ResultIsAnswer
<1>. QED
  BY <1>1, <1>2, <1>3, PTL DEF ServiceSpec

-----------------------------------------------------------------------------
(* The types of all five programs.                                         *)

ArrayTypes == array \in [Elements -> Numbers \cup {Unset}]

\* What the types of the copy need beyond CopyInv.
CopyRest ==
  /\ place \in {"stat", "open", "seek", "chunk", "copy", "truncate", "done", "failed"}
  /\ versions \subseteq Seq(Cells) /\ oneFile \in BOOLEAN /\ unreadable \subseteq Nat \ {0}
  /\ totalPhysical \in Nat

LEMMA ArrayInit == Init => ArrayTypes
  BY DEF Init, ArrayTypes

LEMMA ArrayStep == ArrayTypes /\ [Next]_vars => ArrayTypes'
<1>. SUFFICES ASSUME ArrayTypes, [Next]_vars PROVE ArrayTypes'
  OBVIOUS
<1>1. CASE UNCHANGED array
  BY <1>1 DEF ArrayTypes, Elements
<1>2. CASE \E i \in Chunks : FillElement(i)
  BY <1>2 DEF FillElement, ArrayTypes, Elements
<1>3. CASE Next
  <2>1. MainStep => UNCHANGED array
    BY DEF MainStep, CreateFill, CreateSum, CreateFails, JoinFill, JoinSum
  <2>2. \A i \in Chunks : AddElement(i) \/ Exit(i) => UNCHANGED array
    BY DEF AddElement, Exit
  <2>. QED
    BY <1>1, <1>2, <1>3, <2>1, <2>2 DEF Next, ThreadStep
<1>. QED
  BY <1>1, <1>3 DEF vars

LEMMA SumTypes == (CountFitsInt => SumInv /\ TotalInv) /\ ArrayTypes => TypeOK
<1>. SUFFICES ASSUME SumInv, TotalInv, ArrayTypes PROVE TypeOK
  BY DEF TypeOK
<1>1. ArgsOK /\ numCount \in 1..MaxNumCount /\ threadCount \in 1..MaxThreadCount
  BY ArgumentsAssumption DEF SumInv, TypesOK, ArgsOK
<1>2. \A i \in Chunks : work[i] # "none" => at[i] \in 0..ChunkLength(i)
  <2>. SUFFICES ASSUME NEW i \in Chunks, work[i] # "none" PROVE at[i] \in 0..ChunkLength(i)
    OBVIOUS
  <2>1. i \in Used /\ at[i] \in Nat /\ at[i] <= ChunkLength(i)
    BY DEF SumInv, TypesOK, InChunk
  <2>2. ChunkLength(i) \in Nat
    BY <1>1, <2>1, ChunksFollow DEF Used
  <2>. QED
    BY <2>1, <2>2
<1>. QED
  BY <1>1, <1>2 DEF SumInv, TypesOK, Used, TotalInv, ArrayTypes, TypeOK

LEMMA CopyRestInit == CopyInit => CopyRest
<1>. SUFFICES ASSUME CopyInit PROVE CopyRest
  OBVIOUS
<1>1. source \in Seq(Cells) /\ Len(source) \in Nat
  BY CopyAssumption DEF CopyInit
<1>2. unreadable \subseteq Nat \ {0}
  BY <1>1 DEF CopyInit
<1>. QED
  BY <1>1, <1>2 DEF CopyInit, CopyRest

LEMMA CopyRestStep == CopyInv /\ CopyRest /\ [CopyNext]_copyVars => CopyRest'
<1>. SUFFICES ASSUME CopyInv, CopyRest, [CopyNext]_copyVars PROVE CopyRest'
  OBVIOUS
<1>. USE CopyAssumption DEF CopyRest, world, locals
<1>1. CASE UNCHANGED copyVars
  BY <1>1 DEF copyVars
<1>2. CASE StatSource \/ SkipHole \/ FindChunk \/ ChunkEnds \/ NothingToCopy \/ Truncate \/ CopyFails
  BY <1>2 DEF StatSource, SkipHole, FindChunk, ChunkEnds, NothingToCopy, Truncate, CopyFails
<1>3. CASE OpenDestination
  <2>1. << >> \in Seq(Cells) /\ source \in Seq(Cells)
    BY DEF CopyInv, CopyTypes
  <2>. QED
    BY <1>3, <2>1 DEF OpenDestination
<1>4. CASE CopyBytes
  <2>1. BytesRead \in Nat
    BY <1>4, ReadReturns DEF CopyBytes, CopyInv
  <2>. QED
    BY <1>4, <2>1 DEF CopyBytes
<1>5. CASE ChangeSource
  BY <1>5 DEF ChangeSource
<1>. QED
  BY <1>1, <1>2, <1>3, <1>4, <1>5 DEF CopyNext, CopyStep

LEMMA HttpTypesInit == HttpInit => HttpTypeOK
<1>1. Len(RequestBytes) \in Nat /\ Len(<< >>) = 0
  BY HttpAssumption
<1>. QED
  BY <1>1, HttpAssumption DEF HttpInit, HttpTypeOK

\* The bytes that Recv has returned, and how many of them are written.
LEMMA WroteStep ==
  ASSUME HttpInv, HttpTypeOK, Recv \/ Write
  PROVE  wrote' \in 0..Len(recvbuf')
<1>1. CASE Recv
  <2>1. PICK n \in 1..RecvBuffer :
          /\ Len(accumulated) + n <= Len(response)
          /\ recvbuf' = Piece(response, Len(accumulated), n)
    BY <1>1 DEF Recv, Piece
  <2>2. response \in Seq(HttpBytes) /\ Len(accumulated) \in Nat /\ n \in Nat
    BY HttpAssumption DEF HttpInv, Begins
  <2>3. Len(recvbuf') = n
    BY <2>1, <2>2, PieceOf
  <2>. QED
    BY <1>1, <2>2, <2>3 DEF Recv
<1>2. CASE Write
  <2>1. Len(recvbuf) \in Nat /\ wrote \in 0..Len(recvbuf)
    BY <1>2 DEF Write, Proceeds, HttpInv
  <2>. QED
    BY <1>2, <2>1 DEF Write
<1>. QED
  BY <1>1, <1>2

LEMMA HttpTypesStep == HttpInv /\ HttpInv' /\ HttpTypeOK /\ [HttpNext]_httpVars => HttpTypeOK'
<1>. SUFFICES ASSUME HttpInv, HttpInv', HttpTypeOK, [HttpNext]_httpVars PROVE HttpTypeOK'
  OBVIOUS
<1>. USE DEF sending, receiving
<1>1. sent' \in 0..Len(RequestBytes)
  <2>1. Len(RequestBytes) \in Nat /\ sent' = Len(delivered') /\ Begins(delivered', RequestBytes)
    BY HttpAssumption DEF HttpInv
  <2>. QED
    BY <2>1 DEF Begins
<1>2. untried' \in 0..AddressCount
  <2>1. UNCHANGED untried \/ Connect
    BY DEF HttpNext, httpVars, Resolve, NotConnected, Send, SendFails, OpenFile, Recv,
           RecvFails, Write, WriteFails, Accumulate, AnswerEnds
  <2>. QED
    BY <2>1, HttpAssumption DEF Connect, HttpTypeOK
<1>3. wrote' \in 0..Len(recvbuf')
  <2>1. UNCHANGED <<wrote, recvbuf>> \/ Recv \/ Write
    BY DEF HttpNext, httpVars, Resolve, Connect, NotConnected, Send, SendFails, OpenFile,
           RecvFails, WriteFails, Accumulate, AnswerEnds
  <2>. QED
    BY <2>1, WroteStep DEF HttpTypeOK
<1>4. /\ phase' \in {"resolve", "connect", "send", "recv", "write", "ended"}
      /\ exitCode' \in {-1, 0, 1, 2, 3, 4, 5, 6, 7, 141}
  BY DEF HttpTypeOK, HttpNext, httpVars, Resolve, Connect, NotConnected, Send, SendFails, OpenFile,
         Recv, RecvFails, Write, WriteFails, Accumulate, AnswerEnds, Proceeds, Returns
<1>. QED
  BY <1>1, <1>2, <1>3, <1>4 DEF HttpTypeOK

ProgramsInv ==
  /\ (CountFitsInt => SumInv /\ TotalInv) /\ ArrayTypes
  /\ CopyInv /\ CopyRest
  /\ SortInv /\ SortTypes
  /\ HttpInv /\ HttpTypeOK
  /\ ServiceInv /\ AnswersInv

\* Whichever program a step belongs to, it is a step of every one, or leaves it alone.
LEMMA StepOfEach ==
  ASSUME [ProgramsNext]_allVars
  PROVE  /\ [Next]_vars /\ [CopyNext]_copyVars /\ [SortNext]_sortVars
         /\ [HttpNext]_httpVars /\ [ServiceNext]_serviceVars
<1>1. CASE UNCHANGED allVars
  <2>1. UNCHANGED <<vars, copyVars, sortVars, httpVars, serviceVars>>
    BY <1>1 DEF allVars
  <2>. QED
    BY <2>1
<1>2. CASE ProgramsNext
  BY <1>2 DEF ProgramsNext, Sum, Copy, Sort, Http, Primes
<1>. QED
  BY <1>1, <1>2

\* Every behaviour of the five programs side by side is one of each of them, so that what is
\* proved of each holds in it.
THEOREM EachProgramRuns ==
  ProgramsSpec => Spec /\ CopySpec /\ SortSpec /\ HttpSpec /\ ServiceSpec
<1>1. ProgramsInit => Init /\ CopyInit /\ SortInit /\ HttpInit /\ ServiceInit
  BY DEF ProgramsInit
<1>2. [ProgramsNext]_allVars => /\ [Next]_vars /\ [CopyNext]_copyVars /\ [SortNext]_sortVars
                               /\ [HttpNext]_httpVars /\ [ServiceNext]_serviceVars
  BY StepOfEach
<1>. QED
  BY <1>1, <1>2, PTL DEF ProgramsSpec, Spec, CopySpec, SortSpec, HttpSpec, ServiceSpec

\* Whatever program runs, the variables of all five have their types, for every value of
\* their constants.
THEOREM ProgramsTypes == ProgramsSpec => []ProgramsTypeOK
<1>1. ProgramsInit => ProgramsInv
  BY CopyAssumption, SumInit, TotalInit, ArrayInit, CopyInitInv, CopyRestInit, SortedInit,
     SortTypesInit, HttpStarts, HttpTypesInit, ServiceInitInv, AnswersInit
  DEF ProgramsInit, ProgramsInv
<1>2. ProgramsInv /\ [ProgramsNext]_allVars => ProgramsInv'
  <2>. SUFFICES ASSUME ProgramsInv, [ProgramsNext]_allVars PROVE ProgramsInv'
    OBVIOUS
  <2>1. (CountFitsInt => SumInv /\ TotalInv)' /\ ArrayTypes'
    BY StepOfEach, BothStep, SameCount, ArrayStep DEF ProgramsInv
  <2>2. CopyInv' /\ CopyRest'
    BY CopyAssumption, StepOfEach, CopyStepInv, CopyRestStep DEF ProgramsInv
  <2>3. SortInv' /\ SortTypes'
    BY StepOfEach, SortStep, SortTypesStep DEF ProgramsInv
  <2>4. HttpInv' /\ HttpTypeOK'
    BY StepOfEach, HttpStep, HttpTypesStep DEF ProgramsInv
  <2>5. ServiceInv' /\ AnswersInv'
    BY StepOfEach, ServiceStep, AnswersStep DEF ProgramsInv
  <2>. QED
    BY <2>1, <2>2, <2>3, <2>4, <2>5 DEF ProgramsInv
<1>3. ProgramsInv => ProgramsTypeOK
  <2>1. CopyInv /\ CopyRest => CopyTypeOK
    BY DEF CopyInv, CopyTypes, CopyRest, CopyTypeOK
  <2>2. SortTypes => SortTypeOK
    BY DEF SortTypes
  <2>3. AnswersInv => ServiceTypeOK
    BY DEF AnswersInv
  <2>. QED
    BY <2>1, <2>2, <2>3, SumTypes DEF ProgramsInv, ProgramsTypeOK
<1>. QED
  BY <1>1, <1>2, <1>3, PTL DEF ProgramsSpec
=============================================================================
