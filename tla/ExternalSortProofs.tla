------------------------- MODULE ExternalSortProofs -------------------------
(***************************************************************************)
(* Proofs about ExternalSort, for every input, memory limit and size of a  *)
(* block, and whatever calls fail: the variables have their types, the     *)
(* runs keep within the memory limit, the merge writes in order, and if no *)
(* error was ignored and no run was lost, what is written is what was      *)
(* read, sorted.                                                           *)
(***************************************************************************)
EXTENDS ExternalSort, FoldLemmas, SequenceTheorems

-----------------------------------------------------------------------------
\* Order.
Lines == Nat \X Nat

\* The order of lines is one: reflexive and transitive.
LEMMA NotAfterOrders ==
  ASSUME NEW a \in Lines, NEW b \in Lines, NEW c \in Lines
  PROVE  /\ NotAfter(a, a)
         /\ NotAfter(a, b) /\ NotAfter(b, c) => NotAfter(a, c)
  BY DEF Lines, NotAfter

\* A line that is not before any line of a sorted file may be added at its end.
\* (external_sort.cpp:160-161)
LEMMA AppendSorted ==
  ASSUME NEW file \in Seq(Lines), NEW l \in Lines, Sorted(file),
         \A m \in DOMAIN file : NotAfter(file[m], l)
  PROVE  Append(file, l) \in Seq(Lines) /\ Sorted(Append(file, l))
  BY DEF Sorted

-----------------------------------------------------------------------------
RunsTypes ==
  /\ input \in Seq(Lines) /\ taken \in Nat /\ buffer \in Seq(Lines)
  /\ runs \in Seq(Seq(Lines))
  /\ \A i \in DOMAIN runs : Sorted(runs[i]) /\ runs[i] # << >>

\* What holds of the merge of two runs or more, from its first step to its last.
Merging ==
  /\ drawn \in Seq(Nat) /\ Len(fetched) = Len(drawn) /\ Len(drawn) <= Len(runs)
  /\ \E S : fetched \in Seq(S)
  /\ \A i \in DOMAIN drawn : drawn[i] <= Len(runs[i])
  /\ output \in Seq(Lines) /\ Sorted(output)
  /\ heap \subseteq DOMAIN drawn
  /\ \A i \in heap : drawn[i] >= 1 /\ \A m \in DOMAIN output : NotAfter(output[m], InHeap(i))

\* The run whose line was written last: its line has left the heap, and nothing that
\* was written comes after it.
Refilling ==
  /\ idx \in DOMAIN drawn /\ idx \notin heap /\ drawn[idx] >= 1
  /\ \A m \in DOMAIN output : NotAfter(output[m], InHeap(idx))

NothingMerged == fetched = << >> /\ drawn = << >> /\ heap = {} /\ output = << >>

SortInv ==
  /\ RunsTypes
  /\ stage \in {"runs", "rest"} => NothingMerged
  /\ stage = "merge" => output = << >>
  /\ stage = "copy" => Len(runs) = 1
  /\ stage \in {"pop", "refill"} => Len(runs) > 1
  /\ stage = "refill" => Refilling
  /\ Len(runs) > 1 => Merging

LEMMA SortedInit == SortInit => SortInv
<1>. SUFFICES ASSUME SortInit PROVE SortInv
  OBVIOUS
<1>1. RunsTypes
  BY FilesAssumption DEF SortInit, RunsTypes, Lines
<1>. QED
  BY <1>1 DEF SortInit, SortInv, NothingMerged

\* A chunk becomes one more run, sorted and not empty.  (external_sort.cpp:82-100)
LEMMA RunAdded ==
  ASSUME RunsTypes, NEW chunk \in Seq(Lines), chunk # << >>, WriteSortedChunk(chunk)
  PROVE  /\ runs' \in Seq(Seq(Lines))
         /\ \A i \in DOMAIN runs' : Sorted(runs'[i]) /\ runs'[i] # << >>
<1>1. PICK sorted \in [DOMAIN chunk -> ToSet(chunk)] :
        Sorted(sorted) /\ runs' = Append(runs, sorted)
  BY DEF WriteSortedChunk
<1>2. ToSet(chunk) \subseteq Lines
  BY DEF ToSet
<1>3. Len(chunk) \in Nat /\ Len(chunk) # 0 /\ DOMAIN chunk = 1..Len(chunk)
  BY EmptySeq, LenProperties
<1>4. sorted \in [1..Len(chunk) -> Lines]
  BY <1>2, <1>3
<1>5. sorted \in Seq(Lines) /\ sorted # << >>
  BY <1>3, <1>4
<1>6. /\ runs' \in Seq(Seq(Lines)) /\ Len(runs') = Len(runs) + 1
      /\ \A i \in 1..Len(runs') : runs'[i] = IF i = Len(runs) + 1 THEN sorted ELSE runs[i]
  BY <1>1, <1>5, AppendProperties DEF RunsTypes
<1>. QED
  BY <1>1, <1>5, <1>6 DEF RunsTypes

-----------------------------------------------------------------------------
\* The reading of the input leaves what the merge keeps alone.
LEMMA ReadKeeps ==
  ASSUME SortInv, OpenInputFails \/ ReadInput \/ InputEnds
  PROVE  SortInv'
<1>1. /\ stage = "runs" /\ stage' \in {"failed", "runs", "rest"}
      /\ UNCHANGED <<input, taken, buffer, runs, fetched, drawn, heap, output>>
  BY DEF OpenInputFails, ReadInput, InputEnds, Noticed, Ignored, Fails, reading, merging
<1>2. RunsTypes' /\ NothingMerged'
  BY <1>1 DEF SortInv, RunsTypes, NothingMerged
<1>3. Merging'
  BY <1>2 DEF NothingMerged, RunsTypes, Merging, Sorted
<1>. QED
  BY <1>1, <1>2, <1>3 DEF SortInv, NothingMerged

LEMMA TakeKeeps == ASSUME SortInv, TakeLine PROVE SortInv'
<1>. DEFINE line == input[taken + 1]
<1>1. /\ stage = "runs" /\ stage' = "runs" /\ taken + 1 \in DOMAIN input
      /\ taken' = taken + 1 /\ input' = input
      /\ UNCHANGED <<fetched, drawn, heap, output>>
  BY DEF TakeLine, LineReady, merging, SortInv, RunsTypes
<1>2. line \in Lines
  BY <1>1, ElementOfSeq DEF SortInv, RunsTypes
<1>3. /\ buffer' \in Seq(Lines)
      /\ runs' \in Seq(Seq(Lines))
      /\ \A i \in DOMAIN runs' : Sorted(runs'[i]) /\ runs'[i] # << >>
  <2>1. CASE Fits(line) /\ buffer' = Append(buffer, line) /\ UNCHANGED runs
    BY <1>2, <2>1, AppendProperties DEF SortInv, RunsTypes
  <2>2. CASE ~Fits(line) /\ WriteSortedChunk(buffer) /\ buffer' = <<line>>
    <3>1. buffer # << >>
      BY <2>2 DEF Fits
    <3>. QED
      BY <1>2, <2>2, <3>1, RunAdded DEF SortInv, RunsTypes
  <2>. QED
    BY <2>1, <2>2 DEF TakeLine
<1>4. RunsTypes' /\ NothingMerged'
  BY <1>1, <1>3 DEF SortInv, RunsTypes, NothingMerged
<1>5. Merging'
  BY <1>4 DEF NothingMerged, RunsTypes, Merging, Sorted
<1>. QED
  BY <1>1, <1>4, <1>5 DEF SortInv, NothingMerged

LEMMA LeftoverTyped == ASSUME RunsTypes PROVE Leftover \subseteq Lines
<1>. SUFFICES ASSUME NEW i \in {taken + 1} \cap DOMAIN input
              PROVE  {input[i][1]} \X {n \in 1..input[i][2] : BytesTo(input, taken) + n = got}
                       \subseteq Lines
  BY DEF Leftover
<1>1. input[i] \in Lines
  BY ElementOfSeq DEF RunsTypes
<1>2. input[i][1] \in Nat /\ input[i][2] \in Nat
  BY <1>1 DEF Lines
<1>3. {n \in 1..input[i][2] : BytesTo(input, taken) + n = got} \subseteq Nat
  BY <1>2
<1>. QED
  BY <1>2, <1>3 DEF Lines

LEMMA RestTyped == ASSUME RunsTypes PROVE Rest \subseteq Seq(Lines)
<1>1. Leftover \subseteq Lines
  BY LeftoverTyped
<1>2. \A l \in Leftover : Append(buffer, l) \in Seq(Lines)
  BY <1>1, AppendProperties DEF RunsTypes
<1>3. buffer \in Seq(Lines)
  BY DEF RunsTypes
<1>. QED
  BY <1>2, <1>3, Zenon DEF Rest

LEMMA WriteRestKeeps == ASSUME SortInv, WriteRest PROVE SortInv'
<1>1. /\ stage = "rest" /\ stage' = "merge"
      /\ UNCHANGED <<input, taken, fetched, drawn, heap, output>> /\ buffer' = << >>
  BY DEF WriteRest, merging
<1>2. PICK rest \in Rest : IF rest = << >> THEN UNCHANGED runs ELSE WriteSortedChunk(rest)
  BY DEF WriteRest
<1>3. rest \in Seq(Lines)
  BY RestTyped DEF SortInv
<1>4. /\ runs' \in Seq(Seq(Lines))
      /\ \A i \in DOMAIN runs' : Sorted(runs'[i]) /\ runs'[i] # << >>
  <2>1. CASE rest = << >>
    BY <1>2, <2>1 DEF SortInv, RunsTypes
  <2>2. CASE rest # << >>
    BY <1>2, <1>3, <2>2, RunAdded DEF SortInv
  <2>. QED
    BY <2>1, <2>2
<1>5. RunsTypes' /\ NothingMerged'
  BY <1>1, <1>4 DEF SortInv, RunsTypes, NothingMerged
<1>6. Merging'
  BY <1>5 DEF NothingMerged, RunsTypes, Merging, Sorted
<1>. QED
  BY <1>1, <1>5, <1>6 DEF SortInv, NothingMerged

\* A step that leaves the runs and the merge alone, and goes on to a stage of which
\* nothing is said, or stays.
LEMMA QuietKeeps ==
  ASSUME SortInv, UNCHANGED <<input, taken, buffer, runs, merging>>,
         \/ stage' \in {"done", "failed", stage}
         \/ stage = "merge" /\ stage' = "pop" /\ Len(runs) > 1
         \/ stage = "refill" /\ stage' = "pop"
  PROVE  SortInv'
<1>1. RunsTypes'
  BY DEF SortInv, RunsTypes
<1>2. (Merging => Merging') /\ (Refilling => Refilling') /\ (NothingMerged => NothingMerged')
  BY DEF Merging, Refilling, NothingMerged, InHeap, merging
<1>. QED
  BY <1>1, <1>2 DEF SortInv, merging

\* A single run is copied: nothing is merged.
LEMMA CopyRunKeeps ==
  ASSUME SortInv, OpenCopy \/ CopyRunBlock \/ RunCopied
  PROVE  SortInv'
<1>1. /\ Len(runs) = 1 /\ stage' \in {"copy", "done"}
      /\ UNCHANGED <<input, taken, buffer, runs>>
  BY DEF OpenCopy, CopyRunBlock, RunCopied, SortInv, reading
<1>2. RunsTypes'
  BY <1>1 DEF SortInv, RunsTypes
<1>3. Len(runs') = 1
  BY <1>1
<1>4. stage' \notin {"runs", "rest", "merge", "pop", "refill"} /\ ~(Len(runs') > 1)
  BY <1>1, <1>3
<1>. QED
  BY <1>2, <1>3, <1>4 DEF SortInv

-----------------------------------------------------------------------------
\* A run is opened; if it enters the heap, nothing was written yet.
\* (external_sort.cpp:134-149)
LEMMA OpenRunKeeps == ASSUME SortInv, OpenRun PROVE SortInv'
<1>. DEFINE i == Len(fetched) + 1
<1>1. /\ stage = "merge" /\ stage' = "merge" /\ output' = output /\ Len(runs) > 1
      /\ UNCHANGED <<input, taken, buffer, runs>> /\ output = << >>
      /\ Len(fetched) < Len(runs) /\ Merging /\ RunsTypes
  BY DEF OpenRun, SortInv, reading
<1>. DEFINE Opened(x, n) == /\ fetched' = Append(fetched, x) /\ drawn' = Append(drawn, n)
                            /\ heap' = IF n = 1 THEN heap \cup {i} ELSE heap
<1>2. \E x : \E n \in {0, 1} : Opened(x, n)
  <2>1. CASE /\ fetched' = Append(fetched, Min({BlockSize, Bytes(runs[i])}))
             /\ drawn' = Append(drawn, 1) /\ heap' = heap \cup {i}
    BY <2>1
  <2>2. CASE /\ fetched' = Append(fetched, Min({BlockSize, Bytes(runs[i])}))
             /\ drawn' = Append(drawn, 0) /\ UNCHANGED heap
    BY <2>2
  <2>3. CASE fetched' = Append(fetched, 0) /\ drawn' = Append(drawn, 0) /\ UNCHANGED heap
    BY <2>3
  <2>. QED
    BY <2>1, <2>2, <2>3 DEF OpenRun
<1>3. PICK x : \E n \in {0, 1} : Opened(x, n)
  BY <1>2
<1>4. PICK n \in {0, 1} : Opened(x, n)
  BY <1>3
<1>5. PICK S : fetched \in Seq(S)
  BY <1>1 DEF Merging
<1>6. fetched' \in Seq(S \cup {x}) /\ Len(fetched') = Len(fetched) + 1
  BY <1>4, <1>5, AppendProperties, SeqMonotonic
<1>7. /\ drawn' \in Seq(Nat) /\ Len(drawn') = i
      /\ \A j \in 1..i : drawn'[j] = IF j = i THEN n ELSE drawn[j]
      /\ DOMAIN drawn' = 1..i /\ DOMAIN drawn = 1..(i - 1) /\ i \in 1..Len(runs)
  BY <1>1, <1>4, <1>5, AppendProperties DEF Merging, RunsTypes
<1>8. \A j \in DOMAIN drawn' : drawn'[j] <= Len(runs[j])
  <2>1. runs[i] # << >> /\ runs[i] \in Seq(Lines)
    BY <1>1, <1>7 DEF RunsTypes
  <2>2. Len(runs[i]) \in Nat /\ Len(runs[i]) # 0
    BY <2>1, EmptySeq, LenProperties
  <2>. QED
    BY <1>1, <1>7, <2>2 DEF Merging
<1>9. heap' \subseteq DOMAIN drawn' /\ \A j \in heap' : drawn'[j] >= 1
  <2>1. \A j \in heap : j # i /\ j \in 1..i /\ drawn[j] >= 1
    BY <1>1, <1>7 DEF Merging
  <2>. QED
    BY <1>4, <1>7, <2>1
<1>10. Merging'
  BY <1>1, <1>6, <1>7, <1>8, <1>9 DEF Merging, Sorted
<1>11. RunsTypes'
  BY <1>1 DEF RunsTypes
<1>. QED
  BY <1>1, <1>10, <1>11 DEF SortInv

\* The least line of the heap is written, or lost: no line that is left, and no later
\* line of its run, comes before one that was written.  (external_sort.cpp:155-161)
LEMMA PopKeeps == ASSUME SortInv, Pop PROVE SortInv'
<1>1. /\ stage = "pop" /\ stage' = "refill" /\ Len(runs) > 1
      /\ UNCHANGED <<input, taken, buffer, runs, fetched, drawn>>
      /\ Merging /\ RunsTypes
  BY DEF Pop, SortInv, reading
<1>2. PICK i \in heap :
        /\ \A j \in heap : NotAfter(InHeap(i), InHeap(j))
        /\ idx' = i /\ heap' = heap \ {i}
        /\ output' = Append(output, InHeap(i)) \/ output' = output
  BY DEF Pop
<1>3. \A j \in heap : InHeap(j) \in Lines /\ j \in DOMAIN drawn /\ drawn[j] >= 1
  BY <1>1 DEF Merging, RunsTypes, InHeap
<1>4. \A j \in DOMAIN drawn : InHeap(j)' = InHeap(j)
  BY <1>1 DEF InHeap
<1>5. \A m \in DOMAIN output, j \in heap : NotAfter(output[m], InHeap(j))
  BY <1>1 DEF Merging
<1>6. /\ output' \in Seq(Lines) /\ Sorted(output')
      /\ \A m \in DOMAIN output', j \in heap : NotAfter(output'[m], InHeap(j))
  <2>1. CASE output' = output
    BY <1>1, <1>5, <2>1 DEF Merging
  <2>2. CASE output' = Append(output, InHeap(i))
    <3>1. output \in Seq(Lines) /\ Sorted(output)
      BY <1>1 DEF Merging
    <3>2. output' \in Seq(Lines) /\ Sorted(output')
      BY <1>3, <1>5, <2>2, <3>1, AppendSorted
    <3>3. \A m \in DOMAIN output' :
            output'[m] = InHeap(i) \/ (m \in DOMAIN output /\ output'[m] = output[m])
      BY <1>3, <2>2, <3>1
    <3>. QED
      BY <1>2, <1>5, <3>2, <3>3
  <2>. QED
    BY <1>2, <2>1, <2>2
<1>7. Refilling'
  <2>1. \A m \in DOMAIN output' : NotAfter(output'[m], InHeap(i)')
    BY <1>3, <1>4, <1>6
  <2>2. InHeap(i)' = InHeap(idx)'
    BY <1>2 DEF InHeap
  <2>3. idx' = i /\ i \in DOMAIN drawn' /\ i \notin heap' /\ drawn'[i] >= 1
    BY <1>1, <1>2, <1>3
  <2>. QED
    BY <2>1, <2>2, <2>3 DEF Refilling, InHeap
<1>8. Merging'
  BY <1>1, <1>2, <1>3, <1>4, <1>6 DEF Merging
<1>9. RunsTypes'
  BY <1>1 DEF RunsTypes
<1>. QED
  BY <1>1, <1>7, <1>8, <1>9 DEF SortInv

\* The next line of the run that was popped enters the heap: it is not before the one
\* that was written, because the run is sorted.  (external_sort.cpp:164-169)
LEMMA PushKeeps == ASSUME SortInv, Push PROVE SortInv'
<1>1. /\ stage = "refill" /\ stage' = "pop" /\ Len(runs) > 1
      /\ UNCHANGED <<input, taken, buffer, runs, fetched, idx, output>>
      /\ drawn' = [drawn EXCEPT ![idx] = @ + 1] /\ heap' = heap \cup {idx}
      /\ drawn[idx] < Len(runs[idx])
      /\ Merging /\ RunsTypes /\ Refilling
  BY DEF Push, RunLineReady, SortInv, reading
<1>2. /\ drawn \in Seq(Nat) /\ idx \in DOMAIN drawn /\ idx \in DOMAIN runs
      /\ drawn' \in Seq(Nat) /\ Len(drawn') = Len(drawn) /\ DOMAIN drawn' = DOMAIN drawn
      /\ \A j \in DOMAIN drawn : drawn'[j] = IF j = idx THEN drawn[j] + 1 ELSE drawn[j]
  BY <1>1 DEF Merging, Refilling, RunsTypes
<1>. DEFINE run == runs[idx]
            d == drawn[idx]
<1>3. run \in Seq(Lines) /\ Sorted(run) /\ d \in 1..Len(run) /\ d + 1 \in 1..Len(run)
  BY <1>1, <1>2 DEF Merging, Refilling, RunsTypes
<1>4. NotAfter(run[d], run[d + 1]) /\ run[d] \in Lines /\ run[d + 1] \in Lines
  BY <1>3 DEF Sorted
<1>5. \A m \in DOMAIN output : NotAfter(output[m], run[d + 1])
  <2>. SUFFICES ASSUME NEW m \in DOMAIN output PROVE NotAfter(output[m], run[d + 1])
    OBVIOUS
  <2>1. output[m] \in Lines /\ NotAfter(output[m], run[d])
    BY <1>1, ElementOfSeq DEF Merging, Refilling, InHeap
  <2>. QED
    BY <1>4, <2>1, NotAfterOrders
<1>6. \A j \in heap' : drawn'[j] >= 1 /\ \A m \in DOMAIN output' : NotAfter(output'[m], InHeap(j)')
  <2>. SUFFICES ASSUME NEW j \in heap'
                PROVE  drawn'[j] >= 1 /\ \A m \in DOMAIN output' : NotAfter(output'[m], InHeap(j)')
    OBVIOUS
  <2>1. CASE j = idx
    <3>1. drawn'[j] = d + 1 /\ InHeap(j)' = run[d + 1]
      BY <1>1, <1>2, <2>1 DEF InHeap
    <3>. QED
      BY <1>1, <1>3, <1>5, <3>1
  <2>2. CASE j \in heap /\ j # idx
    <3>1. j \in DOMAIN drawn /\ drawn'[j] = drawn[j] /\ InHeap(j)' = InHeap(j)
      BY <1>1, <1>2, <2>2 DEF InHeap, Merging
    <3>. QED
      BY <1>1, <2>2, <3>1 DEF Merging
  <2>. QED
    BY <1>1, <2>1, <2>2
<1>7. \A j \in DOMAIN drawn' : drawn'[j] <= Len(runs[j])
  BY <1>1, <1>2, <1>3 DEF Merging
<1>8. Merging'
  BY <1>1, <1>2, <1>6, <1>7 DEF Merging, InHeap
<1>9. RunsTypes'
  BY <1>1 DEF RunsTypes
<1>. QED
  BY <1>1, <1>8, <1>9 DEF SortInv

LEMMA ReadRunKeeps == ASSUME SortInv, ReadRun PROVE SortInv'
<1>1. /\ stage = "refill" /\ stage' = "refill"
      /\ UNCHANGED <<input, taken, buffer, runs, drawn, heap, idx, output>>
      /\ Merging /\ RunsTypes /\ Refilling /\ Len(runs) > 1
  BY DEF ReadRun, SortInv, reading
<1>2. PICK x : fetched' = [fetched EXCEPT ![idx] = x]
  BY DEF ReadRun
<1>3. PICK S : fetched \in Seq(S)
  BY <1>1 DEF Merging
<1>4. fetched' \in Seq(S \cup {x}) /\ Len(fetched') = Len(fetched)
  <2>1. fetched \in Seq(S \cup {x}) /\ DOMAIN fetched = DOMAIN drawn
    BY <1>1, <1>3, SeqMonotonic DEF Merging
  <2>. QED
    BY <1>1, <1>2, <2>1, ExceptSeq DEF Refilling
<1>5. Merging' /\ Refilling' /\ RunsTypes'
  BY <1>1, <1>4 DEF Merging, Refilling, RunsTypes, InHeap
<1>. QED
  BY <1>1, <1>5 DEF SortInv

-----------------------------------------------------------------------------
LEMMA SortStep == SortInv /\ [SortNext]_sortVars => SortInv'
<1>. SUFFICES ASSUME SortInv, [SortNext]_sortVars PROVE SortInv'
  OBVIOUS
<1>1. CASE OpenInputFails \/ ReadInput \/ InputEnds
  BY <1>1, ReadKeeps
<1>2. CASE TakeLine
  BY <1>2, TakeKeeps
<1>3. CASE WriteRest
  BY <1>3, WriteRestKeeps
<1>4. CASE OpenCopy \/ CopyRunBlock \/ RunCopied
  BY <1>4, CopyRunKeeps
<1>5. CASE OpenRun
  BY <1>5, OpenRunKeeps
<1>6. CASE Pop
  BY <1>6, PopKeeps
<1>7. CASE Push
  BY <1>7, PushKeeps
<1>8. CASE ReadRun
  BY <1>8, ReadRunKeeps
<1>9. CASE \/ WriteChunkFails \/ NoRuns \/ OpenOutput \/ OpenFails \/ MergeEnds \/ RunEnds
           \/ UNCHANGED sortVars
  <2>1. /\ UNCHANGED <<input, taken, buffer, runs, merging>>
        /\ \/ stage' \in {"done", "failed", stage}
           \/ stage = "merge" /\ stage' = "pop" /\ Len(runs) > 1
           \/ stage = "refill" /\ stage' = "pop"
    BY <1>9 DEF WriteChunkFails, NoRuns, OpenOutput, OpenFails, MergeEnds, RunEnds, Noticed,
                reading, sortVars
  <2>. QED
    BY <2>1, QuietKeeps
<1>. QED
  BY <1>1, <1>2, <1>3, <1>4, <1>5, <1>6, <1>7, <1>8, <1>9 DEF SortNext

\* Every reachable state has runs that are sorted, and a merge that has written
\* nothing that comes after a line that is still to be written.
\* (external_sort.cpp:128-177)
THEOREM SortInvariant == SortSpec => []SortInv
<1>. QED
  BY SortedInit, SortStep, PTL DEF SortSpec

\* For every input, memory limit and block size, and whatever calls fail: the lines
\* that the merge has written are in order, at every moment.
\* (external_sort.cpp:155-177)
THEOREM MergeWritesInOrder == SortSpec => []OutputSorted
<1>1. SortInv => OutputSorted
  BY DEF SortInv, Merging, OutputSorted
<1>. QED
  BY <1>1, SortInvariant, PTL

-----------------------------------------------------------------------------
\* Bytes.
Sizes(lines) == [i \in DOMAIN lines |-> Size(lines[i])]

LEMMA SizesAre ==
  ASSUME NEW lines \in Seq(Lines)
  PROVE  /\ DOMAIN lines = 1..Len(lines) /\ Len(lines) \in Nat
         /\ \A i \in 1..Len(lines) : Sizes(lines)[i] = Size(lines[i]) /\ Size(lines[i]) \in Nat \ {0}
<1>1. DOMAIN lines = 1..Len(lines) /\ Len(lines) \in Nat
  BY LenProperties
<1>2. ASSUME NEW i \in 1..Len(lines) PROVE Size(lines[i]) \in Nat \ {0}
  <2>1. lines[i] \in Lines
    BY <1>1, ElementOfSeq
  <2>. QED
    BY <2>1 DEF Lines, Size
<1>. QED
  BY <1>1, <1>2 DEF Sizes

LEMMA BytesGrow ==
  ASSUME NEW lines \in Seq(Lines)
  PROVE  /\ BytesTo(lines, 0) = 0
         /\ \A n \in 0..(Len(lines) - 1) :
              BytesTo(lines, n + 1) = Size(lines[n + 1]) + BytesTo(lines, n)
         /\ \A n \in 0..Len(lines) : BytesTo(lines, n) \in Nat
<1>. DEFINE N == Len(lines)
<1>1. /\ DOMAIN lines = 1..N /\ N \in Nat
      /\ \A i \in 1..N : Sizes(lines)[i] = Size(lines[i]) /\ Size(lines[i]) \in Nat \ {0}
  BY SizesAre
<1>2. \A n : BytesTo(lines, n) = SumFunctionOnSet(Sizes(lines), 1..n)
  BY DEF BytesTo, Sizes
<1>3. \A n \in 0..N : Weights(Sizes(lines), 1..n)
  BY <1>1 DEF Weights
<1>. HIDE DEF N
<1>4. BytesTo(lines, 0) = 0
  <2>1. 1..0 = {} /\ Weights(Sizes(lines), {}) /\ IsFiniteSet({})
    BY FS_EmptySet DEF Weights
  <2>. QED
    BY <1>2, <2>1, SumType
<1>5. ASSUME NEW n \in 0..(N - 1)
      PROVE  BytesTo(lines, n + 1) = Size(lines[n + 1]) + BytesTo(lines, n)
  <2>1. 1..(n + 1) = (1..n) \cup {n + 1} /\ n + 1 \notin 1..n /\ n + 1 \in 0..N /\ n + 1 \in 1..N
    BY <1>1
  <2>2. IsFiniteSet(1..n)
    BY FS_Interval
  <2>4. Weights(Sizes(lines), (1..n) \cup {n + 1})
    <3>1. Weights(Sizes(lines), 1..(n + 1))
      BY <1>3, <2>1
    <3>. QED
      BY <2>1, <3>1
  <2>3. SumFunctionOnSet(Sizes(lines), (1..n) \cup {n + 1})
          = Sizes(lines)[n + 1] + SumFunctionOnSet(Sizes(lines), 1..n)
    BY <2>1, <2>2, <2>4, SumAdds, Zenon
  <2>. QED
    BY <1>1, <1>2, <2>1, <2>3
<1>6. \A n \in 0..N : BytesTo(lines, n) \in Nat
  <2>. DEFINE P == {n \in Nat : n <= N => BytesTo(lines, n) \in Nat}
  <2>1. 0 \in P
    BY <1>4
  <2>2. ASSUME NEW n \in Nat, n \in P PROVE n + 1 \in P
    <3>. SUFFICES ASSUME n + 1 <= N PROVE BytesTo(lines, n + 1) \in Nat
      OBVIOUS
    <3>1. n \in 0..(N - 1) /\ n + 1 \in 1..N /\ BytesTo(lines, n) \in Nat
      BY <1>1, <2>2
    <3>. QED
      BY <1>1, <1>5, <3>1
  <2>3. \A n \in Nat : n \in P
    <3>. HIDE DEF P
    <3>. QED
      BY <2>1, <2>2, Induction
  <2>. QED
    BY <1>1, <2>3
<1>. QED
  BY <1>4, <1>5, <1>6 DEF N

\* Every line takes a byte at least.
LEMMA BytesBefore ==
  ASSUME NEW lines \in Seq(Lines), NEW m \in 0..Len(lines), NEW n \in 0..Len(lines), m < n
  PROVE  BytesTo(lines, m) < BytesTo(lines, n)
<1>. DEFINE N == Len(lines)
            P == {k \in Nat : m + k + 1 <= N => BytesTo(lines, m) < BytesTo(lines, m + k + 1)}
<1>1. N \in Nat /\ m \in Nat /\ n \in Nat
  BY LenProperties
<1>2. ASSUME NEW k \in 0..(N - 1)
      PROVE  /\ BytesTo(lines, k) \in Nat /\ BytesTo(lines, k + 1) \in Nat
             /\ BytesTo(lines, k) < BytesTo(lines, k + 1)
  <2>1. k \in 0..N /\ k + 1 \in 0..N /\ k + 1 \in 1..N
    BY <1>1
  <2>2. Size(lines[k + 1]) \in Nat \ {0} /\ BytesTo(lines, k) \in Nat
        /\ BytesTo(lines, k + 1) = Size(lines[k + 1]) + BytesTo(lines, k)
    BY <2>1, SizesAre, BytesGrow
  <2>. QED
    BY <2>2
<1>. HIDE DEF N
<1>3. 0 \in P
  <2>. SUFFICES ASSUME m + 0 + 1 <= N PROVE BytesTo(lines, m) < BytesTo(lines, m + 0 + 1)
    OBVIOUS
  <2>1. m \in 0..(N - 1) /\ m + 0 + 1 = m + 1
    BY <1>1
  <2>. QED
    BY <1>2, <2>1
<1>4. ASSUME NEW k \in Nat, k \in P PROVE k + 1 \in P
  <2>. SUFFICES ASSUME m + (k + 1) + 1 <= N
       PROVE  BytesTo(lines, m) < BytesTo(lines, m + (k + 1) + 1)
    OBVIOUS
  <2>. DEFINE x == m + k + 1
  <2>1. m \in 0..(N - 1) /\ x \in 0..(N - 1) /\ m + (k + 1) + 1 = x + 1 /\ m + k + 1 <= N
    BY <1>1
  <2>2. BytesTo(lines, m) < BytesTo(lines, x)
    BY <1>4, <2>1
  <2>. HIDE DEF x
  <2>3. BytesTo(lines, x) < BytesTo(lines, x + 1) /\ BytesTo(lines, x) \in Nat
        /\ BytesTo(lines, x + 1) \in Nat /\ BytesTo(lines, m) \in Nat
    BY <1>2, <2>1
  <2>4. BytesTo(lines, m) < BytesTo(lines, x + 1)
    BY <2>2, <2>3
  <2>. QED
    BY <2>1, <2>4
<1>5. \A k \in Nat : k \in P
  <2>. HIDE DEF P
  <2>. QED
    BY <1>3, <1>4, Induction
<1>6. (n - m) - 1 \in Nat /\ m + ((n - m) - 1) + 1 = n /\ n <= N
  BY <1>1 DEF N
<1>. QED
  BY <1>5, <1>6

\* What a line adds.
LEMMA BytesAppended ==
  ASSUME NEW lines \in Seq(Lines), NEW l \in Lines
  PROVE  /\ Bytes(lines) \in Nat /\ Size(l) \in Nat
         /\ Bytes(Append(lines, l)) = Size(l) + Bytes(lines)
<1>. DEFINE more == Append(lines, l)
            N == Len(lines)
<1>1. /\ more \in Seq(Lines) /\ Len(more) = N + 1 /\ more[N + 1] = l /\ N \in Nat
      /\ \A i \in 1..N : more[i] = lines[i]
  BY AppendProperties, LenProperties
<1>. HIDE DEF more
<1>2. Bytes(more) = Size(l) + BytesTo(more, N)
  BY <1>1, BytesGrow DEF Bytes
<1>3. BytesTo(more, N) = BytesTo(lines, N)
  <2>1. \A i \in 1..N : Sizes(more)[i] = Sizes(lines)[i]
    <3>. SUFFICES ASSUME NEW i \in 1..N PROVE Sizes(more)[i] = Sizes(lines)[i]
      OBVIOUS
    <3>1. i \in 1..Len(more)
      BY <1>1
    <3>. QED
      BY <1>1, <3>1, SizesAre
  <2>2. IsFiniteSet(1..N)
    BY <1>1, FS_Interval
  <2>4. Weights(Sizes(more), 1..N)
    <3>1. \A i \in 1..Len(more) : Sizes(more)[i] \in Nat
      BY <1>1, SizesAre
    <3>2. \A i \in 1..N : i \in 1..Len(more)
      BY <1>1
    <3>. QED
      BY <3>1, <3>2 DEF Weights
  <2>. HIDE DEF N
  <2>3. SumFunctionOnSet(Sizes(more), 1..N) = SumFunctionOnSet(Sizes(lines), 1..N)
    BY <2>1, <2>2, <2>4, SumSame
  <2>. QED
    BY <2>3 DEF BytesTo, Sizes
<1>4. Bytes(lines) \in Nat /\ Size(l) \in Nat
  <2>1. N \in 0..N
    BY <1>1
  <2>2. BytesTo(lines, N) \in Nat
    BY <2>1, BytesGrow
  <2>3. Size(l) \in Nat
    BY DEF Size, Lines
  <2>. QED
    BY <2>2, <2>3 DEF Bytes
<1>. QED
  BY <1>2, <1>3, <1>4 DEF more, Bytes

-----------------------------------------------------------------------------
\* Types, and what the copy of a single run needs for them.
SortTypes ==
  /\ SortTypeOK
  /\ stage = "merge" /\ Len(runs) <= 1 => NothingMerged
  /\ stage = "copy" => Len(fetched) = 1

LEMMA MinOfTwo ==
  ASSUME NEW a \in Int, NEW b \in Int
  PROVE  Min({a, b}) = IF a <= b THEN a ELSE b
<1>. DEFINE m == IF a <= b THEN a ELSE b
<1>1. m \in {a, b} /\ \A y \in {a, b} : m <= y
  OBVIOUS
<1>2. \A x \in {a, b} : (\A y \in {a, b} : x <= y) => x = m
  OBVIOUS
<1>. HIDE DEF m
<1>3. Min({a, b}) = m
  BY <1>1, <1>2 DEF Min
<1>. QED
  BY <1>3 DEF m

LEMMA SortTypesInit == SortInit => SortTypes
<1>. SUFFICES ASSUME SortInit PROVE SortTypes
  OBVIOUS
<1>1. input \in Seq(Nat \X Nat) /\ Len(input) \in Nat
  BY FilesAssumption, LenProperties DEF SortInit
<1>2. terminated \in BOOLEAN /\ unnoticed \in BOOLEAN
  BY Zenon DEF SortInit
<1>3. << >> \in Seq(Nat) /\ << >> \in Seq(Nat \X Nat) /\ << >> \in Seq(Seq(Nat \X Nat))
      /\ Len(<< >>) = 0
  OBVIOUS
<1>4. SortTypeOK
  BY <1>1, <1>2, <1>3 DEF SortInit, SortTypeOK
<1>. QED
  BY <1>4 DEF SortInit, SortTypes

\* The counts of what has failed keep their types.
LEMMA TroublesTypes ==
  ASSUME SortTypes, UNCHANGED troubles \/ (Fails /\ UNCHANGED unnoticed) \/ Ignored
  PROVE  faults' \in Nat /\ unnoticed' \in BOOLEAN
<1>1. faults' \in Nat
  BY DEF SortTypes, SortTypeOK, troubles, Fails, Ignored
<1>2. unnoticed \in BOOLEAN
  BY DEF SortTypes, SortTypeOK
<1>3. unnoticed' = TRUE \/ unnoticed' = unnoticed
  BY Zenon DEF troubles, Ignored
<1>4. unnoticed' \in BOOLEAN
  BY <1>2, <1>3, Zenon
<1>. QED
  BY <1>1, <1>4

LEMMA FileBytesType == ASSUME SortTypes PROVE FileBytes \in Int
<1>1. input \in Seq(Lines)
  BY DEF SortTypes, SortTypeOK, Lines
<1>2. Bytes(input) \in Nat
  <2>1. Len(input) \in 0..Len(input)
    BY <1>1, LenProperties
  <2>. QED
    BY <1>1, <2>1, BytesGrow DEF Bytes
<1>. QED
  BY <1>2 DEF FileBytes

LEMMA RunBytesType ==
  ASSUME runs \in Seq(Seq(Lines)), NEW i \in DOMAIN runs
  PROVE  Bytes(runs[i]) \in Nat
<1>1. runs[i] \in Seq(Lines)
  BY ElementOfSeq
<1>2. Len(runs[i]) \in 0..Len(runs[i])
  BY <1>1, LenProperties
<1>. QED
  BY <1>1, <1>2, BytesGrow DEF Bytes

\* A step that leaves the merge alone.
LEMMA ReadingTypes ==
  ASSUME SortInv, SortTypes,
         OpenInputFails \/ ReadInput \/ InputEnds \/ TakeLine \/ WriteRest \/ WriteChunkFails
  PROVE  SortTypes'
<1>1. NothingMerged /\ SortInv'
  <2>1. stage \in {"runs", "rest"}
    BY DEF OpenInputFails, ReadInput, InputEnds, TakeLine, WriteRest, WriteChunkFails
  <2>2. [SortNext]_sortVars
    BY DEF SortNext
  <2>. QED
    BY <2>1, <2>2, SortStep DEF SortInv
<1>2. /\ NothingMerged' /\ idx' = idx /\ UNCHANGED <<input, terminated>>
      /\ stage' \in {"runs", "rest", "merge", "failed"}
  BY <1>1 DEF OpenInputFails, ReadInput, InputEnds, TakeLine, WriteRest, WriteChunkFails, Noticed,
              Ignored, Fails, NothingMerged, reading, merging
<1>3. idx' = 0 /\ input' \in Seq(Nat \X Nat) /\ terminated' \in BOOLEAN
  BY <1>1, <1>2 DEF SortTypes, SortTypeOK, NothingMerged
<1>4. buffer' \in Seq(Nat \X Nat) /\ runs' \in Seq(Seq(Nat \X Nat))
  BY <1>1 DEF SortInv, RunsTypes, Lines
<1>5. faults' \in Nat /\ unnoticed' \in BOOLEAN
  <2>1. UNCHANGED troubles \/ (Fails /\ UNCHANGED unnoticed) \/ Ignored
    BY DEF OpenInputFails, ReadInput, InputEnds, TakeLine, WriteRest, WriteChunkFails, Noticed
  <2>. QED
    BY <2>1, TroublesTypes
<1>6. got' \in Nat
  <2>1. CASE ReadInput
    <3>1. got \in Nat /\ got + BlockSize \in Nat
      BY FilesAssumption DEF SortTypes, SortTypeOK
    <3>2. got' = Min({got + BlockSize, FileBytes}) /\ got < FileBytes /\ FileBytes \in Int
      BY <2>1, FileBytesType DEF ReadInput
    <3>. QED
      BY <3>1, <3>2, MinOfTwo
  <2>2. CASE UNCHANGED got
    BY <2>2 DEF SortTypes, SortTypeOK
  <2>. QED
    BY <2>1, <2>2 DEF OpenInputFails, InputEnds, TakeLine, WriteRest, WriteChunkFails, Noticed,
                      reading
<1>7. taken' \in 0..Len(input')
  <2>1. CASE TakeLine
    BY <1>2, <2>1 DEF TakeLine, LineReady, SortTypes, SortTypeOK
  <2>2. CASE UNCHANGED taken
    BY <1>2, <2>2 DEF SortTypes, SortTypeOK
  <2>. QED
    BY <2>1, <2>2 DEF OpenInputFails, ReadInput, InputEnds, WriteRest, WriteChunkFails, Noticed,
                      reading
<1>8. Len(runs') \in Nat
  BY <1>4, LenProperties
<1>9. SortTypeOK'
  BY <1>2, <1>3, <1>4, <1>5, <1>6, <1>7, <1>8 DEF SortTypeOK, NothingMerged
<1>. QED
  BY <1>2, <1>9 DEF SortTypes

LEMMA CopyingTypes ==
  ASSUME SortInv, SortTypes, NoRuns \/ OpenCopy \/ CopyRunBlock \/ RunCopied
  PROVE  SortTypes'
<1>1. /\ Len(runs) <= 1 /\ UNCHANGED <<input, terminated, got, taken, buffer, runs, heap, idx>>
      /\ stage' \in {"copy", "done"}
  <2>1. CASE NoRuns
    BY <2>1 DEF NoRuns, reading, merging
  <2>2. CASE OpenCopy
    BY <2>2 DEF OpenCopy, reading
  <2>3. CASE CopyRunBlock
    <3>1. stage = "copy" /\ stage' = "copy" /\ UNCHANGED <<reading, runs, heap, idx>>
      BY <2>3, Zenon DEF CopyRunBlock
    <3>. QED
      BY <3>1 DEF reading, SortInv
  <2>4. CASE RunCopied
    BY <2>4 DEF RunCopied, reading, merging, SortInv
  <2>. QED
    BY <2>1, <2>2, <2>3, <2>4
<1>2. faults' \in Nat /\ unnoticed' \in BOOLEAN
  <2>1. UNCHANGED troubles \/ (Fails /\ UNCHANGED unnoticed) \/ Ignored
    BY DEF NoRuns, OpenCopy, CopyRunBlock, RunCopied
  <2>. QED
    BY <2>1, TroublesTypes
<1>3. CASE NoRuns \/ RunCopied
  <2>1. UNCHANGED <<fetched, drawn, output>> /\ stage' = "done"
    BY <1>3 DEF NoRuns, RunCopied, merging
  <2>. QED
    BY <1>1, <1>2, <2>1 DEF SortTypes, SortTypeOK
<1>4. CASE OpenCopy
  <2>1. /\ fetched' = <<0>> /\ drawn' = <<0>> /\ UNCHANGED output /\ NothingMerged /\ Len(runs) = 1
    BY <1>1, <1>4 DEF OpenCopy, SortTypes
  <2>2. heap' = {} /\ idx' = 0
    BY <1>1, <2>1 DEF NothingMerged, SortTypes, SortTypeOK
  <2>. QED
    BY <1>1, <1>2, <2>1, <2>2 DEF SortTypes, SortTypeOK
<1>5. CASE CopyRunBlock
  <2>1. stage = "copy" /\ Len(fetched) = 1 /\ Len(drawn) = 1 /\ Len(runs) = 1
    BY <1>5 DEF CopyRunBlock, SortTypes, SortTypeOK, SortInv
  <2>2. /\ fetched[1] \in Nat /\ drawn[1] \in Nat /\ runs \in Seq(Seq(Lines)) /\ 1 \in DOMAIN runs
        /\ runs[1] \in Seq(Lines) /\ output \in Seq(Lines) /\ Len(runs[1]) \in Nat
        /\ DOMAIN drawn = {1}
    <3>1. fetched \in Seq(Nat) /\ drawn \in Seq(Nat) /\ runs \in Seq(Seq(Lines)) /\ output \in Seq(Lines)
      BY DEF SortTypes, SortTypeOK, Lines
    <3>2. 1 \in DOMAIN fetched /\ DOMAIN drawn = {1} /\ 1 \in DOMAIN runs
      BY <2>1, <3>1
    <3>3. fetched[1] \in Nat
      BY <3>1, <3>2
    <3>4. drawn[1] \in Nat
      <4>1. 1 \in 1..Len(drawn)
        BY <2>1
      <4>. QED
        BY <3>1, <4>1, ElementOfSeq
    <3>5. runs[1] \in Seq(Lines)
      BY <3>1, <3>2
    <3>. QED
      BY <3>1, <3>2, <3>3, <3>4, <3>5, LenProperties
  <2>3. Bytes(runs[1]) \in Nat /\ fetched[1] + BlockSize \in Nat
    BY <2>2, RunBytesType, FilesAssumption
  <2>. DEFINE end == Min({fetched[1] + BlockSize, Bytes(runs[1])})
  <2>4. end \in Nat
    BY <2>3, MinOfTwo
  <2>. HIDE DEF end
  <2>5. PICK n \in drawn[1]..Len(runs[1]) :
          /\ fetched' = <<end>> /\ drawn' = <<n>>
          /\ output' = output \o SubSeq(runs[1], drawn[1] + 1, n) \/ output' = output
    BY <1>5 DEF CopyRunBlock, end
  <2>6. n \in Nat /\ SubSeq(runs[1], drawn[1] + 1, n) \in Seq(Lines)
    <3>1. n \in Nat /\ n <= Len(runs[1]) /\ drawn[1] + 1 \in 1..(Len(runs[1]) + 1)
      BY <2>2
    <3>2. \A i \in (drawn[1] + 1)..n : runs[1][i] \in Lines
      <4>. SUFFICES ASSUME NEW i \in (drawn[1] + 1)..n PROVE runs[1][i] \in Lines
        OBVIOUS
      <4>1. i \in 1..Len(runs[1])
        BY <2>2, <3>1
      <4>. QED
        BY <2>2, <4>1, ElementOfSeq
    <3>. QED
      BY <2>2, <3>1, <3>2, SubSeqProperties
  <2>7. output' \in Seq(Lines)
    <3>1. output \o SubSeq(runs[1], drawn[1] + 1, n) \in Seq(Lines)
      BY <2>2, <2>6, ConcatProperties
    <3>. QED
      BY <2>2, <2>5, <3>1, Zenon
  <2>8. fetched' \in Seq(Nat) /\ drawn' \in Seq(Nat) /\ Len(drawn') = 1 /\ Len(fetched') = 1
        /\ DOMAIN drawn' = {1}
    BY <2>4, <2>5, <2>6
  <2>. QED
    BY <1>1, <1>2, <2>1, <2>2, <2>7, <2>8 DEF SortTypes, SortTypeOK, Lines
<1>. QED
  BY <1>3, <1>4, <1>5

LEMMA MergingTypes ==
  ASSUME SortInv, SortTypes, SortInv',
         \/ OpenRun \/ OpenOutput \/ OpenFails \/ Pop \/ MergeEnds \/ Push \/ ReadRun \/ RunEnds
  PROVE  SortTypes'
<1>1. /\ UNCHANGED <<input, terminated, got, taken, buffer, runs>>
      /\ stage' \in {"merge", "failed", "pop", "refill", "done"}
  BY DEF OpenRun, OpenOutput, OpenFails, Pop, MergeEnds, Push, ReadRun, RunEnds, Noticed, reading,
         merging
<1>2. faults' \in Nat /\ unnoticed' \in BOOLEAN
  <2>1. UNCHANGED troubles \/ (Fails /\ UNCHANGED unnoticed) \/ Ignored
    BY DEF OpenRun, OpenOutput, OpenFails, Pop, MergeEnds, Push, ReadRun, RunEnds, Noticed
  <2>. QED
    BY <2>1, TroublesTypes
<1>3. runs \in Seq(Seq(Lines)) /\ fetched \in Seq(Nat) /\ drawn \in Seq(Nat)
      /\ Len(drawn) = Len(fetched) /\ output \in Seq(Lines)
      /\ Len(fetched) \in Nat /\ Len(runs) \in Nat
  BY LenProperties DEF SortTypes, SortTypeOK, Lines
<1>4. CASE OpenFails
  <2>1. UNCHANGED <<fetched, drawn, heap, idx, output>> /\ stage' = "failed"
    BY <1>4 DEF OpenFails, Noticed, merging
  <2>. QED
    BY <1>1, <1>2, <2>1 DEF SortTypes, SortTypeOK
<1>5. CASE ~OpenFails
  <2>1. Len(runs) > 1
    BY <1>5 DEF OpenRun, OpenOutput, Pop, MergeEnds, Push, ReadRun, RunEnds, SortInv
  <2>2. /\ Len(fetched') = Len(drawn') /\ Len(drawn') <= Len(runs')
        /\ drawn' \in Seq(Nat) /\ output' \in Seq(Lines) /\ heap' \subseteq DOMAIN drawn'
    <3>1. Merging'
      BY <1>1, <2>1 DEF SortInv
    <3>. QED
      BY <3>1 DEF Merging
  <2>3. fetched' \in Seq(Nat)
    <3>1. CASE OpenRun
      <4>. DEFINE i == Len(fetched) + 1
      <4>1. fetched' = Append(fetched, Min({BlockSize, Bytes(runs[i])})) \/ fetched' = Append(fetched, 0)
        BY <3>1 DEF OpenRun
      <4>2. i \in DOMAIN runs
        BY <1>3, <3>1 DEF OpenRun
      <4>3. Min({BlockSize, Bytes(runs[i])}) \in Nat
        <5>1. Bytes(runs[i]) \in Nat /\ BlockSize \in Nat
          BY <1>3, <4>2, RunBytesType, FilesAssumption
        <5>. HIDE DEF i
        <5>. QED
          BY <5>1, MinOfTwo
      <4>4. PICK x \in Nat : fetched' = Append(fetched, x)
        BY <4>1, <4>3, Zenon
      <4>. QED
        BY <1>3, <4>4, AppendProperties
    <3>2. CASE ReadRun
      <4>1. stage = "refill" /\ fetched' = [fetched EXCEPT ![idx] = Min({@ + BlockSize, Bytes(runs[idx])})]
        BY <3>2 DEF ReadRun
      <4>2. idx \in DOMAIN drawn
        BY <4>1 DEF SortInv, Refilling
      <4>3. idx \in 1..Len(fetched) /\ idx \in DOMAIN runs
        BY <1>3, <4>2 DEF SortTypes, SortTypeOK
      <4>4. fetched[idx] \in Nat /\ Bytes(runs[idx]) \in Nat
        BY <1>3, <4>3, ElementOfSeq, RunBytesType
      <4>. DEFINE end == Min({fetched[idx] + BlockSize, Bytes(runs[idx])})
      <4>5. end \in Nat
        <5>1. fetched[idx] + BlockSize \in Nat
          BY <4>4, FilesAssumption
        <5>. QED
          BY <4>4, <5>1, MinOfTwo
      <4>6. fetched' = [fetched EXCEPT ![idx] = end]
        BY <4>1
      <4>. HIDE DEF end
      <4>. QED
        BY <1>3, <4>3, <4>5, <4>6
    <3>3. CASE UNCHANGED fetched
      BY <1>3, <3>3
    <3>. QED
      BY <1>5, <3>1, <3>2, <3>3 DEF OpenOutput, Pop, MergeEnds, Push, RunEnds, merging
  <2>4. idx' \in {0} \cup DOMAIN drawn'
    <3>1. CASE Pop
      <4>1. idx' \in heap /\ drawn' = drawn
        BY <3>1 DEF Pop
      <4>. QED
        BY <4>1 DEF SortTypes, SortTypeOK
    <3>2. CASE idx' = idx /\ Len(drawn) <= Len(drawn')
      <4>1. idx \in {0} \cup 1..Len(drawn)
        BY <1>3 DEF SortTypes, SortTypeOK
      <4>2. DOMAIN drawn' = 1..Len(drawn') /\ Len(drawn') \in Nat
        BY <2>2, LenProperties
      <4>. QED
        BY <1>3, <3>2, <4>1, <4>2
    <3>3. Pop \/ (idx' = idx /\ Len(drawn) <= Len(drawn'))
      <4>1. CASE OpenRun
        <5>1. idx' = idx /\ Len(drawn') = Len(drawn) + 1
          BY <1>3, <4>1, AppendProperties DEF OpenRun
        <5>. QED
          BY <1>3, <5>1
      <4>2. CASE Push
        <5>1. idx' = idx /\ Len(drawn') = Len(drawn)
          BY <1>3, <4>2 DEF Push
        <5>. QED
          BY <1>3, <5>1
      <4>3. CASE UNCHANGED <<drawn, idx>>
        BY <1>3, <4>3
      <4>. QED
        BY <1>5, <4>1, <4>2, <4>3 DEF OpenOutput, MergeEnds, ReadRun, RunEnds, merging
    <3>. QED
      BY <3>1, <3>2, <3>3
  <2>5. SortTypeOK'
    BY <1>1, <1>2, <2>2, <2>3, <2>4 DEF SortTypes, SortTypeOK, Lines
  <2>. QED
    BY <1>1, <1>3, <2>1, <2>5 DEF SortTypes
<1>. QED
  BY <1>4, <1>5

LEMMA SortTypesStep == SortInv /\ SortTypes /\ [SortNext]_sortVars => SortTypes'
<1>. SUFFICES ASSUME SortInv, SortTypes, [SortNext]_sortVars PROVE SortTypes'
  OBVIOUS
<1>1. SortInv'
  BY SortStep
<1>2. CASE UNCHANGED sortVars
  BY <1>2 DEF SortTypes, SortTypeOK, NothingMerged, sortVars, reading, merging, troubles
<1>3. CASE SortNext
  BY <1>1, <1>3, ReadingTypes, CopyingTypes, MergingTypes DEF SortNext
<1>. QED
  BY <1>2, <1>3

\* The variables of the sort have their types, for every input, limit and block size.
THEOREM SortTypesInvariant == SortSpec => []SortTypeOK
<1>1. SortTypes => SortTypeOK
  BY DEF SortTypes
<1>. QED
  BY <1>1, SortedInit, SortStep, SortTypesInit, SortTypesStep, PTL DEF SortSpec

-----------------------------------------------------------------------------
\* How often a line occurs among the first lines of a file.
OccursTo(l, file, n) == Cardinality({j \in 1..n : file[j] = l})

LEMMA OccursToGrows ==
  ASSUME NEW file, NEW l, NEW n \in Nat
  PROVE  /\ OccursTo(l, file, 0) = 0
         /\ OccursTo(l, file, n) \in Nat
         /\ OccursTo(l, file, n + 1) = OccursTo(l, file, n) + (IF file[n + 1] = l THEN 1 ELSE 0)
<1>. DEFINE Here(k) == {j \in 1..k : file[j] = l}
<1>1. Here(0) = {} /\ Cardinality({}) = 0
  BY FS_EmptySet
<1>2. IsFiniteSet(Here(n))
  <2>1. IsFiniteSet(1..n)
    BY FS_Interval
  <2>. QED
    BY <2>1, FS_Subset
<1>3. Cardinality(Here(n)) \in Nat
  BY <1>2, FS_CardinalityType
<1>4. CASE file[n + 1] = l
  <2>1. Here(n + 1) = Here(n) \cup {n + 1} /\ n + 1 \notin Here(n)
    BY <1>4
  <2>. HIDE DEF Here
  <2>2. Cardinality(Here(n + 1)) = Cardinality(Here(n)) + 1
    BY <1>2, <2>1, FS_AddElement
  <2>. QED
    BY <1>1, <1>3, <1>4, <2>2 DEF OccursTo, Here
<1>5. CASE file[n + 1] # l
  <2>1. Here(n + 1) = Here(n)
    BY <1>5
  <2>2. OccursTo(l, file, n + 1) = OccursTo(l, file, n)
    BY <2>1, Zenon DEF OccursTo
  <2>. QED
    BY <1>1, <1>3, <1>5, <2>2 DEF OccursTo
<1>. QED
  BY <1>4, <1>5

LEMMA OccursInAll ==
  ASSUME NEW file \in Seq(Lines), NEW l
  PROVE  Occurrences(l, file) = OccursTo(l, file, Len(file)) /\ Occurrences(l, file) \in Nat
<1>1. DOMAIN file = 1..Len(file) /\ Len(file) \in Nat
  BY LenProperties
<1>2. Occurrences(l, file) = OccursTo(l, file, Len(file))
  BY <1>1, Zenon DEF Occurrences, OccursTo
<1>. QED
  BY <1>1, <1>2, OccursToGrows

\* A file that goes on after the first n lines of another.
LEMMA OccursLonger ==
  ASSUME NEW file, NEW more, NEW l, NEW n \in Nat, \A i \in 1..n : more[i] = file[i]
  PROVE  OccursTo(l, more, n + 1) = OccursTo(l, file, n) + (IF more[n + 1] = l THEN 1 ELSE 0)
<1>1. OccursTo(l, more, n + 1) = OccursTo(l, more, n) + (IF more[n + 1] = l THEN 1 ELSE 0)
  BY OccursToGrows
<1>2. {j \in 1..n : more[j] = l} = {j \in 1..n : file[j] = l}
  OBVIOUS
<1>. QED
  BY <1>1, <1>2, Zenon DEF OccursTo

LEMMA OccursAppended ==
  ASSUME NEW file \in Seq(Lines), NEW x \in Lines, NEW l
  PROVE  Occurrences(l, Append(file, x)) = Occurrences(l, file) + (IF x = l THEN 1 ELSE 0)
<1>. DEFINE more == Append(file, x)
            N == Len(file)
<1>1. /\ more \in Seq(Lines) /\ Len(more) = N + 1 /\ N \in Nat /\ more[N + 1] = x
      /\ \A i \in 1..N : more[i] = file[i]
  BY AppendProperties, LenProperties
<1>. HIDE DEF more, N
<1>2. Occurrences(l, more) = OccursTo(l, more, N + 1)
  BY <1>1, OccursInAll
<1>3. OccursTo(l, more, N + 1) = OccursTo(l, file, N) + (IF more[N + 1] = l THEN 1 ELSE 0)
  <2>1. N \in Nat /\ \A i \in 1..N : more[i] = file[i]
    BY <1>1
  <2>. QED
    BY <2>1, OccursLonger
<1>4. Occurrences(l, file) = OccursTo(l, file, N)
  BY OccursInAll DEF N
<1>. QED
  BY <1>1, <1>2, <1>3, <1>4 DEF more

LEMMA NoOccurrence ==
  ASSUME NEW file, NEW l, \A i \in DOMAIN file : file[i] # l
  PROVE  Occurrences(l, file) = 0
<1>1. {i \in DOMAIN file : file[i] = l} = {}
  OBVIOUS
<1>. QED
  BY <1>1, FS_EmptySet DEF Occurrences

\* A sum of equal numbers.
LEMMA SumConstant ==
  ASSUME NEW S, IsFiniteSet(S), NEW f, NEW c \in Int, \A x \in S : f[x] = c
  PROVE  SumFunctionOnSet(f, S) = Cardinality(S) * c
<1>. DEFINE P == {T \in SUBSET S : SumFunctionOnSet(f, T) = Cardinality(T) * c}
<1>1. {} \in P
  <2>1. Weights(f, {}) /\ IsFiniteSet({}) /\ Cardinality({}) = 0
    BY FS_EmptySet DEF Weights
  <2>2. SumFunctionOnSet(f, {}) = 0
    BY <2>1, SumType
  <2>. QED
    BY <2>1, <2>2
<1>2. ASSUME NEW T \in SUBSET S, NEW y \in T, T \ {y} \in P PROVE T \in P
  <2>1. IsFiniteSet(T) /\ Weights(f, T) /\ f[y] = c
    BY FS_Subset DEF Weights
  <2>2. SumFunctionOnSet(f, T) = c + SumFunctionOnSet(f, T \ {y})
    BY <2>1, SumRemoves
  <2>3. Cardinality(T \ {y}) = Cardinality(T) - 1 /\ Cardinality(T) \in Nat
    BY <2>1, FS_RemoveElement, FS_CardinalityType
  <2>4. SumFunctionOnSet(f, T \ {y}) = (Cardinality(T) - 1) * c
    BY <1>2, <2>3
  <2>5. \A k \in Nat : c + (k - 1) * c = k * c
    OBVIOUS
  <2>. QED
    BY <2>2, <2>3, <2>4, <2>5
<1>3. S \in P
  <2>. HIDE DEF P
  <2>. QED
    BY <1>1, <1>2, SetInduction
<1>. QED
  BY <1>3

\* Two files with the same lines, each as often in both, have the same bytes.
LEMMA SameLinesSameBytes ==
  ASSUME NEW s \in Seq(Lines), NEW t \in Seq(Lines), SameLines(s, t)
  PROVE  Bytes(s) = Bytes(t)
<1>. DEFINE V == ToSet(s) \cup ToSet(t)
            In(file, T) == {i \in DOMAIN file : file[i] \in T}
            P == {T \in SUBSET V :
                    SumFunctionOnSet(Sizes(s), In(s, T)) = SumFunctionOnSet(Sizes(t), In(t, T))}
<1>1. ASSUME NEW file \in {s, t}
      PROVE  /\ file \in Seq(Lines) /\ IsFiniteSet(DOMAIN file) /\ IsFiniteSet(ToSet(file))
             /\ ToSet(file) \subseteq Lines /\ In(file, V) = DOMAIN file
             /\ DOMAIN file = 1..Len(file)
             /\ \A T : IsFiniteSet(In(file, T)) /\ Weights(Sizes(file), In(file, T))
  <2>1. file \in Seq(Lines) /\ DOMAIN file = 1..Len(file) /\ Len(file) \in Nat
    BY LenProperties
  <2>2. IsFiniteSet(DOMAIN file)
    BY <2>1, FS_Interval
  <2>3. ToSet(file) = {file[i] : i \in DOMAIN file}
    BY DEF ToSet
  <2>4. IsFiniteSet(ToSet(file))
    <3>1. file \in [DOMAIN file -> ToSet(file)]
      BY <2>1, <2>3
    <3>2. file \in Surjection(DOMAIN file, ToSet(file))
      BY <2>3, <3>1 DEF Surjection
    <3>. QED
      BY <2>2, <3>2, FS_Surjection
  <2>5. ToSet(file) \subseteq Lines
    BY <2>1, <2>3, ElementOfSeq
  <2>6. In(file, V) = DOMAIN file
    BY <2>3
  <2>7. ASSUME NEW T PROVE IsFiniteSet(In(file, T)) /\ Weights(Sizes(file), In(file, T))
    <3>1. In(file, T) \subseteq DOMAIN file
      OBVIOUS
    <3>2. IsFiniteSet(In(file, T))
      BY <2>2, <3>1, FS_Subset
    <3>3. \A i \in In(file, T) : Sizes(file)[i] \in Int
      BY <2>1, <3>1, SizesAre
    <3>. QED
      BY <3>2, <3>3 DEF Weights
  <2>. QED
    BY <2>1, <2>2, <2>4, <2>5, <2>6, <2>7
<1>2. {} \in P
  <2>1. \A file \in {s, t} : In(file, {}) = {}
    OBVIOUS
  <2>2. \A file \in {s, t} : SumFunctionOnSet(Sizes(file), In(file, {})) = 0
    <3>. SUFFICES ASSUME NEW file \in {s, t} PROVE SumFunctionOnSet(Sizes(file), In(file, {})) = 0
      OBVIOUS
    <3>1. Weights(Sizes(file), {}) /\ IsFiniteSet({})
      BY FS_EmptySet DEF Weights
    <3>. QED
      BY <2>1, <3>1, SumType
  <2>. QED
    BY <2>2
<1>3. ASSUME NEW T \in SUBSET V, NEW y \in T, T \ {y} \in P PROVE T \in P
  <2>. DEFINE Rest1 == T \ {y}
  <2>1. ASSUME NEW file \in {s, t}
        PROVE  SumFunctionOnSet(Sizes(file), In(file, T))
                 = SumFunctionOnSet(Sizes(file), In(file, Rest1)) + Occurrences(y, file) * Size(y)
    <3>1. /\ In(file, T) = In(file, Rest1) \cup In(file, {y})
          /\ In(file, Rest1) \cap In(file, {y}) = {}
      OBVIOUS
    <3>2. /\ IsFiniteSet(In(file, Rest1)) /\ IsFiniteSet(In(file, {y}))
          /\ Weights(Sizes(file), In(file, T))
      BY <1>1
    <3>3. SumFunctionOnSet(Sizes(file), In(file, T))
            = SumFunctionOnSet(Sizes(file), In(file, Rest1)) + SumFunctionOnSet(Sizes(file), In(file, {y}))
      <4>1. Weights(Sizes(file), In(file, Rest1) \cup In(file, {y}))
        BY <3>1, <3>2, Zenon
      <4>2. SumFunctionOnSet(Sizes(file), In(file, Rest1) \cup In(file, {y}))
              = SumFunctionOnSet(Sizes(file), In(file, Rest1)) + SumFunctionOnSet(Sizes(file), In(file, {y}))
        <5>. HIDE DEF In, Rest1
        <5>. QED
          BY <3>1, <3>2, <4>1, SumDisjoint
      <4>. HIDE DEF In, Rest1
      <4>. QED
        BY <3>1, <4>2, Zenon
    <3>4. Size(y) \in Int /\ \A i \in In(file, {y}) : Sizes(file)[i] = Size(y)
      <4>1. y \in Lines
        BY <1>1
      <4>2. Size(y) \in Int
        BY <4>1 DEF Size, Lines
      <4>. QED
        BY <4>2 DEF Sizes
    <3>5. SumFunctionOnSet(Sizes(file), In(file, {y})) = Cardinality(In(file, {y})) * Size(y)
      <4>. HIDE DEF In
      <4>. QED
        BY <3>2, <3>4, SumConstant
    <3>6. In(file, {y}) = {i \in DOMAIN file : file[i] = y}
      OBVIOUS
    <3>. QED
      BY <3>3, <3>5, <3>6, Zenon DEF Occurrences
  <2>2. Occurrences(y, s) = Occurrences(y, t)
    BY DEF SameLines
  <2>3. SumFunctionOnSet(Sizes(s), In(s, Rest1)) = SumFunctionOnSet(Sizes(t), In(t, Rest1))
    BY <1>3
  <2>4. SumFunctionOnSet(Sizes(s), In(s, T)) = SumFunctionOnSet(Sizes(t), In(t, T))
    <3>. HIDE DEF In, Rest1
    <3>. QED
      BY <2>1, <2>2, <2>3, Zenon
  <2>. QED
    BY <2>4
<1>4. IsFiniteSet(V)
  BY <1>1, FS_Union
<1>5. V \in P
  <2>. HIDE DEF P, V
  <2>. QED
    BY <1>2, <1>3, <1>4, SetInduction
<1>6. SumFunctionOnSet(Sizes(s), DOMAIN s) = SumFunctionOnSet(Sizes(t), DOMAIN t)
  BY <1>1, <1>5
<1>. QED
  BY <1>1, <1>6, Zenon DEF Bytes, BytesTo, Sizes

\* A chunk is written with the lines it has.  (external_sort.cpp:82-100)
LEMMA ChunkWritten ==
  ASSUME NEW chunk \in Seq(Lines), WriteSortedChunk(chunk)
  PROVE  \E sorted \in Seq(Lines) :
           /\ runs' = Append(runs, sorted)
           /\ Len(sorted) = Len(chunk) /\ Bytes(sorted) = Bytes(chunk)
           /\ \A l : Occurrences(l, sorted) = Occurrences(l, chunk)
<1>1. PICK sorted \in [DOMAIN chunk -> ToSet(chunk)] :
        SameLines(sorted, chunk) /\ runs' = Append(runs, sorted)
  BY DEF WriteSortedChunk
<1>2. ToSet(chunk) \subseteq Lines /\ DOMAIN chunk = 1..Len(chunk) /\ Len(chunk) \in Nat
  BY LenProperties DEF ToSet
<1>3. sorted \in [1..Len(chunk) -> Lines]
  BY <1>2
<1>4. sorted \in Seq(Lines) /\ Len(sorted) = Len(chunk)
  BY <1>2, <1>3
<1>5. Bytes(sorted) = Bytes(chunk)
  BY <1>1, <1>4, SameLinesSameBytes
<1>6. ASSUME NEW l PROVE Occurrences(l, sorted) = Occurrences(l, chunk)
  <2>1. CASE l \in ToSet(sorted) \cup ToSet(chunk)
    BY <1>1, <2>1 DEF SameLines
  <2>2. CASE l \notin ToSet(sorted) \cup ToSet(chunk)
    <3>1. (\A i \in DOMAIN sorted : sorted[i] # l) /\ (\A i \in DOMAIN chunk : chunk[i] # l)
      BY <2>2 DEF ToSet
    <3>. QED
      BY <3>1, NoOccurrence
  <2>. QED
    BY <2>1, <2>2
<1>. QED
  BY <1>1, <1>4, <1>5, <1>6

-----------------------------------------------------------------------------
\* Memory.
Small(file) == Len(file) = 1 \/ Bytes(file) <= MaxMemory

\* The buffer keeps within the limit too, and what is collected last is the exception.
MemoryInv ==
  /\ Len(buffer) <= 1 \/ Bytes(buffer) <= MaxMemory
  /\ \A i \in DOMAIN runs :
       \/ Small(runs[i])
       \/ /\ stage \notin {"runs", "rest"}
          /\ i = Len(runs) /\ WithOne(Leftover, runs[i])

\* What is left over depends on what was read and on the lines that were taken.
LEMMA LeftoverSame ==
  ASSUME UNCHANGED <<input, taken, got>>
  PROVE  Leftover' = Leftover
  BY DEF Leftover, BytesTo, Size

LEMMA MemoryInit == SortInit => MemoryInv
  BY DEF SortInit, MemoryInv

LEMMA SmallAdded ==
  ASSUME runs \in Seq(Seq(Lines)), NEW sorted \in Seq(Lines), runs' = Append(runs, sorted),
         \A i \in DOMAIN runs : Small(runs[i])
  PROVE  /\ Len(runs') \in DOMAIN runs' /\ runs'[Len(runs')] = sorted
         /\ \A i \in DOMAIN runs' : i = Len(runs') \/ Small(runs'[i])
<1>1. /\ Len(runs') = Len(runs) + 1 /\ DOMAIN runs' = 1..(Len(runs) + 1) /\ Len(runs) \in Nat
      /\ runs'[Len(runs) + 1] = sorted
      /\ \A i \in 1..Len(runs) : runs'[i] = runs[i]
      /\ DOMAIN runs = 1..Len(runs)
  BY AppendProperties, LenProperties
<1>2. \A i \in DOMAIN runs' : i = Len(runs') \/ (i \in DOMAIN runs /\ runs'[i] = runs[i])
  BY <1>1
<1>3. Len(runs') \in DOMAIN runs' /\ runs'[Len(runs')] = sorted
  BY <1>1
<1>. QED
  BY <1>2, <1>3, Zenon

LEMMA MemoryTake == ASSUME SortInv, SortTypes, MemoryInv, TakeLine PROVE MemoryInv'
<1>. DEFINE line == input[taken + 1]
<1>1. stage = "runs" /\ stage' = "runs" /\ taken + 1 \in DOMAIN input
  BY DEF TakeLine, LineReady, SortInv, RunsTypes
<1>2. line \in Lines /\ buffer \in Seq(Lines) /\ runs \in Seq(Seq(Lines))
  BY <1>1, ElementOfSeq DEF SortInv, RunsTypes
<1>3. \A i \in DOMAIN runs : Small(runs[i])
  BY <1>1 DEF MemoryInv
<1>4. CASE Fits(line) /\ buffer' = Append(buffer, line) /\ UNCHANGED runs
  <2>1. Len(buffer') <= 1 \/ Bytes(buffer') <= MaxMemory
    <3>1. CASE buffer = << >>
      BY <1>2, <1>4, <3>1
    <3>2. CASE Bytes(buffer) + Size(line) <= MaxMemory
      <4>1. Bytes(buffer') = Size(line) + Bytes(buffer) /\ Bytes(buffer) \in Nat /\ Size(line) \in Nat
        BY <1>2, <1>4, BytesAppended
      <4>. QED
        BY <3>2, <4>1
    <3>. QED
      BY <1>4, <3>1, <3>2 DEF Fits
  <2>2. \A i \in DOMAIN runs' : Small(runs'[i])
    BY <1>3, <1>4
  <2>. QED
    BY <2>1, <2>2, Zenon DEF MemoryInv, Small
<1>5. CASE ~Fits(line) /\ WriteSortedChunk(buffer) /\ buffer' = <<line>>
  <2>1. PICK sorted \in Seq(Lines) : /\ runs' = Append(runs, sorted)
                                     /\ Len(sorted) = Len(buffer) /\ Bytes(sorted) = Bytes(buffer)
    BY <1>2, <1>5, ChunkWritten
  <2>2. buffer # << >> /\ Len(buffer) \in Nat
    BY <1>2, <1>5, LenProperties DEF Fits
  <2>3. Len(buffer) = 1 \/ Bytes(buffer) <= MaxMemory
    <3>1. Len(buffer) # 0
      BY <1>2, <2>2, EmptySeq
    <3>2. Len(buffer) <= 1 => Len(buffer) = 1
      <4>1. \A n \in Nat : n # 0 /\ n <= 1 => n = 1
        OBVIOUS
      <4>. QED
        BY <2>2, <3>1, <4>1, Zenon
    <3>. QED
      BY <3>2, Zenon DEF MemoryInv
  <2>4. Small(sorted)
    BY <2>1, <2>3 DEF Small
  <2>5. \A i \in DOMAIN runs' : Small(runs'[i])
    BY <1>2, <1>3, <2>1, <2>4, SmallAdded, Zenon
  <2>6. Len(buffer') <= 1
    BY <1>5
  <2>. QED
    BY <2>5, <2>6, Zenon DEF MemoryInv
<1>. QED
  BY <1>4, <1>5 DEF TakeLine

LEMMA MemoryRest == ASSUME SortInv, SortTypes, MemoryInv, WriteRest PROVE MemoryInv'
<1>1. /\ stage = "rest" /\ stage' = "merge" /\ buffer' = << >> /\ UNCHANGED <<input, taken, got>>
  BY DEF WriteRest
<1>2. /\ buffer \in Seq(Lines) /\ runs \in Seq(Seq(Lines)) /\ input \in Seq(Lines)
      /\ taken \in 0..Len(input) /\ got \in Nat
  BY DEF SortTypes, SortTypeOK, Lines
<1>3. \A i \in DOMAIN runs : Small(runs[i])
  BY <1>1 DEF MemoryInv
<1>4. Len(buffer') <= 1
  BY <1>1
<1>5. PICK rest \in Rest : IF rest = << >> THEN UNCHANGED runs ELSE WriteSortedChunk(rest)
  BY DEF WriteRest
<1>6. rest \in Seq(Lines)
  BY RestTyped DEF SortInv
<1>7. rest = << >> \/ Small(rest) \/ WithOne(Leftover, rest)
  <2>1. CASE Leftover = {}
    <3>1. rest = buffer /\ Len(buffer) \in Nat
      BY <1>2, <2>1, LenProperties DEF Rest
    <3>2. Len(buffer) = 0 => buffer = << >>
      BY <1>2, EmptySeq
    <3>3. Len(buffer) <= 1 => Len(buffer) = 1 \/ Len(buffer) = 0
      <4>1. \A n \in Nat : n <= 1 => n = 1 \/ n = 0
        OBVIOUS
      <4>. QED
        BY <3>1, <4>1, Zenon
    <3>. QED
      BY <3>1, <3>2, <3>3, Zenon DEF MemoryInv, Small
  <2>2. CASE Leftover # {}
    <3>1. PICK l \in Leftover : rest = Append(buffer, l)
      BY <2>2 DEF Rest
    <3>2. l \in Lines
      BY LeftoverTyped DEF SortInv
    <3>3. /\ Bytes(rest) = Size(l) + Bytes(buffer) /\ Bytes(buffer) \in Nat /\ Size(l) \in Nat
          /\ Len(rest) = Len(buffer) + 1 /\ Len(buffer) \in Nat
      BY <1>2, <3>1, <3>2, BytesAppended, AppendProperties, LenProperties
    <3>4. CASE Bytes(buffer) <= MaxMemory
      <4>1. MaxMemory \in Nat
        BY FilesAssumption
      <4>2. Bytes(rest) <= MaxMemory + Size(l)
        BY <3>3, <3>4, <4>1
      <4>. QED
        BY <4>2, Zenon DEF WithOne
    <3>5. CASE Len(buffer) <= 1
      <4>1. Len(rest) = 1 \/ Len(rest) = 2
        BY <3>3, <3>5
      <4>. QED
        BY <4>1, Zenon DEF Small, WithOne
    <3>. QED
      BY <3>4, <3>5, Zenon DEF MemoryInv
  <2>. QED
    BY <2>1, <2>2
<1>8. CASE rest = << >>
  <2>1. runs' = runs
    BY <1>5, <1>8
  <2>. QED
    BY <1>3, <1>4, <2>1, Zenon DEF MemoryInv, Small
<1>9. CASE rest # << >>
  <2>1. PICK sorted \in Seq(Lines) : /\ runs' = Append(runs, sorted)
                                     /\ Len(sorted) = Len(rest) /\ Bytes(sorted) = Bytes(rest)
    BY <1>5, <1>6, <1>9, ChunkWritten
  <2>2. Small(sorted) \/ WithOne(Leftover, sorted)
    <3>1. Small(rest) => Small(sorted)
      BY <2>1, Zenon DEF Small
    <3>2. WithOne(Leftover, rest) => WithOne(Leftover, sorted)
      BY <2>1, Zenon DEF WithOne
    <3>. QED
      BY <1>7, <1>9, <3>1, <3>2
  <2>3. /\ runs'[Len(runs')] = sorted
        /\ \A i \in DOMAIN runs' : i = Len(runs') \/ Small(runs'[i])
    BY <1>2, <1>3, <2>1, SmallAdded
  <2>4. \A i \in DOMAIN runs' :
          Small(runs'[i]) \/ (i = Len(runs') /\ WithOne(Leftover, runs'[i]))
    BY <2>2, <2>3, Zenon
  <2>6. Leftover' = Leftover
    BY <1>1, LeftoverSame
  <2>5. stage' \notin {"runs", "rest"}
    BY <1>1
  <2>. QED
    BY <1>4, <2>4, <2>5, <2>6, Zenon DEF MemoryInv, Small
<1>. QED
  BY <1>8, <1>9

LEMMA MemoryStep == SortInv /\ SortTypes /\ MemoryInv /\ [SortNext]_sortVars => MemoryInv'
<1>. SUFFICES ASSUME SortInv, SortTypes, MemoryInv, [SortNext]_sortVars PROVE MemoryInv'
  OBVIOUS
<1>1. CASE TakeLine \/ WriteRest
  BY <1>1, MemoryTake, MemoryRest
<1>2. CASE ReadInput
  <2>1. stage = "runs" /\ UNCHANGED <<buffer, runs, stage>>
    BY <1>2 DEF ReadInput
  <2>2. \A i \in DOMAIN runs' : Small(runs'[i])
    BY <2>1 DEF MemoryInv
  <2>3. Len(buffer') <= 1 \/ Bytes(buffer') <= MaxMemory
    BY <2>1, Zenon DEF MemoryInv
  <2>. QED
    BY <2>2, <2>3, Zenon DEF MemoryInv, Small
<1>3. CASE /\ UNCHANGED <<buffer, runs, input, taken, got>>
           /\ stage' \in {"runs", "rest"} => stage \in {"runs", "rest"}
  <2>1. ASSUME NEW i \in DOMAIN runs'
        PROVE  \/ Small(runs'[i])
               \/ stage' \notin {"runs", "rest"} /\ i = Len(runs') /\ WithOne(Leftover', runs'[i])
    <3>1. i \in DOMAIN runs /\ runs'[i] = runs[i] /\ Len(runs') = Len(runs)
          /\ Leftover' = Leftover
      BY <1>3, LeftoverSame
    <3>. QED
      BY <1>3, <3>1, Zenon DEF MemoryInv
  <2>2. Len(buffer') <= 1 \/ Bytes(buffer') <= MaxMemory
    BY <1>3, Zenon DEF MemoryInv
  <2>. QED
    BY <2>1, <2>2, Zenon DEF MemoryInv, Small
<1>4. \/ TakeLine \/ WriteRest \/ ReadInput
      \/ /\ UNCHANGED <<buffer, runs, input, taken, got>>
         /\ stage' \in {"runs", "rest"} => stage \in {"runs", "rest"}
  <2>1. CASE UNCHANGED sortVars
    BY <2>1 DEF sortVars, reading
  <2>2. CASE OpenInputFails \/ InputEnds \/ WriteChunkFails \/ NoRuns \/ OpenCopy \/ CopyRunBlock
             \/ RunCopied
    BY <2>2 DEF OpenInputFails, InputEnds, WriteChunkFails, NoRuns, OpenCopy, CopyRunBlock,
                RunCopied, Noticed, reading
  <2>3. CASE OpenRun \/ OpenOutput \/ OpenFails \/ Pop \/ MergeEnds \/ Push \/ ReadRun \/ RunEnds
    BY <2>3 DEF OpenRun, OpenOutput, OpenFails, Pop, MergeEnds, Push, ReadRun, RunEnds, Noticed,
                reading
  <2>. QED
    BY <2>1, <2>2, <2>3 DEF SortNext
<1>. QED
  BY <1>1, <1>2, <1>3, <1>4

\* For every input and every limit: no run is larger than the limit, unless it is one
\* line, or exceeds it by no more than the line that has no newline.
\* (external_sort.cpp:54, 68-70)
THEOREM RunsWithinMemory == SortSpec => []WithinMemory
<1>1. MemoryInv => WithinMemory
  BY DEF MemoryInv, WithinMemory, Small, WithOne
<1>. QED
  BY <1>1, SortedInit, SortStep, SortTypesInit, SortTypesStep, MemoryInit, MemoryStep, PTL
     DEF SortSpec

-----------------------------------------------------------------------------
\* How often a line occurs in several files together.
CountedIn(l, files) ==
  SumFunctionOnSet([i \in DOMAIN files |-> Occurrences(l, files[i])], DOMAIN files)

LEMMA CountedGrows ==
  ASSUME NEW files \in Seq(Seq(Lines)), NEW l
  PROVE  /\ CountedIn(l, files) \in Int
         /\ Len(files) = 0 => CountedIn(l, files) = 0
         /\ \A file \in Seq(Lines) :
              CountedIn(l, Append(files, file)) = CountedIn(l, files) + Occurrences(l, file)
<1>. DEFINE D == DOMAIN files
            f == [i \in D |-> Occurrences(l, files[i])]
<1>1. D = 1..Len(files) /\ Len(files) \in Nat /\ IsFiniteSet(D)
  BY LenProperties, FS_Interval
<1>2. \A i \in D : f[i] = Occurrences(l, files[i]) /\ f[i] \in Nat
  <2>. SUFFICES ASSUME NEW i \in D PROVE f[i] = Occurrences(l, files[i]) /\ f[i] \in Nat
    OBVIOUS
  <2>1. files[i] \in Seq(Lines)
    BY ElementOfSeq
  <2>. QED
    BY <2>1, OccursInAll
<1>3. CountedIn(l, files) = SumFunctionOnSet(f, D)
  BY Zenon DEF CountedIn
<1>4. Weights(f, D) /\ Weights(f, {}) /\ IsFiniteSet({})
  BY <1>2, FS_EmptySet DEF Weights
<1>. HIDE DEF f, D
<1>5. SumFunctionOnSet(f, D) \in Int /\ SumFunctionOnSet(f, {}) = 0
  BY <1>1, <1>4, SumType
<1>6. Len(files) = 0 => D = {}
  BY <1>1
<1>7. ASSUME NEW file \in Seq(Lines)
      PROVE  CountedIn(l, Append(files, file)) = CountedIn(l, files) + Occurrences(l, file)
  <2>. DEFINE more == Append(files, file)
              N == Len(files)
              h == [i \in DOMAIN more |-> Occurrences(l, more[i])]
  <2>1. /\ DOMAIN more = 1..(N + 1) /\ more[N + 1] = file /\ N \in Nat
        /\ \A i \in 1..N : more[i] = files[i]
    BY <1>1, AppendProperties, LenProperties
  <2>2. CountedIn(l, more) = SumFunctionOnSet(h, DOMAIN more)
    BY Zenon DEF CountedIn
  <2>3. \A i \in DOMAIN more : h[i] = Occurrences(l, more[i])
    OBVIOUS
  <2>4. Occurrences(l, file) \in Nat
    BY OccursInAll
  <2>. HIDE DEF more, h, N
  <2>5. DOMAIN more = D \cup {N + 1} /\ N + 1 \notin D /\ D = 1..N
    BY <1>1, <2>1 DEF N
  <2>6. h[N + 1] = Occurrences(l, file) /\ \A i \in D : f[i] = h[i]
    BY <1>2, <2>1, <2>3, <2>5
  <2>7. Weights(h, D \cup {N + 1})
    BY <1>2, <2>4, <2>6 DEF Weights
  <2>8. SumFunctionOnSet(h, D \cup {N + 1}) = h[N + 1] + SumFunctionOnSet(h, D)
    BY <1>1, <2>5, <2>7, SumAdds
  <2>9. SumFunctionOnSet(f, D) = SumFunctionOnSet(h, D)
    BY <1>1, <1>4, <2>6, SumSame
  <2>10. CountedIn(l, more) = Occurrences(l, file) + SumFunctionOnSet(f, D)
    BY <2>2, <2>5, <2>6, <2>8, <2>9, Zenon
  <2>. QED
    BY <1>3, <1>5, <2>4, <2>10 DEF more
<1>. QED
  BY <1>3, <1>5, <1>6, <1>7

LEMMA CountedInOne ==
  ASSUME NEW files \in Seq(Seq(Lines)), Len(files) = 1, NEW l
  PROVE  CountedIn(l, files) = Occurrences(l, files[1])
<1>1. files[1] \in Seq(Lines) /\ files = Append(<< >>, files[1]) /\ << >> \in Seq(Seq(Lines))
  <2>1. 1 \in 1..Len(files)
    OBVIOUS
  <2>2. files[1] \in Seq(Lines)
    BY <2>1, ElementOfSeq
  <2>3. << >> \in Seq(Seq(Lines)) /\ Len(<< >>) = 0
    BY EmptySeq
  <2>. DEFINE one == Append(<< >>, files[1])
  <2>4. one \in Seq(Seq(Lines)) /\ Len(one) = 1 /\ one[1] = files[1]
    BY <2>2, <2>3, AppendProperties
  <2>. HIDE DEF one
  <2>5. files = one
    BY <2>4, SeqEqual
  <2>. QED
    BY <2>2, <2>3, <2>5 DEF one
<1>2. Len(<< >>) = 0
  OBVIOUS
<1>3. CountedIn(l, << >>) = 0
  BY <1>1, <1>2, CountedGrows
<1>4. CountedIn(l, Append(<< >>, files[1])) = CountedIn(l, << >>) + Occurrences(l, files[1])
  BY <1>1, CountedGrows
<1>5. Occurrences(l, files[1]) \in Nat
  BY <1>1, OccursInAll
<1>6. CountedIn(l, files) = 0 + Occurrences(l, files[1])
  BY <1>1, <1>3, <1>4, Zenon
<1>. QED
  BY <1>5, <1>6

\* One summand changes.
LEMMA SumChanges ==
  ASSUME NEW S, IsFiniteSet(S), NEW y \in S, NEW f, NEW h, Weights(f, S), Weights(h, S),
         \A x \in S \ {y} : f[x] = h[x]
  PROVE  /\ SumFunctionOnSet(h, S) = SumFunctionOnSet(f, S) + (h[y] - f[y])
         /\ f[y] \in Int /\ h[y] \in Int /\ SumFunctionOnSet(f, S) \in Int
<1>. DEFINE R == S \ {y}
<1>1. IsFiniteSet(R) /\ Weights(f, R)
  BY FS_RemoveElement DEF Weights
<1>2. f[y] \in Int /\ h[y] \in Int
  BY DEF Weights
<1>. HIDE DEF R
<1>3. SumFunctionOnSet(f, R) = SumFunctionOnSet(h, R)
  BY <1>1, SumSame DEF R
<1>4. SumFunctionOnSet(f, S) = f[y] + SumFunctionOnSet(f, R)
      /\ SumFunctionOnSet(h, S) = h[y] + SumFunctionOnSet(h, R)
  BY SumRemoves DEF R
<1>5. SumFunctionOnSet(f, R) \in Int
  BY <1>1, SumType
<1>. QED
  BY <1>2, <1>3, <1>4, <1>5

-----------------------------------------------------------------------------
\* Reading loses no line.
Names == \A i \in DOMAIN input : IsLine(input[i])
EndsSo == terminated \/ (input # << >> /\ Last(input) # <<0, 0>>)
Collected == \A l : OccursTo(l, input, taken) = Occurrences(l, buffer) + CountedIn(l, runs)
InTheRuns == \A l : Occurrences(l, input) = CountedIn(l, runs)

ReadInv ==
  /\ Names /\ EndsSo
  /\ BytesTo(input, taken) <= got
  /\ stage \in {"runs", "rest"} => Collected
  /\ stage = "rest" /\ ~unnoticed => got = FileBytes /\ ~LineReady
  /\ stage \in {"merge", "copy", "pop", "refill", "done"} /\ ~unnoticed => InTheRuns

LEMMA ReadInit == SortInit => ReadInv
<1>. SUFFICES ASSUME SortInit PROVE ReadInv
  OBVIOUS
<1>1. input \in Seq(Lines) /\ Names /\ EndsSo
  BY FilesAssumption DEF SortInit, Lines, Names, EndsSo
<1>2. stage = "runs" /\ taken = 0 /\ got = 0 /\ buffer = << >> /\ runs = << >>
  BY DEF SortInit
<1>3. BytesTo(input, taken) <= got
  <2>1. BytesTo(input, 0) = 0
    BY <1>1, BytesGrow
  <2>. QED
    BY <1>2, <2>1
<1>4. ASSUME NEW l PROVE OccursTo(l, input, taken) = Occurrences(l, buffer) + CountedIn(l, runs)
  <2>1. << >> \in Seq(Seq(Lines)) /\ Len(<< >>) = 0 /\ \A i \in DOMAIN << >> : << >>[i] # l
    OBVIOUS
  <2>2. OccursTo(l, input, 0) = 0
    BY OccursToGrows
  <2>3. CountedIn(l, << >>) = 0
    BY <2>1, CountedGrows
  <2>4. Occurrences(l, << >>) = 0
    BY <2>1, NoOccurrence
  <2>. QED
    BY <1>2, <2>2, <2>3, <2>4
<1>. QED
  BY <1>1, <1>2, <1>3, <1>4 DEF ReadInv, Collected

\* What has been read makes up whole lines before it ends one.
LEMMA ReadInputKeeps == ASSUME SortInv, SortTypes, ReadInv, ReadInput PROVE ReadInv'
<1>1. /\ stage = "runs" /\ stage' = "runs" /\ UNCHANGED <<input, terminated, taken, buffer, runs>>
      /\ got' = Min({got + BlockSize, FileBytes}) /\ got < FileBytes
  BY DEF ReadInput
<1>2. got <= got'
  <2>1. got \in Nat /\ got + BlockSize \in Nat /\ got <= got + BlockSize /\ FileBytes \in Int
    BY FilesAssumption, FileBytesType DEF SortTypes, SortTypeOK
  <2>. QED
    BY <1>1, <2>1, MinOfTwo
<1>3. got \in Nat /\ got' \in Int /\ BytesTo(input, taken) \in Nat
  <2>1. input \in Seq(Lines) /\ taken \in 0..Len(input) /\ got \in Nat
    BY DEF SortTypes, SortTypeOK, Lines
  <2>2. got + BlockSize \in Nat /\ FileBytes \in Int
    BY <2>1, FilesAssumption, FileBytesType
  <2>3. got' \in Int
    BY <1>1, <2>2, MinOfTwo
  <2>4. BytesTo(input, taken) \in Nat
    BY <2>1, BytesGrow
  <2>. QED
    BY <2>1, <2>3, <2>4
<1>4. BytesTo(input, taken) <= got
  BY DEF ReadInv
<1>5. BytesTo(input, taken) <= got'
  BY <1>2, <1>3, <1>4
<1>6. (BytesTo(input, taken) <= got)'
  BY <1>1, <1>5, Zenon DEF BytesTo
<1>7. Names' /\ EndsSo' /\ Collected'
  <2>1. Names /\ EndsSo /\ Collected
    BY <1>1 DEF ReadInv
  <2>. QED
    BY <1>1, <2>1, Zenon DEF Names, EndsSo, Collected
<1>. QED
  BY <1>1, <1>6, <1>7 DEF ReadInv

LEMMA InputEndsKeeps == ASSUME SortInv, SortTypes, ReadInv, InputEnds PROVE ReadInv'
<1>1. /\ stage = "runs" /\ stage' = "rest" /\ ~LineReady
      /\ UNCHANGED <<input, terminated, got, taken, buffer, runs>>
      /\ unnoticed' = TRUE \/ got = FileBytes
  BY DEF InputEnds, Ignored, reading
<1>2. Names' /\ EndsSo' /\ Collected' /\ (BytesTo(input, taken) <= got)'
  <2>1. Names /\ EndsSo /\ Collected /\ BytesTo(input, taken) <= got
    BY <1>1 DEF ReadInv
  <2>. QED
    BY <1>1, <2>1, Zenon DEF Names, EndsSo, Collected, BytesTo
<1>3. ~LineReady' /\ (unnoticed' = TRUE \/ got' = FileBytes')
  BY <1>1, Zenon DEF LineReady, BytesTo, FileBytes, Bytes
<1>. QED
  BY <1>1, <1>2, <1>3, Zenon DEF ReadInv

\* The line that is taken is in the buffer, or the buffer is in a run and the line in
\* the buffer.  (external_sort.cpp:65-77)
LEMMA TakeLineKeeps == ASSUME SortInv, SortTypes, ReadInv, TakeLine PROVE ReadInv'
<1>. DEFINE line == input[taken + 1]
<1>1. /\ stage = "runs" /\ stage' = "runs" /\ taken' = taken + 1 /\ LineReady
      /\ UNCHANGED <<input, terminated, got>>
  BY DEF TakeLine
<1>2. /\ input \in Seq(Lines) /\ taken \in Nat /\ taken + 1 \in DOMAIN input
      /\ buffer \in Seq(Lines) /\ runs \in Seq(Seq(Lines)) /\ line \in Lines
  <2>1. input \in Seq(Lines) /\ taken \in Nat /\ buffer \in Seq(Lines) /\ runs \in Seq(Seq(Lines))
    BY DEF SortInv, RunsTypes
  <2>2. taken + 1 \in DOMAIN input
    BY <1>1, <2>1 DEF LineReady
  <2>. QED
    BY <2>1, <2>2, ElementOfSeq
<1>. HIDE DEF line
<1>3. (BytesTo(input, taken) <= got)'
  BY <1>1, Zenon DEF LineReady, BytesTo
<1>4. Names' /\ EndsSo' /\ Collected
  <2>1. Names /\ EndsSo /\ Collected
    BY <1>1 DEF ReadInv
  <2>. QED
    BY <1>1, <2>1, Zenon DEF Names, EndsSo
<1>5. ASSUME NEW l
      PROVE  (OccursTo(l, input, taken) = Occurrences(l, buffer) + CountedIn(l, runs))'
  <2>1. OccursTo(l, input, taken) = Occurrences(l, buffer) + CountedIn(l, runs)
    BY <1>4 DEF Collected
  <2>2. OccursTo(l, input, taken)' = OccursTo(l, input, taken) + (IF line = l THEN 1 ELSE 0)
    <3>1. OccursTo(l, input, taken)' = OccursTo(l, input, taken + 1)
      BY <1>1, Zenon DEF OccursTo
    <3>2. OccursTo(l, input, taken + 1) = OccursTo(l, input, taken) + (IF line = l THEN 1 ELSE 0)
      <4>1. taken \in Nat
        BY <1>2
      <4>2. OccursTo(l, input, taken + 1)
              = OccursTo(l, input, taken) + (IF input[taken + 1] = l THEN 1 ELSE 0)
        BY <4>1, OccursToGrows
      <4>. QED
        BY <4>2 DEF line
    <3>. QED
      BY <3>1, <3>2
  <2>3. Occurrences(l, buffer) \in Nat /\ CountedIn(l, runs) \in Int
    BY <1>2, OccursInAll, CountedGrows
  <2>4. (Occurrences(l, buffer) + CountedIn(l, runs))'
          = Occurrences(l, buffer) + CountedIn(l, runs) + (IF line = l THEN 1 ELSE 0)
    <3>1. CASE buffer' = Append(buffer, line) /\ UNCHANGED runs
      <4>1. Occurrences(l, Append(buffer, line)) = Occurrences(l, buffer) + (IF line = l THEN 1 ELSE 0)
        BY <1>2, OccursAppended
      <4>2. Occurrences(l, buffer)' = Occurrences(l, Append(buffer, line))
            /\ CountedIn(l, runs)' = CountedIn(l, runs)
        BY <3>1, Zenon DEF Occurrences, CountedIn
      <4>. QED
        BY <2>3, <4>1, <4>2
    <3>2. CASE WriteSortedChunk(buffer) /\ buffer' = <<line>>
      <4>1. PICK sorted \in Seq(Lines) :
              /\ runs' = Append(runs, sorted)
              /\ \A k : Occurrences(k, sorted) = Occurrences(k, buffer)
        BY <1>2, <3>2, ChunkWritten
      <4>2. CountedIn(l, Append(runs, sorted)) = CountedIn(l, runs) + Occurrences(l, sorted)
        BY <1>2, CountedGrows
      <4>3. CountedIn(l, runs)' = CountedIn(l, runs) + Occurrences(l, buffer)
        BY <4>1, <4>2, Zenon DEF CountedIn
      <4>4. Occurrences(l, <<line>>) = IF line = l THEN 1 ELSE 0
        <5>1. << >> \in Seq(Lines) /\ Append(<< >>, line) = <<line>> /\ \A i \in DOMAIN << >> : << >>[i] # l
          OBVIOUS
        <5>2. Occurrences(l, << >>) = 0
          BY <5>1, NoOccurrence
        <5>3. Occurrences(l, Append(<< >>, line)) = Occurrences(l, << >>) + (IF line = l THEN 1 ELSE 0)
          BY <1>2, <5>1, OccursAppended
        <5>. QED
          BY <5>1, <5>2, <5>3
      <4>5. Occurrences(l, buffer)' = Occurrences(l, <<line>>)
        BY <3>2, Zenon DEF Occurrences
      <4>. QED
        BY <2>3, <4>3, <4>4, <4>5
    <3>. QED
      BY <3>1, <3>2 DEF TakeLine, line
  <2>. QED
    BY <2>1, <2>2, <2>4
<1>. QED
  BY <1>1, <1>3, <1>4, <1>5 DEF ReadInv, Collected

\* At the end of the input, what is left over is the last line without its newline, or
\* nothing.  (external_sort.cpp:73-77)
LEMMA RestIsRest ==
  ASSUME SortInv, SortTypes, ReadInv, stage = "rest", ~unnoticed
  PROVE  \/ Len(input) = taken /\ Rest = {buffer}
         \/ /\ taken + 1 = Len(input)
            /\ Rest = {Append(buffer, input[taken + 1])}
<1>. DEFINE N == Len(input)
<1>1. /\ input \in Seq(Lines) /\ taken \in 0..N /\ N \in Nat /\ DOMAIN input = 1..N
      /\ got \in Nat /\ terminated \in BOOLEAN
  BY LenProperties DEF SortTypes, SortTypeOK, Lines
<1>2. /\ Names /\ EndsSo /\ BytesTo(input, taken) <= got /\ got = FileBytes /\ ~LineReady
  BY DEF ReadInv
<1>. HIDE DEF N
<1>3. BytesTo(input, N) = Bytes(input)
  BY Zenon DEF Bytes, N
<1>4. \A n \in 0..N : BytesTo(input, n) \in Nat
  BY <1>1, BytesGrow DEF N
<1>5. taken # N => got < BytesTo(input, taken + 1)
  <2>. SUFFICES ASSUME taken # N PROVE got < BytesTo(input, taken + 1)
    OBVIOUS
  <2>1. taken < Len(input) /\ taken + 1 \in 0..N
    <3>1. taken < N /\ taken + 1 \in 0..N
      BY <1>1
    <3>. QED
      BY <3>1, Zenon DEF N
  <2>2. ~(BytesTo(input, taken + 1) <= got)
    BY <1>2, <2>1 DEF LineReady
  <2>. QED
    BY <1>1, <1>4, <2>1, <2>2
<1>6. CASE terminated
  <2>1. got = BytesTo(input, N)
    <3>1. got = BytesTo(input, N) - 0
      BY <1>2, <1>3, <1>6 DEF FileBytes
    <3>. QED
      BY <1>1, <1>4, <3>1
  <2>2. taken = N
    <3>. SUFFICES ASSUME taken # N PROVE FALSE
      OBVIOUS
    <3>1. taken + 1 \in 0..N /\ N \in 0..N /\ (taken + 1 = N \/ taken + 1 < N)
      BY <1>1
    <3>2. BytesTo(input, taken + 1) <= BytesTo(input, N)
      <4>1. CASE taken + 1 = N
        BY <1>4, <3>1, <4>1
      <4>2. CASE taken + 1 < N
        <5>1. BytesTo(input, taken + 1) < BytesTo(input, N)
          BY <1>1, <3>1, <4>2, BytesBefore DEF N
        <5>. QED
          BY <1>4, <3>1, <5>1
      <4>. QED
        BY <3>1, <4>1, <4>2
    <3>. QED
      BY <1>4, <1>5, <2>1, <3>1, <3>2
  <2>3. Leftover = {}
    <3>1. taken + 1 \notin DOMAIN input
      BY <1>1, <2>2
    <3>. QED
      BY <3>1 DEF Leftover
  <2>. QED
    BY <2>2, <2>3 DEF Rest, N
<1>7. CASE ~terminated
  <2>1. got = BytesTo(input, N) - 1
    BY <1>2, <1>3, <1>7 DEF FileBytes
  <2>2. taken # N
    <3>. SUFFICES ASSUME taken = N PROVE FALSE
      OBVIOUS
    <3>. QED
      BY <1>1, <1>2, <1>4, <2>1
  <2>3. taken + 1 = N
    <3>. SUFFICES ASSUME taken + 1 # N PROVE FALSE
      OBVIOUS
    <3>1. taken + 1 \in 0..N /\ N \in 0..N /\ taken + 1 < N
      BY <1>1, <2>2
    <3>2. BytesTo(input, taken + 1) < BytesTo(input, N)
      BY <1>1, <3>1, BytesBefore DEF N
    <3>. QED
      BY <1>1, <1>4, <1>5, <2>1, <2>2, <3>1, <3>2
  <2>. DEFINE line == input[taken + 1]
  <2>4. line \in Lines /\ taken + 1 \in DOMAIN input /\ taken \in 0..(N - 1)
    <3>1. taken + 1 \in 1..N /\ taken \in 0..(N - 1)
      BY <1>1, <2>3
    <3>. QED
      BY <1>1, <3>1, ElementOfSeq DEF N
  <2>5. line[1] \in Nat /\ line[2] \in Nat \ {0} /\ line = <<line[1], line[2]>>
    <3>1. IsLine(line) /\ line # <<0, 0>>
      BY <1>2, <1>7, <2>3, <2>4 DEF Names, EndsSo, N, Last
    <3>. QED
      BY <3>1 DEF IsLine
  <2>6. BytesTo(input, N) = Size(line) + BytesTo(input, taken)
    BY <1>1, <2>3, <2>4, BytesGrow DEF N
  <2>7. got = BytesTo(input, taken) + line[2] /\ BytesTo(input, taken) \in Nat
    BY <1>1, <1>4, <2>1, <2>5, <2>6 DEF Size
  <2>. HIDE DEF line
  <2>8. {n \in 1..line[2] : BytesTo(input, taken) + n = got} = {line[2]}
    BY <2>5, <2>7
  <2>9. Leftover = {line[1]} \X {line[2]}
    <3>1. {taken + 1} \cap DOMAIN input = {taken + 1}
      BY <2>4
    <3>2. Leftover = {line[1]} \X {n \in 1..line[2] : BytesTo(input, taken) + n = got}
      BY <3>1 DEF Leftover, line
    <3>. QED
      BY <2>8, <3>2, Zenon
  <2>10. Leftover = {line}
    BY <2>5, <2>9
  <2>11. Rest = {Append(buffer, line)}
    BY <2>10 DEF Rest
  <2>. QED
    BY <2>3, <2>11 DEF N, line
<1>. QED
  BY <1>6, <1>7

LEMMA WriteRestReads == ASSUME SortInv, SortTypes, ReadInv, WriteRest PROVE ReadInv'
<1>1. /\ stage = "rest" /\ stage' = "merge" /\ buffer' = << >>
      /\ UNCHANGED <<input, terminated, got, taken, unnoticed>>
  BY DEF WriteRest, troubles
<1>2. /\ input \in Seq(Lines) /\ taken \in 0..Len(input) /\ Len(input) \in Nat
      /\ buffer \in Seq(Lines) /\ runs \in Seq(Seq(Lines)) /\ DOMAIN input = 1..Len(input)
  BY LenProperties DEF SortTypes, SortTypeOK, Lines
<1>3. Names' /\ EndsSo' /\ (BytesTo(input, taken) <= got)'
  <2>1. Names /\ EndsSo /\ BytesTo(input, taken) <= got
    BY DEF ReadInv
  <2>. QED
    BY <1>1, <2>1, Zenon DEF Names, EndsSo, BytesTo
<1>4. ASSUME ~unnoticed, NEW l PROVE Occurrences(l, input) = CountedIn(l, runs)'
  <2>1. PICK rest \in Rest : IF rest = << >> THEN UNCHANGED runs ELSE WriteSortedChunk(rest)
    BY DEF WriteRest
  <2>2. rest \in Seq(Lines)
    BY RestTyped DEF SortInv
  <2>3. OccursTo(l, input, taken) = Occurrences(l, buffer) + CountedIn(l, runs)
    BY <1>1 DEF ReadInv, Collected
  <2>4. /\ Occurrences(l, buffer) \in Nat /\ CountedIn(l, runs) \in Int
        /\ Occurrences(l, input) = OccursTo(l, input, Len(input))
    BY <1>2, OccursInAll, CountedGrows
  <2>5. Occurrences(l, input) = Occurrences(l, rest) + CountedIn(l, runs)
    <3>1. CASE Len(input) = taken /\ Rest = {buffer}
      <4>1. rest = buffer
        BY <3>1
      <4>. QED
        BY <2>3, <2>4, <3>1, <4>1
    <3>2. CASE taken + 1 = Len(input) /\ Rest = {Append(buffer, input[taken + 1])}
      <4>. DEFINE line == input[taken + 1]
      <4>1. taken + 1 \in 1..Len(input) /\ taken \in Nat
        BY <1>2, <3>2
      <4>2. line \in Lines
        BY <1>2, <4>1, ElementOfSeq
      <4>3. OccursTo(l, input, taken + 1) = OccursTo(l, input, taken) + (IF line = l THEN 1 ELSE 0)
        <5>1. taken \in Nat
          BY <4>1
        <5>. QED
          BY <5>1, OccursToGrows
      <4>4. rest = Append(buffer, line)
        BY <3>2
      <4>5. Occurrences(l, input) = OccursTo(l, input, taken + 1)
        BY <2>4, <3>2
      <4>. HIDE DEF line
      <4>6. Occurrences(l, Append(buffer, line)) = Occurrences(l, buffer) + (IF line = l THEN 1 ELSE 0)
        BY <1>2, <4>2, OccursAppended
      <4>. QED
        BY <2>3, <2>4, <4>3, <4>4, <4>5, <4>6
    <3>. QED
      BY <1>1, <1>4, <3>1, <3>2, RestIsRest
  <2>6. CASE rest = << >>
    <3>1. CountedIn(l, runs)' = CountedIn(l, runs)
      BY <2>1, <2>6, Zenon DEF CountedIn
    <3>2. \A i \in DOMAIN rest : rest[i] # l
      BY <2>6
    <3>3. Occurrences(l, rest) = 0
      BY <3>2, NoOccurrence
    <3>. QED
      BY <2>4, <2>5, <3>1, <3>3
  <2>7. CASE rest # << >>
    <3>1. PICK sorted \in Seq(Lines) :
            /\ runs' = Append(runs, sorted)
            /\ \A k : Occurrences(k, sorted) = Occurrences(k, rest)
      BY <2>1, <2>2, <2>7, ChunkWritten
    <3>2. CountedIn(l, Append(runs, sorted)) = CountedIn(l, runs) + Occurrences(l, sorted)
      BY <1>2, CountedGrows
    <3>3. CountedIn(l, runs)' = CountedIn(l, runs) + Occurrences(l, rest)
      BY <3>1, <3>2, Zenon DEF CountedIn
    <3>4. Occurrences(l, rest) \in Nat
      BY <2>2, OccursInAll
    <3>. QED
      BY <2>4, <2>5, <3>3, <3>4
  <2>. QED
    BY <2>6, <2>7
<1>5. ~unnoticed' => InTheRuns'
  <2>. SUFFICES ASSUME ~unnoticed, NEW l PROVE (Occurrences(l, input) = CountedIn(l, runs))'
    BY <1>1, Zenon DEF InTheRuns
  <2>1. Occurrences(l, input)' = Occurrences(l, input)
    BY <1>1, Zenon DEF Occurrences
  <2>. QED
    BY <1>4, <2>1
<1>. QED
  BY <1>1, <1>3, <1>5 DEF ReadInv

\* From then on the input and the runs stay as they are.
LEMMA RunsStay ==
  ASSUME SortTypes, [SortNext]_sortVars,
         ~(ReadInput \/ InputEnds \/ TakeLine \/ WriteRest)
  PROVE  /\ UNCHANGED <<input, terminated, got, taken, buffer, runs>>
         /\ \/ stage' = "failed"
            \/ stage' = stage /\ UNCHANGED unnoticed
            \/ /\ stage \in {"merge", "copy", "pop", "refill"}
               /\ stage' \in {"merge", "copy", "pop", "refill", "done"}
               /\ ~unnoticed' => ~unnoticed
<1>1. CASE UNCHANGED sortVars
  BY <1>1 DEF sortVars, reading, troubles
<1>2. CASE OpenInputFails \/ WriteChunkFails \/ OpenFails
  BY <1>2 DEF OpenInputFails, WriteChunkFails, OpenFails, Noticed, reading
<1>3. CASE NoRuns \/ OpenCopy \/ CopyRunBlock \/ RunCopied
  BY <1>3 DEF NoRuns, OpenCopy, CopyRunBlock, RunCopied, reading, troubles, Ignored
<1>4. CASE OpenRun \/ OpenOutput \/ Pop \/ MergeEnds
  BY <1>4 DEF OpenRun, OpenOutput, Pop, MergeEnds, reading, troubles, Ignored
<1>5. CASE Push \/ ReadRun \/ RunEnds
  BY <1>5 DEF Push, ReadRun, RunEnds, reading, troubles, Ignored
<1>. QED
  BY <1>1, <1>2, <1>3, <1>4, <1>5 DEF SortNext

LEMMA ReadStep == SortInv /\ SortTypes /\ ReadInv /\ [SortNext]_sortVars => ReadInv'
<1>. SUFFICES ASSUME SortInv, SortTypes, ReadInv, [SortNext]_sortVars PROVE ReadInv'
  OBVIOUS
<1>1. CASE ReadInput \/ InputEnds \/ TakeLine \/ WriteRest
  BY <1>1, ReadInputKeeps, InputEndsKeeps, TakeLineKeeps, WriteRestReads
<1>2. CASE ~(ReadInput \/ InputEnds \/ TakeLine \/ WriteRest)
  <2>1. /\ UNCHANGED <<input, terminated, got, taken, buffer, runs>>
        /\ \/ stage' = "failed"
           \/ stage' = stage /\ UNCHANGED unnoticed
           \/ /\ stage \in {"merge", "copy", "pop", "refill"}
              /\ stage' \in {"merge", "copy", "pop", "refill", "done"}
              /\ ~unnoticed' => ~unnoticed
    BY <1>2, RunsStay
  <2>2. /\ input' = input /\ terminated' = terminated /\ got' = got /\ taken' = taken
        /\ buffer' = buffer /\ runs' = runs
    BY <2>1
  <2>7. ASSUME NEW l
        PROVE  /\ Occurrences(l, input)' = Occurrences(l, input)
               /\ OccursTo(l, input, taken)' = OccursTo(l, input, taken)
               /\ Occurrences(l, buffer)' = Occurrences(l, buffer)
               /\ CountedIn(l, runs)' = CountedIn(l, runs)
    <3>1. Occurrences(l, input)' = Occurrences(l, input)
      BY <2>2, Zenon DEF Occurrences
    <3>2. OccursTo(l, input, taken)' = OccursTo(l, input, taken)
      BY <2>2, Zenon DEF OccursTo
    <3>3. Occurrences(l, buffer)' = Occurrences(l, buffer)
      BY <2>2, Zenon DEF Occurrences
    <3>4. CountedIn(l, runs)' = CountedIn(l, runs)
      BY <2>2, Zenon DEF CountedIn
    <3>. QED
      BY <3>1, <3>2, <3>3, <3>4
  <2>3. (Names => Names') /\ (EndsSo => EndsSo') /\ (InTheRuns => InTheRuns')
    <3>1. Names => Names'
      BY <2>2 DEF Names
    <3>2. EndsSo => EndsSo'
      BY <2>2 DEF EndsSo
    <3>3. InTheRuns => InTheRuns'
      BY <2>7 DEF InTheRuns
    <3>. QED
      BY <3>1, <3>2, <3>3
  <2>4. Collected => Collected'
    BY <2>7 DEF Collected
  <2>5. BytesTo(input, taken) <= got => (BytesTo(input, taken) <= got)'
    BY <2>2, Zenon DEF BytesTo
  <2>6. (got = FileBytes => got' = FileBytes') /\ (~LineReady => ~LineReady')
    BY <2>2, Zenon DEF FileBytes, Bytes, BytesTo, LineReady
  <2>. QED
    BY <2>1, <2>3, <2>4, <2>5, <2>6 DEF ReadInv
<1>. QED
  BY <1>1, <1>2

-----------------------------------------------------------------------------
\* A single run is copied whole.
Copied(n) == Len(output) = n /\ \A m \in 1..n : output[m] = runs[1][m]

SingleInv ==
  /\ stage = "copy" =>
       /\ drawn[1] \in 0..Len(runs[1])
       /\ drawn[1] < Len(runs[1]) => fetched[1] < BytesTo(runs[1], drawn[1] + 1)
       /\ ~unnoticed => Copied(drawn[1])
  /\ stage = "done" /\ Len(runs) = 0 => output = << >>
  /\ stage = "done" /\ Len(runs) = 1 /\ ~unnoticed => Copied(Len(runs[1]))

LEMMA SingleInit == SortInit => SingleInv
  BY DEF SortInit, SingleInv

LEMMA SingleRun ==
  ASSUME SortInv, SortTypes, Len(runs) = 1
  PROVE  /\ runs[1] \in Seq(Lines) /\ Len(runs[1]) \in Nat /\ DOMAIN runs = {1}
         /\ Bytes(runs[1]) \in Nat
         /\ \A n \in 0..Len(runs[1]) : BytesTo(runs[1], n) \in Nat
<1>1. runs \in Seq(Seq(Lines)) /\ 1 \in 1..Len(runs)
  BY DEF SortInv, RunsTypes
<1>2. runs[1] \in Seq(Lines) /\ DOMAIN runs = {1}
  BY <1>1, ElementOfSeq
<1>3. \A n \in 0..Len(runs[1]) : BytesTo(runs[1], n) \in Nat
  BY <1>2, BytesGrow
<1>4. Bytes(runs[1]) \in Nat
  BY <1>1, <1>2, RunBytesType
<1>. QED
  BY <1>2, <1>3, <1>4, LenProperties

LEMMA OpenCopySingle == ASSUME SortInv, SortTypes, SingleInv, OpenCopy PROVE SingleInv'
<1>1. /\ stage = "merge" /\ stage' = "copy" /\ fetched' = <<0>> /\ drawn' = <<0>> /\ Len(runs) = 1
      /\ runs' = runs /\ output' = output
  BY DEF OpenCopy
<1>2. runs[1] \in Seq(Lines) /\ Len(runs[1]) \in Nat /\ runs[1] # << >>
  BY <1>1, SingleRun DEF SortInv, RunsTypes
<1>3. Len(runs[1]) # 0
  BY <1>2, EmptySeq
<1>4. 0 < BytesTo(runs[1], 0 + 1)
  <2>1. 0 \in 0..Len(runs[1]) /\ 0 + 1 \in 0..Len(runs[1])
    BY <1>2, <1>3
  <2>2. BytesTo(runs[1], 0) < BytesTo(runs[1], 0 + 1)
    BY <1>2, <2>1, BytesBefore
  <2>. QED
    BY <1>2, <2>2, BytesGrow
<1>5. Copied(0)'
  <2>1. output = << >>
    BY <1>1 DEF SortInv
  <2>. QED
    BY <1>1, <2>1 DEF Copied
<1>6. drawn'[1] = 0 /\ fetched'[1] = 0 /\ runs'[1] = runs[1]
  BY <1>1
<1>7. fetched'[1] < BytesTo(runs[1], drawn[1] + 1)'
  <2>1. BytesTo(runs[1], drawn[1] + 1)' = BytesTo(runs[1], 0 + 1)
    BY <1>6, Zenon DEF BytesTo
  <2>. QED
    BY <1>4, <1>6, <2>1
<1>8. Copied(drawn[1])'
  BY <1>5, <1>6, Zenon DEF Copied
<1>9. drawn'[1] \in 0..Len(runs'[1])
  BY <1>2, <1>6
<1>. QED
  BY <1>1, <1>7, <1>8, <1>9 DEF SingleInv

\* The block that is copied follows what was copied before.  (external_sort.cpp:120-122)
LEMMA CopyRunBlockSingle == ASSUME SortInv, SortTypes, SingleInv, CopyRunBlock PROVE SingleInv'
<1>. DEFINE run == runs[1]
            d == drawn[1]
            end == Min({fetched[1] + BlockSize, Bytes(runs[1])})
<1>1. stage = "copy" /\ stage' = "copy" /\ runs' = runs /\ Len(runs) = 1
  BY DEF CopyRunBlock, SortInv
<1>2. run \in Seq(Lines) /\ Len(run) \in Nat /\ d \in 0..Len(run) /\ output \in Seq(Lines)
  BY <1>1, SingleRun DEF SingleInv, SortTypes, SortTypeOK, Lines
<1>3. PICK n \in d..Len(run) :
        /\ n < Len(run) => BytesTo(run, n + 1) > end
        /\ fetched' = <<end>> /\ drawn' = <<n>>
        /\ \/ output' = output \o SubSeq(run, d + 1, n) /\ UNCHANGED troubles
           \/ UNCHANGED output /\ Ignored
  BY DEF CopyRunBlock
<1>. HIDE DEF run, d, end
<1>4. end \in Int /\ fetched'[1] = end /\ drawn'[1] = n /\ runs'[1] = run
  <2>1. fetched[1] \in Nat
    <3>1. fetched \in Seq(Nat) /\ 1 \in 1..Len(fetched)
      BY <1>1 DEF SortTypes, SortTypeOK
    <3>. QED
      BY <3>1, ElementOfSeq
  <2>2. fetched[1] + BlockSize \in Int /\ Bytes(runs[1]) \in Int
    BY <1>1, <2>1, SingleRun, FilesAssumption
  <2>3. end \in Int
    BY <2>2, MinOfTwo DEF end
  <2>. QED
    BY <1>1, <1>3, <2>3 DEF run
<1>5. n \in 0..Len(run)
  BY <1>2, <1>3
<1>6. n < Len(run) => fetched'[1] < BytesTo(run, n + 1)
  <2>. SUFFICES ASSUME n < Len(run) PROVE end < BytesTo(run, n + 1)
    BY <1>4
  <2>1. n + 1 \in 0..Len(run)
    BY <1>2, <1>5
  <2>2. BytesTo(run, n + 1) \in Nat
    BY <1>2, <2>1, BytesGrow
  <2>. QED
    BY <1>3, <1>4, <2>2
<1>7. ~unnoticed' => Copied(n)'
  <2>. SUFFICES ASSUME ~unnoticed' PROVE Copied(n)'
    OBVIOUS
  <2>1. output' = output \o SubSeq(run, d + 1, n) /\ ~unnoticed
    <3>1. ~Ignored
      BY DEF Ignored
    <3>2. output' = output \o SubSeq(run, d + 1, n) /\ UNCHANGED troubles
      BY <1>3, <3>1, Zenon
    <3>3. unnoticed' = unnoticed
      BY <3>2 DEF troubles
    <3>. QED
      BY <3>2, <3>3
  <2>2. Len(output) = d /\ \A m \in 1..d : output[m] = run[m]
    BY <1>1, <2>1 DEF SingleInv, Copied, run, d
  <2>. DEFINE piece == SubSeq(run, d + 1, n)
  <2>3. d \in Nat /\ n \in Nat /\ d <= n /\ n <= Len(run)
    BY <1>2, <1>3
  <2>4. \A i \in (d + 1)..n : run[i] \in Lines
    <3>. SUFFICES ASSUME NEW i \in (d + 1)..n PROVE run[i] \in Lines
      OBVIOUS
    <3>1. i \in 1..Len(run)
      BY <1>2, <2>3
    <3>. QED
      BY <1>2, <3>1, ElementOfSeq
  <2>5. /\ piece \in Seq(Lines)
        /\ Len(piece) = IF d + 1 <= n THEN n - (d + 1) + 1 ELSE 0
        /\ \A i \in 1..(n - (d + 1) + 1) : piece[i] = run[(d + 1) + i - 1]
    <3>1. d + 1 \in Int /\ n \in Int
      BY <2>3
    <3>. QED
      BY <2>4, <3>1, SubSeqProperties
  <2>6. Len(piece) = n - d /\ \A i \in 1..(n - d) : piece[i] = run[d + i]
    BY <2>3, <2>5
  <2>. HIDE DEF piece
  <2>7. /\ Len(output \o piece) = d + (n - d)
        /\ \A m \in 1..(d + (n - d)) :
             (output \o piece)[m] = IF m <= d THEN output[m] ELSE piece[m - d]
    <3>1. /\ Len(output \o piece) = Len(output) + Len(piece)
          /\ \A m \in 1..(Len(output) + Len(piece)) :
               (output \o piece)[m] = IF m <= Len(output) THEN output[m] ELSE piece[m - Len(output)]
      BY <1>2, <2>5, ConcatProperties
    <3>2. Len(output) = d /\ Len(piece) = n - d
      BY <2>2, <2>6
    <3>. QED
      BY <3>1, <3>2, Zenon
  <2>8. Len(output \o piece) = n /\ \A m \in 1..n : (output \o piece)[m] = run[m]
    <3>1. d + (n - d) = n
      BY <2>3
    <3>2. ASSUME NEW m \in 1..n PROVE (output \o piece)[m] = run[m]
      <4>1. CASE m <= d
        <5>1. m \in 1..d
          BY <2>3, <4>1
        <5>. QED
          BY <2>2, <2>7, <3>1, <4>1, <5>1
      <4>2. CASE ~(m <= d)
        <5>1. m - d \in 1..(n - d) /\ d + (m - d) = m
          BY <2>3, <4>2
        <5>. QED
          BY <2>6, <2>7, <3>1, <4>2, <5>1
      <4>. QED
        BY <4>1, <4>2
    <3>. QED
      BY <2>7, <3>1, <3>2
  <2>. QED
    BY <1>1, <2>1, <2>8, Zenon DEF Copied, piece, run
<1>8. fetched'[1] < BytesTo(runs[1], drawn[1] + 1)' <=> fetched'[1] < BytesTo(run, n + 1)
  BY <1>4, Zenon DEF BytesTo
<1>9. Copied(n)' => Copied(drawn[1])'
  BY <1>4, Zenon DEF Copied
<1>. QED
  BY <1>1, <1>4, <1>5, <1>6, <1>7, <1>8, <1>9 DEF SingleInv

LEMMA RunCopiedSingle == ASSUME SortInv, SortTypes, SingleInv, RunCopied PROVE SingleInv'
<1>1. /\ stage = "copy" /\ stage' = "done" /\ UNCHANGED <<runs, output, drawn>> /\ Len(runs) = 1
      /\ ~unnoticed' => ~unnoticed /\ fetched[1] = Bytes(runs[1])
  BY DEF RunCopied, SortInv, merging, troubles, Ignored
<1>2. ASSUME ~unnoticed' PROVE Copied(Len(runs[1]))'
  <2>. DEFINE N == Len(runs[1])
  <2>1. /\ runs[1] \in Seq(Lines) /\ N \in Nat /\ \A n \in 0..N : BytesTo(runs[1], n) \in Nat
    BY <1>1, SingleRun
  <2>2. /\ drawn[1] \in 0..N /\ Copied(drawn[1])
        /\ drawn[1] < N => BytesTo(runs[1], N) < BytesTo(runs[1], drawn[1] + 1)
    BY <1>1, <1>2 DEF SingleInv, Bytes
  <2>. HIDE DEF N
  <2>3. drawn[1] = N
    <3>. SUFFICES ASSUME drawn[1] # N PROVE FALSE
      OBVIOUS
    <3>1. /\ drawn[1] < N /\ drawn[1] + 1 \in 0..N /\ N \in 0..N
          /\ drawn[1] + 1 = N \/ drawn[1] + 1 < N
      BY <2>1, <2>2
    <3>2. drawn[1] + 1 < N => BytesTo(runs[1], drawn[1] + 1) < BytesTo(runs[1], N)
      BY <2>1, <3>1, BytesBefore DEF N
    <3>. QED
      BY <2>1, <2>2, <3>1, <3>2
  <2>4. Copied(N)
    BY <2>2, <2>3
  <2>. QED
    BY <1>1, <2>4 DEF Copied, N
<1>3. ~(Len(runs') = 0)
  BY <1>1
<1>. QED
  BY <1>1, <1>2, <1>3 DEF SingleInv

LEMMA SingleStep ==
  SortInv /\ SortTypes /\ SingleInv /\ [SortNext]_sortVars => SingleInv'
<1>. SUFFICES ASSUME SortInv, SortTypes, SingleInv, [SortNext]_sortVars PROVE SingleInv'
  OBVIOUS
<1>1. CASE OpenCopy \/ CopyRunBlock \/ RunCopied
  BY <1>1, OpenCopySingle, CopyRunBlockSingle, RunCopiedSingle
<1>2. CASE NoRuns
  <2>1. stage = "merge" /\ runs = << >> /\ stage' = "done" /\ UNCHANGED <<runs, output>>
    BY <1>2 DEF NoRuns, merging
  <2>2. output = << >>
    BY <2>1 DEF SortInv
  <2>3. Len(runs') # 1
    BY <2>1
  <2>. QED
    BY <2>1, <2>2, <2>3 DEF SingleInv
<1>3. CASE MergeEnds
  <2>1. Len(runs') > 1 /\ stage' = "done"
    BY <1>3 DEF MergeEnds, SortInv
  <2>. QED
    BY <2>1 DEF SingleInv
<1>4. CASE UNCHANGED sortVars
  <2>1. /\ stage' = stage /\ runs' = runs /\ output' = output /\ drawn' = drawn
        /\ fetched' = fetched /\ unnoticed' = unnoticed
    BY <1>4 DEF sortVars, merging, troubles
  <2>2. \A n : Copied(n) => Copied(n)'
    BY <2>1, Zenon DEF Copied
  <2>3. Copied(drawn[1]) => Copied(drawn[1])'
    BY <2>1, Zenon DEF Copied
  <2>4. fetched[1] < BytesTo(runs[1], drawn[1] + 1)
          => (fetched[1] < BytesTo(runs[1], drawn[1] + 1))'
    BY <2>1, Zenon DEF BytesTo
  <2>5. Copied(Len(runs[1])) => Copied(Len(runs[1]))'
    BY <2>1, Zenon DEF Copied
  <2>. QED
    BY <2>1, <2>3, <2>4, <2>5 DEF SingleInv
<1>5. CASE stage' \notin {"copy", "done"}
  BY <1>5 DEF SingleInv
<1>6. CASE OpenInputFails \/ ReadInput \/ InputEnds \/ TakeLine \/ WriteRest \/ WriteChunkFails
  BY <1>5, <1>6
     DEF OpenInputFails, ReadInput, InputEnds, TakeLine, WriteRest, WriteChunkFails, Noticed
<1>7. CASE OpenRun \/ OpenOutput \/ OpenFails \/ Pop \/ Push \/ ReadRun \/ RunEnds
  BY <1>5, <1>7 DEF OpenRun, OpenOutput, OpenFails, Pop, Push, ReadRun, RunEnds, Noticed
<1>. QED
  BY <1>1, <1>2, <1>3, <1>4, <1>6, <1>7 DEF SortNext

-----------------------------------------------------------------------------
\* Merging loses no line.
WrittenTo(i) == IF i \in heap THEN drawn[i] - 1 ELSE drawn[i]
Written(l) ==
  SumFunctionOnSet([i \in DOMAIN drawn |-> OccursTo(l, runs[i], WrittenTo(i))], DOMAIN drawn)

AllWritten == \A l : Occurrences(l, output) = Written(l)
NoneDropped ==
  \A i \in DOMAIN drawn : \/ i \in heap
                          \/ stage = "refill" /\ i = idx
                          \/ drawn[i] = Len(runs[i])

Unhurt == Len(runs) > 1 /\ ~unnoticed /\ ~RunLost

MergedInv ==
  /\ stage \in {"pop", "refill"} => Len(drawn) = Len(runs)
  /\ Unhurt /\ stage \in {"merge", "pop", "refill"} => AllWritten /\ NoneDropped
  /\ Unhurt /\ stage = "done" => \A l : Occurrences(l, output) = CountedIn(l, runs)

LEMMA MergedInit == SortInit => MergedInv
  BY DEF SortInit, MergedInv

\* The summands of Written.
LEMMA WrittenParts ==
  ASSUME Merging, RunsTypes, NEW l
  PROVE  /\ IsFiniteSet(DOMAIN drawn) /\ DOMAIN drawn = 1..Len(drawn) /\ Len(drawn) \in Nat
         /\ \A i \in DOMAIN drawn :
              /\ WrittenTo(i) \in Nat /\ runs[i] \in Seq(Lines) /\ i \in DOMAIN runs
              /\ drawn[i] \in Nat /\ drawn[i] <= Len(runs[i]) /\ Len(runs[i]) \in Nat
         /\ \A S : S \subseteq DOMAIN drawn =>
              Weights([i \in DOMAIN drawn |-> OccursTo(l, runs[i], WrittenTo(i))], S)
<1>1. /\ IsFiniteSet(DOMAIN drawn) /\ DOMAIN drawn = 1..Len(drawn) /\ Len(drawn) \in Nat
  BY LenProperties, FS_Interval DEF Merging
<1>2. ASSUME NEW i \in DOMAIN drawn
      PROVE  /\ WrittenTo(i) \in Nat /\ runs[i] \in Seq(Lines) /\ i \in DOMAIN runs
             /\ drawn[i] \in Nat /\ drawn[i] <= Len(runs[i]) /\ Len(runs[i]) \in Nat
  <2>1. i \in DOMAIN runs /\ drawn[i] \in Nat /\ drawn[i] <= Len(runs[i])
        /\ (i \in heap => drawn[i] >= 1)
    BY <1>1 DEF Merging, RunsTypes
  <2>2. runs[i] \in Seq(Lines)
    BY <2>1 DEF RunsTypes
  <2>3. WrittenTo(i) \in Nat
    BY <2>1 DEF WrittenTo
  <2>. QED
    BY <2>1, <2>2, <2>3, LenProperties
<1>3. \A i \in DOMAIN drawn : OccursTo(l, runs[i], WrittenTo(i)) \in Nat
  BY <1>2, OccursToGrows
<1>. QED
  BY <1>1, <1>2, <1>3 DEF Weights

LEMMA WrittenStays ==
  ASSUME UNCHANGED runs, DOMAIN drawn' = DOMAIN drawn,
         \A i \in DOMAIN drawn : WrittenTo(i)' = WrittenTo(i), NEW l
  PROVE  Written(l)' = Written(l)
<1>. DEFINE f == [i \in DOMAIN drawn |-> OccursTo(l, runs[i], WrittenTo(i))]
            h == [i \in DOMAIN drawn' |-> OccursTo(l, runs'[i], WrittenTo(i)')]
<1>1. f = h
  <2>1. \A i \in DOMAIN drawn :
          OccursTo(l, runs'[i], WrittenTo(i)') = OccursTo(l, runs[i], WrittenTo(i))
    BY Zenon
  <2>. QED
    BY <2>1
<1>2. Written(l) = SumFunctionOnSet(f, DOMAIN drawn)
  BY Zenon DEF Written
<1>3. Written(l)' = SumFunctionOnSet(h, DOMAIN drawn')
  BY Zenon DEF Written, OccursTo, WrittenTo
<1>. HIDE DEF f, h
<1>. QED
  BY <1>1, <1>2, <1>3, Zenon

LEMMA UnhurtWas ==
  ASSUME UNCHANGED runs, ~unnoticed' => ~unnoticed, Unhurt'
  PROVE  Unhurt
  BY Zenon DEF Unhurt, RunLost, Size

\* Nothing was opened and nothing was written.
LEMMA MergeStarts == ASSUME SortInv, SortTypes, MergedInv, WriteRest PROVE MergedInv'
<1>1. stage' = "merge" /\ NothingMerged'
  <2>1. stage = "rest" /\ stage' = "merge" /\ UNCHANGED merging
    BY DEF WriteRest
  <2>. QED
    BY <2>1 DEF SortInv, NothingMerged, merging
<1>2. ASSUME NEW l PROVE Occurrences(l, output)' = Written(l)'
  <2>1. output' = << >> /\ DOMAIN drawn' = {} /\ \A i \in DOMAIN output' : output'[i] # l
    BY <1>1 DEF NothingMerged
  <2>2. Occurrences(l, output') = 0
    BY <2>1, NoOccurrence
  <2>. DEFINE f == [i \in DOMAIN drawn' |-> OccursTo(l, runs'[i], WrittenTo(i)')]
  <2>3. Written(l)' = SumFunctionOnSet(f, DOMAIN drawn')
    BY Zenon DEF Written, OccursTo, WrittenTo
  <2>. HIDE DEF f
  <2>4. SumFunctionOnSet(f, {}) = 0
    <3>1. IsFiniteSet({}) /\ Weights(f, {})
      BY FS_EmptySet DEF Weights
    <3>. QED
      BY <3>1, SumType
  <2>5. Written(l)' = 0
    BY <2>1, <2>3, <2>4, Zenon
  <2>. QED
    BY <2>2, <2>5, Zenon DEF Occurrences
<1>3. AllWritten'
  BY <1>2, Zenon DEF AllWritten
<1>4. NoneDropped'
  BY <1>1 DEF NoneDropped, NothingMerged
<1>. QED
  BY <1>1, <1>3, <1>4 DEF MergedInv

\* A run that is opened has written nothing.  (external_sort.cpp:134-149)
LEMMA OpenRunMerges ==
  ASSUME SortInv, SortTypes, MergedInv, OpenRun, SortInv' PROVE MergedInv'
<1>. PICK k : k = Len(fetched) + 1
  OBVIOUS
<1>1. /\ stage = "merge" /\ stage' = "merge" /\ Len(runs) > 1 /\ k \in DOMAIN runs
      /\ runs' = runs /\ output' = output
      /\ Merging /\ RunsTypes /\ Merging' /\ RunsTypes'
  <2>1. /\ stage = "merge" /\ stage' = "merge" /\ Len(runs) > 1 /\ runs' = runs /\ output' = output
        /\ Len(fetched) < Len(runs)
    BY DEF OpenRun
  <2>2. Merging /\ RunsTypes /\ Merging' /\ RunsTypes'
    BY <2>1 DEF SortInv
  <2>3. k \in DOMAIN runs
    <3>1. Len(fetched) \in Nat
      BY LenProperties DEF SortTypes, SortTypeOK
    <3>. QED
      BY <2>1, <2>2, <3>1 DEF RunsTypes
  <2>. QED
    BY <2>1, <2>2, <2>3
<1>. SUFFICES ASSUME Unhurt' PROVE AllWritten' /\ NoneDropped'
  BY <1>1 DEF MergedInv
<1>2. ~unnoticed' /\ Size(runs[k][1]) <= BlockSize
  <2>1. ~unnoticed' /\ ~RunLost'
    BY DEF Unhurt
  <2>2. Len(runs) > 1 => \A i \in DOMAIN runs : ~(Size(runs[i][1]) > BlockSize)
    BY <1>1, <2>1, Zenon DEF RunLost, Size
  <2>3. ~(Size(runs[k][1]) > BlockSize)
    BY <1>1, <2>2
  <2>4. Size(runs[k][1]) \in Int
    <3>1. runs[k] \in Seq(Lines) /\ runs[k] # << >>
      BY <1>1 DEF RunsTypes
    <3>2. 1 \in 1..Len(runs[k])
      BY <3>1, EmptySeq, LenProperties
    <3>3. runs[k][1] \in Lines
      BY <3>1, <3>2, ElementOfSeq
    <3>. QED
      BY <3>3 DEF Lines, Size
  <2>. QED
    BY <2>1, <2>3, <2>4, FilesAssumption
<1>3. drawn' = Append(drawn, 1) /\ heap' = heap \cup {k} /\ unnoticed' = unnoticed
  <2>1. ~Ignored
    BY <1>2 DEF Ignored
  <2>2. drawn' = Append(drawn, 1) /\ heap' = heap \cup {k} /\ UNCHANGED troubles
    BY <1>2, <2>1, Zenon DEF OpenRun
  <2>. QED
    BY <2>2 DEF troubles
<1>4. AllWritten /\ NoneDropped
  <2>1. Unhurt
    BY <1>1, <1>3, UnhurtWas
  <2>. QED
    BY <1>1, <2>1 DEF MergedInv
<1>5. /\ DOMAIN drawn' = DOMAIN drawn \cup {k} /\ k \notin DOMAIN drawn /\ drawn'[k] = 1
      /\ \A i \in DOMAIN drawn : drawn'[i] = drawn[i]
  <2>1. drawn \in Seq(Nat) /\ Len(drawn) = Len(fetched) /\ Len(drawn) \in Nat
    BY LenProperties DEF SortTypes, SortTypeOK
  <2>. QED
    BY <1>3, <2>1, AppendProperties
<1>6. NoneDropped'
  <2>. SUFFICES ASSUME NEW i \in DOMAIN drawn' PROVE i \in heap' \/ drawn'[i] = Len(runs'[i])
    BY DEF NoneDropped
  <2>1. CASE i = k
    BY <1>3, <2>1
  <2>2. CASE i \in DOMAIN drawn
    BY <1>1, <1>3, <1>4, <1>5, <2>2 DEF NoneDropped
  <2>. QED
    BY <1>5, <2>1, <2>2
<1>7. ASSUME NEW l PROVE Occurrences(l, output)' = Written(l)'
  <2>. DEFINE D == DOMAIN drawn
              f == [i \in DOMAIN drawn |-> OccursTo(l, runs[i], WrittenTo(i))]
              h == [i \in DOMAIN drawn' |-> OccursTo(l, runs'[i], WrittenTo(i)')]
  <2>1. Written(l) = SumFunctionOnSet(f, D)
    BY Zenon DEF Written
  <2>2. Written(l)' = SumFunctionOnSet(h, DOMAIN drawn')
    BY Zenon DEF Written, OccursTo, WrittenTo
  <2>3. \A i \in D : f[i] = OccursTo(l, runs[i], WrittenTo(i))
    OBVIOUS
  <2>4. \A i \in DOMAIN drawn' : h[i] = OccursTo(l, runs'[i], WrittenTo(i)')
    OBVIOUS
  <2>5. IsFiniteSet(D) /\ Weights(f, D)
    BY <1>1, WrittenParts
  <2>. HIDE DEF f, h, D
  <2>6. ASSUME NEW i \in D PROVE f[i] = h[i]
    <3>1. i \in DOMAIN drawn' /\ WrittenTo(i)' = WrittenTo(i)
      BY <1>3, <1>5 DEF WrittenTo, D
    <3>. QED
      BY <1>1, <2>3, <2>4, <3>1, Zenon
  <2>7. h[k] = 0
    <3>1. WrittenTo(k)' = 0
      BY <1>3, <1>5 DEF WrittenTo
    <3>2. OccursTo(l, runs'[k], 0) = 0
      BY OccursToGrows
    <3>3. k \in DOMAIN drawn'
      BY <1>5
    <3>. QED
      BY <2>4, <3>1, <3>2, <3>3, Zenon
  <2>8. Weights(h, D \cup {k})
    BY <2>5, <2>6, <2>7 DEF Weights
  <2>9. SumFunctionOnSet(h, D \cup {k}) = h[k] + SumFunctionOnSet(h, D)
    BY <1>5, <2>5, <2>8, SumAdds DEF D
  <2>10. SumFunctionOnSet(f, D) = SumFunctionOnSet(h, D) /\ SumFunctionOnSet(f, D) \in Int
    BY <2>5, <2>6, SumSame, SumType
  <2>11. SumFunctionOnSet(h, DOMAIN drawn') = h[k] + SumFunctionOnSet(f, D)
    BY <1>5, <2>9, <2>10, Zenon DEF D
  <2>12. Written(l)' = Written(l)
    BY <2>1, <2>2, <2>7, <2>10, <2>11
  <2>13. Occurrences(l, output)' = Occurrences(l, output)
    BY <1>1, Zenon DEF Occurrences
  <2>. QED
    BY <1>4, <2>12, <2>13 DEF AllWritten
<1>8. AllWritten'
  BY <1>7, Zenon DEF AllWritten
<1>. QED
  BY <1>6, <1>8

LEMMA OutputOpened == ASSUME SortInv, SortTypes, MergedInv, OpenOutput PROVE MergedInv'
<1>1. /\ stage = "merge" /\ stage' = "pop" /\ Len(runs) > 1 /\ Len(fetched) = Len(runs)
      /\ runs' = runs /\ output' = output /\ drawn' = drawn /\ heap' = heap
      /\ unnoticed' = unnoticed
  BY DEF OpenOutput, merging, troubles
<1>2. Len(drawn') = Len(runs')
  BY <1>1 DEF SortTypes, SortTypeOK
<1>3. ASSUME Unhurt' PROVE AllWritten' /\ NoneDropped'
  <2>1. AllWritten /\ NoneDropped
    <3>1. Unhurt
      BY <1>1, <1>3, UnhurtWas
    <3>. QED
      BY <1>1, <3>1 DEF MergedInv
  <2>2. NoneDropped'
    BY <1>1, <2>1 DEF NoneDropped
  <2>3. ASSUME NEW l PROVE Occurrences(l, output)' = Written(l)'
    <3>1. \A i \in DOMAIN drawn : WrittenTo(i)' = WrittenTo(i)
      BY <1>1 DEF WrittenTo
    <3>2. Written(l)' = Written(l)
      BY <1>1, <3>1, WrittenStays
    <3>3. Occurrences(l, output)' = Occurrences(l, output)
      BY <1>1, Zenon DEF Occurrences
    <3>. QED
      BY <2>1, <3>2, <3>3 DEF AllWritten
  <2>. QED
    BY <2>2, <2>3, Zenon DEF AllWritten
<1>. QED
  BY <1>1, <1>2, <1>3 DEF MergedInv

\* The line that is popped is written.  (external_sort.cpp:155-161)
LEMMA PopMerges == ASSUME SortInv, SortTypes, MergedInv, Pop, SortInv' PROVE MergedInv'
<1>1. /\ stage = "pop" /\ stage' = "refill" /\ runs' = runs /\ drawn' = drawn /\ Len(runs) > 1
      /\ Merging /\ RunsTypes /\ Merging' /\ RunsTypes' /\ Len(drawn) = Len(runs)
  <2>1. stage = "pop" /\ stage' = "refill" /\ runs' = runs /\ drawn' = drawn
    BY DEF Pop
  <2>. QED
    BY <2>1 DEF SortInv, MergedInv
<1>2. PICK i \in heap :
        /\ idx' = i /\ heap' = heap \ {i}
        /\ \/ output' = Append(output, InHeap(i)) /\ UNCHANGED troubles
           \/ UNCHANGED output /\ Ignored
  BY DEF Pop
<1>. SUFFICES ASSUME Unhurt' PROVE AllWritten' /\ NoneDropped'
  BY <1>1 DEF MergedInv
<1>3. output' = Append(output, InHeap(i)) /\ unnoticed' = unnoticed
  <2>1. ~Ignored
    BY DEF Unhurt, Ignored
  <2>2. output' = Append(output, InHeap(i)) /\ UNCHANGED troubles
    BY <1>2, <2>1, Zenon
  <2>. QED
    BY <2>2 DEF troubles
<1>4. AllWritten /\ NoneDropped
  <2>1. Unhurt
    BY <1>1, <1>3, UnhurtWas
  <2>. QED
    BY <1>1, <2>1 DEF MergedInv
<1>5. i \in DOMAIN drawn /\ drawn[i] \in Nat /\ drawn[i] - 1 \in Nat /\ drawn[i] - 1 + 1 = drawn[i]
      /\ InHeap(i) \in Lines /\ output \in Seq(Lines)
  <2>1. i \in DOMAIN drawn /\ drawn[i] \in Nat /\ drawn[i] >= 1 /\ drawn[i] <= Len(runs[i])
        /\ runs[i] \in Seq(Lines) /\ output \in Seq(Lines)
    BY <1>1, WrittenParts DEF Merging
  <2>2. drawn[i] \in 1..Len(runs[i])
    BY <2>1, LenProperties
  <2>3. InHeap(i) \in Lines
    BY <2>1, <2>2, ElementOfSeq DEF InHeap
  <2>. QED
    BY <2>1, <2>3
<1>6. NoneDropped'
  BY <1>1, <1>2, <1>4 DEF NoneDropped
<1>7. ASSUME NEW l PROVE Occurrences(l, output)' = Written(l)'
  <2>. DEFINE D == DOMAIN drawn
              f == [j \in DOMAIN drawn |-> OccursTo(l, runs[j], WrittenTo(j))]
              h == [j \in DOMAIN drawn' |-> OccursTo(l, runs'[j], WrittenTo(j)')]
  <2>1. Written(l) = SumFunctionOnSet(f, D)
    BY Zenon DEF Written
  <2>2. Written(l)' = SumFunctionOnSet(h, DOMAIN drawn')
    BY Zenon DEF Written, OccursTo, WrittenTo
  <2>3. \A j \in D : f[j] = OccursTo(l, runs[j], WrittenTo(j))
    OBVIOUS
  <2>4. \A j \in DOMAIN drawn' : h[j] = OccursTo(l, runs'[j], WrittenTo(j)')
    OBVIOUS
  <2>5. IsFiniteSet(D) /\ Weights(f, D)
    BY <1>1, WrittenParts
  <2>. HIDE DEF f, h, D
  <2>6. DOMAIN drawn' = D /\ i \in D
    BY <1>1, <1>5 DEF D
  <2>7. \A j \in D \ {i} : f[j] = h[j]
    <3>. SUFFICES ASSUME NEW j \in D \ {i} PROVE f[j] = h[j]
      OBVIOUS
    <3>1. WrittenTo(j)' = WrittenTo(j)
      BY <1>1, <1>2 DEF WrittenTo
    <3>. QED
      BY <1>1, <2>3, <2>4, <2>6, <3>1, Zenon
  <2>8. h[i] = f[i] + (IF InHeap(i) = l THEN 1 ELSE 0) /\ f[i] \in Nat
    <3>1. WrittenTo(i) = drawn[i] - 1 /\ WrittenTo(i)' = drawn[i]
      BY <1>1, <1>2 DEF WrittenTo
    <3>2. OccursTo(l, runs[i], drawn[i]) = OccursTo(l, runs[i], drawn[i] - 1)
                                             + (IF runs[i][drawn[i]] = l THEN 1 ELSE 0)
          /\ OccursTo(l, runs[i], drawn[i] - 1) \in Nat
      <4>. DEFINE n == drawn[i] - 1
      <4>1. n \in Nat /\ n + 1 = drawn[i]
        BY <1>5
      <4>. HIDE DEF n
      <4>2. OccursTo(l, runs[i], n + 1) = OccursTo(l, runs[i], n)
                                            + (IF runs[i][n + 1] = l THEN 1 ELSE 0)
            /\ OccursTo(l, runs[i], n) \in Nat
        BY <4>1, OccursToGrows
      <4>. QED
        BY <4>1, <4>2, Zenon DEF n
    <3>3. f[i] = OccursTo(l, runs[i], drawn[i] - 1) /\ h[i] = OccursTo(l, runs[i], drawn[i])
      BY <1>1, <2>3, <2>4, <2>6, <3>1, Zenon
    <3>. QED
      BY <3>2, <3>3 DEF InHeap
  <2>9. Weights(h, D)
    BY <2>5, <2>7, <2>8 DEF Weights
  <2>10. SumFunctionOnSet(h, D) = SumFunctionOnSet(f, D) + (h[i] - f[i])
         /\ SumFunctionOnSet(f, D) \in Int
    BY <2>5, <2>6, <2>7, <2>9, SumChanges
  <2>11. Written(l)' = Written(l) + (IF InHeap(i) = l THEN 1 ELSE 0)
    <3>1. Written(l)' = SumFunctionOnSet(h, D)
      BY <2>2, <2>6, Zenon
    <3>. QED
      BY <2>1, <2>8, <2>10, <3>1
  <2>12. Occurrences(l, output)' = Occurrences(l, output) + (IF InHeap(i) = l THEN 1 ELSE 0)
    <3>1. Occurrences(l, Append(output, InHeap(i)))
            = Occurrences(l, output) + (IF InHeap(i) = l THEN 1 ELSE 0)
      BY <1>5, OccursAppended
    <3>2. Occurrences(l, output)' = Occurrences(l, Append(output, InHeap(i)))
      BY <1>3, Zenon DEF Occurrences
    <3>. QED
      BY <3>1, <3>2
  <2>. QED
    BY <1>4, <2>11, <2>12 DEF AllWritten
<1>8. AllWritten'
  BY <1>7, Zenon DEF AllWritten
<1>. QED
  BY <1>6, <1>8

\* The run that was popped has its next line in the heap, or has none left.
\* (external_sort.cpp:164-177)
LEMMA RefillMerges ==
  ASSUME SortInv, SortTypes, MergedInv, Push \/ ReadRun \/ RunEnds
  PROVE  MergedInv'
<1>1. /\ stage = "refill" /\ runs' = runs /\ output' = output /\ Len(runs) > 1
      /\ stage' \in {"refill", "pop"} /\ idx' = idx
      /\ ~unnoticed' => ~unnoticed
      /\ Merging /\ RunsTypes /\ Refilling /\ Len(drawn) = Len(runs)
  <2>1. /\ stage = "refill" /\ runs' = runs /\ output' = output /\ stage' \in {"refill", "pop"}
        /\ idx' = idx
    BY DEF Push, ReadRun, RunEnds, merging
  <2>2. Len(runs) > 1 /\ Merging /\ RunsTypes /\ Refilling /\ Len(drawn) = Len(runs)
    BY <2>1 DEF SortInv, MergedInv
  <2>3. ~unnoticed' => ~unnoticed
    BY DEF Push, ReadRun, RunEnds, troubles, Ignored
  <2>. QED
    BY <2>1, <2>2, <2>3
<1>2. idx \in DOMAIN drawn /\ idx \notin heap
  BY <1>1 DEF Refilling
<1>3. /\ DOMAIN drawn' = DOMAIN drawn /\ Len(drawn') = Len(drawn)
      /\ \A i \in DOMAIN drawn : WrittenTo(i)' = WrittenTo(i)
      /\ \A i \in DOMAIN drawn \ {idx} : drawn'[i] = drawn[i] /\ (i \in heap <=> i \in heap')
  <2>0. drawn \in Seq(Nat) /\ drawn[idx] \in Nat
    BY <1>1, <1>2, WrittenParts DEF Merging
  <2>1. CASE Push
    <3>1. drawn' = [drawn EXCEPT ![idx] = @ + 1] /\ heap' = heap \cup {idx}
      BY <2>1 DEF Push
    <3>2. DOMAIN drawn' = DOMAIN drawn /\ Len(drawn') = Len(drawn) /\ drawn'[idx] = drawn[idx] + 1
          /\ \A i \in DOMAIN drawn \ {idx} : drawn'[i] = drawn[i] /\ (i \in heap <=> i \in heap')
      BY <1>2, <2>0, <3>1
    <3>3. ASSUME NEW i \in DOMAIN drawn PROVE WrittenTo(i)' = WrittenTo(i)
      <4>1. CASE i = idx
        <5>1. idx \in heap' /\ drawn'[idx] - 1 = drawn[idx]
          BY <2>0, <3>1, <3>2
        <5>. QED
          BY <1>2, <4>1, <5>1 DEF WrittenTo
      <4>2. CASE i # idx
        BY <3>2, <4>2 DEF WrittenTo
      <4>. QED
        BY <4>1, <4>2
    <3>. QED
      BY <3>2, <3>3
  <2>2. CASE ReadRun \/ RunEnds
    <3>1. drawn' = drawn /\ heap' = heap
      BY <2>2 DEF ReadRun, RunEnds, merging
    <3>. QED
      BY <3>1 DEF WrittenTo
  <2>. QED
    BY <2>1, <2>2
<1>4. ASSUME Unhurt' PROVE AllWritten' /\ NoneDropped'
  <2>1. AllWritten /\ NoneDropped /\ ~unnoticed'
    <3>1. Unhurt
      BY <1>1, <1>4, UnhurtWas
    <3>. QED
      BY <1>1, <1>4, <3>1 DEF MergedInv, Unhurt
  <2>2. ASSUME NEW l PROVE Occurrences(l, output)' = Written(l)'
    <3>1. Written(l)' = Written(l)
      BY <1>1, <1>3, WrittenStays
    <3>2. Occurrences(l, output)' = Occurrences(l, output)
      BY <1>1, Zenon DEF Occurrences
    <3>. QED
      BY <2>1, <3>1, <3>2 DEF AllWritten
  <2>3. \/ idx \in heap'
        \/ stage' = "refill"
        \/ drawn'[idx] = Len(runs'[idx])
    <3>1. CASE Push
      BY <3>1 DEF Push
    <3>2. CASE ReadRun
      BY <1>1, <3>2 DEF ReadRun
    <3>3. CASE RunEnds
      <4>1. ~Ignored
        BY <2>1 DEF Ignored
      <4>2. fetched[idx] = Bytes(runs[idx]) /\ ~RunLineReady /\ drawn' = drawn
        BY <3>3, <4>1, Zenon DEF RunEnds, merging
      <4>. DEFINE run == runs[idx]
                  d == drawn[idx]
                  N == Len(runs[idx])
      <4>3. run \in Seq(Lines) /\ d \in Nat /\ N \in Nat /\ d <= N
        BY <1>1, <1>2, WrittenParts
      <4>4. d < N => ~(BytesTo(run, d + 1) <= BytesTo(run, N))
        BY <4>2 DEF RunLineReady, Bytes
      <4>. HIDE DEF run, d, N
      <4>5. d = N
        <5>. SUFFICES ASSUME d < N PROVE FALSE
          BY <4>3
        <5>1. d + 1 \in 0..N /\ N \in 0..N /\ (d + 1 = N \/ d + 1 < N)
          BY <4>3
        <5>2. BytesTo(run, d + 1) \in Nat /\ BytesTo(run, N) \in Nat
          BY <4>3, <5>1, BytesGrow DEF N, run
        <5>3. d + 1 < N => BytesTo(run, d + 1) < BytesTo(run, N)
          BY <4>3, <5>1, BytesBefore DEF N, run
        <5>. QED
          BY <4>4, <5>1, <5>2, <5>3
      <4>. QED
        BY <1>1, <4>2, <4>5 DEF d, N
    <3>. QED
      BY <3>1, <3>2, <3>3
  <2>4. NoneDropped'
    <3>. SUFFICES ASSUME NEW i \in DOMAIN drawn'
                  PROVE  \/ i \in heap'
                         \/ stage' = "refill" /\ i = idx'
                         \/ drawn'[i] = Len(runs'[i])
      BY DEF NoneDropped
    <3>1. CASE i = idx
      BY <1>1, <2>3, <3>1
    <3>2. CASE i # idx
      BY <1>1, <1>3, <2>1, <3>2 DEF NoneDropped
    <3>. QED
      BY <3>1, <3>2
  <2>. QED
    BY <2>2, <2>4, Zenon DEF AllWritten
<1>. QED
  BY <1>1, <1>3, <1>4 DEF MergedInv

\* When the heap is empty every run was written to its end.  (external_sort.cpp:155)
LEMMA MergeEndsWhole == ASSUME SortInv, SortTypes, MergedInv, MergeEnds PROVE MergedInv'
<1>1. /\ stage = "pop" /\ stage' = "done" /\ heap = {} /\ runs' = runs /\ output' = output
      /\ unnoticed' = unnoticed
      /\ Merging /\ RunsTypes /\ Len(drawn) = Len(runs)
  <2>1. /\ stage = "pop" /\ stage' = "done" /\ heap = {} /\ runs' = runs /\ output' = output
        /\ unnoticed' = unnoticed
    BY DEF MergeEnds, merging, troubles
  <2>. QED
    BY <2>1 DEF SortInv, MergedInv
<1>2. ASSUME Unhurt', NEW l PROVE (Occurrences(l, output) = CountedIn(l, runs))'
  <2>1. AllWritten /\ NoneDropped
    <3>1. Unhurt
      BY <1>1, <1>2, UnhurtWas
    <3>. QED
      BY <1>1, <3>1 DEF MergedInv
  <2>. DEFINE f == [i \in DOMAIN drawn |-> OccursTo(l, runs[i], WrittenTo(i))]
              h == [i \in DOMAIN runs |-> Occurrences(l, runs[i])]
  <2>2. DOMAIN drawn = DOMAIN runs
    BY <1>1, WrittenParts, LenProperties DEF RunsTypes
  <2>3. \A i \in DOMAIN drawn : OccursTo(l, runs[i], WrittenTo(i)) = Occurrences(l, runs[i])
    <3>. SUFFICES ASSUME NEW i \in DOMAIN drawn
                  PROVE  OccursTo(l, runs[i], WrittenTo(i)) = Occurrences(l, runs[i])
      OBVIOUS
    <3>1. WrittenTo(i) = Len(runs[i])
      BY <1>1, <2>1 DEF NoneDropped, WrittenTo
    <3>2. runs[i] \in Seq(Lines)
      BY <1>1, WrittenParts
    <3>. QED
      BY <3>1, <3>2, OccursInAll
  <2>4. f = h
    BY <2>2, <2>3
  <2>5. Written(l) = CountedIn(l, runs)
    <3>1. Written(l) = SumFunctionOnSet(f, DOMAIN drawn)
      BY Zenon DEF Written
    <3>2. CountedIn(l, runs) = SumFunctionOnSet(h, DOMAIN runs)
      BY Zenon DEF CountedIn
    <3>. HIDE DEF f, h
    <3>. QED
      BY <2>2, <2>4, <3>1, <3>2, Zenon
  <2>6. Occurrences(l, output) = CountedIn(l, runs)
    BY <2>1, <2>5 DEF AllWritten
  <2>7. Occurrences(l, output)' = Occurrences(l, output)
    BY <1>1, Zenon DEF Occurrences
  <2>8. CountedIn(l, runs)' = CountedIn(l, runs)
    BY <1>1, Zenon DEF CountedIn
  <2>. QED
    BY <2>6, <2>7, <2>8
<1>. QED
  BY <1>1, <1>2 DEF MergedInv

LEMMA MergedStep ==
  SortInv /\ SortTypes /\ MergedInv /\ [SortNext]_sortVars => MergedInv'
<1>. SUFFICES ASSUME SortInv, SortTypes, MergedInv, [SortNext]_sortVars PROVE MergedInv'
  OBVIOUS
<1>1. SortInv'
  BY SortStep
<1>2. CASE WriteRest \/ OpenRun \/ OpenOutput \/ Pop \/ Push \/ ReadRun \/ RunEnds \/ MergeEnds
  BY <1>1, <1>2, MergeStarts, OpenRunMerges, OutputOpened, PopMerges, RefillMerges, MergeEndsWhole
<1>3. CASE stage' \notin {"merge", "pop", "refill", "done"}
  BY <1>3 DEF MergedInv
<1>4. CASE OpenInputFails \/ ReadInput \/ InputEnds \/ TakeLine \/ WriteChunkFails \/ OpenFails
           \/ OpenCopy
  BY <1>3, <1>4 DEF OpenInputFails, ReadInput, InputEnds, TakeLine, WriteChunkFails, OpenFails,
                    OpenCopy, Noticed
<1>5. CASE NoRuns
  <2>1. Len(runs') = 0 /\ stage' = "done"
    BY <1>5 DEF NoRuns
  <2>. QED
    BY <2>1 DEF MergedInv, Unhurt
<1>6. CASE CopyRunBlock \/ RunCopied
  <2>1. Len(runs') = 1 /\ stage' \in {"copy", "done"}
    BY <1>6 DEF CopyRunBlock, RunCopied, SortInv
  <2>2. ~Unhurt'
    BY <2>1 DEF Unhurt
  <2>. QED
    BY <2>1, <2>2 DEF MergedInv
<1>7. CASE UNCHANGED sortVars
  <2>1. /\ stage' = stage /\ runs' = runs /\ output' = output /\ drawn' = drawn
        /\ heap' = heap /\ unnoticed' = unnoticed /\ idx' = idx
    BY <1>7 DEF sortVars, merging, troubles
  <2>2. Unhurt' => Unhurt
    BY <2>1, UnhurtWas
  <2>3. ASSUME NEW l
        PROVE  /\ Occurrences(l, output)' = Occurrences(l, output)
               /\ CountedIn(l, runs)' = CountedIn(l, runs)
               /\ Written(l)' = Written(l)
    <3>1. Occurrences(l, output)' = Occurrences(l, output)
      BY <2>1, Zenon DEF Occurrences
    <3>2. CountedIn(l, runs)' = CountedIn(l, runs)
      BY <2>1, Zenon DEF CountedIn
    <3>3. \A i \in DOMAIN drawn : WrittenTo(i)' = WrittenTo(i)
      BY <2>1 DEF WrittenTo
    <3>4. Written(l)' = Written(l)
      BY <2>1, <3>3, WrittenStays
    <3>. QED
      BY <3>1, <3>2, <3>4
  <2>4. AllWritten => AllWritten'
    BY <2>3 DEF AllWritten
  <2>5. NoneDropped => NoneDropped'
    BY <2>1 DEF NoneDropped
  <2>. QED
    BY <2>1, <2>2, <2>3, <2>4, <2>5 DEF MergedInv
<1>. QED
  BY <1>2, <1>4, <1>5, <1>6, <1>7 DEF SortNext

\* The runs hold the lines of the input, and the output those of the runs.
LEMMA AllTogether ==
  ASSUME SortInv, SortTypes, ReadInv, SingleInv, MergedInv
  PROVE  SortedUnlessLost
<1>. SUFFICES ASSUME stage = "done", ~unnoticed, ~RunLost PROVE Sorted(output) /\ SameLines(output, input)
  BY DEF SortedUnlessLost, IsResult
<1>1. /\ \A l : Occurrences(l, input) = CountedIn(l, runs)
      /\ runs \in Seq(Seq(Lines)) /\ Len(runs) \in Nat /\ output \in Seq(Lines)
  BY LenProperties DEF ReadInv, InTheRuns, SortTypes, SortTypeOK, Lines
<1>2. Sorted(output) /\ \A l : Occurrences(l, output) = CountedIn(l, runs)
  <2>1. CASE Len(runs) = 0
    <3>1. output = << >>
      BY <2>1 DEF SingleInv
    <3>2. \A l : Occurrences(l, output) = 0
      BY <3>1, NoOccurrence
    <3>3. \A l : CountedIn(l, runs) = 0
      BY <1>1, <2>1, CountedGrows
    <3>4. Sorted(output)
      BY <3>1 DEF Sorted
    <3>. QED
      BY <3>2, <3>3, <3>4
  <2>2. CASE Len(runs) = 1
    <3>1. Len(output) = Len(runs[1]) /\ \A m \in 1..Len(runs[1]) : output[m] = runs[1][m]
      BY <2>2 DEF SingleInv, Copied
    <3>2. runs[1] \in Seq(Lines) /\ 1 \in DOMAIN runs
      BY <2>2, SingleRun
    <3>3. output = runs[1]
      BY <1>1, <3>1, <3>2, SeqEqual
    <3>4. Sorted(output)
      BY <3>2, <3>3 DEF SortInv, RunsTypes
    <3>5. \A l : CountedIn(l, runs) = Occurrences(l, runs[1])
      BY <1>1, <2>2, CountedInOne
    <3>6. ASSUME NEW l PROVE Occurrences(l, output) = Occurrences(l, runs[1])
      BY <3>3, Zenon
    <3>. QED
      BY <3>4, <3>5, <3>6
  <2>3. CASE Len(runs) > 1
    <3>1. Sorted(output)
      BY <2>3 DEF SortInv, Merging
    <3>2. Unhurt
      BY <2>3 DEF Unhurt
    <3>. QED
      BY <3>1, <3>2 DEF MergedInv
  <2>4. \A n \in Nat : n = 0 \/ n = 1 \/ n > 1
    OBVIOUS
  <2>5. Len(runs) = 0 \/ Len(runs) = 1 \/ Len(runs) > 1
    BY <1>1, <2>4
  <2>. QED
    BY <2>1, <2>2, <2>3, <2>5, Zenon
<1>. QED
  BY <1>1, <1>2 DEF SameLines

\* For every input, memory limit and size of a block, and whatever fails: if no error
\* was ignored and no run begins with a line longer than a block, the program ends with
\* the lines of the input, each as often as it is there, in order.
\* (external_sort.cpp:42-177)
THEOREM SortsTheFile == SortSpec => []SortedUnlessLost
<1>1. SortInit => SortInv /\ SortTypes /\ ReadInv /\ SingleInv /\ MergedInv
  BY SortedInit, SortTypesInit, ReadInit, SingleInit, MergedInit
<1>2. SortInv /\ SortTypes /\ ReadInv /\ SingleInv /\ MergedInv /\ [SortNext]_sortVars
        => (SortInv /\ SortTypes /\ ReadInv /\ SingleInv /\ MergedInv)'
  BY SortStep, SortTypesStep, ReadStep, SingleStep, MergedStep
<1>3. SortInv /\ SortTypes /\ ReadInv /\ SingleInv /\ MergedInv => SortedUnlessLost
  BY AllTogether
<1>. QED
  BY <1>1, <1>2, <1>3, PTL DEF SortSpec
=============================================================================
