---------------------------- MODULE ExternalSort ----------------------------
(***************************************************************************)
(* bonusTask/external_sort.cpp: lines are collected up to a memory limit,  *)
(* sorted and written to temporary files, the runs; the runs are merged by *)
(* a heap that holds one line of each, and read ahead block by block.      *)
(*                                                                         *)
(* A line is <<letter, length>>, a word of one repeated letter, so that    *)
(* the order of lines and the beginnings of lines are those of strings.    *)
(* The empty line is <<0, 0>>.  Files are sequences of lines; where a      *)
(* block ends in one is counted in bytes.  A write that fails has written  *)
(* nothing: short writes are left out.                                     *)
(***************************************************************************)
EXTENDS Integers, Sequences, FiniteSetsExt, SequencesExt

CONSTANTS
  Inputs,     \* the files that may be sorted
  BlockSize,  \* READ_BUFFER_SIZE, the size of buf and of temp_buf
  MaxMemory,  \* max_memory_size
  MaxFaults   \* bound: system calls that fail

IsLine(l) == l = <<0, 0>> \/ l \in (Nat \ {0}) \X (Nat \ {0})

ASSUME FilesAssumption ==
  /\ \A file \in Inputs : file \in Seq(Nat \X Nat) /\ \A i \in DOMAIN file : IsLine(file[i])
  /\ BlockSize \in Nat \ {0} /\ MaxMemory \in Nat /\ MaxFaults \in Nat

VARIABLES
  stage,
  input, terminated,  \* the file; whether its last line ends with a newline
  got, taken,         \* bytes of it that were read, lines erased from leftover
  buffer,
  runs,               \* the temporary files
  fetched, drawn,     \* as got and taken, for each run that was opened
  heap,               \* the runs that have a line in min_heap: their last one drawn
  idx,                \* the run of the line that was popped
  output,             \* the lines whose last byte was written to the output file
  faults, unnoticed   \* calls that have failed; whether one of them was ignored

reading == <<input, terminated, got, taken, buffer>>
merging == <<fetched, drawn, heap, idx, output>>
troubles == <<faults, unnoticed>>
sortVars == <<stage, reading, runs, merging, troubles>>

Size(line) == line[2] + 1  \* with its newline
BytesTo(lines, n) == SumFunctionOnSet([i \in DOMAIN lines |-> Size(lines[i])], 1..n)
Bytes(lines) == BytesTo(lines, Len(lines))

NotAfter(a, b) == a[1] < b[1] \/ (a[1] = b[1] /\ a[2] <= b[2])
Sorted(lines) == \A i, j \in DOMAIN lines : i < j => NotAfter(lines[i], lines[j])
Occurrences(line, lines) == Cardinality({i \in DOMAIN lines : lines[i] = line})
SameLines(s, t) == \A l \in ToSet(s) \cup ToSet(t) : Occurrences(l, s) = Occurrences(l, t)

SortInit ==
  /\ stage = "runs"
  /\ input \in Inputs
  /\ terminated \in BOOLEAN
  /\ terminated \/ (input # << >> /\ Last(input) # <<0, 0>>)
  /\ got = 0 /\ taken = 0 /\ buffer = << >> /\ runs = << >>
  /\ fetched = << >> /\ drawn = << >> /\ heap = {} /\ idx = 0 /\ output = << >>
  /\ faults = 0 /\ unnoticed = FALSE

\* A system call fails, and the program looks at the result, or it does not.
Fails == faults < MaxFaults /\ faults' = faults + 1
Noticed == Fails /\ stage' = "failed" /\ UNCHANGED <<reading, runs, merging, unnoticed>>
Ignored == Fails /\ unnoticed' = TRUE

-----------------------------------------------------------------------------
\* create_sorted_runs

FileBytes == Bytes(input) - (IF terminated THEN 0 ELSE 1)
LineReady == taken < Len(input) /\ BytesTo(input, taken + 1) <= got

OpenInputFails == stage = "runs" /\ got = 0 /\ Noticed

ReadInput ==
  /\ stage = "runs" /\ ~LineReady /\ got < FileBytes
  /\ got' = Min({got + BlockSize, FileBytes})
  /\ UNCHANGED <<stage, input, terminated, taken, buffer, runs, merging, troubles>>

\* An error of read ends the loop like the end of the file.
InputEnds ==
  /\ stage = "runs" /\ ~LineReady
  /\ (got = FileBytes /\ UNCHANGED troubles) \/ Ignored
  /\ stage' = "rest"
  /\ UNCHANGED <<reading, runs, merging>>

\* write_sorted_chunk when no call of it fails
WriteSortedChunk(chunk) ==
  \E sorted \in [DOMAIN chunk -> ToSet(chunk)] :
    /\ Sorted(sorted) /\ SameLines(sorted, chunk)
    /\ runs' = Append(runs, sorted)

\* Mutant of Fits: the line itself is not counted.
FitsWithout(line) == buffer = << >> \/ Bytes(buffer) <= MaxMemory

Fits(line) == buffer = << >> \/ Bytes(buffer) + Size(line) <= MaxMemory

TakeLine ==
  /\ stage = "runs" /\ LineReady
  /\ taken' = taken + 1
  /\ LET line == input[taken + 1] IN
     \/ Fits(line) /\ buffer' = Append(buffer, line) /\ UNCHANGED runs
     \/ ~Fits(line) /\ WriteSortedChunk(buffer) /\ buffer' = <<line>>
  /\ UNCHANGED <<stage, input, terminated, got, merging, troubles>>

\* What is left over when reading has ended, a line without its newline or less.
Leftover ==
  UNION {{input[i][1]} \X {n \in 1..input[i][2] : BytesTo(input, taken) + n = got} :
            i \in {taken + 1} \cap DOMAIN input}

Rest == IF Leftover = {} THEN {buffer} ELSE {Append(buffer, l) : l \in Leftover}

WriteRest ==
  /\ stage = "rest"
  /\ \E rest \in Rest : IF rest = << >> THEN UNCHANGED runs ELSE WriteSortedChunk(rest)
  /\ buffer' = << >>
  /\ stage' = "merge"
  /\ UNCHANGED <<input, terminated, got, taken, merging, troubles>>

WriteChunkFails ==
  /\ \/ stage = "runs" /\ LineReady /\ ~Fits(input[taken + 1])
     \/ stage = "rest" /\ Rest # {<< >>}
  /\ Noticed

-----------------------------------------------------------------------------
\* merge_sorted_files

NoRuns ==
  /\ stage = "merge" /\ runs = << >>
  /\ UNCHANGED troubles \/ Ignored
  /\ stage' = "done"
  /\ UNCHANGED <<reading, runs, merging>>

OpenCopy ==
  /\ stage = "merge" /\ Len(runs) = 1
  /\ stage' = "copy" /\ fetched' = <<0>> /\ drawn' = <<0>>
  /\ UNCHANGED <<reading, runs, heap, idx, output, troubles>>

\* A block is copied; neither read nor write is looked at for errors.
CopyRunBlock ==
  /\ stage = "copy" /\ fetched[1] < Bytes(runs[1])
  /\ LET end == Min({fetched[1] + BlockSize, Bytes(runs[1])}) IN
     \E n \in drawn[1]..Len(runs[1]) :
       /\ BytesTo(runs[1], n) <= end
       /\ n < Len(runs[1]) => BytesTo(runs[1], n + 1) > end
       /\ fetched' = <<end>> /\ drawn' = <<n>>
       /\ \/ output' = output \o SubSeq(runs[1], drawn[1] + 1, n) /\ UNCHANGED troubles
          \/ UNCHANGED output /\ Ignored
  /\ UNCHANGED <<stage, reading, runs, heap, idx>>

RunCopied ==
  /\ stage = "copy"
  /\ (fetched[1] = Bytes(runs[1]) /\ UNCHANGED troubles) \/ Ignored
  /\ stage' = "done"
  /\ UNCHANGED <<reading, runs, merging>>

\* One turn of the loop that opens the runs: a run enters the heap if its first
\* block holds a line.
OpenRun ==
  /\ stage = "merge" /\ Len(runs) > 1 /\ Len(fetched) < Len(runs)
  /\ LET i == Len(fetched) + 1 IN
     \/ /\ fetched' = Append(fetched, Min({BlockSize, Bytes(runs[i])}))
        /\ IF Size(runs[i][1]) <= BlockSize
             THEN drawn' = Append(drawn, 1) /\ heap' = heap \cup {i}
             ELSE drawn' = Append(drawn, 0) /\ UNCHANGED heap
        /\ UNCHANGED troubles
     \/ /\ Ignored
        /\ fetched' = Append(fetched, 0) /\ drawn' = Append(drawn, 0) /\ UNCHANGED heap
  /\ UNCHANGED <<stage, reading, runs, idx, output>>

OpenOutput ==
  /\ stage = "merge" /\ Len(runs) > 1 /\ Len(fetched) = Len(runs)
  /\ stage' = "pop"
  /\ UNCHANGED <<reading, runs, merging, troubles>>

OpenFails == stage = "merge" /\ runs # << >> /\ Noticed

InHeap(i) == runs[i][drawn[i]]

\* Mutant of Pop: whichever run was opened first.
PopFirst ==
  /\ stage = "pop" /\ heap # {}
  /\ idx' = Min(heap) /\ heap' = heap \ {idx'}
  /\ output' = Append(output, InHeap(idx'))
  /\ stage' = "refill"
  /\ UNCHANGED <<reading, runs, fetched, drawn, troubles>>

Pop ==
  /\ stage = "pop"
  /\ \E i \in heap :
       /\ \A j \in heap : NotAfter(InHeap(i), InHeap(j))
       /\ idx' = i /\ heap' = heap \ {i}
       /\ \/ output' = Append(output, InHeap(i)) /\ UNCHANGED troubles
          \/ UNCHANGED output /\ Ignored
  /\ stage' = "refill"
  /\ UNCHANGED <<reading, runs, fetched, drawn>>

MergeEnds ==
  /\ stage = "pop" /\ heap = {}
  /\ stage' = "done"
  /\ UNCHANGED <<reading, runs, merging, troubles>>

RunLineReady ==
  /\ drawn[idx] < Len(runs[idx])
  /\ BytesTo(runs[idx], drawn[idx] + 1) <= fetched[idx]

Push ==
  /\ stage = "refill" /\ RunLineReady
  /\ drawn' = [drawn EXCEPT ![idx] = @ + 1] /\ heap' = heap \cup {idx}
  /\ stage' = "pop"
  /\ UNCHANGED <<reading, runs, fetched, idx, output, troubles>>

\* Mutant of ReadRun: one more block is all that is read for a line.
ReadRunOnce ==
  /\ stage = "refill" /\ ~RunLineReady /\ fetched[idx] < Bytes(runs[idx])
  /\ fetched' = [fetched EXCEPT ![idx] = Min({@ + BlockSize, Bytes(runs[idx])})]
  /\ LET ready == BytesTo(runs[idx], drawn[idx] + 1) <= fetched'[idx]
     IN  /\ drawn' = [drawn EXCEPT ![idx] = IF ready THEN @ + 1 ELSE @]
         /\ heap' = IF ready THEN heap \cup {idx} ELSE heap
  /\ stage' = "pop"
  /\ UNCHANGED <<reading, runs, idx, output, troubles>>

ReadRun ==
  /\ stage = "refill" /\ ~RunLineReady /\ fetched[idx] < Bytes(runs[idx])
  /\ fetched' = [fetched EXCEPT ![idx] = Min({@ + BlockSize, Bytes(runs[idx])})]
  /\ UNCHANGED <<stage, reading, runs, drawn, heap, idx, output, troubles>>

\* An error of read is taken for the end of the run.
RunEnds ==
  /\ stage = "refill" /\ ~RunLineReady
  /\ (fetched[idx] = Bytes(runs[idx]) /\ UNCHANGED troubles) \/ Ignored
  /\ stage' = "pop"
  /\ UNCHANGED <<reading, runs, merging>>

SortNext ==
  \/ OpenInputFails \/ ReadInput \/ InputEnds \/ TakeLine \/ WriteRest \/ WriteChunkFails
  \/ NoRuns \/ OpenCopy \/ CopyRunBlock \/ RunCopied
  \/ OpenRun \/ OpenOutput \/ OpenFails \/ Pop \/ MergeEnds \/ Push \/ ReadRun \/ RunEnds

SortSpec == SortInit /\ [][SortNext]_sortVars
-----------------------------------------------------------------------------
SortTypeOK ==
  /\ stage \in {"runs", "rest", "merge", "copy", "pop", "refill", "done", "failed"}
  /\ input \in Seq(Nat \X Nat) /\ terminated \in BOOLEAN
  /\ got \in Nat /\ taken \in 0..Len(input)
  /\ buffer \in Seq(Nat \X Nat) /\ runs \in Seq(Seq(Nat \X Nat))
  /\ fetched \in Seq(Nat) /\ drawn \in Seq(Nat) /\ Len(drawn) = Len(fetched)
  /\ Len(fetched) <= Len(runs)
  /\ heap \subseteq DOMAIN drawn /\ idx \in {0} \cup DOMAIN drawn
  /\ output \in Seq(Nat \X Nat)
  /\ faults \in Nat /\ unnoticed \in BOOLEAN

\* Whatever fails and whatever is lost while runs are merged, the lines that reach the
\* output are in order.  (external_sort.cpp:128, 155-177)
OutputSorted == Len(runs) > 1 => Sorted(output)

\* One of the lines is all that makes run too large.
WithOne(lines, run) == \E l \in lines : Len(run) = 2 \/ Bytes(run) <= MaxMemory + Size(l)

\* No run is larger than the memory limit, unless a single line is; and the last run
\* exceeds it by no more than what is left over without a newline.
\* (external_sort.cpp:54, 68-70)
WithinMemory ==
  \A i \in DOMAIN runs :
    \/ Len(runs[i]) = 1
    \/ Bytes(runs[i]) <= MaxMemory
    \/ i = Len(runs) /\ WithOne(Leftover, runs[i])

\* The program ends, also when a call fails: with an error message or without.
\* (external_sort.cpp:52, 120, 157-177)
SortEnds == <>(stage \in {"done", "failed"})

IsResult == Sorted(output) /\ SameLines(output, input)

\* The first line of a run is longer than the block that is read when it is opened.
RunLost == Len(runs) > 1 /\ \E i \in DOMAIN runs : Size(runs[i][1]) > BlockSize

\* If no error was ignored and no run begins with a line longer than a block, the
\* program ends with the lines of the file, each as often as it is there, in order:
\* also when lines straddle blocks, when runs are of different lengths, and when the
\* file does not end with a newline.  (external_sort.cpp:134-177)
SortedUnlessLost == stage = "done" /\ ~unnoticed /\ ~RunLost => IsResult

\* The program says that it has sorted the file when it has.
\* (external_sort.cpp:200: "File sorted successfully!")
SuccessMeansSorted == stage = "done" => IsResult
=============================================================================
