--------------------------- MODULE CopyWithHoles ---------------------------
(***************************************************************************)
(* fs_10/copyWithHoles.cpp: a sparse file is copied by walking over its    *)
(* data with SEEK_DATA and SEEK_HOLE.                                      *)
(*                                                                         *)
(* A file is a sequence of cells, each a byte or a Hole; the cell at file  *)
(* offset o is number o + 1.  The source is not locked: another process    *)
(* may replace what is in it while it is copied.                           *)
(***************************************************************************)
EXTENDS Integers, Sequences, FiniteSets

CONSTANTS
  CellBytes,     \* what a byte may be
  Hole,
  Sources,       \* the files that may be copied
  Replacements,  \* what another process may make of the source
  MaxVersions,   \* bound: how many contents the source has, the first included
  CopyBuffer     \* BUFFER_SIZE

Cells == CellBytes \cup {Hole}

ASSUME CopyAssumption ==
  /\ 0 \in CellBytes /\ Hole \notin CellBytes
  /\ Sources \subseteq Seq(Cells) /\ Replacements \subseteq Seq(Cells)
  /\ MaxVersions \in Nat /\ CopyBuffer \in Nat \ {0}

VARIABLES
  place,
  source,
  oneFile,     \* source and destination are one file
  versions,    \* all that the source has been since the program began
  unreadable,  \* the cells at which read fails
  dest, dstPos,
  fileSize, offset, chunkEnd, totalPhysical

world == <<source, oneFile, versions, unreadable>>
locals == <<fileSize, offset, chunkEnd, totalPhysical>>
copyVars == <<place, world, dest, dstPos, locals>>

Smaller(m, n) == IF m < n THEN m ELSE n
Least(S) == CHOOSE x \in S : \A y \in S : x <= y

CopyInit ==
  /\ place = "stat"
  /\ source \in Sources /\ versions = {source} /\ oneFile \in BOOLEAN
  /\ \E n \in 0..Len(source) : unreadable = {n} \ {0}
  /\ dest = << >> /\ dstPos = 0
  /\ fileSize = 0 /\ offset = 0 /\ chunkEnd = 0 /\ totalPhysical = 0

Copying == place \notin {"done", "failed"}

\* A call fails and the program says so: open, fstat, lseek, write, truncate.
CopyFails ==
  /\ Copying
  /\ place' = "failed"
  /\ UNCHANGED <<world, dest, dstPos, locals>>

StatSource ==
  /\ place = "stat"
  /\ fileSize' = Len(source)
  /\ place' = "open"
  /\ UNCHANGED <<world, dest, dstPos, offset, chunkEnd, totalPhysical>>

\* O_TRUNC empties the destination, and with it the source if they are one file.
OpenDestination ==
  /\ place = "open"
  /\ source' = IF oneFile THEN << >> ELSE source
  /\ versions' = versions \cup {source'}
  /\ place' = "seek"
  /\ UNCHANGED <<oneFile, unreadable, dest, dstPos, locals>>

-----------------------------------------------------------------------------
\* The loop over data and holes.

\* lseek with SEEK_DATA and SEEK_HOLE; where it fails the program takes the end.
SeekData == LET data == {i \in offset..(Len(source) - 1) : source[i + 1] # Hole}
            IN  IF data = {} THEN fileSize ELSE Least(data)

SeekHole == LET holes == {i \in offset..(Len(source) - 1) : source[i + 1] = Hole}
            IN  IF offset >= Len(source) THEN fileSize
                                         ELSE Least(holes \cup {Len(source)})

SkipHole ==
  /\ place = "seek" /\ offset < fileSize
  /\ LET dataOffset == SeekData
     IN  /\ dstPos' = dstPos + (dataOffset - offset)
         /\ offset' = dataOffset
         /\ place' = IF dataOffset >= fileSize THEN "truncate" ELSE "chunk"
  /\ UNCHANGED <<world, dest, fileSize, chunkEnd, totalPhysical>>

\* Mutant of FindChunk: the end of the data is not looked for.
FindWholeFile ==
  /\ place = "chunk"
  /\ chunkEnd' = fileSize
  /\ dstPos' = offset
  /\ place' = "copy"
  /\ UNCHANGED <<world, dest, fileSize, offset, totalPhysical>>

FindChunk ==
  /\ place = "chunk"
  /\ chunkEnd' = Smaller(SeekHole, fileSize)
  /\ dstPos' = offset
  /\ place' = "copy"
  /\ UNCHANGED <<world, dest, fileSize, offset, totalPhysical>>

\* What read returns: as much as was asked for, or what there is before the end of the
\* file or a cell that cannot be read; 0 stands for an error too.
Readable(o) == o < Len(source) /\ o + 1 \notin unreadable
BytesRead ==
  LET end == Smaller(offset + CopyBuffer, chunkEnd)
  IN  Least({o \in offset..end : o = end \/ ~Readable(o)}) - offset

Resized(file, n) == [i \in 1..n |-> IF i <= Len(file) THEN file[i] ELSE Hole]

\* A hole that is read is a zero byte, and is written as one.
Byte(cell) == IF cell = Hole THEN 0 ELSE cell

\* Mutant of Overwritten: the destination was opened with O_APPEND.
Appended(n) == dest \o [i \in 1..n |-> Byte(source[offset + i])]

\* write of n bytes of the source to the destination
Overwritten(n) ==
  LET end == dstPos + n
      size == IF end > Len(dest) THEN end ELSE Len(dest)
  IN  [i \in 1..size |-> IF i \in (dstPos + 1)..end THEN Byte(source[offset + i - dstPos])
                                                    ELSE Resized(dest, size)[i]]

CopyBytes ==
  /\ place = "copy" /\ offset < chunkEnd /\ BytesRead > 0
  /\ dest' = Overwritten(BytesRead)
  /\ dstPos' = dstPos + BytesRead
  /\ offset' = offset + BytesRead
  /\ totalPhysical' = totalPhysical + BytesRead
  /\ UNCHANGED <<place, world, fileSize, chunkEnd>>

\* Mutant of ChunkEnds: a read that returns nothing is tried again.
ChunkEndsFull ==
  /\ place = "copy" /\ offset >= chunkEnd
  /\ place' = "seek"
  /\ UNCHANGED <<world, dest, dstPos, locals>>

\* The chunk has been copied, or read returned nothing: the outer loop goes on.
ChunkEnds ==
  /\ place = "copy" /\ (offset >= chunkEnd \/ BytesRead = 0)
  /\ place' = "seek"
  /\ UNCHANGED <<world, dest, dstPos, locals>>

NothingToCopy ==
  /\ place = "seek" /\ offset >= fileSize
  /\ place' = "truncate"
  /\ UNCHANGED <<world, dest, dstPos, locals>>

\* Mutant of Truncate: a hole at the end of the file is left out.
TruncateNot ==
  /\ place = "truncate"
  /\ place' = "done"
  /\ UNCHANGED <<world, dest, dstPos, locals>>

Truncate ==
  /\ place = "truncate"
  /\ dest' = Resized(dest, fileSize)
  /\ place' = "done"
  /\ UNCHANGED <<world, dstPos, locals>>

\* Another process writes to the source, or truncates it.
ChangeSource ==
  /\ Copying /\ ~oneFile /\ Cardinality(versions) < MaxVersions
  /\ source' \in Replacements
  /\ versions' = versions \cup {source'}
  /\ UNCHANGED <<place, oneFile, unreadable, dest, dstPos, locals>>

CopyStep ==
  \/ StatSource \/ OpenDestination \/ SkipHole \/ FindChunk
  \/ CopyBytes \/ ChunkEnds \/ NothingToCopy \/ Truncate

CopyNext == CopyStep \/ CopyFails \/ ChangeSource

CopySpec == CopyInit /\ [][CopyNext]_copyVars
-----------------------------------------------------------------------------
CopyTypeOK ==
  /\ place \in {"stat", "open", "seek", "chunk", "copy", "truncate", "done", "failed"}
  /\ source \in Seq(Cells) /\ versions \subseteq Seq(Cells) /\ source \in versions
  /\ oneFile \in BOOLEAN /\ unreadable \subseteq Nat \ {0}
  /\ dest \in Seq(Cells) /\ dstPos \in Nat
  /\ fileSize \in Nat /\ offset \in Nat /\ chunkEnd \in Nat /\ totalPhysical \in Nat

\* If nobody changed the source, a finished copy has the same bytes, the same size and
\* the same holes, no more and no fewer.  (copyWithHoles.cpp:45-98)
CopyIsExact == place = "done" /\ versions = {source} => dest = source

\* Whatever happens to the source meanwhile, the size and the amount of data that are
\* reported are those of the copy.  (copyWithHoles.cpp:94, 98, 108-110)
ReportIsTrue ==
  place = "done" =>
    /\ Len(dest) = fileSize
    /\ totalPhysical = Cardinality({i \in DOMAIN dest : dest[i] # Hole})

\* No byte is written at an offset at which the source never had it.
\* (copyWithHoles.cpp:72-86)
OnlyWhatWasThere ==
  \A i \in DOMAIN dest :
    dest[i] # Hole => \E v \in versions : i <= Len(v) /\ dest[i] = Byte(v[i])

\* The program ends, whatever happens to the source, unless a read fails: the loops
\* then go round for ever.  (copyWithHoles.cpp:45, 83)
CopyEnds == unreadable = {} => <>(~Copying)
=============================================================================
