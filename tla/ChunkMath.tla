----------------------------- MODULE ChunkMath -----------------------------
(***************************************************************************)
(* How class shared_array of ipc-3 cuts an array of 32-bit elements into   *)
(* chunks, each a shared-memory object of its own: the arithmetic of the   *)
(* constructor, of operator[] and of chunk_size_map, in unsigned words.    *)
(***************************************************************************)
EXTENDS Integers

CONSTANT WordLimit  \* 2^64: the words u64 and size_t are computed modulo this

ASSUME WordAssumption == WordLimit \in Nat \ {0}

ElementBytes == 4

\* bytes_total of an array of size elements; mul_overflow refuses more.
TotalBytes(size) == size * ElementBytes
SizeAccepted(size) == size > 0 /\ TotalBytes(size) < WordLimit

\* chunk_count_
ChunkCount(size, chunkBytes) ==
  ((TotalBytes(size) + chunkBytes - 1) % WordLimit) \div chunkBytes

\* The chunk of an element, and its offset there.
Chunk(idx, chunkBytes) == (idx * ElementBytes) \div chunkBytes
Offset(idx, chunkBytes) == idx * ElementBytes - Chunk(idx, chunkBytes) * chunkBytes

\* Mutant of ChunkSize: the last chunk is cut short by one element.
ChunkSizeShort(chunk, size, chunkBytes) ==
  IF (chunk + 1) * chunkBytes > TotalBytes(size)
  THEN TotalBytes(size - 1) - chunk * chunkBytes
  ELSE chunkBytes

\* How many bytes of a chunk are mapped.
ChunkSize(chunk, size, chunkBytes) ==
  LET start == (chunk * chunkBytes) % WordLimit
  IN  IF (start + chunkBytes) % WordLimit > TotalBytes(size)
      THEN TotalBytes(size) - start
      ELSE chunkBytes
=============================================================================
