--------------------------- MODULE CopcCompressor ---------------------------
(***************************************************************************)
(* The compressor of the writer (src/src/compressor.rs) and the seekable   *)
(* stream it owns.  The stream is a position and the blocks written so     *)
(* far: a block has the place it starts at, its length, and what it holds. *)
(* What the laz crate makes of a chunk is external: a chunk takes a number *)
(* of bytes from ChunkBytes, and finishing the record compressor without a *)
(* point in it leaves a number of bytes from TrailerBytes.                 *)
(***************************************************************************)
EXTENDS Integers, Sequences, FiniteSets

CONSTANTS
  Points,        \* the points a caller may hand to the writer
  Start,         \* stream position at which the COPC data starts
  HeaderBytes,   \* length of the las header
  InfoBytes,     \* length of the COPC info vlr, its own header included
  VlrBytes,      \* length of the other vlrs, the laszip vlr among them
  ChunkBytes,    \* compressed lengths a chunk may have
  TrailerBytes,  \* lengths the record compressor may add when it is done
  TableBytes     \* length of the chunk table

ASSUME CompressorAssumption ==
  /\ IsFiniteSet(Points)
  /\ Start \in Nat
  /\ {HeaderBytes, InfoBytes, VlrBytes, TableBytes} \subseteq Nat \ {0}
  /\ ChunkBytes \subseteq Nat \ {0} /\ ChunkBytes # {}
  /\ TrailerBytes \subseteq Nat /\ TrailerBytes # {}

VARIABLES
  stream,           \* the stream: its position and its blocks
  chunk_start_pos,  \* where the current chunk is taken to start
  current_chunk,    \* points compressed into the current chunk
  stale_count,      \* points its entry counts that are not in it any more
  chunk_table       \* one entry per finished chunk

chunkVars == <<chunk_start_pos, current_chunk, stale_count, chunk_table>>
compressorVars == <<stream, chunkVars>>

-----------------------------------------------------------------------------
(* The stream.                                                             *)

Disjoint(b, c) == b.at + b.len <= c.at \/ c.at + c.len <= b.at

\* Write block b where it says it is: what it overlaps is lost.
Put(w, b) ==
  [pos  |-> b.at + b.len,
   disk |-> { c \in w.disk : Disjoint(b, c) } \cup {b}]

Seek(w, p) == [pos |-> p, disk |-> w.disk]

\* A write that fails may have written a first part of its bytes.
TornWrite(w) == { w, Put(w, [at |-> w.pos, len |-> 1]) }

\* The eight bytes reserved for the offset of the chunk table.
start_pos == Start + HeaderBytes + InfoBytes + VlrBytes

TableOffset(p) == [at |-> start_pos, len |-> 8, table_offset |-> p]

-----------------------------------------------------------------------------
\* CopcWriter::new reserves the header and the vlrs, CopcCompressor::new the
\* offset of the chunk table.
CompressorInit ==
  /\ stream = [pos  |-> start_pos + 8,
               disk |-> { [at |-> Start, len |-> HeaderBytes],
                          [at |-> Start + HeaderBytes, len |-> InfoBytes],
                          [at  |-> Start + HeaderBytes + InfoBytes,
                           len |-> VlrBytes, laszip |-> TRUE],
                          TableOffset(-1) }]
  /\ chunk_start_pos = start_pos + 8
  /\ current_chunk = {}
  /\ stale_count = 0
  /\ chunk_table = <<>>

\* What compress_chunk returns: the length is counted from chunk_start_pos,
\* wherever the stream has been in the meantime.
WrittenChunk(points, bytes) ==
  [offset      |-> chunk_start_pos,
   byte_size   |-> stream.pos + bytes - chunk_start_pos,
   point_count |-> stale_count + Cardinality(current_chunk \cup points)]

\* Mutant: the next chunk is taken to start where this one did.
NextChunkStart_Same(bytes) == chunk_start_pos

NextChunkStart(bytes) == stream.pos + bytes

AfterChunk(points, bytes) ==
  Put(stream, [at     |-> stream.pos,
               len    |-> bytes,
               points |-> current_chunk \cup points])

CompressChunk(points, bytes) ==
  /\ stream' = AfterChunk(points, bytes)
  /\ chunk_table' = Append(chunk_table,
                      [point_count |-> WrittenChunk(points, bytes).point_count,
                       byte_count  |-> WrittenChunk(points, bytes).byte_size])
  /\ chunk_start_pos' = NextChunkStart(bytes)
  /\ current_chunk' = {}
  /\ stale_count' = 0

\* An I/O error in compress_next or in done: some points are in the current
\* chunk already, and nothing is reset.  Or the chunk is written and only the
\* position behind it cannot be told: its entry goes on counting its points.
CompressChunkFails(points) ==
  /\ \/ /\ \E some \in SUBSET points : current_chunk' = current_chunk \cup some
        /\ stream' \in TornWrite(stream)
        /\ UNCHANGED stale_count
     \/ /\ \E bytes \in ChunkBytes : stream' = AfterChunk(points, bytes)
        /\ current_chunk' = {}
        /\ stale_count' = stale_count + Cardinality(current_chunk \cup points)
  /\ UNCHANGED <<chunk_start_pos, chunk_table>>

\* CopcCompressor::done: the trailer, the offset of the chunk table in its
\* place near the start of the file, and the chunk table.
AfterTrailer(w, trailer) ==
  IF trailer = 0 THEN w ELSE Put(w, [at |-> w.pos, len |-> trailer])

AfterTableOffset(w, trailer) ==
  Put(AfterTrailer(w, trailer), TableOffset(AfterTrailer(w, trailer).pos))

AfterDone(w, trailer) ==
  Put(AfterTableOffset(w, trailer),
      [at |-> AfterTrailer(w, trailer).pos, len |-> TableBytes,
       table |-> chunk_table])

\* The streams an I/O error in done may leave behind: the error may strike
\* before, at or after the write of the offset, with the stream there.
AfterFailedDone(w, trailer) ==
  TornWrite(w)
    \cup {Seek(AfterTrailer(w, trailer), start_pos),
          AfterTableOffset(w, trailer)}
    \cup TornWrite(Seek(AfterTableOffset(w, trailer),
                        AfterTrailer(w, trailer).pos))
=============================================================================
